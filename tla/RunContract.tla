---------------------------- MODULE RunContract ----------------------------
(***************************************************************************)
(* What run_tool_task (crates/ocp-host/src/runner.rs) promises its caller, *)
(* without threads, pipes or channels.  The caller sees three feeds: the   *)
(* plugin's stdout lines as events ("out"), its stderr lines as events     *)
(* ("log"), and its stderr lines as text ("text").  Each feed is shown     *)
(* item by item and never ahead of what was written, nothing is shown      *)
(* after the return, and each kind of return carries its own promise.      *)
(* The stderr feeds end with the first read error.                         *)
(***************************************************************************)
EXTENDS Naturals

VARIABLES
  wrote,    \* per feed, how many items the plugin has written
  shown,    \* per feed, how many items the callbacks have seen
  plugin,   \* "none", "running" or "gone"
  result    \* "none" until the call returns

vars == <<wrote, shown, plugin, result>>

Feeds == {"out", "log", "text"}

Init ==
  /\ wrote = [f \in Feeds |-> 0] /\ shown = [f \in Feeds |-> 0]
  /\ plugin = "none" /\ result = "none"

Start ==
  /\ plugin = "none" /\ result = "none"
  /\ plugin' = "running"
  /\ UNCHANGED <<wrote, shown, result>>

\* One line adds to the feeds it belongs to: a stderr line to both of its.
Write(F) ==
  /\ plugin # "none"
  /\ result \in {"none", "streamError"}
  /\ wrote' = [f \in Feeds |-> IF f \in F THEN wrote[f] + 1 ELSE wrote[f]]
  /\ UNCHANGED <<shown, plugin, result>>

Show(f) ==
  /\ result = "none"
  /\ shown[f] < wrote[f]
  /\ shown' = [shown EXCEPT ![f] = @ + 1]
  /\ UNCHANGED <<wrote, plugin, result>>

PluginEnds ==
  /\ plugin = "running"
  /\ plugin' = "gone"
  /\ UNCHANGED <<wrote, shown, result>>

Promise(r) ==
  CASE r = "spawnError" -> plugin = "none"
    [] r = "okClosed" -> plugin = "gone" /\ shown = wrote
    [] r \in {"okExit", "timeout"} -> plugin = "gone"
    [] r = "streamError" -> plugin # "none"

Return(r) ==
  /\ result = "none"
  /\ Promise(r)
  /\ result' = r
  /\ UNCHANGED <<wrote, shown, plugin>>

Next ==
  \/ Start \/ PluginEnds
  \/ \E F \in {{"out"}, {"text"}, {"log", "text"}} : Write(F)
  \/ \E f \in Feeds : Show(f)
  \/ \E r \in {"spawnError", "okExit", "okClosed", "timeout", "streamError"} :
       Return(r)

Spec == Init /\ [][Next]_vars
=============================================================================
