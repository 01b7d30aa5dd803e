------------------------- MODULE ToolRunnerContract -------------------------
(***************************************************************************)
(* The state of ToolRunner as RunContract sees it.                         *)
(***************************************************************************)
EXTENDS ToolRunner

\* The stdout lines that become events; the error for a "bad" line is not one.
OutLines == {n \in 1 .. Len(written["out"]) : written["out"][n] = "event"}

\* The stderr lines that can reach the host: none after a read error, which is
\* itself shown as a line.
Readable ==
  {n \in 1 .. Len(written["err"]) : \A m \in 1 .. (n - 1) : written["err"][m] # "bad"}

\* Those that become events as well.
LogLines == {n \in Readable : written["err"][n] = "line"}

\* The messages of stream s that main has given to on_event.
Given(s) == {i \in 1 .. received : events[i].src = s /\ ~IsStreamError(events[i])}

Wrote ==
  [f \in {"out", "log", "text"} |->
     CASE f = "out" -> Cardinality(OutLines)
       [] f = "log" -> Cardinality(LogLines)
       [] f = "text" -> Cardinality(Readable)]

Shown ==
  [f \in {"out", "log", "text"} |->
     CASE f = "out" -> Cardinality(Given("out"))
       [] f = "log" -> Cardinality(Given("err"))
       [] f = "text" -> drained]

PluginIs ==
  IF main = "spawn" \/ outcome = "spawnError" THEN "none"
  ELSE IF Plugin \in alive THEN "running" ELSE "gone"

Contract == INSTANCE RunContract WITH
  wrote <- Wrote, shown <- Shown, plugin <- PluginIs, result <- outcome

\* ToolRunner implements RunContract: whatever the threads and processes
\* do, each feed is shown in order, nothing is shown after the return, and
\* each return statement of run_tool_task keeps its promise.
ImplementsContract == Contract!Spec
=============================================================================
