---------------------------- MODULE ToolProtocol ----------------------------
(***************************************************************************)
(* One protocol command: validate_value and self_test of the               *)
(* ToolProtocolClient in crates/ocp-host/src/tool_protocol.rs.             *)
(*                                                                         *)
(* The host spawns the plugin, lets one thread read each of its two pipes  *)
(* up to a limit, and polls the plugin against a deadline.  The plugin may *)
(* leave a helper that has inherited its pipes.  Bytes are counted; what   *)
(* standard output says as a whole is looked at when it is parsed.         *)
(***************************************************************************)
EXTENDS Naturals

CONSTANTS
  Limit,     \* MAX_PROTOCOL_OUTPUT_BYTES: 8 MiB
  PipeCap,   \* bytes a pipe holds
  MaxBytes   \* bound: bytes ever written to one stream

ASSUME LimitAssumption == Limit \in Nat /\ PipeCap \in Nat /\ MaxBytes \in Nat

Streams == {"stdout", "stderr"}
Holders == {"plugin", "helper"}

\* What run_response can meet in the bytes of a successful command: text that
\* does not parse, an envelope of another version, class or kind, one without
\* payload or with a payload of another type, or the response.
Answers == {"noJson", "otherVersion", "otherClass", "otherKind", "noPayload",
            "otherPayload", "response"}

VARIABLES
  main,      \* the calling thread
  result,    \* what the command returned
  plugin,    \* "none" before the spawn, "alive", "success", "failure"
  helped,    \* whether the plugin has started its helper
  holders,   \* per stream, who has the write end of the pipe open
  written,   \* per stream, bytes that went into the pipe
  reader,    \* per stream, the thread: "none", "read", "done"
  buf,       \* per stream, bytes the thread has taken out
  expired    \* whether the deadline has passed

vars == <<main, result, plugin, helped, holders, written, reader, buf, expired>>

Joins == {"join", "joinLate", "joinError"}
Results == {"none", "Ok", "Spawn", "Timeout", "Oversized", "Status", "Json",
            "UnexpectedEnvelope"}

TypeOK ==
  /\ main \in {"start", "poll", "late", "returned"} \cup Joins
  /\ result \in Results
  /\ plugin \in {"none", "alive", "success", "failure"}
  /\ helped \in BOOLEAN /\ expired \in BOOLEAN
  /\ holders \in [Streams -> SUBSET Holders]
  /\ written \in [Streams -> 0..MaxBytes]
  /\ reader \in [Streams -> {"none", "read", "done"}]
  /\ buf \in [Streams -> Nat]

Init ==
  /\ main = "start" /\ result = "none" /\ plugin = "none"
  /\ helped = FALSE /\ expired = FALSE
  /\ holders = [s \in Streams |-> {}]
  /\ written = [s \in Streams |-> 0]
  /\ reader = [s \in Streams |-> "none"]
  /\ buf = [s \in Streams |-> 0]

-----------------------------------------------------------------------------
(* The calling thread.                                                     *)

\* run_raw up to the deadline: the path is refused or the spawn fails, or the
\* plugin runs and both threads read.
Spawn ==
  /\ main = "start"
  /\ \/ /\ main' = "returned" /\ result' = "Spawn"
        /\ UNCHANGED <<plugin, holders, reader>>
     \/ /\ main' = "poll" /\ plugin' = "alive"
        /\ holders' = [s \in Streams |-> {"plugin"}]
        /\ reader' = [s \in Streams |-> "read"]
        /\ UNCHANGED result
  /\ UNCHANGED <<helped, written, buf, expired>>

\* Mutant of KillAndWait: the plugin is left alone.
LeaveRunning == UNCHANGED <<plugin, holders>>

\* kill and wait: the plugin is gone and reaped, and so are its ends of the
\* pipes.  One that had ended by itself keeps its status.
KillAndWait ==
  /\ plugin' = IF plugin = "alive" THEN "failure" ELSE plugin
  /\ holders' = [s \in Streams |-> holders[s] \ {"plugin"}]

\* try_wait: a status ends the loop (and reaps the plugin); none leads to the
\* deadline; an error ends it as the deadline does.
Poll ==
  /\ main = "poll"
  /\ \/ /\ plugin # "alive" /\ main' = "join"
        /\ UNCHANGED <<plugin, holders>>
     \/ /\ plugin = "alive" /\ main' = "late"
        /\ UNCHANGED <<plugin, holders>>
     \/ /\ main' = "joinError" /\ KillAndWait
  /\ UNCHANGED <<result, helped, written, reader, buf, expired>>

\* Mutant of Late: the deadline is not looked at.
NeverLate ==
  /\ main = "late" /\ main' = "poll"
  /\ UNCHANGED <<result, plugin, helped, holders, written, reader, buf, expired>>

\* After Ok(None): give up, or sleep and poll again.
Late ==
  /\ main = "late"
  /\ \/ /\ expired /\ main' = "joinLate" /\ KillAndWait
     \/ /\ ~expired /\ main' = "poll"
        /\ UNCHANGED <<plugin, holders>>
  /\ UNCHANGED <<result, helped, written, reader, buf, expired>>

\* Mutant of Judge: the status before the limit.
JudgeStatusFirst(a) ==
  CASE plugin = "failure" -> "Status"
    [] plugin # "failure" /\ (\E s \in Streams : buf[s] > Limit) -> "Oversized"
    [] OTHER -> "Ok"

\* The order in which run_raw and run_response judge a command that ended.
Judge(a) ==
  CASE \E s \in Streams : buf[s] > Limit -> "Oversized"
    [] (\A s \in Streams : buf[s] <= Limit) /\ plugin = "failure" -> "Status"
    [] OTHER ->
         CASE a \in {"noJson", "otherPayload"} -> "Json"
           [] a \in {"otherVersion", "otherClass", "otherKind", "noPayload"} ->
                "UnexpectedEnvelope"
           [] a = "response" -> "Ok"

\* Both threads are joined, with no deadline, then the result is computed.
Join ==
  /\ main \in Joins
  /\ \A s \in Streams : reader[s] = "done"
  /\ main' = "returned"
  /\ CASE main = "joinLate" -> result' = "Timeout"
       [] main = "joinError" -> result' = "Spawn"
       [] main = "join" -> \E a \in Answers : result' = Judge(a)
  /\ UNCHANGED <<plugin, helped, holders, written, reader, buf, expired>>

Host == Spawn \/ Poll \/ Late \/ Join

-----------------------------------------------------------------------------
(* A reader thread: take(Limit + 1).read_to_end.                           *)

Take(s) ==
  /\ reader[s] = "read" /\ buf[s] < written[s] /\ buf[s] <= Limit
  /\ buf' = [buf EXCEPT ![s] = @ + 1]
  /\ UNCHANGED <<main, result, plugin, helped, holders, written, reader, expired>>

\* Mutant of AtEnd: an empty pipe is the end once the plugin has closed it.
AtEmpty(s) == ("plugin" \notin holders[s] /\ buf[s] = written[s]) \/ buf[s] > Limit

\* At the end of the file, or one byte past the limit, the thread ends and
\* drops the pipe.
AtEnd(s) == (holders[s] = {} /\ buf[s] = written[s]) \/ buf[s] > Limit

StopReading(s) ==
  /\ reader[s] = "read" /\ AtEnd(s)
  /\ reader' = [reader EXCEPT ![s] = "done"]
  /\ UNCHANGED <<main, result, plugin, helped, holders, written, buf, expired>>

Reader(s) == Take(s) \/ StopReading(s)

-----------------------------------------------------------------------------
(* The plugin, its helper, the clock.                                      *)

\* A write goes into a pipe that has room.  One whose reader is gone fails and
\* leaves nothing behind; the writer may then end or go on.
Write(s) ==
  /\ holders[s] # {} /\ reader[s] = "read"
  /\ written[s] - buf[s] < PipeCap /\ written[s] < MaxBytes
  /\ written' = [written EXCEPT ![s] = @ + 1]
  /\ UNCHANGED <<main, result, plugin, helped, holders, reader, buf, expired>>

StartHelper ==
  /\ plugin = "alive" /\ ~helped
  /\ helped' = TRUE
  /\ \E S \in SUBSET Streams :
       holders' = [s \in Streams |->
         IF s \in S /\ "plugin" \in holders[s] THEN holders[s] \cup {"helper"}
                                               ELSE holders[s]]
  /\ UNCHANGED <<main, result, plugin, written, reader, buf, expired>>

Close(s, x) ==
  /\ x \in holders[s]
  /\ holders' = [holders EXCEPT ![s] = @ \ {x}]
  /\ UNCHANGED <<main, result, plugin, helped, written, reader, buf, expired>>

EndPlugin ==
  /\ plugin = "alive"
  /\ plugin' \in {"success", "failure"}
  /\ holders' = [s \in Streams |-> holders[s] \ {"plugin"}]
  /\ UNCHANGED <<main, result, helped, written, reader, buf, expired>>

Expire ==
  /\ ~expired /\ plugin # "none"
  /\ expired' = TRUE
  /\ UNCHANGED <<main, result, plugin, helped, holders, written, reader, buf>>

Environment ==
  \/ StartHelper \/ EndPlugin \/ Expire
  \/ \E s \in Streams : Write(s) \/ \E x \in Holders : Close(s, x)

\* The command has returned; a helper may still be there.
Finished == main = "returned" /\ UNCHANGED vars

Next == Host \/ (\E s \in Streams : Reader(s)) \/ Environment \/ Finished

\* Threads that can run are run.  Nothing is assumed of the plugin, of its
\* helper or of when the deadline passes.
Spec == Init /\ [][Next]_vars /\ WF_vars(Host) /\ \A s \in Streams : WF_vars(Reader(s))

-----------------------------------------------------------------------------
(* Properties.                                                             *)

\* An answer is everything that was ever written to standard output: nobody can
\* add to it, no thread stopped early, and the plugin ended with success
\* (tool_protocol.rs:234-253).
AnswerIsWhole ==
  result \in {"Ok", "Json", "UnexpectedEnvelope"} =>
    /\ plugin = "success"
    /\ \A s \in Streams : buf[s] = written[s] /\ holders[s] = {}

\* The limit decides before the status: a plugin that ends by itself is
\* Oversized exactly if one of its streams got more than the limit, also when
\* the closed pipe made it fail (tool_protocol.rs:190-203, 237-251).
LimitDecides ==
  result \notin {"none", "Timeout", "Spawn"} =>
    (result = "Oversized" <=> \E s \in Streams : written[s] > Limit)

\* Whatever it returns, a command leaves neither the plugin nor a thread
\* (tool_protocol.rs:210-231).
NothingLeft ==
  main = "returned" =>
    plugin # "alive" /\ \A s \in Streams : reader[s] \in {"none", "done"}

HelperGone == \A s \in Streams : "helper" \notin holders[s]

\* Once the deadline has passed or the plugin has ended, a command returns,
\* provided that no helper keeps a pipe open for ever (tool_protocol.rs:206-235).
Returns ==
  (<>[]HelperGone /\ <>(expired \/ plugin \notin {"none", "alive"}))
    => <>(main = "returned")
=============================================================================
