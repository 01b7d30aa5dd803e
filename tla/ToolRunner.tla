----------------------------- MODULE ToolRunner -----------------------------
(***************************************************************************)
(* run_tool_task of crates/ocp-host/src/runner.rs: the host spawns a       *)
(* plugin, one thread per pipe turns the plugin's lines into messages on   *)
(* two bounded channels, and the calling thread (main) hands the messages  *)
(* to the callbacks on_event and on_stderr until the plugin is done, a     *)
(* message reports a broken stream, or the deadline passes.                *)
(*                                                                         *)
(* Data is abstracted to what the properties tell apart.  A line is its    *)
(* stream and its position in that stream; its kind says how the reader    *)
(* thread treats it.  A protocol envelope and a text line wrapped by       *)
(* synthesize_log_event are both an "event" line, because the host treats  *)
(* them alike.  The channels are kept as logs with a read position, so     *)
(* what was delivered is a prefix of what was sent.                        *)
(***************************************************************************)
EXTENDS Naturals, Sequences, FiniteSets

CONSTANTS
  Plugin,       \* the child process the host spawns
  Helpers,      \* processes the plugin starts, which inherit its pipes
  EventCap,     \* EVENT_CHANNEL_CAPACITY
  StderrCap,    \* STDERR_CHANNEL_CAPACITY
  RetainMax,    \* MAX_RETAINED_STDERR_LINES
  PipeCap,      \* lines the operating system buffers in one pipe
  MaxLines,     \* bound of the model: lines written to one stream
  OutKinds,     \* kinds of line the processes write to stdout
  ErrKinds,     \* kinds of line the processes write to stderr
  HasDeadline   \* whether the caller passes a timeout

ASSUME CapacityAssumption ==
  /\ EventCap \in Nat \ {0} /\ StderrCap \in Nat \ {0}
  /\ RetainMax \in Nat \ {0} /\ PipeCap \in Nat \ {0} /\ MaxLines \in Nat
ASSUME ProcessAssumption == Plugin \notin Helpers
ASSUME KindAssumption ==
  /\ OutKinds \subseteq {"event", "blank", "bad"}
  /\ ErrKinds \subseteq {"line", "long", "bad"}
ASSUME DeadlineAssumption == HasDeadline \in BOOLEAN

Streams == {"out", "err"}
Processes == Helpers \cup {Plugin}
KindsOf(s) == IF s = "out" THEN OutKinds ELSE ErrKinds

VARIABLES
  alive,      \* processes that run
  writers,    \* per stream, the processes that hold its write end open
  written,    \* per stream, the kinds of the lines written so far
  consumed,   \* per stream, how many lines its reader thread has taken
  reader,     \* per stream, where its reader thread is
  events,     \* every message sent on the event channel: [src, n]
  received,   \* how many of them main has taken
  lines,      \* how many stderr lines were sent on the stderr channel
  drained,    \* how many of them main has taken and given to on_stderr
  retained,   \* stderr_lines, the lines kept for the summary
  main,       \* where the calling thread is
  reaped,     \* whether the plugin has been waited for
  expired,    \* whether the deadline has passed
  outcome     \* the return statement that ended the call

processVars == <<alive, writers, written>>
readerVars == <<consumed, reader, lines>>
mainVars == <<received, drained, retained, main, reaped, outcome>>
vars == <<processVars, readerVars, events, mainVars, expired>>

Message == [src : Streams, n : Nat]

LoopPoints == {"top", "recv", "drain"}
ExitPoints == {"drainExit", "joinExit", "drainClosed", "wait", "joinClosed",
               "joinTimeout"}
Outcomes == {"none", "spawnError", "okExit", "okClosed", "timeout",
             "streamError"}

TypeOK ==
  /\ alive \subseteq Processes
  /\ writers \in [Streams -> SUBSET Processes]
  /\ written \in [Streams -> Seq({"event", "blank", "line", "long", "bad"})]
  /\ consumed \in [Streams -> Nat]
  /\ reader \in [Streams -> {"read", "event", "line", "done"}]
  /\ events \in Seq(Message)
  /\ received \in Nat /\ lines \in Nat /\ drained \in Nat
  /\ retained \in Seq(Nat)
  /\ main \in {"spawn", "returned"} \cup LoopPoints \cup ExitPoints
  /\ reaped \in BOOLEAN /\ expired \in BOOLEAN
  /\ outcome \in Outcomes

Init ==
  /\ alive = {}
  /\ writers = [s \in Streams |-> {}]
  /\ written = [s \in Streams |-> <<>>]
  /\ consumed = [s \in Streams |-> 0]
  /\ reader = [s \in Streams |-> "done"]
  /\ events = <<>> /\ received = 0
  /\ lines = 0 /\ drained = 0 /\ retained = <<>>
  /\ main = "spawn" /\ reaped = FALSE /\ expired = FALSE
  /\ outcome = "none"

(***************************************************************************)
(* The plugin and the processes it starts.                                 *)
(***************************************************************************)

\* A process writes a line.  It blocks while the pipe is full; once the
\* reader thread has dropped its end the write fails and leaves no line.
WriteLine(p, s, k) ==
  /\ p \in writers[s]
  /\ reader[s] # "done"
  /\ Len(written[s]) - consumed[s] < PipeCap
  /\ Len(written[s]) < MaxLines
  /\ written' = [written EXCEPT ![s] = Append(@, k)]
  /\ UNCHANGED <<alive, writers, readerVars, events, mainVars, expired>>

\* A process closes its end of one pipe and goes on running.
CloseStream(p, s) ==
  /\ p \in writers[s]
  /\ writers' = [writers EXCEPT ![s] = @ \ {p}]
  /\ UNCHANGED <<alive, written, readerVars, events, mainVars, expired>>

\* A process exits, which closes whatever it holds.
Exit(p) ==
  /\ p \in alive
  /\ alive' = alive \ {p}
  /\ writers' = [s \in Streams |-> writers[s] \ {p}]
  /\ UNCHANGED <<written, readerVars, events, mainVars, expired>>

ProcessNext ==
  \E p \in Processes :
    \/ \E s \in Streams : \E k \in KindsOf(s) : WriteLine(p, s, k)
    \/ \E s \in Streams : CloseStream(p, s)
    \/ Exit(p)

(***************************************************************************)
(* The reader threads.                                                     *)
(***************************************************************************)

\* Returning from run_tool_task drops both receivers; main only does so
\* with a reader thread alive when it reports a broken stream.
ReceiversOpen == main # "returned"

\* Where the stdout thread goes with a line of kind k.
AfterOutLine(k) == IF k = "blank" THEN "read" ELSE "event"

\* Where the stderr thread goes with a line of kind k: only a complete line
\* is also surfaced in the event stream.
AfterErrLine(k) == IF k = "line" THEN "event" ELSE "line"

AfterLine(s, k) == IF s = "out" THEN AfterOutLine(k) ELSE AfterErrLine(k)

CurrentKind(s) == written[s][consumed[s]]

ReadLine(s) ==
  /\ reader[s] = "read"
  /\ consumed[s] < Len(written[s])
  /\ consumed' = [consumed EXCEPT ![s] = @ + 1]
  /\ reader' = [reader EXCEPT ![s] = AfterLine(s, written[s][consumed[s] + 1])]
  /\ UNCHANGED <<processVars, lines, events, mainVars, expired>>

\* Mutants of AtEof: the thread stops with the last writer, buffered lines or
\* not; the thread takes an empty stream for one that has not started.
AtEofEarly(s) == writers[s] = {}
AtEofNever(s) ==
  consumed[s] = Len(written[s]) /\ writers[s] = {} /\ consumed[s] > 0

\* End of file: nothing is buffered and no process holds the write end.
AtEof(s) == consumed[s] = Len(written[s]) /\ writers[s] = {}

ReadEof(s) ==
  /\ reader[s] = "read"
  /\ AtEof(s)
  /\ reader' = [reader EXCEPT ![s] = "done"]
  /\ UNCHANGED <<processVars, consumed, lines, events, mainVars, expired>>

EventRoom == Len(events) - received < EventCap
StderrRoom == lines - drained < StderrCap

\* Mutant of AfterSendEvent: the stderr thread surfaces the line again.
AfterSendEventTwice(s) == IF s = "err" THEN "event" ELSE "read"

\* Where a thread goes after its send on event_tx.  The stdout thread stops
\* after a "bad" line (over-long, or a read error) and when the receiver is
\* gone; the stderr thread ignores the result of the send.
AfterSendEvent(s) ==
  IF s = "err" THEN "line"
  ELSE IF CurrentKind(s) = "bad" \/ ~ReceiversOpen THEN "done"
  ELSE "read"

\* send on event_tx, which blocks while the channel is full.
SendEvent(s) ==
  /\ reader[s] = "event"
  /\ ReceiversOpen => EventRoom
  /\ events' = IF ReceiversOpen
               THEN Append(events, [src |-> s, n |-> consumed[s]])
               ELSE events
  /\ reader' = [reader EXCEPT ![s] = AfterSendEvent(s)]
  /\ UNCHANGED <<processVars, consumed, lines, mainVars, expired>>

\* send on stderr_tx: the thread stops after a read error, and when a
\* complete line finds the receiver gone; it ignores that for a "long" one.
SendLine ==
  /\ reader["err"] = "line"
  /\ ReceiversOpen => StderrRoom
  /\ lines' = IF ReceiversOpen THEN lines + 1 ELSE lines
  /\ reader' = [reader EXCEPT !["err"] =
       IF \/ CurrentKind("err") = "bad"
          \/ ~ReceiversOpen /\ CurrentKind("err") = "line"
       THEN "done" ELSE "read"]
  /\ UNCHANGED <<processVars, consumed, events, mainVars, expired>>

ReaderNext(s) ==
  \/ ReadLine(s) \/ ReadEof(s) \/ SendEvent(s)
  \/ s = "err" /\ SendLine

(***************************************************************************)
(* The calling thread.                                                     *)
(***************************************************************************)

\* cmd.spawn() succeeds.  A helper that is started later is one that is
\* here from the start and silent until then.
Spawn ==
  /\ main = "spawn"
  /\ \E H \in SUBSET Helpers :
       /\ alive' = H \cup {Plugin}
       /\ writers' = [s \in Streams |-> H \cup {Plugin}]
  /\ reader' = [s \in Streams |-> "read"]
  /\ main' = "top"
  /\ UNCHANGED <<written, consumed, lines, events, received, drained,
                 retained, reaped, outcome, expired>>

Return(o) == main' = "returned" /\ outcome' = o

SpawnFails ==
  /\ main = "spawn"
  /\ Return("spawnError")
  /\ UNCHANGED <<processVars, readerVars, events, received, drained,
                 retained, reaped, expired>>

\* check_deadline! with the deadline ahead.
DeadlineAhead ==
  /\ main = "top" /\ ~expired
  /\ main' = "recv"
  /\ UNCHANGED <<processVars, readerVars, events, received, drained,
                 retained, reaped, outcome, expired>>

\* Mutants of KillPlugin: kill without wait; wait without kill.
KillOnly ==
  /\ alive' = alive \ {Plugin}
  /\ writers' = [s \in Streams |-> writers[s] \ {Plugin}]
  /\ reaped' = reaped
KillSkipped == UNCHANGED <<alive, writers>> /\ reaped' = TRUE

\* child.kill() and child.wait().
KillPlugin ==
  /\ alive' = alive \ {Plugin}
  /\ writers' = [s \in Streams |-> writers[s] \ {Plugin}]
  /\ reaped' = TRUE

\* check_deadline! with the deadline passed.
DeadlinePassed ==
  /\ main = "top" /\ expired
  /\ KillPlugin
  /\ main' = "joinTimeout"
  /\ UNCHANGED <<written, readerVars, events, received, drained, retained,
                 outcome, expired>>

\* Is message m the Err that the stdout thread sends for a "bad" line?
IsStreamError(m) == m.src = "out" /\ written["out"][m.n] = "bad"

RecvMessage ==
  /\ main = "recv"
  /\ received < Len(events)
  /\ received' = received + 1
  /\ IF IsStreamError(events[received + 1])
     THEN Return("streamError")
     ELSE main' = "drain" /\ UNCHANGED outcome
  /\ UNCHANGED <<processVars, readerVars, events, drained, retained, reaped,
                 expired>>

SendersGone == \A s \in Streams : reader[s] = "done"

\* recv_timeout finds nothing for 50 ms, and try_wait looks at the plugin.
RecvTimesOut ==
  /\ main = "recv"
  /\ received = Len(events) /\ ~SendersGone
  /\ IF Plugin \in alive
     THEN main' = "drain" /\ UNCHANGED reaped
     ELSE main' = "drainExit" /\ reaped' = TRUE
  /\ UNCHANGED <<processVars, readerVars, events, received, drained, retained,
                 outcome, expired>>

RecvDisconnected ==
  /\ main = "recv"
  /\ received = Len(events) /\ SendersGone
  /\ main' = "drainClosed"
  /\ UNCHANGED <<processVars, readerVars, events, received, drained, retained,
                 reaped, outcome, expired>>

Draining == main \in {"drain", "drainExit", "drainClosed"}

\* The sentinel that replaces the line just before the cap.
Capped == 0

\* Mutant of Retain: the cap is off by one.
RetainOneMore(kept, n) ==
  IF Len(kept) < RetainMax THEN Append(kept, n)
  ELSE IF Len(kept) = RetainMax THEN Append(kept, Capped)
  ELSE kept

\* handle_stderr_line!: what stderr_lines is after line n.
Retain(kept, n) ==
  IF Len(kept) < RetainMax - 1 THEN Append(kept, n)
  ELSE IF Len(kept) = RetainMax - 1 THEN Append(kept, Capped)
  ELSE kept

DrainLine ==
  /\ Draining
  /\ drained < lines
  /\ drained' = drained + 1
  /\ retained' = Retain(retained, drained + 1)
  /\ UNCHANGED <<processVars, readerVars, events, received, main, reaped,
                 outcome, expired>>

\* try_recv finds the stderr channel empty.
DrainEnds ==
  /\ Draining
  /\ drained = lines
  /\ main' = CASE main = "drain" -> "top"
               [] main = "drainExit" -> "joinExit"
               [] main = "drainClosed" -> "wait"
  /\ UNCHANGED <<processVars, readerVars, events, received, drained, retained,
                 reaped, outcome, expired>>

\* child.wait() after the channel was disconnected.
WaitForPlugin ==
  /\ main = "wait"
  /\ Plugin \notin alive
  /\ reaped' = TRUE
  /\ main' = "joinClosed"
  /\ UNCHANGED <<processVars, readerVars, events, received, drained, retained,
                 outcome, expired>>

\* Both reader threads are joined, and the call returns.
JoinReaders ==
  /\ SendersGone
  /\ \/ main = "joinExit" /\ Return("okExit")
     \/ main = "joinClosed" /\ Return("okClosed")
     \/ main = "joinTimeout" /\ Return("timeout")
  /\ UNCHANGED <<processVars, readerVars, events, received, drained, retained,
                 reaped, expired>>

MainNext ==
  \/ Spawn \/ SpawnFails
  \/ DeadlineAhead \/ DeadlinePassed
  \/ RecvMessage \/ RecvTimesOut \/ RecvDisconnected
  \/ DrainLine \/ DrainEnds
  \/ WaitForPlugin \/ JoinReaders

\* The wall clock reaches the deadline.
Expire ==
  /\ HasDeadline /\ ~expired
  /\ main \notin {"spawn", "returned"}
  /\ expired' = TRUE
  /\ UNCHANGED <<processVars, readerVars, events, mainVars>>

\* After the return only reader threads and processes may be left.
Finished == main = "returned" /\ UNCHANGED vars

Next ==
  \/ ProcessNext
  \/ \E s \in Streams : ReaderNext(s)
  \/ MainNext
  \/ Expire
  \/ Finished

Spec == Init /\ [][Next]_vars

\* The operating system schedules every host thread; nothing is assumed of
\* the plugin, of its helpers, or of the moment the deadline passes.
Fairness == WF_vars(MainNext) /\ \A s \in Streams : WF_vars(ReaderNext(s))

FairSpec == Spec /\ Fairness

(***************************************************************************)
(* Properties.                                                             *)
(***************************************************************************)

\* The lines of stream s that must reach on_event.
EventLines(s) ==
  {n \in 1 .. Len(written[s]) : AfterLine(s, written[s][n]) = "event"}

\* The lines of stream s that have reached on_event (or, for a "bad" line,
\* the caller as an error).
DeliveredEvents(s) == {events[i].n : i \in {j \in 1 .. received : events[j].src = s}}

ErrBroken == \E n \in 1 .. Len(written["err"]) : written["err"][n] = "bad"

\* Everything the processes wrote has been handed to the callbacks.  The
\* stderr thread stops for good at a read error.
AllDelivered ==
  /\ DeliveredEvents("out") = EventLines("out")
  /\ ~ErrBroken => /\ DeliveredEvents("err") = EventLines("err")
                   /\ drained = Len(written["err"])

\* When the call returns Ok because both pipes reached end of file, no
\* line was lost between the pipes and the callbacks, whatever the
\* capacities of the channels (runner.rs, loop and Disconnected arm).
CompleteOnClose == outcome = "okClosed" => AllDelivered

\* The events of one stream reach on_event in the order they were written,
\* each once, although two threads share the channel (runner.rs, readers).
EventsInOrder ==
  \A i, j \in 1 .. received :
    (i < j /\ events[i].src = events[j].src) => events[i].n < events[j].n

\* A call that returns Ok or Timeout leaves no plugin process behind: the
\* plugin is dead and waited for, and both threads have ended.
NothingLeftBehind ==
  outcome \in {"okExit", "okClosed", "timeout"} =>
    Plugin \notin alive /\ reaped /\ SendersGone

\* A summary without the sentinel holds every line on_stderr saw; with it,
\* the lines before the cap (runner.rs, handle_stderr_line!).
SummaryKeepsPrefix ==
  /\ Len(retained) <= RetainMax
  /\ \A i \in 1 .. Len(retained) :
       retained[i] = IF i = RetainMax THEN Capped ELSE i
  /\ Len(retained) < RetainMax => Len(retained) = drained

\* Once every process has ended, the call returns and its threads end.
ReturnsOnceProcessesEnd ==
  (main # "spawn" /\ alive = {}) ~> (main = "returned" /\ SendersGone)

\* A deadline found at the head of the loop ends the call with Timeout, as
\* tests/runner_tests.rs:116-133 expects of a plugin that does not end.
DeadlineReported == (expired /\ main = "top") ~> (outcome = "timeout")

=============================================================================
