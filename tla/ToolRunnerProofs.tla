-------------------------- MODULE ToolRunnerProofs --------------------------
(***************************************************************************)
(* Theorems about ToolRunner, for every capacity of the channels and of    *)
(* the pipes, every number of lines and every set of helper processes.     *)
(***************************************************************************)
EXTENDS ToolRunnerContract, FiniteSetTheorems, TLAPS



(***************************************************************************)
(* Types.                                                                  *)
(***************************************************************************)

\* Every variable of ToolRunner keeps its type (runner.rs, run_tool_task).
THEOREM TypeCorrect == Spec => []TypeOK
<1>1. Init => TypeOK
  <2> SUFFICES ASSUME Init PROVE TypeOK
    OBVIOUS
  <2>1. /\ alive \subseteq Processes
        /\ writers \in [Streams -> SUBSET Processes]
    BY DEF Init
  <2>2. written \in [Streams -> Seq({"event", "blank", "line", "long", "bad"})]
    <3>1. <<>> \in Seq({"event", "blank", "line", "long", "bad"})
      OBVIOUS
    <3>. QED BY <3>1 DEF Init
  <2>3. /\ consumed \in [Streams -> Nat]
        /\ reader \in [Streams -> {"read", "event", "line", "done"}]
    BY DEF Init
  <2>4. events \in Seq(Message) /\ retained \in Seq(Nat)
    <3>1. <<>> \in Seq(Message) /\ <<>> \in Seq(Nat)
      OBVIOUS
    <3>. QED BY <3>1 DEF Init
  <2>5. /\ received \in Nat /\ lines \in Nat /\ drained \in Nat
        /\ main \in {"spawn", "returned"} \cup LoopPoints \cup ExitPoints
        /\ reaped \in BOOLEAN /\ expired \in BOOLEAN
        /\ outcome \in Outcomes
    BY DEF Init, Outcomes
  <2>. QED BY <2>1, <2>2, <2>3, <2>4, <2>5 DEF TypeOK
<1>2. TypeOK /\ [Next]_vars => TypeOK'
  <2> SUFFICES ASSUME TypeOK, [Next]_vars
               PROVE  TypeOK'
    OBVIOUS
  <2> USE DEF TypeOK, Processes, Outcomes, LoopPoints, ExitPoints,
              processVars, readerVars, mainVars
  <2>1. ASSUME NEW p \in Processes, NEW s \in Streams, NEW k \in KindsOf(s),
               WriteLine(p, s, k)
        PROVE  TypeOK'
    <3>1. k \in {"event", "blank", "line", "long", "bad"}
      BY KindAssumption DEF KindsOf
    <3>2. Append(written[s], k) \in Seq({"event", "blank", "line", "long",
    "bad"})
      BY <3>1
    <3>. QED BY <2>1, <3>2 DEF WriteLine
  <2>2. ASSUME NEW p \in Processes, NEW s \in Streams, CloseStream(p, s)
        PROVE  TypeOK'
    BY <2>2 DEF CloseStream
  <2>3. ASSUME NEW p \in Processes, Exit(p)
        PROVE  TypeOK'
    BY <2>3 DEF Exit
  <2>4. ASSUME NEW s \in Streams, ReadLine(s)
        PROVE  TypeOK'
    BY <2>4 DEF ReadLine, AfterLine, AfterOutLine, AfterErrLine
  <2>5. ASSUME NEW s \in Streams, ReadEof(s)
        PROVE  TypeOK'
    BY <2>5 DEF ReadEof
  <2>6. ASSUME NEW s \in Streams, SendEvent(s)
        PROVE  TypeOK'
    <3>1. [src |-> s, n |-> consumed[s]] \in Message
      BY DEF Message
    <3>. QED BY <2>6, <3>1 DEF SendEvent, AfterSendEvent
  <2>7. CASE SendLine
    BY <2>7 DEF SendLine, Streams
  <2>8. CASE Spawn
    BY <2>8 DEF Spawn
  <2>9. CASE SpawnFails
    BY <2>9 DEF SpawnFails, Return
  <2>10. CASE DeadlineAhead
    BY <2>10 DEF DeadlineAhead
  <2>11. CASE DeadlinePassed
    BY <2>11 DEF DeadlinePassed, KillPlugin
  <2>12. CASE RecvMessage
    BY <2>12 DEF RecvMessage, Return
  <2>13. CASE RecvTimesOut
    BY <2>13 DEF RecvTimesOut
  <2>14. CASE RecvDisconnected
    BY <2>14 DEF RecvDisconnected
  <2>15. CASE DrainLine
    BY <2>15 DEF DrainLine, Retain, Capped
  <2>16. CASE DrainEnds
    BY <2>16 DEF DrainEnds, Draining
  <2>17. CASE WaitForPlugin
    BY <2>17 DEF WaitForPlugin
  <2>18. CASE JoinReaders
    BY <2>18 DEF JoinReaders, Return
  <2>19. CASE Expire
    BY <2>19 DEF Expire
  <2>20. CASE UNCHANGED vars
    BY <2>20 DEF vars
  <2>. QED
    BY <2>1, <2>2, <2>3, <2>4, <2>5, <2>6, <2>7, <2>8, <2>9, <2>10, <2>11,
       <2>12, <2>13, <2>14, <2>15, <2>16, <2>17, <2>18, <2>19, <2>20
       DEF Next, ProcessNext, ReaderNext, MainNext, Finished
<1>. QED BY <1>1, <1>2, PTL DEF Spec

(***************************************************************************)
(* The inductive invariant, in named parts.                                *)
(***************************************************************************)

\* Positions never run ahead of what they read.
Positions ==
  /\ received <= Len(events)
  /\ drained <= lines
  /\ \A s \in Streams : consumed[s] <= Len(written[s])

\* A line in a reader thread's hand is a line it has taken.
InHand ==
  \A s \in Streams :
    /\ reader[s] \in {"event", "line"} => consumed[s] > 0
    /\ reader[s] = "event" => AfterLine(s, CurrentKind(s)) = "event"

\* The point of main, the outcome and the state of the plugin agree.
Control ==
  /\ outcome # "none" <=> main = "returned"
  /\ outcome \notin {"none", "streamError"} \/ main = "spawn" => SendersGone
  /\ reaped => Plugin \notin alive
  /\ \/ main \in {"drainExit", "joinExit", "joinClosed", "joinTimeout"}
     \/ outcome \in {"okExit", "okClosed", "timeout"}
     => reaped

\* Nothing has happened before the spawn.
BeforeSpawn ==
  main = "spawn" =>
    /\ events = <<>> /\ lines = 0 /\ ~reaped
    /\ \A s \in Streams : consumed[s] = 0

\* An event on the channel is a line its thread has taken, and one still in
\* the thread's hand is not on the channel.
EventsTaken ==
  \A i \in 1 .. Len(events) :
    LET m == events[i] IN
      /\ m.n \in 1 .. consumed[m.src]
      /\ AfterLine(m.src, written[m.src][m.n]) = "event"
      /\ reader[m.src] = "event" => m.n < consumed[m.src]

\* The log of each stream is in the order of the stream.
LogInOrder ==
  \A i, j \in 1 .. Len(events) :
    (i < j /\ events[i].src = events[j].src) => events[i].n < events[j].n

\* Conversely every event line taken is on the channel or in the hand.
EventsCover ==
  outcome # "streamError" =>
    \A s \in Streams : \A n \in 1 .. consumed[s] :
      \/ AfterLine(s, written[s][n]) # "event"
      \/ n = consumed[s] /\ reader[s] = "event"
      \/ \E i \in 1 .. Len(events) : events[i].src = s /\ events[i].n = n

\* So is every stderr line.
LinesCover ==
  outcome # "streamError" =>
    lines + (IF reader["err"] \in {"event", "line"} THEN 1 ELSE 0)
      = consumed["err"]

\* A thread that has ended saw the end of its stream or a "bad" line.
ThreadEnded ==
  main # "spawn" /\ outcome \notin {"spawnError", "streamError"} =>
    \A s \in Streams :
      reader[s] = "done" =>
        AtEof(s) \/ (consumed[s] > 0 /\ CurrentKind(s) = "bad")

\* main returns at the first stream error.
NoErrorTaken ==
  outcome # "streamError" =>
    \A i \in 1 .. received : ~IsStreamError(events[i])

\* On the path that leaves the loop by Disconnected.
ClosedPath ==
  main \in {"drainClosed", "wait", "joinClosed"} \/ outcome = "okClosed" =>
    /\ SendersGone
    /\ received = Len(events)
    /\ main # "drainClosed" => drained = lines


\* The inductive invariant, next to TypeOK.
IInv ==
  /\ Positions /\ InHand /\ Control /\ BeforeSpawn /\ EventsTaken
  /\ LogInOrder /\ EventsCover /\ LinesCover /\ ThreadEnded /\ NoErrorTaken
  /\ ClosedPath /\ SummaryKeepsPrefix

(***************************************************************************)
(* The steps that move lines into a thread's hand and onto a channel.      *)
(***************************************************************************)

\* What an entry of the event channel's log is.
LEMMA EventTypes ==
  ASSUME TypeOK, NEW i \in 1 .. Len(events)
  PROVE  events[i] \in Message /\ events[i].src \in Streams
  /\ events[i].n \in Nat
<1>1. events[i] \in Message
  BY DEF TypeOK
<1>. QED BY <1>1 DEF Message

\* A process writes a line: what was taken from the pipes is unchanged.
LEMMA WriteLineStep ==
  ASSUME TypeOK, IInv, NEW p \in Processes, NEW s \in Streams,
         NEW k \in KindsOf(s), WriteLine(p, s, k)
  PROVE  /\ Positions' /\ InHand' /\ EventsTaken' /\ EventsCover'
         /\ NoErrorTaken' /\ ThreadEnded'
<1> USE DEF IInv, readerVars, mainVars
<1>1. /\ consumed' = consumed /\ reader' = reader /\ events' = events
      /\ lines' = lines /\ received' = received /\ drained' = drained
      /\ main' = main /\ outcome' = outcome /\ writers' = writers
      /\ reader[s] # "done"
  BY DEF WriteLine
<1>2. \A t \in Streams : consumed[t] \in Nat /\ Len(written[t]) \in Nat
  BY DEF TypeOK
<1>3. \A t \in Streams :
        /\ Len(written'[t]) \in Nat /\ Len(written'[t]) >= Len(written[t])
        /\ \A n \in 1 .. Len(written[t]) : written'[t][n] = written[t][n]
  BY DEF WriteLine, TypeOK
<1>4. \A t \in Streams : \A n \in 1 .. consumed[t] :
        written'[t][n] = written[t][n]
  BY <1>2, <1>3 DEF Positions
<1>5. \A t \in Streams : consumed[t] > 0 => CurrentKind(t)' = CurrentKind(t)
  BY <1>1, <1>2, <1>4 DEF CurrentKind
<1>6. Positions'
  BY <1>1, <1>2, <1>3 DEF Positions
<1>7. InHand'
  BY <1>1, <1>5 DEF InHand
<1>8. EventsTaken'
  <2> SUFFICES ASSUME NEW i \in 1 .. Len(events)
               PROVE  LET m == events[i] IN
                        /\ m.n \in 1 .. consumed[m.src]
                        /\ AfterLine(m.src, written'[m.src][m.n]) = "event"
                        /\ reader[m.src] = "event" => m.n < consumed[m.src]
    BY <1>1 DEF EventsTaken
  <2>1. events[i].src \in Streams /\ events[i].n \in Nat
    BY EventTypes
  <2>. QED BY <1>4, <2>1 DEF EventsTaken
<1>9. EventsCover'
  BY <1>1, <1>4 DEF EventsCover
<1>10. NoErrorTaken'
  <2> SUFFICES ASSUME outcome # "streamError", NEW i \in 1 .. received
               PROVE  ~IsStreamError(events[i])'
    BY <1>1 DEF NoErrorTaken
  <2>1. i \in 1 .. Len(events) /\ events[i] \in Message
    BY DEF TypeOK, Positions
  <2>2. events[i].n \in 1 .. consumed[events[i].src]
    BY <2>1 DEF EventsTaken
  <2>. QED
    BY <1>1, <1>4, <2>1, <2>2 DEF NoErrorTaken, IsStreamError, Message
<1>11. ThreadEnded'
  BY <1>1, <1>5, <1>2 DEF ThreadEnded, WriteLine, AtEof
<1>. QED BY <1>6, <1>7, <1>8, <1>9, <1>10, <1>11

\* A thread takes a line into its hand.
LEMMA ReadLineStep ==
  ASSUME TypeOK, IInv, NEW s \in Streams, ReadLine(s)
  PROVE  /\ Positions' /\ InHand' /\ EventsTaken' /\ EventsCover'
         /\ LinesCover' /\ ThreadEnded'
<1> USE DEF IInv, mainVars, processVars
<1>1. /\ written' = written /\ events' = events /\ lines' = lines
      /\ received' = received /\ drained' = drained /\ main' = main
      /\ outcome' = outcome /\ writers' = writers
      /\ reader[s] = "read" /\ consumed[s] < Len(written[s])
  BY DEF ReadLine
<1>2. /\ consumed \in [Streams -> Nat]
      /\ reader \in [Streams -> {"read", "event", "line", "done"}]
      /\ \A t \in Streams : Len(written[t]) \in Nat
  BY DEF TypeOK
<1>3. /\ consumed'[s] = consumed[s] + 1
      /\ reader'[s] = AfterLine(s, written[s][consumed'[s]])
      /\ \A t \in Streams \ {s} :
           consumed'[t] = consumed[t] /\ reader'[t] = reader[t]
  BY <1>2 DEF ReadLine
<1>4. reader'[s] # "done"
  BY <1>3 DEF AfterLine, AfterOutLine, AfterErrLine
<1>6. Positions'
  BY <1>1, <1>2, <1>3 DEF Positions
<1>7. InHand'
  <2>1. ASSUME NEW t \in Streams
        PROVE  /\ reader'[t] \in {"event", "line"} => consumed'[t] > 0
               /\ reader'[t] = "event" =>
                    AfterLine(t, written'[t][consumed'[t]]) = "event"
    BY <1>1, <1>2, <1>3 DEF InHand, CurrentKind
  <2>. QED BY <2>1 DEF InHand, CurrentKind
<1>8. EventsTaken'
  <2> SUFFICES ASSUME NEW i \in 1 .. Len(events)
               PROVE  LET m == events[i] IN
                        /\ m.n \in 1 .. consumed'[m.src]
                        /\ AfterLine(m.src, written[m.src][m.n]) = "event"
                        /\ reader'[m.src] = "event" => m.n < consumed'[m.src]
    BY <1>1 DEF EventsTaken
  <2>1. events[i].src \in Streams /\ events[i].n \in Nat
    BY EventTypes
  <2>2. CASE events[i].src = s
    <3>1. events[i].n \in 1 .. consumed[s]
      BY <2>2 DEF EventsTaken
    <3>. QED BY <1>2, <1>3, <2>2, <3>1 DEF EventsTaken
  <2>3. CASE events[i].src # s
    BY <1>3, <2>1, <2>3 DEF EventsTaken
  <2>. QED BY <2>2, <2>3
<1>9. EventsCover'
  <2> SUFFICES ASSUME outcome # "streamError", NEW t \in Streams,
                      NEW n \in 1 .. consumed'[t]
               PROVE  \/ AfterLine(t, written[t][n]) # "event"
                      \/ n = consumed'[t] /\ reader'[t] = "event"
                      \/ \E i \in 1 .. Len(events) :
                           events[i].src = t /\ events[i].n = n
    BY <1>1 DEF EventsCover
  <2>1. CASE t = s /\ n = consumed'[t]
    BY <1>3, <2>1
  <2>2. CASE t = s /\ n # consumed'[t]
    <3>1. n \in 1 .. consumed[t]
      BY <1>2, <1>3, <2>2
    <3>. QED BY <1>1, <2>2, <3>1 DEF EventsCover
  <2>3. CASE t # s
    BY <1>3, <2>3 DEF EventsCover
  <2>. QED BY <2>1, <2>2, <2>3
<1>10. LinesCover'
  <2>1. CASE s = "err"
    <3>1. reader'["err"] \in {"event", "line"}
      BY <1>3, <2>1 DEF AfterLine, AfterErrLine
    <3>. QED BY <1>1, <1>2, <1>3, <2>1, <3>1 DEF LinesCover, TypeOK
  <2>2. CASE s # "err"
    BY <1>1, <1>3, <2>2 DEF LinesCover, Streams
  <2>. QED BY <2>1, <2>2
<1>11. ThreadEnded'
  <2>1. \A t \in Streams : reader'[t] = "done" => t # s /\ reader[t] = "done"
    BY <1>3, <1>4
  <2>. QED BY <1>1, <1>3, <2>1 DEF ThreadEnded, AtEof, CurrentKind
<1>. QED BY <1>6, <1>7, <1>8, <1>9, <1>10, <1>11

\* A thread sends on the event channel, or finds its receiver gone.
LEMMA SendEventStep ==
  ASSUME TypeOK, TypeOK', IInv, NEW s \in Streams, SendEvent(s)
  PROVE  /\ Positions' /\ InHand' /\ EventsTaken' /\ LogInOrder'
         /\ EventsCover' /\ LinesCover' /\ ThreadEnded' /\ NoErrorTaken'
<1> USE DEF IInv, mainVars, processVars
<1>1. /\ written' = written /\ consumed' = consumed /\ lines' = lines
      /\ received' = received /\ drained' = drained /\ main' = main
      /\ outcome' = outcome /\ writers' = writers
      /\ reader[s] = "event"
      /\ reader'[s] = AfterSendEvent(s)
      /\ \A t \in Streams \ {s} : reader'[t] = reader[t]
  BY DEF SendEvent, TypeOK
<1>2. /\ consumed \in [Streams -> Nat] /\ received \in Nat
      /\ Len(events) \in Nat
      /\ \A t \in Streams : Len(written[t]) \in Nat
  BY DEF TypeOK
<1>3. /\ consumed[s] \in 1 .. consumed[s]
      /\ AfterLine(s, written[s][consumed[s]]) = "event"
  BY <1>1, <1>2 DEF InHand, CurrentKind
<1>4. reader'[s] # "event"
  BY <1>1 DEF AfterSendEvent
<1>5. ReceiversOpen <=> outcome # "streamError"
  BY <1>1 DEF ReceiversOpen, Control, SendersGone, TypeOK, Outcomes
<1>6. CASE outcome = "streamError"
  <2>1. events' = events
    BY <1>5, <1>6 DEF SendEvent
  <2>2. EventsTaken'
    <3>1. \A i \in 1 .. Len(events) : events[i].src \in Streams
      BY EventTypes
    <3>. QED BY <1>1, <1>4, <2>1, <3>1 DEF EventsTaken
  <2>3. InHand'
    BY <1>1, <1>4, <1>3, <1>2 DEF InHand, CurrentKind
  <2>. QED
    BY <1>1, <1>6, <2>1, <2>2, <2>3
       DEF Positions, LogInOrder, EventsCover, LinesCover, ThreadEnded,
       NoErrorTaken
<1>7. CASE outcome # "streamError"
  <2> DEFINE m == [src |-> s, n |-> consumed[s]]
  <2>1. events' = Append(events, m)
    BY <1>5, <1>7 DEF SendEvent
  <2>2. /\ Len(events') = Len(events) + 1
        /\ \A i \in 1 .. Len(events) : events'[i] = events[i]
        /\ events'[Len(events) + 1] = m
    BY <2>1 DEF TypeOK
  <2>3. \A i \in 1 .. Len(events) :
          events[i].src = s => events[i].n < consumed[s]
    BY <1>1 DEF EventsTaken
  <2>4. \A i \in 1 .. Len(events) :
          events[i].src \in Streams /\ events[i].n \in Nat
    BY EventTypes
  <2>5. Positions'
    BY <1>1, <1>2, <2>2 DEF Positions
  <2>6. InHand'
    BY <1>1, <1>2, <1>3, <1>4 DEF InHand, CurrentKind
  <2>7. EventsTaken'
    <3> SUFFICES ASSUME NEW i \in 1 .. Len(events')
                 PROVE  LET e == events'[i] IN
                          /\ e.n \in 1 .. consumed[e.src]
                          /\ AfterLine(e.src, written[e.src][e.n]) = "event"
                          /\ reader'[e.src] = "event" => e.n < consumed[e.src]
      BY <1>1 DEF EventsTaken
    <3>1. CASE i \in 1 .. Len(events)
      BY <1>1, <1>4, <2>2, <2>4, <3>1 DEF EventsTaken
    <3>2. CASE i = Len(events) + 1
      BY <1>3, <1>4, <2>2, <3>2
    <3>. QED BY <1>2, <2>2, <3>1, <3>2
  <2>8. LogInOrder'
    <3> SUFFICES ASSUME NEW i \in 1 .. Len(events'),
    NEW j \in 1 .. Len(events'),
                        i < j, events'[i].src = events'[j].src
                 PROVE  events'[i].n < events'[j].n
      BY DEF LogInOrder
    <3>1. CASE j \in 1 .. Len(events)
      <4>1. i \in 1 .. Len(events)
        BY <1>2, <2>2, <3>1
      <4>. QED BY <2>2, <3>1, <4>1 DEF LogInOrder
    <3>2. CASE j = Len(events) + 1
      BY <1>2, <2>2, <2>3, <3>2
    <3>. QED BY <1>2, <2>2, <3>1, <3>2
  <2>9. EventsCover'
    <3> SUFFICES ASSUME NEW t \in Streams, NEW n \in 1 .. consumed[t],
                        AfterLine(t, written[t][n]) = "event",
                        ~(n = consumed[t] /\ reader'[t] = "event")
                 PROVE  \E i \in 1 .. Len(events') :
                          events'[i].src = t /\ events'[i].n = n
      BY <1>1 DEF EventsCover
    <3>1. CASE t = s /\ n = consumed[s]
      BY <1>2, <2>2, <3>1
    <3>2. CASE ~(t = s /\ n = consumed[s])
      <4>1. PICK i \in 1 .. Len(events) : events[i].src = t /\ events[i].n = n
        BY <1>1, <1>7, <3>2 DEF EventsCover
      <4>. QED BY <1>2, <2>2, <4>1
    <3>. QED BY <3>1, <3>2
  <2>10. LinesCover'
    BY <1>1, <1>2, <1>4 DEF LinesCover, AfterSendEvent, Streams
  <2>11. ThreadEnded'
    <3>1. reader'[s] = "done" => CurrentKind(s) = "bad"
      BY <1>1, <1>5, <1>7 DEF AfterSendEvent
    <3>. QED BY <1>1, <1>2, <1>3, <3>1 DEF ThreadEnded, AtEof, CurrentKind
  <2>12. NoErrorTaken'
    BY <1>1, <1>2, <2>2 DEF NoErrorTaken, IsStreamError, Positions
  <2>. QED BY <2>5, <2>6, <2>7, <2>8, <2>9, <2>10, <2>11, <2>12
<1>. QED BY <1>6, <1>7

\* Every step preserves the invariant: one step of the proof per action.
LEMMA InvStep == TypeOK /\ TypeOK' /\ IInv /\ [Next]_vars => IInv'
<1> SUFFICES ASSUME TypeOK, TypeOK', IInv, [Next]_vars
             PROVE  IInv'
  OBVIOUS
<1>1. IInv'
  <2> USE DEF IInv, processVars, readerVars, mainVars
  <2>1. ASSUME NEW p \in Processes, NEW s \in Streams,
               NEW k \in KindsOf(s), WriteLine(p, s, k)
        PROVE  IInv'
    <3>1. Positions' /\ InHand' /\ EventsTaken' /\ EventsCover'
          /\ NoErrorTaken' /\ ThreadEnded'
      BY <2>1, WriteLineStep
    <3>2. Control' /\ BeforeSpawn' /\ LogInOrder' /\ LinesCover'
      BY <2>1 DEF WriteLine, Control, SendersGone, BeforeSpawn, LogInOrder,
         LinesCover
    <3>3. ClosedPath' /\ SummaryKeepsPrefix'
      BY <2>1 DEF WriteLine, ClosedPath, SendersGone, SummaryKeepsPrefix
    <3>. QED BY <3>1, <3>2, <3>3 DEF IInv
  <2>2. ASSUME NEW p \in Processes, NEW s \in Streams, CloseStream(p, s)
        PROVE  IInv'
    <3>1. ThreadEnded'
      BY <2>2 DEF CloseStream, ThreadEnded, AtEof, CurrentKind
    <3>2. Positions' /\ InHand' /\ Control' /\ BeforeSpawn'
      BY <2>2 DEF CloseStream, Positions, InHand, CurrentKind, Control,
         SendersGone, BeforeSpawn
    <3>3. EventsTaken' /\ LogInOrder' /\ EventsCover' /\ LinesCover'
      BY <2>2 DEF CloseStream, EventsTaken, LogInOrder, EventsCover, LinesCover
    <3>4. NoErrorTaken' /\ ClosedPath' /\ SummaryKeepsPrefix'
      BY <2>2 DEF CloseStream, NoErrorTaken, IsStreamError, ClosedPath,
         SendersGone, SummaryKeepsPrefix
    <3>. QED BY <3>1, <3>2, <3>3, <3>4 DEF IInv
  <2>3. ASSUME NEW p \in Processes, Exit(p)
        PROVE  IInv'
    <3>1. Control'
      BY <2>3 DEF Exit, Control, SendersGone
    <3>2. ThreadEnded'
      BY <2>3 DEF Exit, ThreadEnded, AtEof, CurrentKind
    <3>3. Positions' /\ InHand' /\ BeforeSpawn' /\ EventsTaken'
      BY <2>3 DEF Exit, Positions, InHand, CurrentKind, BeforeSpawn,
         EventsTaken
    <3>4. LogInOrder' /\ EventsCover' /\ LinesCover' /\ NoErrorTaken'
      BY <2>3 DEF Exit, LogInOrder, EventsCover, LinesCover, NoErrorTaken,
         IsStreamError
    <3>5. ClosedPath' /\ SummaryKeepsPrefix'
      BY <2>3 DEF Exit, ClosedPath, SendersGone, SummaryKeepsPrefix
    <3>. QED BY <3>1, <3>2, <3>3, <3>4, <3>5 DEF IInv
  <2>4. ASSUME NEW s \in Streams, ReadLine(s)
        PROVE  IInv'
    <3>1. Positions' /\ InHand' /\ EventsTaken' /\ EventsCover'
          /\ LinesCover' /\ ThreadEnded'
      BY <2>4, ReadLineStep
    <3>2. Control'
      BY <2>4 DEF ReadLine, Control, SendersGone
    <3>3. BeforeSpawn'
      BY <2>4 DEF ReadLine, BeforeSpawn, Control, SendersGone
    <3>4. ClosedPath'
      BY <2>4 DEF ReadLine, ClosedPath, SendersGone
    <3>5. LogInOrder' /\ NoErrorTaken' /\ SummaryKeepsPrefix'
      BY <2>4 DEF ReadLine, LogInOrder, NoErrorTaken, IsStreamError,
         SummaryKeepsPrefix
    <3>. QED BY <3>1, <3>2, <3>3, <3>4, <3>5 DEF IInv
  <2>5. ASSUME NEW s \in Streams, ReadEof(s)
        PROVE  IInv'
    <3>1. InHand'
      BY <2>5 DEF ReadEof, InHand, CurrentKind
    <3>2. Control'
      BY <2>5 DEF ReadEof, Control, SendersGone
    <3>3. EventsTaken'
      BY <2>5 DEF ReadEof, EventsTaken
    <3>4. EventsCover'
      BY <2>5 DEF ReadEof, EventsCover, TypeOK
    <3>5. LinesCover'
      BY <2>5 DEF ReadEof, LinesCover
    <3>6. ThreadEnded'
      BY <2>5 DEF ReadEof, ThreadEnded, AtEof, CurrentKind
    <3>7. ClosedPath'
      BY <2>5 DEF ReadEof, ClosedPath, SendersGone
    <3>8. Positions' /\ BeforeSpawn' /\ LogInOrder' /\ NoErrorTaken'
      BY <2>5 DEF ReadEof, Positions, BeforeSpawn, LogInOrder, NoErrorTaken,
         IsStreamError
    <3>9. SummaryKeepsPrefix'
      BY <2>5 DEF ReadEof, SummaryKeepsPrefix
    <3>. QED BY <3>1, <3>2, <3>3, <3>4, <3>5, <3>6, <3>7, <3>8, <3>9 DEF IInv
  <2>6. ASSUME NEW s \in Streams, SendEvent(s)
        PROVE  IInv'
    <3>1. Positions' /\ InHand' /\ EventsTaken' /\ LogInOrder'
          /\ EventsCover' /\ LinesCover' /\ ThreadEnded' /\ NoErrorTaken'
      BY <2>6, SendEventStep
    <3>2. Control'
      BY <2>6 DEF SendEvent, AfterSendEvent, ReceiversOpen, Control,
         SendersGone
    <3>3. BeforeSpawn'
      BY <2>6 DEF SendEvent, BeforeSpawn, Control, SendersGone
    <3>4. ClosedPath'
      BY <2>6 DEF SendEvent, AfterSendEvent, ReceiversOpen, ClosedPath,
         SendersGone
    <3>5. SummaryKeepsPrefix'
      BY <2>6 DEF SendEvent, SummaryKeepsPrefix
    <3>. QED BY <3>1, <3>2, <3>3, <3>4, <3>5 DEF IInv
  <2>7. CASE SendLine
    <3>1. ReceiversOpen <=> outcome # "streamError"
      BY <2>7 DEF SendLine, ReceiversOpen, Control, SendersGone, Streams
    <3>2. Positions'
      BY <2>7 DEF SendLine, Positions, TypeOK
    <3>3. InHand'
      BY <2>7 DEF SendLine, InHand, CurrentKind, TypeOK
    <3>4. Control'
      BY <2>7 DEF SendLine, ReceiversOpen, Control, SendersGone
    <3>5. BeforeSpawn'
      BY <2>7 DEF SendLine, BeforeSpawn, Control, SendersGone, Streams
    <3>6. EventsTaken'
      BY <2>7 DEF SendLine, ReceiversOpen, EventsTaken
    <3>7. EventsCover'
      BY <2>7 DEF SendLine, ReceiversOpen, EventsCover
    <3>8. LinesCover'
      BY <2>7, <3>1 DEF SendLine, LinesCover, TypeOK, Streams
    <3>9. ThreadEnded'
      BY <2>7, <3>1 DEF ThreadEnded, InHand, AtEof, CurrentKind, SendLine,
         TypeOK, Streams
    <3>10. ClosedPath'
      BY <2>7 DEF SendLine, ClosedPath, SendersGone, Streams
    <3>11. LogInOrder' /\ NoErrorTaken' /\ SummaryKeepsPrefix'
      BY <2>7 DEF SendLine, LogInOrder, NoErrorTaken, IsStreamError,
         SummaryKeepsPrefix
    <3>. QED BY <3>1, <3>2, <3>3, <3>4, <3>5, <3>6, <3>7, <3>8, <3>9, <3>10,
    <3>11 DEF IInv
  <2>8. CASE Spawn
    <3>1. InHand'
      BY <2>8 DEF Spawn, InHand, CurrentKind
    <3>2. Control'
      BY <2>8 DEF Spawn, Control, BeforeSpawn
    <3>3. BeforeSpawn'
      BY <2>8 DEF Spawn, BeforeSpawn
    <3>4. EventsTaken'
      BY <2>8 DEF Spawn, EventsTaken, BeforeSpawn
    <3>5. EventsCover'
      BY <2>8 DEF Spawn, EventsCover, BeforeSpawn
    <3>6. LinesCover'
      BY <2>8 DEF Spawn, LinesCover, BeforeSpawn, Streams
    <3>7. ThreadEnded'
      BY <2>8 DEF Spawn, ThreadEnded, AtEof, CurrentKind
    <3>8. ClosedPath'
      BY <2>8 DEF Spawn, ClosedPath, Control
    <3>9. Positions' /\ LogInOrder' /\ NoErrorTaken' /\ SummaryKeepsPrefix'
      BY <2>8 DEF Spawn, Positions, LogInOrder, NoErrorTaken, IsStreamError,
         SummaryKeepsPrefix
    <3>. QED BY <3>1, <3>2, <3>3, <3>4, <3>5, <3>6, <3>7, <3>8, <3>9 DEF IInv
  <2>9. CASE SpawnFails
    <3>1. Control'
      BY <2>9 DEF SpawnFails, Return, Control, SendersGone
    <3>2. BeforeSpawn'
      BY <2>9 DEF SpawnFails, Return, BeforeSpawn
    <3>3. EventsCover'
      BY <2>9 DEF SpawnFails, Return, Control, EventsCover
    <3>4. LinesCover'
      BY <2>9 DEF SpawnFails, Return, Control, LinesCover
    <3>5. ThreadEnded'
      BY <2>9 DEF SpawnFails, Return, ThreadEnded, AtEof, CurrentKind
    <3>6. NoErrorTaken'
      BY <2>9 DEF SpawnFails, Return, Control, NoErrorTaken, IsStreamError
    <3>7. ClosedPath'
      BY <2>9 DEF SpawnFails, Return, ClosedPath, SendersGone
    <3>8. Positions' /\ InHand' /\ EventsTaken' /\ LogInOrder'
      BY <2>9 DEF SpawnFails, Positions, InHand, CurrentKind, EventsTaken,
         LogInOrder
    <3>9. SummaryKeepsPrefix'
      BY <2>9 DEF SpawnFails, SummaryKeepsPrefix
    <3>. QED BY <3>1, <3>2, <3>3, <3>4, <3>5, <3>6, <3>7, <3>8, <3>9 DEF IInv
  <2>10. CASE DeadlineAhead
    <3>1. Control'
      BY <2>10 DEF DeadlineAhead, Control, SendersGone
    <3>2. BeforeSpawn'
      BY <2>10 DEF DeadlineAhead, BeforeSpawn
    <3>3. ThreadEnded'
      BY <2>10 DEF DeadlineAhead, ThreadEnded, AtEof, CurrentKind
    <3>4. ClosedPath'
      BY <2>10 DEF DeadlineAhead, ClosedPath, SendersGone
    <3>5. Positions' /\ InHand' /\ EventsTaken' /\ LogInOrder'
      BY <2>10 DEF DeadlineAhead, Positions, InHand, CurrentKind,
         EventsTaken, LogInOrder
    <3>6. EventsCover' /\ LinesCover' /\ NoErrorTaken' /\ SummaryKeepsPrefix'
      BY <2>10 DEF DeadlineAhead, EventsCover, LinesCover, NoErrorTaken,
         IsStreamError, SummaryKeepsPrefix
    <3>. QED BY <3>1, <3>2, <3>3, <3>4, <3>5, <3>6 DEF IInv
  <2>11. CASE DeadlinePassed
    <3>1. Control'
      BY <2>11 DEF DeadlinePassed, KillPlugin, Control, SendersGone
    <3>2. BeforeSpawn'
      BY <2>11 DEF DeadlinePassed, KillPlugin, BeforeSpawn
    <3>3. ThreadEnded'
      BY <2>11 DEF DeadlinePassed, KillPlugin, ThreadEnded, AtEof, CurrentKind
    <3>4. ClosedPath'
      BY <2>11 DEF DeadlinePassed, KillPlugin, ClosedPath, SendersGone
    <3>5. Positions' /\ InHand' /\ EventsTaken' /\ LogInOrder'
      BY <2>11 DEF DeadlinePassed, Positions, InHand, CurrentKind,
         EventsTaken, LogInOrder
    <3>6. EventsCover' /\ LinesCover' /\ NoErrorTaken' /\ SummaryKeepsPrefix'
      BY <2>11 DEF DeadlinePassed, EventsCover, LinesCover, NoErrorTaken,
         IsStreamError, SummaryKeepsPrefix
    <3>. QED BY <3>1, <3>2, <3>3, <3>4, <3>5, <3>6 DEF IInv
  <2>12. CASE RecvMessage
    <3>1. Positions'
      BY <2>12 DEF RecvMessage, Positions, TypeOK
    <3>2. Control'
      BY <2>12 DEF RecvMessage, Return, Control, SendersGone
    <3>3. BeforeSpawn'
      BY <2>12 DEF RecvMessage, Return, BeforeSpawn
    <3>4. EventsCover'
      BY <2>12 DEF RecvMessage, Return, EventsCover
    <3>5. LinesCover'
      BY <2>12 DEF RecvMessage, Return, LinesCover
    <3>6. ThreadEnded'
      BY <2>12 DEF RecvMessage, Return, ThreadEnded, AtEof, CurrentKind
    <3>7. NoErrorTaken'
      BY <2>12 DEF RecvMessage, Return, NoErrorTaken, IsStreamError, TypeOK
    <3>8. ClosedPath'
      BY <2>12 DEF RecvMessage, Return, ClosedPath, SendersGone
    <3>9. InHand' /\ EventsTaken' /\ LogInOrder' /\ SummaryKeepsPrefix'
      BY <2>12 DEF RecvMessage, InHand, CurrentKind, EventsTaken, LogInOrder,
         SummaryKeepsPrefix
    <3>. QED BY <3>1, <3>2, <3>3, <3>4, <3>5, <3>6, <3>7, <3>8, <3>9 DEF IInv
  <2>13. CASE RecvTimesOut
    <3>1. Control'
      BY <2>13 DEF RecvTimesOut, Control, SendersGone
    <3>2. BeforeSpawn'
      BY <2>13 DEF RecvTimesOut, BeforeSpawn
    <3>3. ThreadEnded'
      BY <2>13 DEF RecvTimesOut, ThreadEnded, AtEof, CurrentKind
    <3>4. ClosedPath'
      BY <2>13 DEF RecvTimesOut, ClosedPath, SendersGone
    <3>5. Positions' /\ InHand' /\ EventsTaken' /\ LogInOrder'
      BY <2>13 DEF RecvTimesOut, Positions, InHand, CurrentKind, EventsTaken,
         LogInOrder
    <3>6. EventsCover' /\ LinesCover' /\ NoErrorTaken' /\ SummaryKeepsPrefix'
      BY <2>13 DEF RecvTimesOut, EventsCover, LinesCover, NoErrorTaken,
         IsStreamError, SummaryKeepsPrefix
    <3>. QED BY <3>1, <3>2, <3>3, <3>4, <3>5, <3>6 DEF IInv
  <2>14. CASE RecvDisconnected
    <3>1. Control'
      BY <2>14 DEF RecvDisconnected, Control, SendersGone
    <3>2. BeforeSpawn'
      BY <2>14 DEF RecvDisconnected, BeforeSpawn
    <3>3. ThreadEnded'
      BY <2>14 DEF RecvDisconnected, ThreadEnded, AtEof, CurrentKind
    <3>4. ClosedPath'
      BY <2>14 DEF RecvDisconnected, ClosedPath, SendersGone
    <3>5. Positions' /\ InHand' /\ EventsTaken' /\ LogInOrder'
      BY <2>14 DEF RecvDisconnected, Positions, InHand, CurrentKind,
         EventsTaken, LogInOrder
    <3>6. EventsCover' /\ LinesCover' /\ NoErrorTaken' /\ SummaryKeepsPrefix'
      BY <2>14 DEF RecvDisconnected, EventsCover, LinesCover, NoErrorTaken,
         IsStreamError, SummaryKeepsPrefix
    <3>. QED BY <3>1, <3>2, <3>3, <3>4, <3>5, <3>6 DEF IInv
  <2>15. CASE DrainLine
    <3>1. Positions'
      BY <2>15 DEF DrainLine, Positions, TypeOK
    <3>2. ClosedPath'
      BY <2>15 DEF DrainLine, Draining, ClosedPath, SendersGone, TypeOK
    <3>3. SummaryKeepsPrefix'
      <4>1. /\ drained' = drained + 1
            /\ retained' = Retain(retained, drained + 1)
            /\ drained \in Nat /\ retained \in Seq(Nat)
        BY <2>15 DEF DrainLine, TypeOK
      <4>2. CASE Len(retained) < RetainMax - 1
        BY <4>1, <4>2, CapacityAssumption DEF Retain, SummaryKeepsPrefix
      <4>3. CASE Len(retained) = RetainMax - 1
        BY <4>1, <4>3, CapacityAssumption DEF Retain, Capped,
           SummaryKeepsPrefix
      <4>4. CASE Len(retained) > RetainMax - 1
        BY <4>1, <4>4, CapacityAssumption DEF Retain, SummaryKeepsPrefix
      <4>. QED BY <4>1, <4>2, <4>3, <4>4, CapacityAssumption
    <3>4. InHand' /\ Control' /\ BeforeSpawn' /\ EventsTaken'
      BY <2>15 DEF DrainLine, InHand, CurrentKind, Control, SendersGone,
         BeforeSpawn, EventsTaken
    <3>5. LogInOrder' /\ EventsCover' /\ LinesCover' /\ ThreadEnded'
      BY <2>15 DEF DrainLine, LogInOrder, EventsCover, LinesCover,
         ThreadEnded, AtEof, CurrentKind
    <3>6. NoErrorTaken'
      BY <2>15 DEF DrainLine, NoErrorTaken, IsStreamError
    <3>. QED BY <3>1, <3>2, <3>3, <3>4, <3>5, <3>6 DEF IInv
  <2>16. CASE DrainEnds
    <3>1. Control'
      BY <2>16 DEF DrainEnds, Draining, Control, SendersGone
    <3>2. BeforeSpawn'
      BY <2>16 DEF DrainEnds, Draining, BeforeSpawn
    <3>3. ThreadEnded'
      BY <2>16 DEF DrainEnds, Draining, ThreadEnded, AtEof, CurrentKind
    <3>4. ClosedPath'
      BY <2>16 DEF DrainEnds, Draining, ClosedPath, SendersGone
    <3>5. Positions' /\ InHand' /\ EventsTaken' /\ LogInOrder'
      BY <2>16 DEF DrainEnds, Positions, InHand, CurrentKind, EventsTaken,
         LogInOrder
    <3>6. EventsCover' /\ LinesCover' /\ NoErrorTaken' /\ SummaryKeepsPrefix'
      BY <2>16 DEF DrainEnds, EventsCover, LinesCover, NoErrorTaken,
         IsStreamError, SummaryKeepsPrefix
    <3>. QED BY <3>1, <3>2, <3>3, <3>4, <3>5, <3>6 DEF IInv
  <2>17. CASE WaitForPlugin
    <3>1. Control'
      BY <2>17 DEF WaitForPlugin, Control, SendersGone
    <3>2. BeforeSpawn'
      BY <2>17 DEF WaitForPlugin, BeforeSpawn
    <3>3. ThreadEnded'
      BY <2>17 DEF WaitForPlugin, ThreadEnded, AtEof, CurrentKind
    <3>4. ClosedPath'
      BY <2>17 DEF WaitForPlugin, ClosedPath, SendersGone
    <3>5. Positions' /\ InHand' /\ EventsTaken' /\ LogInOrder'
      BY <2>17 DEF WaitForPlugin, Positions, InHand, CurrentKind,
         EventsTaken, LogInOrder
    <3>6. EventsCover' /\ LinesCover' /\ NoErrorTaken' /\ SummaryKeepsPrefix'
      BY <2>17 DEF WaitForPlugin, EventsCover, LinesCover, NoErrorTaken,
         IsStreamError, SummaryKeepsPrefix
    <3>. QED BY <3>1, <3>2, <3>3, <3>4, <3>5, <3>6 DEF IInv
  <2>18. CASE JoinReaders
    <3>1. Control'
      BY <2>18 DEF JoinReaders, Return, SendersGone, Control
    <3>2. BeforeSpawn'
      BY <2>18 DEF JoinReaders, Return, SendersGone, BeforeSpawn
    <3>3. EventsCover'
      BY <2>18 DEF JoinReaders, Return, Control, EventsCover
    <3>4. LinesCover'
      BY <2>18 DEF JoinReaders, Return, Control, LinesCover
    <3>5. ThreadEnded'
      BY <2>18 DEF JoinReaders, Return, Control, ThreadEnded, AtEof,
         CurrentKind
    <3>6. NoErrorTaken'
      BY <2>18 DEF JoinReaders, Return, Control, NoErrorTaken, IsStreamError
    <3>7. ClosedPath'
      BY <2>18 DEF JoinReaders, Return, SendersGone, ClosedPath
    <3>8. Positions' /\ InHand' /\ EventsTaken' /\ LogInOrder'
      BY <2>18 DEF JoinReaders, Positions, InHand, CurrentKind, EventsTaken,
         LogInOrder
    <3>9. SummaryKeepsPrefix'
      BY <2>18 DEF JoinReaders, SummaryKeepsPrefix
    <3>. QED BY <3>1, <3>2, <3>3, <3>4, <3>5, <3>6, <3>7, <3>8, <3>9 DEF IInv
  <2>19. CASE Expire
    <3>1. Positions' /\ InHand' /\ Control' /\ BeforeSpawn'
      BY <2>19 DEF Expire, Positions, InHand, CurrentKind, Control,
         SendersGone, BeforeSpawn
    <3>2. EventsTaken' /\ LogInOrder' /\ EventsCover' /\ LinesCover'
      BY <2>19 DEF Expire, EventsTaken, LogInOrder, EventsCover, LinesCover
    <3>3. ThreadEnded' /\ NoErrorTaken' /\ ClosedPath' /\ SummaryKeepsPrefix'
      BY <2>19 DEF Expire, ThreadEnded, AtEof, CurrentKind, NoErrorTaken,
         IsStreamError, ClosedPath, SendersGone, SummaryKeepsPrefix
    <3>. QED BY <3>1, <3>2, <3>3 DEF IInv
  <2>20. CASE UNCHANGED vars
    BY <2>20 DEF vars, IInv, Positions, InHand, CurrentKind, Control,
       SendersGone, BeforeSpawn, EventsTaken, LogInOrder, EventsCover,
       LinesCover, ThreadEnded, AtEof, NoErrorTaken, IsStreamError,
       ClosedPath, SummaryKeepsPrefix
  <2>. QED
    BY <2>1, <2>2, <2>3, <2>4, <2>5, <2>6, <2>7, <2>8, <2>9, <2>10, <2>11,
       <2>12, <2>13, <2>14, <2>15, <2>16, <2>17, <2>18, <2>19, <2>20
       DEF Next, ProcessNext, ReaderNext, MainNext, Finished
<1>. QED BY <1>1

LEMMA InvInit == Init => IInv
<1> SUFFICES ASSUME Init PROVE IInv
  OBVIOUS
<1>1. Positions /\ InHand /\ BeforeSpawn /\ LinesCover
  BY DEF Init, Positions, InHand, BeforeSpawn, LinesCover, Streams
<1>2. Control /\ EventsTaken /\ LogInOrder /\ EventsCover
  BY DEF Init, Control, SendersGone, EventsTaken, LogInOrder, EventsCover
<1>3. ThreadEnded /\ NoErrorTaken /\ ClosedPath
  BY DEF Init, ThreadEnded, NoErrorTaken, ClosedPath
<1>4. SummaryKeepsPrefix
  BY CapacityAssumption DEF Init, SummaryKeepsPrefix
<1>. QED BY <1>1, <1>2, <1>3, <1>4 DEF IInv

\* The inductive invariant holds in every reachable state.
THEOREM Invariance == Spec => [](TypeOK /\ IInv)
<1>1. Init => IInv
  BY InvInit
<1>2. TypeOK /\ TypeOK' /\ IInv /\ [Next]_vars => IInv'
  BY InvStep
<1>. QED BY <1>1, <1>2, TypeCorrect, PTL DEF Spec

(***************************************************************************)
(* The safety properties.                                                  *)
(***************************************************************************)

\* A run that ends because both pipes closed has delivered every line to
\* the callbacks, for every capacity (run_tool_task, Disconnected arm).
THEOREM Completeness == Spec => []CompleteOnClose
<1>1. TypeOK /\ IInv => CompleteOnClose
  <2> SUFFICES ASSUME TypeOK, IInv, outcome = "okClosed"
               PROVE  AllDelivered
    BY DEF CompleteOnClose
  <2> USE DEF IInv
  <2>1. /\ \A s \in Streams : reader[s] = "done"
        /\ received = Len(events) /\ drained = lines
        /\ main = "returned"
    BY DEF ClosedPath, SendersGone, Control
  <2>2. /\ \A s \in Streams : consumed[s] \in Nat /\ Len(written[s]) \in Nat
        /\ Len(events) \in Nat /\ lines \in Nat
    BY DEF TypeOK
  <2>3. \A s \in Streams :
          consumed[s] = Len(written[s]) \/ (consumed[s] > 0
          /\ CurrentKind(s) = "bad")
    BY <2>1 DEF ThreadEnded, AtEof
  <2>4. ASSUME NEW s \in Streams, consumed[s] = Len(written[s])
        PROVE  DeliveredEvents(s) = EventLines(s)
    <3>1. DeliveredEvents(s) \subseteq EventLines(s)
      BY <2>1, <2>4 DEF EventsTaken, DeliveredEvents, EventLines
    <3>2. ASSUME NEW n \in EventLines(s)
          PROVE  n \in DeliveredEvents(s)
      <4>1. n \in 1 .. consumed[s] /\ AfterLine(s, written[s][n]) = "event"
        BY <2>4 DEF EventLines
      <4>2. PICK i \in 1 .. Len(events) : events[i].src = s /\ events[i].n = n
        BY <2>1, <4>1 DEF EventsCover
      <4>. QED BY <2>1, <4>2 DEF DeliveredEvents
    <3>. QED BY <3>1, <3>2
  <2>5. consumed["out"] = Len(written["out"])
    <3> SUFFICES ASSUME consumed["out"] > 0, CurrentKind("out") = "bad"
                 PROVE  FALSE
      BY <2>3 DEF Streams
    <3>1. /\ consumed["out"] \in 1 .. consumed["out"]
          /\ AfterLine("out", written["out"][consumed["out"]]) = "event"
      BY <2>2 DEF Streams, CurrentKind, AfterLine, AfterOutLine
    <3>2. PICK i \in 1 .. Len(events) :
                 events[i].src = "out" /\ events[i].n = consumed["out"]
      BY <2>1, <3>1 DEF EventsCover, Streams
    <3>3. IsStreamError(events[i])
      BY <3>2 DEF IsStreamError, CurrentKind
    <3>. QED BY <2>1, <3>2, <3>3 DEF NoErrorTaken
  <2>6. ~ErrBroken => consumed["err"] = Len(written["err"])
    <3> SUFFICES ASSUME ~ErrBroken, consumed["err"] > 0,
    CurrentKind("err") = "bad"
                 PROVE  FALSE
      BY <2>3 DEF Streams
    <3>1. consumed["err"] \in 1 .. Len(written["err"])
      BY <2>2 DEF Positions, Streams
    <3>. QED BY <3>1 DEF ErrBroken, CurrentKind
  <2>7. drained = consumed["err"]
    BY <2>1, <2>2 DEF LinesCover, Streams
  <2>. QED BY <2>4, <2>5, <2>6, <2>7 DEF AllDelivered, Streams
<1>. QED BY <1>1, Invariance, PTL

\* Two threads share the event channel, and each stream stays in order and
\* without duplicates (run_tool_task, reader threads).
THEOREM Order == Spec => []EventsInOrder
<1>1. TypeOK /\ IInv => EventsInOrder
  <2> SUFFICES ASSUME TypeOK, Positions, LogInOrder
               PROVE  EventsInOrder
    BY DEF IInv
  <2>1. received \in Nat /\ Len(events) \in Nat /\ received <= Len(events)
    BY DEF TypeOK, Positions
  <2>2. \A i \in 1 .. received : i \in 1 .. Len(events)
    BY <2>1
  <2>. QED BY <2>2 DEF LogInOrder, EventsInOrder
<1>. QED BY <1>1, Invariance, PTL

\* No call that returns Ok or Timeout leaves a plugin process or a thread
\* (run_tool_task, every return but the EventStream one).
THEOREM CleanReturn == Spec => []NothingLeftBehind
<1>1. TypeOK /\ IInv => NothingLeftBehind
  BY DEF IInv, Control, NothingLeftBehind
<1>. QED BY <1>1, Invariance, PTL

\* The summary's stderr lines are a prefix of what on_stderr saw, with the
\* sentinel exactly when it is a strict one (handle_stderr_line!).
THEOREM Summary == Spec => []SummaryKeepsPrefix
<1>1. TypeOK /\ IInv => SummaryKeepsPrefix
  BY DEF IInv
<1>. QED BY <1>1, Invariance, PTL

(***************************************************************************)
(* ToolRunner implements RunContract, for every capacity of the channels   *)
(* and of the pipes, every number of lines and every set of helpers.  The  *)
(* proof counts: what main has given to on_event maps one to one into the  *)
(* lines that were written, and onto them when the call returns because    *)
(* both pipes closed.                                                      *)
(***************************************************************************)

(***************************************************************************)
(* The kinds of line a stream can carry, and where the stderr thread stops.*)
(***************************************************************************)

KindsKept ==
  \A n \in 1 .. Len(written["out"]) : written["out"][n] \in {"event", "blank", "bad"}

\* The stderr thread takes no line after a read error.
ErrStops ==
  \A n \in 1 .. consumed["err"] :
    written["err"][n] = "bad" =>
      n = consumed["err"] /\ reader["err"] \in {"line", "done"}

LineInv == KindsKept /\ ErrStops

LEMMA LineInit == Init => LineInv
BY DEF Init, LineInv, KindsKept, ErrStops, Streams

\* A line that is written leaves the earlier ones in place.
LEMMA WrittenGrows ==
  ASSUME TypeOK, NEW p \in Processes, NEW s \in Streams, NEW k \in KindsOf(s),
         WriteLine(p, s, k)
  PROVE  /\ Len(written[s]) \in Nat /\ Len(written'[s]) = Len(written[s]) + 1
         /\ written'[s][Len(written[s]) + 1] = k
         /\ \A n \in 1 .. Len(written[s]) : written'[s][n] = written[s][n]
         /\ \A t \in Streams \ {s} : written'[t] = written[t]
<1>1. written[s] \in Seq({"event", "blank", "line", "long", "bad"})
  BY DEF TypeOK
<1>2. written'[s] = Append(written[s], k)
  BY DEF WriteLine, TypeOK
<1>3. \A t \in Streams \ {s} : written'[t] = written[t]
  BY DEF WriteLine, TypeOK
<1>4. k \in {"event", "blank", "line", "long", "bad"}
  BY KindAssumption DEF KindsOf
<1>. QED BY ONLY <1>1, <1>2, <1>3, <1>4

LEMMA LineNext ==
  ASSUME TypeOK, IInv, LineInv, [Next]_vars
  PROVE  LineInv'
<1>0. /\ consumed \in [Streams -> Nat] /\ "err" \in Streams /\ "out" \in Streams
      /\ reader \in [Streams -> {"read", "event", "line", "done"}]
      /\ consumed["err"] <= Len(written["err"])
  BY DEF TypeOK, Streams, IInv, Positions
<1>1. ASSUME NEW p \in Processes, NEW s \in Streams, NEW k \in KindsOf(s), WriteLine(p, s, k)
      PROVE  LineInv'
  <2>1. UNCHANGED <<consumed, reader>>
    BY <1>1 DEF WriteLine, readerVars
  <2>2. KindsKept'
    <3>1. CASE s = "out"
      <4>1. k \in {"event", "blank", "bad"}
        BY <3>1, KindAssumption DEF KindsOf
      <4>. QED BY <1>1, <3>1, <4>1, WrittenGrows DEF LineInv, KindsKept
    <3>2. CASE s # "out"
      BY <1>0, <1>1, <3>2, WrittenGrows DEF LineInv, KindsKept
    <3>. QED BY <3>1, <3>2
  <2>3. \A n \in 1 .. consumed["err"] : written'["err"][n] = written["err"][n]
    BY <1>0, <1>1, WrittenGrows
  <2>. QED BY <2>1, <2>2, <2>3 DEF LineInv, ErrStops
<1>2. ASSUME NEW s \in Streams, ReadLine(s)
      PROVE  LineInv'
  <2>1. /\ written' = written /\ reader[s] = "read"
        /\ consumed' = [consumed EXCEPT ![s] = @ + 1]
        /\ reader' = [reader EXCEPT ![s] = AfterLine(s, written[s][consumed[s] + 1])]
    BY <1>2 DEF ReadLine, processVars
  <2>2. ErrStops'
    <3>1. CASE s = "err"
      <4>1. AfterLine("err", "bad") = "line"
        BY DEF AfterLine, AfterErrLine
      <4>. QED BY <1>0, <2>1, <3>1, <4>1 DEF LineInv, ErrStops
    <3>2. CASE s # "err"
      BY <1>0, <2>1, <3>2 DEF LineInv, ErrStops
    <3>. QED BY <3>1, <3>2
  <2>. QED BY <2>1, <2>2 DEF LineInv, KindsKept
<1>3. ASSUME NEW s \in Streams, ReadEof(s) \/ SendEvent(s) \/ (s = "err" /\ SendLine)
      PROVE  LineInv'
  <2>1. UNCHANGED <<written, consumed>>
    BY <1>3 DEF ReadEof, SendEvent, SendLine, processVars
  <2>2. \/ reader'["err"] = reader["err"]
        \/ reader["err"] \in {"read", "event"} /\ reader'["err"] \in {"line", "done"}
        \/ CurrentKind("err") # "bad"
        \/ reader'["err"] = "done"
    BY <1>0, <1>3 DEF ReadEof, SendEvent, AfterSendEvent, SendLine
  <2>. QED BY <1>0, <2>1, <2>2 DEF LineInv, KindsKept, ErrStops, CurrentKind
<1>4. CASE Spawn
  <2>1. UNCHANGED <<written, consumed>> /\ consumed["err"] = 0
    BY <1>4 DEF Spawn, IInv, BeforeSpawn, Streams
  <2>. QED BY <2>1 DEF LineInv, KindsKept, ErrStops
<1>5. CASE UNCHANGED <<written, consumed, reader>>
  BY <1>5 DEF LineInv, KindsKept, ErrStops
<1>. QED
  BY <1>1, <1>2, <1>3, <1>4, <1>5
     DEF Next, ProcessNext, CloseStream, Exit, ReaderNext, MainNext, SpawnFails,
         DeadlineAhead, DeadlinePassed, RecvMessage, RecvTimesOut, RecvDisconnected,
         DrainLine, DrainEnds, WaitForPlugin, JoinReaders, Expire, Finished, vars,
         processVars, readerVars, mainVars

(***************************************************************************)
(* Counting.                                                               *)
(***************************************************************************)

LEMMA Intervals ==
  ASSUME NEW n \in Nat
  PROVE  IsFiniteSet(1 .. n) /\ Cardinality(1 .. n) = n
BY FS_Interval

LEMMA PartOfInterval ==
  ASSUME NEW n \in Nat, NEW S, S \subseteq 1 .. n
  PROVE  IsFiniteSet(S) /\ Cardinality(S) \in Nat /\ Cardinality(S) <= n
<1>1. IsFiniteSet(1 .. n) /\ Cardinality(1 .. n) = n /\ S \in SUBSET (1 .. n)
  BY Intervals
<1>2. IsFiniteSet(S) /\ Cardinality(S) <= Cardinality(1 .. n)
  BY <1>1, FS_Subset
<1>. QED BY <1>1, <1>2, FS_CardinalityType

LEMMA OneMore ==
  ASSUME NEW S, IsFiniteSet(S), NEW x, x \notin S
  PROVE  Cardinality(S \cup {x}) = Cardinality(S) + 1
BY FS_AddElement

LEMMA FiniteParts ==
  ASSUME TypeOK
  PROVE  /\ IsFiniteSet(OutLines) /\ IsFiniteSet(LogLines) /\ IsFiniteSet(Readable)
         /\ \A s : IsFiniteSet(Given(s))
<1>1. /\ Len(written["out"]) \in Nat /\ Len(written["err"]) \in Nat /\ received \in Nat
  BY DEF TypeOK, Streams
<1>2. /\ OutLines \subseteq 1 .. Len(written["out"])
      /\ Readable \subseteq 1 .. Len(written["err"])
      /\ LogLines \subseteq 1 .. Len(written["err"])
      /\ \A s : Given(s) \subseteq 1 .. received
  BY DEF OutLines, Readable, LogLines, Given
<1>. QED BY <1>1, <1>2, PartOfInterval

LinesOf(s) == IF s = "out" THEN OutLines ELSE LogLines

\* Messages that are not errors are lines that were written, and no two of them
\* are one line.
LEMMA GivenWritten ==
  ASSUME TypeOK, IInv, LineInv, NEW s \in Streams,
         NEW G, G \subseteq {i \in 1 .. Len(events) :
                               events[i].src = s /\ ~IsStreamError(events[i])}
  PROVE  /\ Cardinality(G) <= Cardinality(LinesOf(s))
         /\ (\A n \in LinesOf(s) : \E i \in G : events[i].n = n)
              => Cardinality(G) = Cardinality(LinesOf(s))
<1>. DEFINE f == [i \in G |-> events[i].n]
<1>0. \A t \in Streams :
        consumed[t] \in Nat /\ Len(written[t]) \in Nat /\ consumed[t] <= Len(written[t])
  BY DEF TypeOK, IInv, Positions
<1>1. \A i \in G : /\ i \in 1 .. Len(events) /\ events[i].src = s
                  /\ events[i].n \in Nat /\ ~IsStreamError(events[i])
  BY EventTypes
<1>2. ASSUME NEW i \in G PROVE events[i].n \in LinesOf(s)
  <2>1. /\ events[i].n \in 1 .. consumed[s]
        /\ AfterLine(s, written[s][events[i].n]) = "event"
    BY <1>1 DEF IInv, EventsTaken
  <2>2. CASE s = "out"
    <3>1. written["out"][events[i].n] \notin {"blank", "bad"}
      BY <1>1, <2>1, <2>2 DEF IsStreamError, AfterLine, AfterOutLine
    <3>. QED BY <1>0, <2>1, <2>2, <3>1 DEF LinesOf, OutLines, LineInv, KindsKept, Streams
  <2>3. CASE s = "err"
    <3>1. written["err"][events[i].n] = "line"
      BY <2>1, <2>3 DEF AfterLine, AfterErrLine
    <3>2. \A m \in 1 .. (events[i].n - 1) : written["err"][m] # "bad"
      BY <1>0, <2>1, <2>3 DEF LineInv, ErrStops
    <3>. QED BY <1>0, <2>1, <2>3, <3>1, <3>2 DEF LinesOf, LogLines, Readable
  <2>. QED BY <2>2, <2>3 DEF Streams
<1>3. \A i, j \in G : events[i].n = events[j].n => i = j
  BY <1>1 DEF IInv, LogInOrder
<1>4. f \in Injection(G, LinesOf(s))
  BY <1>2, <1>3 DEF Injection, IsInjective
<1>5. IsFiniteSet(LinesOf(s))
  BY FiniteParts DEF LinesOf
<1>6. (\A n \in LinesOf(s) : \E i \in G : events[i].n = n) => f \in Surjection(G, LinesOf(s))
  BY <1>2 DEF Surjection
<1>. HIDE DEF f
<1>. QED BY <1>4, <1>5, <1>6, FS_Injection

\* The lines the stderr thread has taken can all reach the host.
LEMMA TakenReadable ==
  ASSUME TypeOK, IInv, LineInv
  PROVE  /\ 1 .. consumed["err"] \subseteq Readable
         /\ consumed["err"] <= Cardinality(Readable)
<1>1. /\ consumed["err"] \in Nat /\ Len(written["err"]) \in Nat
      /\ consumed["err"] <= Len(written["err"])
  BY DEF TypeOK, IInv, Positions, Streams
<1>2. 1 .. consumed["err"] \subseteq Readable
  BY <1>1 DEF LineInv, ErrStops, Readable
<1>. QED BY <1>1, <1>2, FiniteParts, Intervals, FS_Subset

(***************************************************************************)
(* The feeds.                                                              *)
(***************************************************************************)

\* Which feed the messages of a stream belong to.
FeedOf(s) == IF s = "out" THEN "out" ELSE "log"

LEMMA ShownAt ==
  ASSUME TypeOK, NEW s \in Streams
  PROVE  /\ Shown[FeedOf(s)] = Cardinality(Given(s))
         /\ Wrote[FeedOf(s)] = Cardinality(LinesOf(s))
         /\ Shown["text"] = drained /\ Wrote["text"] = Cardinality(Readable)
BY DEF Shown, Wrote, FeedOf, LinesOf, Streams

LEMMA SameWrote ==
  ASSUME written' = written
  PROVE  Wrote' = Wrote
BY DEF Wrote, OutLines, LogLines, Readable

LEMMA SameGiven ==
  ASSUME received' = received,
         \A i \in 1 .. received :
           /\ events'[i] = events[i]
           /\ IsStreamError(events[i])' <=> IsStreamError(events[i])
  PROVE  \A s : Given(s)' = Given(s)
BY DEF Given

LEMMA SameShown ==
  ASSUME \A s : Given(s)' = Given(s), drained' = drained
  PROVE  Shown' = Shown
BY DEF Shown

\* A step that leaves the lines, the messages and the callbacks alone.
LEMMA Quiet ==
  ASSUME UNCHANGED <<written, events, received, drained>>
  PROVE  UNCHANGED <<Wrote, Shown>>
BY SameWrote, SameGiven, SameShown DEF IsStreamError

\* A process writes a line: it counts for the feeds it belongs to.
LEMMA WriteLineShown ==
  ASSUME TypeOK, IInv, NEW p \in Processes, NEW s \in Streams, NEW k \in KindsOf(s),
         WriteLine(p, s, k)
  PROVE  Shown' = Shown
<1>1. received' = received /\ events' = events /\ drained' = drained
  BY DEF WriteLine, mainVars
<1>2. ASSUME NEW i \in 1 .. received
      PROVE  IsStreamError(events[i])' <=> IsStreamError(events[i])
  <2>0. received \in Nat /\ Len(events) \in Nat /\ received <= Len(events)
    BY DEF IInv, Positions, TypeOK
  <2>1. i \in 1 .. Len(events) /\ events[i].src \in Streams
    <3>1. i \in 1 .. Len(events)
      BY <2>0
    <3>. QED BY <3>1, EventTypes
  <2>2. events[i].n \in 1 .. Len(written[events[i].src])
    BY <2>1 DEF IInv, EventsTaken, Positions, TypeOK
  <2>3. written'[events[i].src][events[i].n] = written[events[i].src][events[i].n]
    BY <2>1, <2>2, WrittenGrows
  <2>. QED BY <1>1, <2>3 DEF IsStreamError
<1>. QED BY <1>1, <1>2, SameGiven, SameShown

LEMMA WriteOut ==
  ASSUME TypeOK, NEW p \in Processes, NEW k \in KindsOf("out"), WriteLine(p, "out", k)
  PROVE  Wrote' = Wrote \/ Wrote' = [Wrote EXCEPT !["out"] = @ + 1]
<1>. DEFINE n == Len(written["out"]) + 1
<1>1. "out" \in Streams /\ "err" \in Streams
  BY DEF Streams
<1>2. /\ Len(written["out"]) \in Nat /\ Len(written'["out"]) = n
      /\ written'["out"][n] = k
      /\ \A m \in 1 .. Len(written["out"]) : written'["out"][m] = written["out"][m]
      /\ written'["err"] = written["err"]
  BY <1>1, WrittenGrows
<1>3. LogLines' = LogLines /\ Readable' = Readable
  BY <1>2 DEF LogLines, Readable
<1>4. CASE k = "event"
  <2>1. OutLines' = OutLines \cup {n} /\ n \notin OutLines
    BY <1>2, <1>4 DEF OutLines
  <2>2. Cardinality(OutLines') = Cardinality(OutLines) + 1
    BY <2>1, FiniteParts, OneMore
  <2>. QED BY <1>3, <2>2 DEF Wrote
<1>5. CASE k # "event"
  <2>1. OutLines' = OutLines
    BY <1>2, <1>5 DEF OutLines
  <2>. QED BY <1>3, <2>1 DEF Wrote
<1>. QED BY <1>4, <1>5

LEMMA WriteErr ==
  ASSUME TypeOK, NEW p \in Processes, NEW k \in KindsOf("err"), WriteLine(p, "err", k)
  PROVE  \/ Wrote' = Wrote
         \/ Wrote' = [Wrote EXCEPT !["text"] = @ + 1]
         \/ Wrote' = [Wrote EXCEPT !["text"] = @ + 1, !["log"] = @ + 1]
<1>. DEFINE n == Len(written["err"]) + 1
<1>1. "out" \in Streams /\ "err" \in Streams
  BY DEF Streams
<1>2. /\ Len(written["err"]) \in Nat /\ Len(written'["err"]) = n
      /\ written'["err"][n] = k
      /\ \A m \in 1 .. Len(written["err"]) : written'["err"][m] = written["err"][m]
      /\ written'["out"] = written["out"]
  BY <1>1, WrittenGrows
<1>3. OutLines' = OutLines
  BY <1>2 DEF OutLines
<1>4. Readable' \subseteq 1 .. n /\ \A x \in 1 .. n : x # n => (x \in Readable' <=> x \in Readable)
  <2>1. Readable' \subseteq 1 .. n
    BY <1>2 DEF Readable
  <2>2. ASSUME NEW x \in 1 .. n, x # n PROVE x \in Readable' <=> x \in Readable
    <3>1. /\ x \in 1 .. Len(written["err"])
          /\ \A m \in 1 .. (x - 1) : m \in 1 .. Len(written["err"])
      BY <1>2, <2>2
    <3>. QED BY <1>2, <3>1 DEF Readable
  <2>. QED BY <2>1, <2>2
<1>5. Readable \subseteq 1 .. n /\ n \notin Readable
  BY <1>2 DEF Readable
<1>6. \A x : x # n => (x \in Readable' <=> x \in Readable)
  BY <1>4, <1>5
<1>7. CASE \E m \in 1 .. Len(written["err"]) : written["err"][m] = "bad"
  <2>0. n \notin Readable'
    BY <1>2, <1>7 DEF Readable
  <2>1. Readable' = Readable
    <3>. HIDE DEF n
    <3>. QED BY <1>5, <1>6, <2>0
  <2>2. \A m \in Readable : written'["err"][m] = written["err"][m]
    BY <1>2 DEF Readable
  <2>3. LogLines' = LogLines
    BY <2>1, <2>2 DEF LogLines
  <2>. QED BY <1>3, <2>1, <2>3 DEF Wrote
<1>8. CASE \A m \in 1 .. Len(written["err"]) : written["err"][m] # "bad"
  <2>0. n \in Readable' /\ n \notin Readable
    <3>1. n \notin 1 .. Len(written["err"])
      BY <1>2
    <3>2. n \in 1 .. n /\ \A m \in 1 .. (n - 1) : m \in 1 .. Len(written["err"])
      BY <1>2
    <3>. QED BY <1>2, <1>8, <3>1, <3>2 DEF Readable
  <2>1. Readable' = Readable \cup {n} /\ n \notin Readable
    BY <1>4, <1>5, <2>0
  <2>2. Cardinality(Readable') = Cardinality(Readable) + 1
    BY <2>1, FiniteParts, OneMore
  <2>3. \A m \in Readable : written'["err"][m] = written["err"][m]
    BY <1>2 DEF Readable
  <2>4. CASE k = "line"
    <3>1. LogLines' = LogLines \cup {n} /\ n \notin LogLines
      BY <1>2, <2>1, <2>3, <2>4 DEF LogLines
    <3>2. Cardinality(LogLines') = Cardinality(LogLines) + 1
      BY <3>1, FiniteParts, OneMore
    <3>. QED BY <1>3, <2>2, <3>2 DEF Wrote
  <2>5. CASE k # "line"
    <3>1. LogLines' = LogLines
      BY <1>2, <2>1, <2>3, <2>5 DEF LogLines
    <3>. QED BY <1>3, <2>2, <3>1 DEF Wrote
  <2>. QED BY <2>4, <2>5
<1>. QED BY <1>7, <1>8

\* A message that main gives to on_event is one more of its feed, and the feed
\* was not exhausted.
LEMMA GiveEvent ==
  ASSUME TypeOK, IInv, LineInv, RecvMessage, NEW s \in Streams,
         events[received + 1].src = s, ~IsStreamError(events[received + 1])
  PROVE  /\ Shown[FeedOf(s)] < Wrote[FeedOf(s)]
         /\ Shown' = [Shown EXCEPT ![FeedOf(s)] = @ + 1]
<1>1. /\ received \in Nat /\ Len(events) \in Nat /\ received < Len(events)
      /\ received' = received + 1
      /\ UNCHANGED <<written, events, drained>>
  BY DEF RecvMessage, TypeOK, processVars
<1>2. /\ Given(s)' = Given(s) \cup {received + 1}
      /\ received + 1 \notin Given(s)
      /\ \A t \in Streams \ {s} : Given(t)' = Given(t)
  BY <1>1 DEF Given, IsStreamError
<1>3. Cardinality(Given(s)') = Cardinality(Given(s)) + 1
  BY <1>2, FiniteParts, OneMore
<1>4. Cardinality(Given(s)') <= Cardinality(LinesOf(s))
  <2>1. Given(s)' \subseteq {i \in 1 .. Len(events) :
                               events[i].src = s /\ ~IsStreamError(events[i])}
    BY <1>1 DEF Given, IsStreamError
  <2>. QED BY <2>1, GivenWritten
<1>5. Cardinality(Given(s)) \in Nat /\ Cardinality(LinesOf(s)) \in Nat
  BY FiniteParts, FS_CardinalityType DEF LinesOf
<1>6. Shown[FeedOf(s)] < Wrote[FeedOf(s)]
  BY <1>3, <1>4, <1>5, ShownAt
<1>7. Shown' = [Shown EXCEPT ![FeedOf(s)] = @ + 1]
  BY <1>1, <1>2, <1>3 DEF Shown, FeedOf, Streams
<1>. QED BY <1>6, <1>7

\* So is a line that main gives to on_stderr.
LEMMA GiveLine ==
  ASSUME TypeOK, IInv, LineInv, DrainLine
  PROVE  /\ Shown["text"] < Wrote["text"]
         /\ Shown' = [Shown EXCEPT !["text"] = @ + 1]
<1>1. /\ drained' = drained + 1 /\ drained < lines
      /\ UNCHANGED <<written, events, received>>
      /\ outcome # "streamError"
  BY DEF DrainLine, Draining, processVars, IInv, Control
<1>2. drained \in Nat /\ lines \in Nat /\ consumed["err"] \in Nat /\ lines <= consumed["err"]
  BY <1>1 DEF TypeOK, IInv, LinesCover, Streams
<1>3. consumed["err"] <= Cardinality(Readable) /\ Cardinality(Readable) \in Nat
  BY TakenReadable, FiniteParts, FS_CardinalityType
<1>4. Shown["text"] < Wrote["text"]
  BY <1>1, <1>2, <1>3 DEF Shown, Wrote
<1>5. \A s : Given(s)' = Given(s)
  BY <1>1, SameGiven DEF IsStreamError
<1>. QED BY <1>1, <1>4, <1>5 DEF Shown

\* When main has joined the readers after both pipes closed, nothing is left
\* to show.
LEMMA AllShown ==
  ASSUME TypeOK, IInv, LineInv, main = "joinClosed"
  PROVE  Shown = Wrote
<1>1. /\ reader["out"] = "done" /\ reader["err"] = "done"
      /\ received = Len(events) /\ drained = lines /\ outcome = "none"
  BY DEF IInv, ClosedPath, SendersGone, Control, Streams
<1>2. \A s \in Streams :
        /\ consumed[s] \in Nat /\ Len(written[s]) \in Nat /\ consumed[s] <= Len(written[s])
        /\ consumed[s] = Len(written[s]) \/ (consumed[s] > 0 /\ CurrentKind(s) = "bad")
  BY <1>1 DEF TypeOK, IInv, Positions, ThreadEnded, AtEof, Streams
<1>3. \A s \in Streams : \A n \in 1 .. consumed[s] :
        AfterLine(s, written[s][n]) = "event" =>
          \E i \in 1 .. Len(events) : events[i].src = s /\ events[i].n = n
  BY <1>1 DEF IInv, EventsCover, Streams
<1>4. \A i \in 1 .. Len(events) : ~IsStreamError(events[i])
  BY <1>1 DEF IInv, NoErrorTaken
<1>5. consumed["out"] = Len(written["out"])
  <2>1. SUFFICES ASSUME consumed["out"] > 0, CurrentKind("out") = "bad" PROVE FALSE
    BY <1>2 DEF Streams
  <2>2. AfterLine("out", written["out"][consumed["out"]]) = "event"
    BY <2>1 DEF CurrentKind, AfterLine, AfterOutLine
  <2>3. PICK i \in 1 .. Len(events) : events[i].src = "out" /\ events[i].n = consumed["out"]
    BY <1>2, <1>3, <2>1, <2>2 DEF Streams
  <2>. QED BY <1>4, <2>1, <2>3 DEF IsStreamError, CurrentKind
<1>6. Readable = 1 .. consumed["err"]
  BY <1>2, TakenReadable DEF Readable, CurrentKind, Streams
<1>7. drained = consumed["err"]
  BY <1>1, <1>2 DEF TypeOK, IInv, LinesCover, Streams
<1>8. drained = Cardinality(Readable)
  BY <1>2, <1>6, <1>7, Intervals DEF Streams
<1>9. ASSUME NEW s \in Streams
      PROVE  Cardinality(Given(s)) = Cardinality(LinesOf(s))
  <2>1. Given(s) = {i \in 1 .. Len(events) : events[i].src = s /\ ~IsStreamError(events[i])}
    BY <1>1 DEF Given
  <2>2. ASSUME NEW n \in LinesOf(s)
        PROVE  n \in 1 .. consumed[s] /\ AfterLine(s, written[s][n]) = "event"
    <3>1. CASE s = "out"
      BY <1>5, <3>1 DEF LinesOf, OutLines, AfterLine, AfterOutLine
    <3>2. CASE s = "err"
      BY <1>6, <3>2 DEF LinesOf, LogLines, AfterLine, AfterErrLine
    <3>. QED BY <3>1, <3>2 DEF Streams
  <2>3. \A n \in LinesOf(s) : \E i \in Given(s) : events[i].n = n
    BY <1>3, <1>4, <2>1, <2>2
  <2>. QED BY <2>1, <2>3, GivenWritten
<1>10. /\ Cardinality(Given("out")) = Cardinality(OutLines)
       /\ Cardinality(Given("err")) = Cardinality(LogLines)
  BY <1>9 DEF LinesOf, Streams
<1>. QED BY <1>8, <1>10 DEF Shown, Wrote

(***************************************************************************)
(* Step by step.                                                           *)
(***************************************************************************)

CVars == <<Wrote, Shown, PluginIs, outcome>>

LEMMA ContractInit == Init => Contract!Init
<1>. SUFFICES ASSUME Init PROVE Contract!Init
  OBVIOUS
<1>1. OutLines = {} /\ Readable = {} /\ LogLines = {} /\ \A s : Given(s) = {}
  BY DEF Init, OutLines, Readable, LogLines, Given, Streams
<1>2. Cardinality({}) = 0
  BY FS_EmptySet
<1>. QED BY <1>1, <1>2 DEF Init, Contract!Init, Contract!Feeds, Wrote, Shown, PluginIs

\* Nothing that the caller sees has changed.
LEMMA Stutter ==
  ASSUME UNCHANGED <<written, events, received, drained, outcome>>, PluginIs' = PluginIs
  PROVE  UNCHANGED CVars
BY Quiet DEF CVars

\* Only Spawn and SpawnFails leave "spawn".
PastSpawn == main # "spawn" /\ main' # "spawn"

LEMMA SameMain ==
  ASSUME alive' = alive, PastSpawn,
         outcome' = outcome \/ (outcome = "none" /\ outcome' # "spawnError")
  PROVE  PluginIs' = PluginIs
BY DEF PluginIs, PastSpawn

\* The plugin dies, of itself or by kill.
LEMMA PluginDies ==
  ASSUME UNCHANGED <<written, events, received, drained, outcome>>,
         alive' \in {alive, alive \ {Plugin}}, (main = "spawn") <=> (main' = "spawn")
  PROVE  Contract!Next \/ UNCHANGED CVars
<1>1. UNCHANGED <<Wrote, Shown>>
  BY Quiet
<1>2. CASE PluginIs = "running" /\ PluginIs' = "gone"
  BY <1>1, <1>2 DEF Contract!Next, Contract!PluginEnds
<1>3. CASE PluginIs' = PluginIs
  BY <1>1, <1>3 DEF CVars
<1>. QED BY <1>2, <1>3 DEF PluginIs

LEMMA ProcessMapped ==
  ASSUME TypeOK, IInv, ProcessNext
  PROVE  Contract!Next \/ UNCHANGED CVars
<1>1. ASSUME NEW p \in Processes, NEW s \in Streams, NEW k \in KindsOf(s), WriteLine(p, s, k)
      PROVE  Contract!Next \/ UNCHANGED CVars
  <2>1. UNCHANGED <<alive, main, outcome, Shown, PluginIs>>
    BY <1>1, WriteLineShown DEF WriteLine, mainVars, PluginIs
  <2>2. main # "spawn" /\ outcome \in {"none", "streamError"}
    BY <1>1 DEF WriteLine, IInv, Control, SendersGone
  <2>3. PluginIs # "none"
    BY <2>2 DEF PluginIs
  <2>4. \A f, g : Wrote' = [Wrote EXCEPT ![f] = @ + 1]
                    => Wrote' = [h \in Contract!Feeds |->
                                   IF h \in {f} THEN Wrote[h] + 1 ELSE Wrote[h]]
    BY DEF Wrote, Contract!Feeds
  <2>5. Wrote' = [Wrote EXCEPT !["text"] = @ + 1, !["log"] = @ + 1]
          => Wrote' = [h \in Contract!Feeds |->
                         IF h \in {"log", "text"} THEN Wrote[h] + 1 ELSE Wrote[h]]
    BY DEF Wrote, Contract!Feeds
  <2>6. \/ Wrote' = Wrote
        \/ Wrote' = [Wrote EXCEPT !["out"] = @ + 1]
        \/ Wrote' = [Wrote EXCEPT !["text"] = @ + 1]
        \/ Wrote' = [Wrote EXCEPT !["text"] = @ + 1, !["log"] = @ + 1]
    BY <1>1, WriteOut, WriteErr DEF Streams
  <2>7. CASE Wrote' = Wrote
    BY <2>1, <2>7 DEF CVars
  <2>8. CASE Wrote' # Wrote
    <3>1. \E F \in {{"out"}, {"text"}, {"log", "text"}} :
            Wrote' = [h \in Contract!Feeds |-> IF h \in F THEN Wrote[h] + 1 ELSE Wrote[h]]
      BY <2>4, <2>5, <2>6, <2>8
    <3>. QED BY <2>1, <2>2, <2>3, <3>1 DEF Contract!Next, Contract!Write
  <2>. QED BY <2>7, <2>8
<1>2. ASSUME NEW p \in Processes, NEW s \in Streams, CloseStream(p, s)
      PROVE  Contract!Next \/ UNCHANGED CVars
  BY <1>2, PluginDies DEF CloseStream, mainVars
<1>3. ASSUME NEW p \in Processes, Exit(p)
      PROVE  Contract!Next \/ UNCHANGED CVars
  <2>1. CASE p = Plugin
    BY <1>3, <2>1, PluginDies DEF Exit, mainVars
  <2>2. CASE p # Plugin
    <3>1. (Plugin \in alive) <=> (Plugin \in alive')
      BY <1>3, <2>2 DEF Exit
    <3>2. UNCHANGED <<written, events, received, drained, main, outcome>>
      BY <1>3 DEF Exit, mainVars
    <3>. QED BY <3>1, <3>2, Stutter DEF PluginIs
  <2>. QED BY <2>1, <2>2
<1>. QED BY <1>1, <1>2, <1>3 DEF ProcessNext

LEMMA ReaderMapped ==
  ASSUME TypeOK, IInv, NEW s \in Streams, ReaderNext(s)
  PROVE  UNCHANGED CVars
<1>1. UNCHANGED <<alive, written, received, drained, main, outcome>>
  BY DEF ReaderNext, ReadLine, ReadEof, SendEvent, SendLine, processVars, mainVars
<1>2. PluginIs' = PluginIs
  BY <1>1 DEF PluginIs
<1>3. CASE events' = events
  BY <1>1, <1>2, <1>3, Stutter
<1>4. CASE events' # events
  <2>1. events' = Append(events, [src |-> s, n |-> consumed[s]])
    BY <1>4 DEF ReaderNext, ReadLine, ReadEof, SendEvent, SendLine
  <2>2. events \in Seq(Message) /\ received \in Nat /\ received <= Len(events)
    BY DEF TypeOK, IInv, Positions
  <2>3. \A i \in 1 .. received : events'[i] = events[i]
    BY <2>1, <2>2
  <2>. QED BY <1>1, <1>2, <2>3, SameWrote, SameGiven, SameShown DEF IsStreamError, CVars
<1>. QED BY <1>3, <1>4

LEMMA MainMapped ==
  ASSUME TypeOK, IInv, LineInv, MainNext
  PROVE  Contract!Next \/ UNCHANGED CVars
<1>0. outcome # "none" <=> main = "returned"
  BY DEF IInv, Control
<1>1. CASE Spawn
  <2>1. UNCHANGED <<Wrote, Shown>> /\ outcome' = outcome
    BY <1>1, Quiet DEF Spawn
  <2>2. PluginIs = "none" /\ PluginIs' = "running" /\ outcome = "none"
    BY <1>0, <1>1 DEF Spawn, PluginIs
  <2>. QED BY <2>1, <2>2 DEF Contract!Next, Contract!Start
<1>2. CASE SpawnFails
  <2>1. UNCHANGED <<Wrote, Shown>> /\ outcome = "none" /\ outcome' = "spawnError"
    BY <1>0, <1>2, Quiet DEF SpawnFails, Return, processVars
  <2>2. PluginIs = "none" /\ PluginIs' = "none"
    BY <1>2, <2>1 DEF SpawnFails, PluginIs
  <2>. QED BY <2>1, <2>2 DEF Contract!Next, Contract!Return, Contract!Promise
<1>3. CASE \/ DeadlineAhead \/ RecvTimesOut \/ RecvDisconnected \/ DrainEnds \/ WaitForPlugin
  <2>1. UNCHANGED <<alive, written, events, received, drained, outcome>>
    BY <1>3 DEF DeadlineAhead, RecvTimesOut, RecvDisconnected, DrainEnds, WaitForPlugin,
                processVars
  <2>2. PastSpawn
    BY <1>3 DEF PastSpawn, DeadlineAhead, RecvTimesOut, RecvDisconnected, DrainEnds,
                Draining, WaitForPlugin
  <2>. QED BY <2>1, <2>2, SameMain, Stutter
<1>4. CASE DeadlinePassed
  BY <1>4, PluginDies DEF DeadlinePassed, KillPlugin
<1>5. CASE RecvMessage
  <2>1. UNCHANGED <<alive, written, events, drained>> /\ PastSpawn /\ outcome = "none"
    BY <1>0, <1>5 DEF RecvMessage, Return, PastSpawn, processVars
  <2>2. Wrote' = Wrote
    BY <2>1, SameWrote
  <2>3. events[received + 1].src \in Streams /\ received \in Nat
        /\ received < Len(events) /\ received' = received + 1
    BY <1>5, EventTypes DEF RecvMessage, TypeOK
  <2>4. CASE IsStreamError(events[received + 1])
    <3>1. outcome' = "streamError"
      BY <1>5, <2>4 DEF RecvMessage, Return
    <3>2. \A s : Given(s)' = Given(s)
      BY <2>1, <2>3, <2>4 DEF Given, IsStreamError
    <3>3. Shown' = Shown
      BY <2>1, <3>2, SameShown
    <3>4. PluginIs' = PluginIs /\ PluginIs # "none"
      BY <2>1, <3>1, SameMain DEF PluginIs, PastSpawn
    <3>. QED BY <2>1, <2>2, <3>1, <3>3, <3>4 DEF Contract!Next, Contract!Return, Contract!Promise
  <2>5. CASE ~IsStreamError(events[received + 1])
    <3>1. outcome' = outcome /\ PluginIs' = PluginIs
      BY <1>5, <2>1, <2>5, SameMain DEF RecvMessage
    <3>2. PICK f \in Contract!Feeds :
            Shown[f] < Wrote[f] /\ Shown' = [Shown EXCEPT ![f] = @ + 1]
      BY <1>5, <2>3, <2>5, GiveEvent DEF FeedOf, Contract!Feeds
    <3>. QED BY <2>1, <2>2, <3>1, <3>2 DEF Contract!Next, Contract!Show
  <2>. QED BY <2>4, <2>5
<1>6. CASE DrainLine
  <2>1. /\ UNCHANGED <<alive, written, events, received, main, outcome>>
        /\ outcome = "none"
    BY <1>0, <1>6 DEF DrainLine, Draining, processVars
  <2>2. Wrote' = Wrote /\ PluginIs' = PluginIs
    BY <2>1, SameWrote DEF PluginIs
  <2>. QED BY <1>6, <2>1, <2>2, GiveLine DEF Contract!Next, Contract!Show, Contract!Feeds
<1>7. CASE JoinReaders
  <2>1. /\ UNCHANGED <<alive, written, events, received, drained>>
        /\ PastSpawn /\ outcome = "none" /\ reaped
        /\ outcome' \in {"okExit", "okClosed", "timeout"}
        /\ outcome' = "okClosed" => main = "joinClosed"
    BY <1>0, <1>7 DEF JoinReaders, Return, PastSpawn, processVars, IInv, Control
  <2>2. UNCHANGED <<Wrote, Shown, PluginIs>>
    BY <2>1, Quiet, SameMain
  <2>3. PluginIs = "gone"
    BY <2>1 DEF PluginIs, PastSpawn, IInv, Control
  <2>4. outcome' = "okClosed" => Shown = Wrote
    BY <2>1, AllShown
  <2>. QED BY <2>1, <2>2, <2>3, <2>4 DEF Contract!Next, Contract!Return, Contract!Promise
<1>. QED BY <1>1, <1>2, <1>3, <1>4, <1>5, <1>6, <1>7 DEF MainNext

LEMMA ContractNext ==
  ASSUME TypeOK, IInv, LineInv, [Next]_vars
  PROVE  [Contract!Next]_CVars
<1>1. CASE Expire \/ Finished \/ UNCHANGED vars
  BY <1>1, Stutter DEF Expire, Finished, vars, processVars, mainVars, PluginIs
<1>. QED BY <1>1, ProcessMapped, ReaderMapped, MainMapped DEF Next

\* run_tool_task keeps its contract: each step of the threads and processes is
\* one that RunContract allows or one its caller cannot see (runner.rs:105-299).
THEOREM Implements == Spec => ImplementsContract
<1>1. Init => Contract!Init
  BY ContractInit
<1>2. TypeOK /\ IInv /\ LineInv /\ [Next]_vars => LineInv'
  BY LineNext
<1>3. TypeOK /\ IInv /\ LineInv /\ [Next]_vars => [Contract!Next]_(Contract!vars)
  BY ContractNext DEF Contract!vars, CVars
<1>. QED
  BY <1>1, <1>2, <1>3, LineInit, Invariance, PTL DEF Spec, ImplementsContract, Contract!Spec
=============================================================================
