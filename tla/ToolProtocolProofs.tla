-------------------------- MODULE ToolProtocolProofs --------------------------
(***************************************************************************)
(* What a protocol command answers, which error wins and what it leaves,   *)
(* for every limit, pipe and amount of output.                             *)
(***************************************************************************)
EXTENDS ToolProtocol, TLAPS

USE LimitAssumption DEF LimitAssumption

\* Every variable keeps its type.
THEOREM TypeCorrect == Spec => []TypeOK
<1>1. Init => TypeOK
  <2> SUFFICES ASSUME Init PROVE TypeOK
    OBVIOUS
  <2>1. helped \in BOOLEAN /\ expired \in BOOLEAN
    BY Zenon DEF Init
  <2>2. /\ holders \in [Streams -> SUBSET Holders]
        /\ written \in [Streams -> 0..MaxBytes]
        /\ reader \in [Streams -> {"none", "read", "done"}]
        /\ buf \in [Streams -> Nat]
    BY DEF Init
  <2>. QED BY <2>1, <2>2 DEF Init, TypeOK, Joins, Results
<1>2. TypeOK /\ [Next]_vars => TypeOK'
  <2> SUFFICES ASSUME TypeOK, [Next]_vars PROVE TypeOK'
    OBVIOUS
  <2> USE DEF TypeOK, Streams, Holders, Joins, Results
  <2>1. CASE Spawn
    BY <2>1 DEF Spawn
  <2>2. CASE Poll
    BY <2>2 DEF Poll, KillAndWait
  <2>3. CASE Late
    BY <2>3 DEF Late, KillAndWait
  <2>4. CASE Join
    BY <2>4 DEF Join, Judge, Answers
  <2>5. ASSUME NEW s \in Streams, Reader(s) PROVE TypeOK'
    BY <2>5 DEF Reader, Take, StopReading
  <2>6. CASE StartHelper
    BY <2>6 DEF StartHelper
  <2>7. CASE EndPlugin
    BY <2>7 DEF EndPlugin
  <2>8. CASE Expire
    <3>1. expired' \in BOOLEAN
      BY <2>8, Zenon DEF Expire
    <3>. QED BY <2>8, <3>1 DEF Expire
  <2>9. ASSUME NEW s \in Streams, Write(s) PROVE TypeOK'
    <3>1. written[s] + 1 \in 0..MaxBytes
      BY <2>9 DEF Write
    <3>. QED BY <2>9, <3>1 DEF Write
  <2>10. ASSUME NEW s \in Streams, NEW x \in Holders, Close(s, x) PROVE TypeOK'
    BY <2>10 DEF Close
  <2>11. CASE Finished \/ UNCHANGED vars
    BY <2>11 DEF Finished, vars
  <2>. QED
    BY <2>1, <2>2, <2>3, <2>4, <2>5, <2>6, <2>7, <2>8, <2>9, <2>10, <2>11
       DEF Next, Host, Environment
<1>. QED BY <1>1, <1>2, PTL DEF Spec

-----------------------------------------------------------------------------
(* The inductive invariant.                                                *)

\* A thread has taken no more than there was, and one byte past the limit at
\* most; when it has ended, it is past the limit or has everything there will
\* ever be.
Counted ==
  \A s \in Streams :
    /\ buf[s] <= written[s]
    /\ reader[s] = "done" => buf[s] > Limit \/ (holders[s] = {} /\ buf[s] = written[s])

\* A plugin that has ended holds no pipe.
Released == plugin # "alive" => \A s \in Streams : "plugin" \notin holders[s]

\* What each point of the calling thread implies about plugin and threads.
Control ==
  /\ main = "start" => plugin = "none" /\ \A s \in Streams : reader[s] = "none"
  /\ main \notin {"start", "returned"} => plugin # "none"
  /\ main \in Joins \cup {"returned"} => plugin # "alive"
  /\ main = "returned" => \A s \in Streams : reader[s] # "read"
  /\ main # "returned" => result = "none"

\* What a verdict on the output rests on.
Judged ==
  result \notin {"none", "Timeout", "Spawn"} =>
    /\ \A s \in Streams : reader[s] = "done"
    /\ result = "Oversized" <=> \E s \in Streams : buf[s] > Limit
    /\ result \in {"Ok", "Json", "UnexpectedEnvelope"} => plugin = "success"

PInv == Counted /\ Released /\ Control /\ Judged

LEMMA PInit == Init => PInv
BY DEF Init, PInv, Counted, Released, Control, Judged, Streams, Joins

\* The verdict is about output that is complete, or too long.
LEMMA JudgeRests ==
  ASSUME TypeOK, PInv, Join
  PROVE  Judged'
<1>1. CASE main # "join"
  BY <1>1 DEF Join, Joins, Judged
<1>2. CASE main = "join"
  <2>1. PICK a \in Answers : result' = Judge(a)
    BY <1>2 DEF Join
  <2>2. plugin \in {"success", "failure"}
    BY <1>2 DEF PInv, Control, Joins, TypeOK
  <2>3. /\ result' = "Oversized" <=> \E s \in Streams : buf[s] > Limit
        /\ result' \in {"Ok", "Json", "UnexpectedEnvelope"} => plugin = "success"
    <3>1. CASE \E s \in Streams : buf[s] > Limit
      <4>1. ~(\A s \in Streams : buf[s] <= Limit)
        BY <3>1 DEF TypeOK
      <4>2. result' = "Oversized"
        BY <2>1, <3>1, <4>1 DEF Judge
      <4>. QED BY <3>1, <4>2
    <3>2. CASE ~(\E s \in Streams : buf[s] > Limit) /\ plugin = "failure"
      <4>1. \A s \in Streams : buf[s] <= Limit
        BY <3>2 DEF TypeOK
      <4>. QED BY <2>1, <3>2, <4>1 DEF Judge
    <3>3. CASE ~(\E s \in Streams : buf[s] > Limit) /\ plugin = "success"
      BY <2>1, <3>3 DEF Judge, Answers
    <3>. QED BY <2>2, <3>1, <3>2, <3>3
  <2>. QED BY <2>3 DEF Join, Judged
<1>. QED BY <1>1, <1>2

LEMMA PNext == TypeOK /\ PInv /\ [Next]_vars => PInv'
<1> SUFFICES ASSUME TypeOK, PInv, [Next]_vars PROVE PInv'
  OBVIOUS
<1> USE DEF TypeOK, PInv, Counted, Released, Control, Judged, Joins
<1>1. CASE Spawn
  BY <1>1 DEF Spawn
<1>2. CASE Poll
  BY <1>2 DEF Poll, KillAndWait
<1>3. CASE Late
  BY <1>3 DEF Late, KillAndWait
<1>4. CASE Join
  <2>1. Judged'
    BY <1>4, JudgeRests
  <2>2. Counted' /\ Released' /\ Control'
    BY <1>4 DEF Join
  <2>. QED BY <2>1, <2>2
<1>5. ASSUME NEW s \in Streams, Take(s) PROVE PInv'
  BY <1>5 DEF Take
<1>6. ASSUME NEW s \in Streams, StopReading(s) PROVE PInv'
  BY <1>6 DEF StopReading, AtEnd
<1>7. CASE StartHelper
  BY <1>7 DEF StartHelper
<1>8. CASE EndPlugin \/ Expire
  BY <1>8 DEF EndPlugin, Expire
<1>9. ASSUME NEW s \in Streams, Write(s) PROVE PInv'
  BY <1>9 DEF Write
<1>10. ASSUME NEW s \in Streams, NEW x \in Holders, Close(s, x) PROVE PInv'
  BY <1>10 DEF Close
<1>11. CASE Finished \/ UNCHANGED vars
  BY <1>11 DEF Finished, vars
<1>. QED
  BY <1>1, <1>2, <1>3, <1>4, <1>5, <1>6, <1>7, <1>8, <1>9, <1>10, <1>11
     DEF Next, Host, Reader, Environment

\* The types and the invariant hold in every state that is reached.
LEMMA Invariance == Spec => [](TypeOK /\ PInv)
BY TypeCorrect, PInit, PNext, PTL DEF Spec

-----------------------------------------------------------------------------
(* The properties.                                                         *)

\* An answer is everything the plugin and its helpers wrote, and nobody is
\* left who could add to it (tool_protocol.rs:234-253).
THEOREM Whole == Spec => []AnswerIsWhole
<1>1. TypeOK /\ PInv => AnswerIsWhole
  BY DEF TypeOK, PInv, Counted, Judged, AnswerIsWhole
<1>. QED BY <1>1, Invariance, PTL

\* The limit decides before the status does, for every limit and whatever the
\* closed pipe made of the plugin (tool_protocol.rs:190-203, 237-251).
THEOREM Limits == Spec => []LimitDecides
<1>1. TypeOK /\ PInv => LimitDecides
  BY DEF TypeOK, PInv, Counted, Judged, LimitDecides
<1>. QED BY <1>1, Invariance, PTL

\* Every return leaves neither the plugin nor a reading thread
\* (tool_protocol.rs:210-231).
THEOREM CleanReturn == Spec => []NothingLeft
<1>1. TypeOK /\ PInv => NothingLeft
  BY DEF TypeOK, PInv, Control, NothingLeft
<1>. QED BY <1>1, Invariance, PTL
=============================================================================
