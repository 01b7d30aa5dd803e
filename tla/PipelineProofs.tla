--------------------------- MODULE PipelineProofs ---------------------------
(***************************************************************************)
(* What holds of Pipeline for every set of files, whatever they include,   *)
(* and however the threads interleave: the types, that includes come       *)
(* first, that the result is honest, that stop_on_error stops, that the    *)
(* exit code tells of a failure, that a plugin opens its own snapshot and  *)
(* that the snapshots are removed, at every depth of the tree of calls;    *)
(* and that includes are found where the first file has an absolute path.  *)
(***************************************************************************)
EXTENDS Pipeline, SequenceTheorems, TLAPS

Places == Seq(Nat \X Nat)

(***************************************************************************)
(* Types.                                                                  *)
(***************************************************************************)

\* What a frame's point says about its fields.
FrameOK(cfg, c) ==
  /\ c.stage >= 1
  /\ c.at \notin {"load", "returned"} => c.file \in Files
  /\ c.at \in {"waiting", "joining"} =>
       /\ c.stage <= Len(cfg[c.file].stages)
       /\ c.member >= 1
       /\ c.member <= Len(cfg[c.file].stages[c.stage].files)
  /\ c.at \in {"tasks", "running"} => c.path \in Paths
  /\ c.at = "returned" <=> c.result # None

CallsOK ==
  /\ DOMAIN calls \subseteq Places /\ <<>> \in DOMAIN calls
  /\ \A a \in DOMAIN calls : calls[a] \in Frames /\ FrameOK(config, calls[a])

TypeInv == TypeOK /\ \A a \in DOMAIN calls : FrameOK(config, calls[a])

\* The content of a file.
LEMMA ConfigType ==
  ASSUME TypeInv, NEW f \in Files
  PROVE  /\ config[f].stop \in BOOLEAN
         /\ config[f].stages \in Seq(StagesOf)
         /\ config[f].tasks \in Nat
BY ConfigAssumption DEF TypeInv, TypeOK

\* A stage of a file, and its members.
LEMMA StageType ==
  ASSUME TypeInv, NEW f \in Files, NEW i \in Nat \ {0}, i <= Len(config[f].stages)
  PROVE  LET fs == config[f].stages[i].files
         IN /\ fs \in Seq(Seq(STRING)) /\ Len(fs) \in Nat /\ Len(fs) >= 1
            /\ \A m \in 1 .. Len(fs) : fs[m] \in Seq(STRING)
<1> DEFINE fs == config[f].stages[i].files
<1>1. config[f].stages[i] \in StagesOf
  BY ConfigType
<1>2. fs \in Seq(Seq(STRING)) /\ fs # <<>>
  BY <1>1 DEF StagesOf
<1>3. Len(fs) \in Nat /\ Len(fs) # 0
  BY <1>2
<1>4. \A m \in 1 .. Len(fs) : fs[m] \in Seq(STRING)
  BY <1>2
<1> QED
  BY <1>2, <1>3, <1>4

\* What an include resolves to is a path.
LEMMA ResolvedType ==
  ASSUME NEW base \in Seq(STRING), NEW written \in Seq(STRING)
  PROVE  ResolveInclude(base, ParsedInclude(base, written)) \in Seq(STRING)
<1>1. Directory(base) \in Seq(STRING)
  BY DEF Directory, Front
<1>2. ASSUME NEW p \in Seq(STRING) PROVE Joined(Directory(base), p) \in Seq(STRING)
  <2>1. Directory(base) \o p \in Seq(STRING)
    BY <1>1, ConcatProperties
  <2> QED
    BY <2>1 DEF Joined
<1> QED
  BY <1>2 DEF ResolveInclude, ParsedInclude

\* A frame of a call changes.
LEMMA BecomeKeeps ==
  ASSUME TypeInv, NEW a \in DOMAIN calls, NEW c \in Frames, FrameOK(config, c),
         Become(a, c), UNCHANGED config
  PROVE  /\ DOMAIN calls' = DOMAIN calls /\ calls'[a] = c
         /\ \A b \in DOMAIN calls : b # a => calls'[b] = calls[b]
         /\ CallsOK'
<1>1. /\ DOMAIN calls' = DOMAIN calls /\ calls'[a] = c
      /\ \A b \in DOMAIN calls : b # a => calls'[b] = calls[b]
  BY DEF Become
<1> QED
  BY <1>1 DEF CallsOK, TypeInv, TypeOK, FrameOK, Places

\* A call that has just begun, in a pipeline.
Begun(c) == /\ c.at = "load" /\ c.result = None /\ c.stage = 1
            /\ c.mode = "pipeline" /\ c.allOk

\* Calls of members of the stage begin.
LEMMA CallingKeeps ==
  ASSUME TypeInv, NEW a \in DOMAIN calls, NEW c \in Frames, FrameOK(config, c),
         calls[a].at \in {"stages", "waiting"},
         calls[a].stage <= Len(Stages(a)),
         NEW M \in SUBSET (1 .. Len(Stage(a).files)),
         calls' = Calling(a, M, c), UNCHANGED config
  PROVE  /\ DOMAIN calls' = DOMAIN calls \cup {Child(a, m) : m \in M}
         /\ calls'[a] = c
         /\ \A b \in DOMAIN calls : b # a => calls'[b] = calls[b]
         /\ \A b \in DOMAIN calls' \ DOMAIN calls : Begun(calls'[b])
         /\ CallsOK'
<1> USE DEF TypeInv
<1>1. /\ DOMAIN calls' = DOMAIN calls \cup {Child(a, m) : m \in M}
      /\ calls'[a] = c
      /\ \A b \in DOMAIN calls : b # a => calls'[b] = calls[b]
      /\ \A b \in DOMAIN calls' \ DOMAIN calls :
           calls'[b] = NewCall(Included(a, Last(b)[2]), calls[a].stop, "pipeline")
  BY DEF Calling
<1>2. a \in Places /\ calls[a] \in Frames /\ FrameOK(config, calls[a])
  BY DEF TypeOK, Places
<1>3. /\ calls[a].file \in Files /\ calls[a].file \in Seq(STRING)
      /\ calls[a].stop \in BOOLEAN /\ calls[a].stage \in Nat \ {0}
  BY <1>2 DEF Frames, FrameOK
<1>4. \A m \in 1 .. Len(Stage(a).files) :
        Stage(a).files[m] \in Seq(STRING) /\ m \in Nat
  <2> DEFINE f == calls[a].file
             i == calls[a].stage
  <2>1. i <= Len(config[f].stages) /\ Stage(a).files = config[f].stages[i].files
    BY DEF Stage, Stages
  <2> HIDE DEF f, i
  <2>2. f \in Files /\ i \in Nat \ {0}
    BY <1>3 DEF f, i
  <2> QED
    BY <2>1, <2>2, StageType
<1>5. ASSUME NEW m \in M
      PROVE  Child(a, m) \in Places /\ Last(Child(a, m)) = <<calls[a].stage, m>>
  <2>1. <<calls[a].stage, m>> \in Nat \X Nat
    BY <1>3, <1>4
  <2> QED
    BY <2>1, <1>2 DEF Child, Last, Places
<1>6. ASSUME NEW b \in DOMAIN calls' \ DOMAIN calls
      PROVE  calls'[b] \in Frames /\ Begun(calls'[b])
  <2>1. PICK m \in M : b = Child(a, m)
    BY <1>1
  <2>2. Included(a, Last(b)[2]) \in Seq(STRING)
    BY <2>1, <1>3, <1>4, <1>5, ResolvedType DEF Included
  <2>3. calls'[b] = NewCall(Included(a, m), calls[a].stop, "pipeline")
    BY <1>1, <1>5, <2>1
  <2>4. Included(a, m) \in Seq(STRING)
    BY <2>1, <2>2, <1>5
  <2> QED
    BY <2>3, <2>4, <1>3 DEF NewCall, Begun, Frames, Points, ResultKinds
<1>7. \A b \in DOMAIN calls' \ DOMAIN calls : FrameOK(config', calls'[b])
  BY <1>6 DEF Begun, FrameOK, None
<1>8. \A b \in DOMAIN calls : b # a => calls'[b] \in Frames /\ FrameOK(config', calls'[b])
  BY <1>1 DEF TypeOK, FrameOK
<1>9. FrameOK(config', calls'[a])
  BY <1>1 DEF FrameOK
<1>10. DOMAIN calls' \subseteq Places /\ <<>> \in DOMAIN calls'
  BY <1>1, <1>5 DEF TypeOK, Places
<1>11. \A b \in DOMAIN calls' : calls'[b] \in Frames' /\ FrameOK(config', calls'[b])
  BY <1>1, <1>6, <1>7, <1>8, <1>9 DEF Frames
<1> QED
  BY <1>1, <1>6, <1>10, <1>11 DEF CallsOK

\* The updates that the steps of a call make keep its record a frame.
LEMMA LoadedFrame ==
  ASSUME NEW c \in Frames, NEW p \in Points, NEW b \in BOOLEAN
  PROVE  [c EXCEPT !.at = p, !.stop = b] \in Frames
BY DEF Frames

LEMMA StagedFrame ==
  ASSUME NEW c \in Frames, NEW p \in Points, NEW n \in Nat, NEW b \in BOOLEAN
  PROVE  [c EXCEPT !.at = p, !.stage = n, !.allOk = b] \in Frames
BY DEF Frames

LEMMA StartedFrame ==
  ASSUME NEW c \in Frames, NEW p \in Points
  PROVE  [c EXCEPT !.at = p, !.member = 1, !.stageOk = TRUE] \in Frames
BY DEF Frames

LEMMA CalledFrame ==
  ASSUME NEW c \in Frames, NEW n \in Nat
  PROVE  [c EXCEPT !.member = n] \in Frames
BY DEF Frames

LEMMA CollectedFrame ==
  ASSUME NEW c \in Frames, NEW n \in Nat, NEW b \in BOOLEAN
  PROVE  [c EXCEPT !.member = n, !.stageOk = b] \in Frames
BY DEF Frames

LEMMA MovedFrame ==
  ASSUME NEW c \in Frames, NEW p \in Points
  PROVE  [c EXCEPT !.at = p] \in Frames
BY DEF Frames

LEMMA NamedFrame ==
  ASSUME NEW c \in Frames, NEW p \in Points, NEW x \in Paths
  PROVE  [c EXCEPT !.at = p, !.path = x] \in Frames
BY DEF Frames

LEMMA RanFrame ==
  ASSUME NEW c \in Frames, NEW p \in Points
  PROVE  [c EXCEPT !.at = p, !.got = NoFile] \in Frames
BY DEF Frames

LEMMA ReadFrame ==
  ASSUME NEW c \in Frames, NEW f \in Files \cup {NoFile, Missing}
  PROVE  [c EXCEPT !.got = f] \in Frames
BY DEF Frames

LEMMA EndedFrame ==
  ASSUME NEW c \in Frames, NEW p \in Points, NEW n \in Nat, NEW b \in BOOLEAN
  PROVE  [c EXCEPT !.at = p, !.task = n, !.got = NoFile, !.allOk = b] \in Frames
BY DEF Frames

LEMMA FrameFields ==
  ASSUME NEW c \in Frames
  PROVE  /\ c.stage \in Nat /\ c.member \in Nat /\ c.task \in Nat
         /\ c.stop \in BOOLEAN /\ c.stageOk \in BOOLEAN /\ c.allOk \in BOOLEAN
         /\ c.file \in Seq(STRING) /\ c.at \in Points /\ c.result \in ResultKinds
BY DEF Frames

\* What is known of a call that takes a step.
LEMMA FrameType ==
  ASSUME TypeInv, NEW a \in DOMAIN calls
  PROVE  /\ a \in Places /\ calls[a] \in Frames /\ FrameOK(config, calls[a])
         /\ calls[a].at \in {"waiting", "joining"} => calls[a].stage <= Len(Stages(a))
         /\ calls[a].at \notin {"load", "returned"} => Tasks(a) \in Nat
BY ConfigType DEF TypeInv, TypeOK, FrameOK, Places, Stages, Tasks

\* A stage of a call, where the call has one.
LEMMA MembersType ==
  ASSUME TypeInv, NEW a \in DOMAIN calls,
         calls[a].at \in {"stages", "waiting", "joining"},
         calls[a].stage <= Len(Stages(a))
  PROVE  Len(Stage(a).files) \in Nat /\ Len(Stage(a).files) >= 1
<1> DEFINE f == calls[a].file
           i == calls[a].stage
<1>1. i <= Len(config[f].stages) /\ Stage(a).files = config[f].stages[i].files
  BY DEF Stage, Stages
<1>2. f \in Files /\ i \in Nat \ {0}
  BY FrameType DEF FrameOK, Frames
<1> HIDE DEF f, i
<1> QED
  BY <1>1, <1>2, StageType

\* The record of a call that returns.
LEMMA ReturnedType ==
  ASSUME TypeInv, NEW a \in DOMAIN calls, NEW r \in {"true", "false", "error"}
  PROVE  /\ Returned(a, r) \in Frames /\ FrameOK(config, Returned(a, r))
         /\ [Returned(a, r) EXCEPT !.allOk = FALSE] \in Frames
         /\ FrameOK(config, [Returned(a, r) EXCEPT !.allOk = FALSE])
BY FrameType DEF Returned, Frames, FrameOK, Points, ResultKinds, None

\* The record of a call whose stage ends.
LEMMA AfterStageType ==
  ASSUME TypeInv, NEW a \in DOMAIN calls, NEW ok \in BOOLEAN,
         calls[a].at \in {"waiting", "joining"}
  PROVE  AfterStage(a, ok) \in Frames /\ FrameOK(config, AfterStage(a, ok))
<1>1. CASE ~ok /\ calls[a].stop
  BY <1>1, ReturnedType DEF AfterStage
<1>2. CASE ~(~ok /\ calls[a].stop)
  <2> DEFINE c == [calls[a] EXCEPT !.at = "stages", !.stage = @ + 1, !.allOk = @ /\ ok]
  <2>1. (calls[a].allOk /\ ok) \in BOOLEAN
    <3>1. calls[a].allOk \in BOOLEAN
      BY FrameType, FrameFields
    <3> QED
      BY <3>1, Zenon
  <2>2. c \in Frames
    <3>1. calls[a].stage + 1 \in Nat /\ "stages" \in Points
      BY FrameType, FrameFields DEF Points
    <3> QED
      BY <2>1, <3>1, FrameType, StagedFrame
  <2>3. FrameOK(config, c)
    BY FrameType DEF Frames, FrameOK, None
  <2> QED
    BY <1>2, <2>2, <2>3 DEF AfterStage
<1> QED
  BY <1>1, <1>2

LEMMA InitType == Init => TypeInv
<1> SUFFICES ASSUME Init PROVE TypeInv
  OBVIOUS
<1>1. PICK m \in Modes : calls = [a \in {<<>>} |-> NewCall(Main, FALSE, m)]
  BY DEF Init
<1>2. NewCall(Main, FALSE, m) \in Frames /\ FrameOK(config, NewCall(Main, FALSE, m))
  BY FileAssumption, ModeAssumption DEF NewCall, Frames, FrameOK, Points, ResultKinds, None
<1>3. DOMAIN calls = {<<>>} /\ calls[<<>>] = NewCall(Main, FALSE, m)
  BY <1>1
<1>4. DOMAIN calls \subseteq Seq(Nat \X Nat)
  BY <1>3
<1>5. \A a \in DOMAIN calls : calls[a] \in Frames /\ FrameOK(config, calls[a])
  BY <1>2, <1>3
<1>6. temp \in [Paths -> Files \cup {NoFile}]
  BY DEF Init
<1>7. /\ config \in Configs /\ alarm \in BOOLEAN /\ failures = {}
  BY DEF Init
<1> QED
  BY <1>3, <1>4, <1>5, <1>6, <1>7 DEF TypeInv, TypeOK

\* The part of the types that is not about the calls.
RestOK ==
  /\ config \in Configs
  /\ temp \in [Paths -> Files \cup {NoFile}]
  /\ failures \subseteq [call : DOMAIN calls, end : EndKinds \cup {"missing"}]
  /\ alarm \in BOOLEAN

LEMMA Parts == CallsOK' /\ RestOK' => TypeInv'
BY DEF CallsOK, RestOK, TypeInv, TypeOK, Places

\* Steps that change nothing but the calls.
LEMMA RestKept ==
  ASSUME TypeInv, CallsOK', DOMAIN calls \subseteq DOMAIN calls',
         UNCHANGED <<config, temp, failures, alarm>>
  PROVE  TypeInv'
<1>1. RestOK
  BY DEF TypeInv, TypeOK, RestOK
<1>2. RestOK'
  BY <1>1 DEF RestOK
<1> QED
  BY <1>2, Parts

\* Each step of a call keeps the types.
LEMMA LoadType ==
  ASSUME TypeInv, NEW a \in DOMAIN calls, Load(a)
  PROVE  TypeInv'
<1> DEFINE single == calls[a].mode = "single"
           c == [calls[a] EXCEPT !.at = IF single THEN "name" ELSE "stages",
                   !.stop = EffectiveStop(@, config[calls[a].file].stop)]
<1>2. CASE Become(a, c) /\ calls[a].file \in Files
  <2>1. EffectiveStop(calls[a].stop, config[calls[a].file].stop) \in BOOLEAN
    <3>1. calls[a].stop \in BOOLEAN /\ config[calls[a].file].stop \in BOOLEAN
      BY <1>2, FrameType, ConfigType DEF Frames
    <3> QED
      BY <3>1, Zenon DEF EffectiveStop
  <2>2. c \in Frames
    <3>1. (IF single THEN "name" ELSE "stages") \in Points
      BY DEF Points
    <3> QED
      BY <2>1, <3>1, FrameType, LoadedFrame
  <2>3. FrameOK(config, c)
    BY <1>2, FrameType DEF Load, Frames, FrameOK, None
  <2> HIDE DEF c
  <2> QED
    BY <1>2, <2>2, <2>3, BecomeKeeps, RestKept DEF Load
<1>3. CASE Return(a, "error")
  BY <1>3, ReturnedType, BecomeKeeps, RestKept DEF Load, Return
<1> QED
  BY <1>2, <1>3 DEF Load

LEMMA StartStageType ==
  ASSUME TypeInv, NEW a \in DOMAIN calls, StartStage(a)
  PROVE  TypeInv'
<1> DEFINE c == [calls[a] EXCEPT !.at = IF InThreads(a) THEN "joining" ELSE "waiting",
                                 !.member = 1, !.stageOk = TRUE]
<1>1. Len(Stage(a).files) \in Nat /\ Len(Stage(a).files) >= 1
  BY MembersType DEF StartStage
<1>2. FirstMembers(a) \in SUBSET (1 .. Len(Stage(a).files))
  BY <1>1 DEF FirstMembers
<1>3. c \in Frames
  <2>1. (IF InThreads(a) THEN "joining" ELSE "waiting") \in Points
    BY DEF Points
  <2> QED
    BY <2>1, FrameType, StartedFrame
<1>4. FrameOK(config, c)
  BY <1>1, FrameType DEF StartStage, Frames, FrameOK, None, Stages, Stage
<1>5. calls' = Calling(a, FirstMembers(a), c)
  BY DEF StartStage
<1> HIDE DEF c
<1>6. CallsOK' /\ DOMAIN calls \subseteq DOMAIN calls'
  BY <1>2, <1>3, <1>4, <1>5, CallingKeeps DEF StartStage
<1> QED
  BY <1>6, RestKept DEF StartStage

LEMMA MemberReturnsType ==
  ASSUME TypeInv, NEW a \in DOMAIN calls, MemberReturns(a)
  PROVE  TypeInv'
<1> DEFINE m == calls[a].member
           r == calls[Child(a, m)].result
           c == [calls[a] EXCEPT !.member = m + 1]
<1>0. calls[a].at = "waiting" /\ UNCHANGED <<config, temp, failures, alarm>>
  BY DEF MemberReturns
<1>1. CASE Return(a, "error")
  BY <1>0, <1>1, ReturnedType, BecomeKeeps, RestKept DEF Return
<1>2. CASE m < Len(Stage(a).files) /\ calls' = Calling(a, {m + 1}, c)
  <2>1. calls[a].stage <= Len(Stages(a)) /\ m + 1 \in Nat /\ m >= 1
    BY <1>0, FrameType, FrameFields DEF FrameOK
  <2>2. {m + 1} \in SUBSET (1 .. Len(Stage(a).files))
    BY <1>0, <1>2, <2>1, MembersType, FrameType, FrameFields
  <2>3. c \in Frames
    BY <2>1, FrameType, CalledFrame
  <2>4. FrameOK(config, c)
    BY <1>0, <1>2, <2>1, FrameType, MembersType DEF Frames, FrameOK, Stage, Stages
  <2> HIDE DEF c
  <2>5. CallsOK' /\ DOMAIN calls \subseteq DOMAIN calls'
    BY <1>0, <1>2, <2>1, <2>2, <2>3, <2>4, CallingKeeps
  <2> QED
    BY <1>0, <2>5, RestKept
<1>3. CASE Become(a, AfterStage(a, r = "true"))
  <2>1. (r = "true") \in BOOLEAN
    BY Zenon
  <2> QED
    BY <1>0, <1>3, <2>1, AfterStageType, BecomeKeeps, RestKept
<1> QED
  BY <1>1, <1>2, <1>3 DEF MemberReturns

LEMMA JoinMemberType ==
  ASSUME TypeInv, NEW a \in DOMAIN calls, JoinMember(a)
  PROVE  TypeInv'
<1> DEFINE m == calls[a].member
           r == calls[Child(a, m)].result
           ok == calls[a].stageOk /\ r = "true"
           c == [calls[a] EXCEPT !.member = m + 1, !.stageOk = ok]
<1>0. calls[a].at = "joining" /\ UNCHANGED <<config, temp, failures, alarm>>
  BY DEF JoinMember
<1>1. ok \in BOOLEAN
  <2>1. calls[a].stageOk \in BOOLEAN
    BY FrameType, FrameFields
  <2> QED
    BY <2>1, Zenon
<1>2. CASE Return(a, "error")
  BY <1>0, <1>2, ReturnedType, BecomeKeeps, RestKept DEF Return
<1>3. CASE m < Len(Stage(a).files) /\ Become(a, c)
  <2>1. calls[a].stage <= Len(Stages(a)) /\ m + 1 \in Nat /\ m >= 1
    BY <1>0, FrameType, FrameFields DEF FrameOK
  <2>2. c \in Frames
    <3> HIDE DEF ok
    <3> QED
      BY <1>1, <2>1, FrameType, CollectedFrame
  <2>3. FrameOK(config, c)
    <3> HIDE DEF ok
    <3> QED
      BY <1>0, <1>3, <2>1, FrameType, MembersType DEF Frames, FrameOK, Stage, Stages
  <2> HIDE DEF c
  <2> QED
    BY <1>0, <1>3, <2>2, <2>3, BecomeKeeps, RestKept
<1>4. CASE Become(a, AfterStage(a, ok))
  <2> HIDE DEF ok
  <2> QED
    BY <1>0, <1>1, <1>4, AfterStageType, BecomeKeeps, RestKept
<1> QED
  BY <1>2, <1>3, <1>4 DEF JoinMember

LEMMA StagesEndType ==
  ASSUME TypeInv, NEW a \in DOMAIN calls, StagesEnd(a)
  PROVE  TypeInv'
<1> DEFINE c == [calls[a] EXCEPT !.at = "name"]
<1>1. c \in Frames
  BY FrameType, MovedFrame DEF Points
<1>2. FrameOK(config, c)
  BY FrameType DEF StagesEnd, Frames, FrameOK, None
<1>3. Become(a, c)
  BY DEF StagesEnd, Goto
<1> HIDE DEF c
<1> QED
  BY <1>1, <1>2, <1>3, BecomeKeeps, RestKept DEF StagesEnd

LEMMA NameTempType ==
  ASSUME TypeInv, NEW a \in DOMAIN calls, NameTemp(a)
  PROVE  TypeInv'
<1>1. PICK t \in Ticks :
        Become(a, [calls[a] EXCEPT !.at = "tasks", !.path = PathOf(a, t)])
  BY DEF NameTemp
<1> DEFINE c == [calls[a] EXCEPT !.at = "tasks", !.path = PathOf(a, t)]
<1>2. PathOf(a, t) \in Paths
  BY FrameType DEF NameTemp, FrameOK, PathOf, Paths
<1>3. c \in Frames
  BY <1>2, FrameType, NamedFrame DEF Points
<1>4. FrameOK(config, c)
  BY <1>2, FrameType DEF NameTemp, Frames, FrameOK, None
<1> HIDE DEF c
<1> QED
  BY <1>1, <1>3, <1>4, BecomeKeeps, RestKept DEF NameTemp, c

\* Steps that begin, run or end tasks change temp, failures and alarm too.
LEMMA TasksKeep ==
  ASSUME TypeInv, CallsOK', DOMAIN calls \subseteq DOMAIN calls', UNCHANGED config,
         temp' \in [Paths -> Files \cup {NoFile}], alarm' \in BOOLEAN,
         failures' \subseteq failures
                     \cup [call : DOMAIN calls, end : EndKinds \cup {"missing"}]
  PROVE  TypeInv'
<1>1. RestOK
  BY DEF TypeInv, TypeOK, RestOK
<1>2. RestOK'
  BY <1>1 DEF RestOK
<1> QED
  BY <1>2, Parts

LEMMA TempType ==
  ASSUME TypeInv, NEW a \in DOMAIN calls
  PROVE  /\ Removed(a) \in [Paths -> Files \cup {NoFile}]
         /\ calls[a].at = "tasks" =>
              [temp EXCEPT ![calls[a].path] = calls[a].file]
                \in [Paths -> Files \cup {NoFile}]
<1>1. temp \in [Paths -> Files \cup {NoFile}]
  BY DEF TypeInv, TypeOK
<1>2. calls[a].at = "tasks" => calls[a].file \in Files
  BY FrameType DEF FrameOK
<1> QED
  BY <1>1, <1>2 DEF Removed

LEMMA TaskStepsType ==
  ASSUME TypeInv, NEW a \in DOMAIN calls,
         PluginMissing(a) \/ StartTask(a) \/ PluginReads(a) \/ TasksEnd(a)
  PROVE  TypeInv'
<1>0. /\ temp \in [Paths -> Files \cup {NoFile}] /\ alarm \in BOOLEAN
  BY DEF TypeInv, TypeOK
<1>1. CASE PluginMissing(a)
  <2>1. CallsOK' /\ DOMAIN calls \subseteq DOMAIN calls'
    BY <1>1, ReturnedType, BecomeKeeps DEF PluginMissing, Return
  <2> QED
    BY <1>0, <1>1, <2>1, TasksKeep DEF PluginMissing
<1>2. CASE StartTask(a)
  <2> DEFINE c == [calls[a] EXCEPT !.at = "running", !.got = NoFile]
  <2>1. c \in Frames
    BY FrameType, RanFrame DEF Points
  <2>2. FrameOK(config, c)
    BY <1>2, FrameType DEF StartTask, HasTask, Frames, FrameOK, None
  <2>3. Become(a, c)
    BY <1>2 DEF StartTask
  <2> HIDE DEF c
  <2>4. CallsOK' /\ DOMAIN calls \subseteq DOMAIN calls'
    BY <1>2, <2>1, <2>2, <2>3, BecomeKeeps DEF StartTask
  <2>5. temp' \in [Paths -> Files \cup {NoFile}]
    BY <1>2, TempType DEF StartTask, HasTask
  <2> QED
    BY <1>0, <1>2, <2>4, <2>5, TasksKeep DEF StartTask
<1>3. CASE PluginReads(a)
  <2> DEFINE x == temp[calls[a].path]
             got == IF x = NoFile THEN Missing ELSE x
             c == [calls[a] EXCEPT !.got = got]
  <2>1. got \in Files \cup {NoFile, Missing}
    BY <1>0, <1>3, FrameType DEF PluginReads, FrameOK
  <2>2. Become(a, c)
    BY <1>3 DEF PluginReads
  <2> HIDE DEF got
  <2>3. c \in Frames
    BY <2>1, FrameType, ReadFrame
  <2>4. FrameOK(config, c)
    BY FrameType DEF Frames, FrameOK
  <2> HIDE DEF c
  <2>5. CallsOK' /\ DOMAIN calls \subseteq DOMAIN calls'
    BY <1>3, <2>2, <2>3, <2>4, BecomeKeeps DEF PluginReads
  <2> QED
    BY <1>0, <1>3, <2>5, RestKept DEF PluginReads
<1>4. CASE TasksEnd(a)
  <2>1. CallsOK' /\ DOMAIN calls \subseteq DOMAIN calls'
    BY <1>4, ReturnedType, BecomeKeeps DEF TasksEnd, Return
  <2> QED
    BY <1>0, <1>4, <2>1, TempType, TasksKeep DEF TasksEnd
<1> QED
  BY <1>1, <1>2, <1>3, <1>4

\* What the end of a task does to the record of its call.
TaskEnded(a, end) ==
  [calls[a] EXCEPT !.at = "tasks", !.task = @ + 1, !.got = NoFile,
                   !.allOk = @ /\ CountsAsOk(end)]

LEMMA EndTaskIs ==
  ASSUME TypeInv, NEW a \in DOMAIN calls, EndTask(a)
  PROVE  /\ calls[a].at = "running" /\ UNCHANGED config
         /\ \E end \in Ends :
              /\ failures' = IF end = "finished" THEN failures
                             ELSE failures \cup {[call |-> a, end |-> end]}
              /\ alarm' = (alarm \/ end \in {"reported", "failed"})
              /\ \/ end = "broken" /\ Return(a, "error") /\ temp' = Removed(a)
                 \/ /\ end # "broken" /\ calls[a].mode = "single"
                    /\ Return(a, "true") /\ temp' = Removed(a)
                 \/ /\ end # "broken" /\ calls[a].mode # "single"
                    /\ ~CountsAsOk(end) /\ calls[a].stop
                    /\ Return(a, "false") /\ temp' = Removed(a)
                 \/ /\ end # "broken" /\ calls[a].mode # "single"
                    /\ CountsAsOk(end) \/ ~calls[a].stop
                    /\ Become(a, TaskEnded(a, end)) /\ temp' = temp
<1>1. calls[a].at = "running" /\ UNCHANGED config
  BY DEF EndTask
<1>2. PICK end \in Ends :
        /\ failures' = IF end = "finished" THEN failures
                       ELSE failures \cup {[call |-> a, end |-> end]}
        /\ alarm' = (alarm \/ end \in {"reported", "failed"})
        /\ CASE end = "broken" ->
                  Return(a, "error") /\ temp' = Removed(a)
             [] end # "broken" /\ calls[a].mode = "single" ->
                  Return(a, "true") /\ temp' = Removed(a)
             [] end # "broken" /\ calls[a].mode # "single"
                /\ ~CountsAsOk(end) /\ calls[a].stop ->
                  Return(a, "false") /\ temp' = Removed(a)
             [] OTHER ->
                  /\ Become(a, [calls[a] EXCEPT !.at = "tasks", !.task = @ + 1, !.got = NoFile,
                                  !.allOk = @ /\ CountsAsOk(end)])
                  /\ UNCHANGED temp
  BY DEF EndTask
<1> QED
  BY <1>1, <1>2 DEF TaskEnded

LEMMA TaskEndedType ==
  ASSUME TypeInv, NEW a \in DOMAIN calls, NEW end, calls[a].at = "running"
  PROVE  TaskEnded(a, end) \in Frames /\ FrameOK(config, TaskEnded(a, end))
<1>1. (calls[a].allOk /\ CountsAsOk(end)) \in BOOLEAN
  <2>1. calls[a].allOk \in BOOLEAN
    BY FrameType, FrameFields
  <2>2. CountsAsOk(end) \in BOOLEAN
    BY DEF CountsAsOk
  <2> QED
    BY <2>1, <2>2, Zenon
<1>2. calls[a].task + 1 \in Nat /\ "tasks" \in Points
  BY FrameType, FrameFields DEF Points
<1>3. TaskEnded(a, end) \in Frames
  BY <1>1, <1>2, FrameType, EndedFrame DEF TaskEnded
<1>4. FrameOK(config, TaskEnded(a, end))
  BY FrameType DEF TaskEnded, Frames, FrameOK, None
<1> QED
  BY <1>3, <1>4

LEMMA EndTaskType ==
  ASSUME TypeInv, NEW a \in DOMAIN calls, EndTask(a)
  PROVE  TypeInv'
<1>1. calls[a].at = "running" /\ UNCHANGED config
  BY EndTaskIs
<1>2. PICK end \in Ends :
        /\ failures' = IF end = "finished" THEN failures
                       ELSE failures \cup {[call |-> a, end |-> end]}
        /\ alarm' = (alarm \/ end \in {"reported", "failed"})
        /\ \/ \E r \in {"true", "false", "error"} :
                Return(a, r) /\ temp' = Removed(a)
           \/ Become(a, TaskEnded(a, end)) /\ temp' = temp
  BY EndTaskIs
<1>3. CallsOK' /\ DOMAIN calls \subseteq DOMAIN calls'
  <2>1. CASE \E r \in {"true", "false", "error"} : Return(a, r)
    BY <1>1, <2>1, ReturnedType, BecomeKeeps DEF Return
  <2>2. CASE Become(a, TaskEnded(a, end))
    BY <1>1, <2>2, TaskEndedType, BecomeKeeps
  <2> QED
    BY <1>2, <2>1, <2>2
<1>4. temp' \in [Paths -> Files \cup {NoFile}]
  BY <1>2, TempType DEF TypeInv, TypeOK
<1>5. alarm' \in BOOLEAN
  BY <1>2 DEF TypeInv, TypeOK
<1>6. failures' \subseteq failures
                    \cup [call : DOMAIN calls, end : EndKinds \cup {"missing"}]
  BY <1>2, EndAssumption
<1> QED
  BY <1>1, <1>3, <1>4, <1>5, <1>6, TasksKeep

LEMMA StepType ==
  ASSUME TypeInv, [Next]_vars
  PROVE  TypeInv'
<1>1. ASSUME NEW a \in DOMAIN calls, CallNext(a)
      PROVE  TypeInv'
  BY <1>1, LoadType, StartStageType, MemberReturnsType, JoinMemberType, StagesEndType,
     NameTempType, TaskStepsType, EndTaskType DEF CallNext
<1>2. CASE UNCHANGED vars
  BY <1>2 DEF vars, TypeInv, TypeOK
<1> QED
  BY <1>1, <1>2 DEF Next, Finished

\* Every variable keeps its type, whatever the files contain.
THEOREM TypeCorrect == Spec => []TypeOK
<1>1. TypeInv => TypeOK
  BY DEF TypeInv
<1> QED
  BY <1>1, InitType, StepType, PTL DEF Spec

(***************************************************************************)
(* Places in the tree of calls.                                            *)
(***************************************************************************)

\* Call b is below call a, and the pair by which the way from a to b begins.
Under(a, b) == Len(a) < Len(b) /\ \A i \in 1 .. Len(a) : a[i] = b[i]
Turn(a, b) == b[Len(a) + 1]
Toward(a, b) == Append(a, Turn(a, b))

LEMMA SamePlace ==
  ASSUME NEW a \in Places, NEW b \in Places, Len(a) = Len(b),
         \A i \in 1 .. Len(a) : a[i] = b[i]
  PROVE  a = b
BY SeqEqual DEF Places

LEMMA PrefixIsUnder ==
  ASSUME NEW a \in Places, NEW b \in Places
  PROVE  /\ IsPrefix(a, b) <=> a = b \/ Under(a, b)
         /\ IsStrictPrefix(a, b) <=> Under(a, b)
<1>1. ASSUME IsPrefix(a, b) PROVE a = b \/ Under(a, b)
  <2>1. \A i \in 1 .. Len(a) : SubSeq(a, 1, Len(a))[i] = a[i]
    BY DEF Places
  <2>2. \A i \in 1 .. Len(a) : SubSeq(b, 1, Len(a))[i] = b[i]
    BY <1>1 DEF Places, IsPrefix
  <2>3. \A i \in 1 .. Len(a) : a[i] = b[i]
    BY <1>1, <2>1, <2>2 DEF IsPrefix
  <2>4. CASE Len(a) = Len(b)
    BY <2>3, <2>4, SamePlace
  <2>5. Len(a) <= Len(b) /\ Len(a) \in Nat /\ Len(b) \in Nat
    BY <1>1 DEF IsPrefix, Places
  <2>6. CASE Len(a) < Len(b)
    BY <2>3, <2>6 DEF Under
  <2> QED
    BY <2>4, <2>5, <2>6
<1>2. ASSUME Under(a, b) PROVE IsPrefix(a, b) /\ a # b
  <2>1. /\ SubSeq(a, 1, Len(a)) \in Places /\ Len(SubSeq(a, 1, Len(a))) = Len(a)
        /\ SubSeq(b, 1, Len(a)) \in Places /\ Len(SubSeq(b, 1, Len(a))) = Len(a)
    BY <1>2 DEF Places, Under
  <2>2. \A i \in 1 .. Len(a) : SubSeq(a, 1, Len(a))[i] = SubSeq(b, 1, Len(a))[i]
    BY <1>2 DEF Places, Under
  <2>3. SubSeq(a, 1, Len(a)) = SubSeq(b, 1, Len(a))
    BY <2>1, <2>2 DEF Places
  <2> QED
    BY <1>2, <2>3 DEF IsPrefix, Under
<1>3. IsPrefix(a, a)
  BY DEF IsPrefix, Places
<1>4. ~Under(a, a)
  BY DEF Under, Places
<1> QED
  BY <1>1, <1>2, <1>3, <1>4 DEF IsStrictPrefix

LEMMA UnderAppend ==
  ASSUME NEW p \in Places, NEW a \in Places, NEW y \in Nat \X Nat
  PROVE  /\ Under(p, Append(a, y)) <=> p = a \/ Under(p, a)
         /\ Under(p, a) => Turn(p, Append(a, y)) = Turn(p, a)
         /\ Turn(a, Append(a, y)) = y
<1> DEFINE b == Append(a, y)
<1>1. /\ b \in Places /\ Len(b) = Len(a) + 1 /\ b[Len(a) + 1] = y
      /\ \A i \in 1 .. Len(a) : b[i] = a[i]
      /\ Len(a) \in Nat /\ Len(p) \in Nat
  BY DEF Places
<1> HIDE DEF b
<1>2. ASSUME Under(p, b) PROVE p = a \/ Under(p, a)
  <2>1. \A i \in 1 .. Len(p) : p[i] = a[i]
    BY <1>1, <1>2 DEF Under
  <2>2. CASE Len(p) = Len(a)
    BY <1>1, <2>1, <2>2, SamePlace
  <2>3. CASE Len(p) < Len(a)
    BY <2>1, <2>3 DEF Under
  <2>4. Len(p) < Len(a) + 1
    BY <1>1, <1>2 DEF Under
  <2> QED
    BY <1>1, <2>2, <2>3, <2>4
<1>3. ASSUME Under(p, a) PROVE Under(p, b) /\ Turn(p, b) = Turn(p, a)
  BY <1>1, <1>3 DEF Under, Turn
<1>4. Under(a, b) /\ Turn(a, b) = y
  BY <1>1 DEF Under, Turn
<1> QED
  BY <1>2, <1>3, <1>4 DEF b

LEMMA UnderUnder ==
  ASSUME NEW a \in Places, NEW b \in Places, NEW c \in Places, Under(a, b), Under(b, c)
  PROVE  Under(a, c) /\ Turn(a, c) = Turn(a, b)
<1>1. Len(a) \in Nat /\ Len(b) \in Nat /\ Len(c) \in Nat
  BY DEF Places
<1> QED
  BY <1>1 DEF Under, Turn

LEMMA TowardUnder ==
  ASSUME NEW a \in Places, NEW b \in Places, Under(a, b)
  PROVE  /\ Turn(a, b) \in Nat \X Nat /\ Toward(a, b) \in Places
         /\ Under(a, Toward(a, b)) /\ Turn(a, Toward(a, b)) = Turn(a, b)
         /\ b = Toward(a, b) \/ Under(Toward(a, b), b)
<1>1. Turn(a, b) \in Nat \X Nat
  BY DEF Under, Turn, Places
<1>2. Toward(a, b) \in Places
  BY <1>1 DEF Toward, Places
<1>3. Under(a, Toward(a, b)) /\ Turn(a, Toward(a, b)) = Turn(a, b)
  BY <1>1, UnderAppend DEF Toward
<1>4. b = Toward(a, b) \/ Under(Toward(a, b), b)
  <2> DEFINE c == Toward(a, b)
  <2>1. Len(a) \in Nat /\ Len(b) \in Nat /\ Len(a) < Len(b)
    BY DEF Under, Places
  <2>2. c \in Places /\ Len(c) = Len(a) + 1 /\ c[Len(a) + 1] = b[Len(a) + 1]
    BY <1>1, <1>2 DEF Toward, Turn, Places
  <2>3. \A i \in 1 .. Len(a) : c[i] = b[i]
    BY <1>1 DEF Toward, Under, Places
  <2> HIDE DEF c
  <2>4. \A i \in 1 .. Len(c) : c[i] = b[i]
    BY <2>1, <2>2, <2>3
  <2>5. CASE Len(c) = Len(b)
    BY <2>2, <2>4, <2>5, SamePlace DEF c
  <2>6. CASE Len(c) < Len(b)
    BY <2>4, <2>6 DEF Under, c
  <2>7. Len(c) = Len(b) \/ Len(c) < Len(b)
    BY <2>1, <2>2
  <2> QED
    BY <2>5, <2>6, <2>7
<1> QED
  BY <1>1, <1>2, <1>3, <1>4

(***************************************************************************)
(* The tree of calls.                                                      *)
(***************************************************************************)

\* Outcomes of a call, by its record.
Good(c) == c.at = "returned" /\ c.result # "error"
Passed(c) == c.result = "true"

\* A call with record c goes on with nothing that its turn x has led to.
Consumed(c, x) ==
  \/ c.result \in {"true", "false"}
  \/ c.at \in {"name", "tasks", "running"}
  \/ x[1] < c.stage

\* What the record c of a call says of the record d of a call below it, when
\* the way there begins with turn x.
Below(cfg, c, x, d) ==
  /\ Consumed(c, x) => Good(d) /\ (c.allOk => Passed(d))
  /\ c.at \in {"load", "stages"} => x[1] < c.stage
  /\ c.at \in {"waiting", "joining"} =>
       /\ x[1] <= c.stage
       /\ x[1] = c.stage =>
            /\ c.at = "waiting" => x[2] <= c.member
            /\ c.at = "joining" => x[2] <= Len(cfg[c.file].stages[c.stage].files)
            /\ x[2] < c.member => Good(d) /\ (c.stageOk => Passed(d))

\* A task of call a or of a call below it has not exited with 0.
Blame(fails, a) ==
  \E x \in fails : IsPrefix(a, x.call) /\ x.end \in {"crashed", "failed"}

\* What the record c of call a says of the calls it has made and of failures.
Own(cfg, c, a, dom, fails) ==
  /\ c.at = "waiting" => Append(a, <<c.stage, c.member>>) \in dom /\ c.stageOk
  /\ c.at = "joining" =>
       \A m \in 1 .. Len(cfg[c.file].stages[c.stage].files) :
         Append(a, <<c.stage, m>>) \in dom
  /\ a # <<>> => c.mode = "pipeline"
  /\ c.mode = "pipeline" =>
       /\ c.result = "true" => c.allOk /\ c.task > cfg[c.file].tasks
       /\ \A x \in fails : x.call = a /\ x.end # "reported" =>
            ~c.allOk \/ c.result \in {"false", "error"}
  /\ ~c.allOk \/ c.result = "false" \/ (c.at = "joining" /\ ~c.stageOk) => Blame(fails, a)

TreeInv ==
  /\ \A a, b \in DOMAIN calls : Under(a, b) =>
       Toward(a, b) \in DOMAIN calls /\ Below(config, calls[a], Turn(a, b), calls[b])
  /\ \A a \in DOMAIN calls : Own(config, calls[a], a, DOMAIN calls, failures)

LEMMA PlacesType == TypeInv => DOMAIN calls \subseteq Places
BY DEF TypeInv, TypeOK, Places

\* A call that has not returned is neither good nor has it passed.
LEMMA Unfinished ==
  ASSUME TypeInv, NEW a \in DOMAIN calls, calls[a].at # "returned"
  PROVE  calls[a].result = None /\ ~Good(calls[a]) /\ ~Passed(calls[a])
BY FrameType DEF FrameOK, Good, Passed, None

LEMMA NotUnderItself == \A a \in Places : ~Under(a, a)
BY DEF Under, Places

\* The record of one call changes.
LEMMA TreeBecome ==
  ASSUME TypeInv, TreeInv, NEW a \in DOMAIN calls, NEW c \in Frames, FrameOK(config, c),
         Become(a, c), UNCHANGED config, calls[a].at # "returned",
         failures \subseteq failures', \A x \in failures' \ failures : x.call = a,
         \A b \in DOMAIN calls : Under(a, b) => Below(config, c, Turn(a, b), calls[b]),
         Own(config, c, a, DOMAIN calls, failures')
  PROVE  TreeInv'
<1>1. /\ DOMAIN calls' = DOMAIN calls /\ calls'[a] = c
      /\ \A b \in DOMAIN calls : b # a => calls'[b] = calls[b]
  BY BecomeKeeps
<1>2. ASSUME NEW p \in DOMAIN calls, NEW b \in DOMAIN calls, Under(p, b)
      PROVE  Toward(p, b) \in DOMAIN calls /\ Below(config, calls'[p], Turn(p, b), calls'[b])
  <2>1. Toward(p, b) \in DOMAIN calls /\ Below(config, calls[p], Turn(p, b), calls[b])
    BY <1>2 DEF TreeInv
  <2>2. CASE p = a
    BY <1>1, <1>2, <2>1, <2>2, NotUnderItself, PlacesType
  <2>3. CASE p # a /\ b = a
    BY <1>1, <2>1, <2>3, Unfinished DEF Below
  <2>4. CASE p # a /\ b # a
    BY <1>1, <2>1, <2>4
  <2> QED
    BY <2>2, <2>3, <2>4
<1>3. ASSUME NEW p \in DOMAIN calls
      PROVE  Own(config, calls'[p], p, DOMAIN calls, failures')
  <2>1. CASE p = a
    BY <1>1, <2>1
  <2>2. CASE p # a
    <3>1. Own(config, calls[p], p, DOMAIN calls, failures)
      BY DEF TreeInv
    <3>2. Blame(failures, p) => Blame(failures', p)
      BY DEF Blame
    <3> QED
      BY <1>1, <2>2, <3>1, <3>2 DEF Own
  <2> QED
    BY <2>1, <2>2
<1> QED
  BY <1>1, <1>2, <1>3 DEF TreeInv

\* A call that a has just made has nothing below it.
LEMMA NewIsLeaf ==
  ASSUME TypeInv, TreeInv, NEW a \in DOMAIN calls, NEW M \in SUBSET Nat,
         \A b \in DOMAIN calls' : b \in DOMAIN calls \/ \E m \in M : b = Child(a, m),
         NEW p \in DOMAIN calls', p \notin DOMAIN calls, NEW b \in DOMAIN calls', Under(p, b)
  PROVE  FALSE
<1>0. a \in Places /\ DOMAIN calls \subseteq Places /\ calls[a].stage \in Nat
  BY PlacesType, FrameType, FrameFields
<1>1. ASSUME NEW m \in M
      PROVE  /\ <<calls[a].stage, m>> \in Nat \X Nat /\ Child(a, m) \in Places
             /\ Len(Child(a, m)) = Len(a) + 1 /\ Len(a) \in Nat
  BY <1>0 DEF Child, Places
<1>2. PICK m \in M : p = Child(a, m)
  OBVIOUS
<1>3. b \in DOMAIN calls
  <2> SUFFICES ASSUME NEW n \in M, b = Child(a, n) PROVE FALSE
    OBVIOUS
  <2>1. Len(p) = Len(a) + 1 /\ Len(b) = Len(a) + 1 /\ Len(a) \in Nat
    BY <1>1, <1>2
  <2> QED
    BY <2>1 DEF Under
<1>4. Under(a, p) /\ Turn(a, p) = <<calls[a].stage, m>>
  BY <1>0, <1>1, <1>2, UnderAppend DEF Child
<1>5. Under(a, b) /\ Turn(a, b) = <<calls[a].stage, m>>
  BY <1>0, <1>1, <1>2, <1>3, <1>4, UnderUnder
<1>6. Toward(a, b) \in DOMAIN calls
  BY <1>3, <1>5 DEF TreeInv
<1> QED
  BY <1>2, <1>5, <1>6 DEF Toward, Child

\* Call a calls members of its stage.
LEMMA TreeCalling ==
  ASSUME TypeInv, TreeInv, NEW a \in DOMAIN calls, NEW c \in Frames, FrameOK(config, c),
         calls[a].at \in {"stages", "waiting"},
         calls[a].stage <= Len(Stages(a)),
         NEW M \in SUBSET (1 .. Len(Stage(a).files)),
         calls' = Calling(a, M, c), UNCHANGED <<config, failures>>,
         \A b \in DOMAIN calls : Under(a, b) => Below(config, c, Turn(a, b), calls[b]),
         \A m \in M : \A d : Below(config, c, <<calls[a].stage, m>>, d),
         Own(config, c, a, DOMAIN calls \cup {Child(a, m) : m \in M}, failures)
  PROVE  TreeInv'
<1>1. /\ DOMAIN calls' = DOMAIN calls \cup {Child(a, m) : m \in M}
      /\ calls'[a] = c
      /\ \A b \in DOMAIN calls : b # a => calls'[b] = calls[b]
      /\ \A b \in DOMAIN calls' \ DOMAIN calls : Begun(calls'[b])
  BY CallingKeeps
<1>2. calls[a].stage \in Nat /\ M \in SUBSET Nat
  BY FrameType, FrameFields, MembersType
<1>3. ASSUME NEW p \in DOMAIN calls', NEW b \in DOMAIN calls', Under(p, b)
      PROVE  Toward(p, b) \in DOMAIN calls' /\ Below(config', calls'[p], Turn(p, b), calls'[b])
  <2> USE <1>1, <1>2, <1>3
  <2>0. a \in Places /\ DOMAIN calls \subseteq Places /\ ~Good(calls[a]) /\ ~Passed(calls[a])
    BY PlacesType, Unfinished
  <2>1. ASSUME NEW m \in M
        PROVE  /\ <<calls[a].stage, m>> \in Nat \X Nat /\ Child(a, m) \in Places
               /\ Len(Child(a, m)) = Len(a) + 1 /\ Len(a) \in Nat
    BY <2>0 DEF Child, Places
  <2>2. p \in DOMAIN calls
    <3>1. \A d \in DOMAIN calls' : d \in DOMAIN calls \/ \E m \in M : d = Child(a, m)
      OBVIOUS
    <3> QED
      BY <3>1, NewIsLeaf
  <2>3. CASE b \in DOMAIN calls
    <3>1. Toward(p, b) \in DOMAIN calls /\ Below(config, calls[p], Turn(p, b), calls[b])
      BY <2>2, <2>3 DEF TreeInv
    <3>2. CASE p = a
      BY <2>0, <2>3, <3>1, <3>2, NotUnderItself
    <3>3. CASE p # a /\ b = a
      BY <2>2, <3>1, <3>3, <2>0 DEF Below, Good
    <3>4. CASE p # a /\ b # a
      BY <2>2, <2>3, <3>1, <3>4
    <3> QED
      BY <3>2, <3>3, <3>4
  <2>4. CASE b \notin DOMAIN calls
    <3>1. PICK m \in M : b = Child(a, m)
      BY <2>4
    <3>2. b = Append(a, <<calls[a].stage, m>>)
      BY <3>1 DEF Child
    <3>3. CASE p = a
      <4>1. Turn(a, b) = <<calls[a].stage, m>>
        BY <2>0, <2>1, <3>2, UnderAppend
      <4> QED
        BY <3>2, <3>3, <4>1 DEF Toward
    <3>4. CASE p # a
      <4>1. Under(p, a) /\ Turn(p, b) = Turn(p, a)
        BY <2>0, <2>1, <2>2, <3>2, <3>4, UnderAppend
      <4>2. Toward(p, a) \in DOMAIN calls /\ Below(config, calls[p], Turn(p, a), calls[a])
        BY <2>2, <4>1 DEF TreeInv
      <4>3. Below(config, calls[p], Turn(p, a), calls'[b])
        <5>1. /\ calls[p].at \in {"waiting", "joining"} /\ Turn(p, a)[1] = calls[p].stage
                  => ~(Turn(p, a)[2] < calls[p].member)
              /\ ~Consumed(calls[p], Turn(p, a))
          BY <2>0, <4>2 DEF Below
        <5> QED
          BY <4>2, <5>1 DEF Below
      <4> QED
        BY <2>2, <3>4, <4>1, <4>2, <4>3 DEF Toward
    <3> QED
      BY <3>3, <3>4
  <2> QED
    BY <2>3, <2>4
<1>4. ASSUME NEW p \in DOMAIN calls'
      PROVE  Own(config', calls'[p], p, DOMAIN calls', failures')
  <2>1. CASE p = a
    BY <1>1, <2>1
  <2>2. CASE p \in DOMAIN calls /\ p # a
    <3>1. Own(config, calls[p], p, DOMAIN calls, failures)
      BY <2>2 DEF TreeInv
    <3>2. DOMAIN calls \subseteq DOMAIN calls'
      BY <1>1
    <3> QED
      BY <1>1, <2>2, <3>1, <3>2 DEF Own
  <2>3. CASE p \notin DOMAIN calls
    <3>1. \A x \in failures : x.call \in DOMAIN calls
      BY DEF TypeInv, TypeOK
    <3> QED
      BY <1>1, <2>3, <3>1 DEF Own, Begun, None
  <2> QED
    BY <2>1, <2>2, <2>3
<1> QED
  BY <1>3, <1>4 DEF TreeInv

\* A member that has returned without an error, and the calls below it.
LEMMA MemberDone ==
  ASSUME TypeInv, TreeInv, NEW a \in DOMAIN calls, NEW m \in Nat,
         calls[a].stage \in Nat, Child(a, m) \in DOMAIN calls,
         calls[Child(a, m)].result \in {"true", "false"}
  PROVE  /\ \A b \in DOMAIN calls :
              Under(a, b) /\ Turn(a, b) = <<calls[a].stage, m>> =>
                /\ Good(calls[b])
                /\ calls[Child(a, m)].result = "true" => Passed(calls[b])
         /\ calls[Child(a, m)].result = "false" => Blame(failures, a)
<1> DEFINE k == Child(a, m)
<1>0. a \in Places /\ DOMAIN calls \subseteq Places /\ k \in Places
  BY PlacesType
<1>1. k # <<>> /\ Under(a, k)
  <2>1. <<calls[a].stage, m>> \in Nat \X Nat
    OBVIOUS
  <2>2. Under(a, k)
    BY <1>0, <2>1, UnderAppend DEF Child
  <2>3. Len(a) >= 0 /\ Len(<<>>) = 0
    BY <1>0 DEF Places
  <2> QED
    BY <2>2, <2>3 DEF Under
<1>2. Own(config, calls[k], k, DOMAIN calls, failures) /\ calls[k].at = "returned"
  <2>1. FrameOK(config, calls[k])
    BY FrameType
  <2> QED
    BY <2>1 DEF TreeInv, FrameOK, None
<1>3. ASSUME NEW b \in DOMAIN calls, Under(a, b), Turn(a, b) = <<calls[a].stage, m>>
      PROVE  Good(calls[b]) /\ (calls[k].result = "true" => Passed(calls[b]))
  <2>1. b = k \/ Under(k, b)
    BY <1>0, <1>3, TowardUnder DEF Toward, Child
  <2>2. CASE b = k
    BY <1>2, <2>2 DEF Good, Passed
  <2>3. CASE Under(k, b)
    <3>1. Below(config, calls[k], Turn(k, b), calls[b])
      BY <2>3 DEF TreeInv
    <3>2. calls[k].result = "true" => calls[k].allOk
      BY <1>1, <1>2 DEF Own
    <3> QED
      BY <3>1, <3>2 DEF Below, Consumed
  <2> QED
    BY <2>1, <2>2, <2>3
<1>4. ASSUME calls[k].result = "false" PROVE Blame(failures, a)
  <2>1. PICK x \in failures : IsPrefix(k, x.call) /\ x.end \in {"crashed", "failed"}
    BY <1>2, <1>4 DEF Own, Blame
  <2>2. x.call \in Places
    BY PlacesType DEF TypeInv, TypeOK
  <2>3. IsPrefix(a, x.call)
    BY <1>0, <1>1, <2>1, <2>2, PrefixIsUnder, UnderUnder
  <2> QED
    BY <2>1, <2>3 DEF Blame
<1> QED
  BY <1>3, <1>4

\* The stage of call a ends with ok.
LEMMA StageEndsTree ==
  ASSUME TypeInv, TreeInv, NEW a \in DOMAIN calls, NEW ok \in BOOLEAN,
         calls[a].at \in {"waiting", "joining"}, UNCHANGED <<config, failures>>,
         Become(a, AfterStage(a, ok)),
         \A b \in DOMAIN calls :
           Under(a, b) /\ Turn(a, b)[1] = calls[a].stage =>
             Good(calls[b]) /\ (ok => Passed(calls[b])),
         ~ok => Blame(failures, a)
  PROVE  TreeInv'
<1> DEFINE c == AfterStage(a, ok)
<1>0. /\ a \in Places /\ calls[a] \in Frames /\ calls[a].stage \in Nat
      /\ calls[a].allOk \in BOOLEAN /\ calls[a].result = None
      /\ Own(config, calls[a], a, DOMAIN calls, failures)
  BY FrameType, FrameFields, Unfinished DEF TreeInv
<1>1. \/ /\ c.at = "returned" /\ c.result = "false" /\ ~c.allOk /\ ~ok
         /\ c.mode = calls[a].mode
      \/ /\ c.at = "stages" /\ c.result = None /\ c.stage = calls[a].stage + 1
         /\ c.allOk = (calls[a].allOk /\ ok) /\ c.mode = calls[a].mode
  BY <1>0 DEF AfterStage, Returned, Frames
<1>2. c.stage \in Nat
  BY AfterStageType, FrameFields
<1>3. ASSUME NEW b \in DOMAIN calls, Under(a, b)
      PROVE  Below(config, c, Turn(a, b), calls[b])
  <2>1. Below(config, calls[a], Turn(a, b), calls[b])
    BY <1>3 DEF TreeInv
  <2>2. Turn(a, b) \in Nat \X Nat
    BY <1>0, <1>3, PlacesType, TowardUnder
  <2>3. Turn(a, b)[1] < calls[a].stage \/ Turn(a, b)[1] = calls[a].stage
    BY <1>0, <2>1, <2>2 DEF Below
  <2>4. Good(calls[b]) /\ (calls[a].allOk /\ ok => Passed(calls[b]))
    BY <1>3, <2>1, <2>3 DEF Below, Consumed
  <2> HIDE DEF c
  <2> QED
    BY <1>0, <1>1, <2>2, <2>3, <2>4 DEF Below, None
<1>4. Own(config, c, a, DOMAIN calls, failures)
  <2> HIDE DEF c
  <2> QED
    BY <1>0, <1>1 DEF Own, None
<1>5. c \in Frames /\ FrameOK(config, c)
  BY AfterStageType
<1> HIDE DEF c
<1> QED
  BY <1>3, <1>4, <1>5, TreeBecome DEF c

\* A call returns with an error, with or without a failure of its own.
LEMMA ErrorTree ==
  ASSUME TypeInv, TreeInv, NEW a \in DOMAIN calls, calls[a].at # "returned",
         Return(a, "error"), UNCHANGED config,
         failures \subseteq failures', \A x \in failures' \ failures : x.call = a
  PROVE  TreeInv'
<1> DEFINE c == Returned(a, "error")
<1>1. c \in Frames /\ FrameOK(config, c) /\ Become(a, c)
  BY ReturnedType DEF Return
<1>2. /\ c.at = "returned" /\ c.result = "error" /\ c.stage = calls[a].stage
      /\ c.allOk = calls[a].allOk /\ c.mode = calls[a].mode
  BY FrameType DEF Returned, Frames
<1>3. ASSUME NEW b \in DOMAIN calls, Under(a, b)
      PROVE  Below(config, c, Turn(a, b), calls[b])
  <2>1. Below(config, calls[a], Turn(a, b), calls[b])
    BY <1>3 DEF TreeInv
  <2> HIDE DEF c
  <2> QED
    BY <1>2, <2>1 DEF Below, Consumed
<1>4. Own(config, c, a, DOMAIN calls, failures')
  <2>1. Own(config, calls[a], a, DOMAIN calls, failures)
    BY DEF TreeInv
  <2>2. Blame(failures, a) => Blame(failures', a)
    BY DEF Blame
  <2> HIDE DEF c
  <2> QED
    BY <1>2, <2>1, <2>2 DEF Own
<1> HIDE DEF c
<1> QED
  BY <1>1, <1>3, <1>4, TreeBecome

\* The record that a step has given to a call.
LEMMA RecordType ==
  ASSUME TypeInv, TypeInv', NEW a \in DOMAIN calls, NEW c, UNCHANGED config,
         DOMAIN calls \subseteq DOMAIN calls', calls'[a] = c
  PROVE  c \in Frames /\ FrameOK(config, c)
BY DEF TypeInv, TypeOK, Frames, Paths, Points, ResultKinds

LEMMA LoadTree ==
  ASSUME TypeInv, TreeInv, TypeInv', NEW a \in DOMAIN calls, Load(a)
  PROVE  TreeInv'
<1> DEFINE single == calls[a].mode = "single"
           c == [calls[a] EXCEPT !.at = IF single THEN "name" ELSE "stages",
                   !.stop = EffectiveStop(@, config[calls[a].file].stop)]
<1>0. calls[a].at = "load" /\ UNCHANGED <<config, failures>>
  BY DEF Load
<1>1. CASE Become(a, c)
  <2>1. /\ c.at \in {"name", "stages"} /\ c.result = calls[a].result
        /\ c.stage = calls[a].stage /\ c.allOk = calls[a].allOk
        /\ c.mode = calls[a].mode
    BY FrameType DEF Frames
  <2>2. DOMAIN calls' = DOMAIN calls /\ calls'[a] = c
    BY <1>1 DEF Become
  <2>3. ASSUME NEW b \in DOMAIN calls, Under(a, b)
        PROVE  Below(config, c, Turn(a, b), calls[b])
    <3>1. Below(config, calls[a], Turn(a, b), calls[b])
      BY <2>3 DEF TreeInv
    <3> HIDE DEF c
    <3> QED
      BY <1>0, <2>1, <3>1 DEF Below, Consumed
  <2>4. Own(config, c, a, DOMAIN calls, failures)
    <3>1. Own(config, calls[a], a, DOMAIN calls, failures) /\ calls[a].result = None
      BY <1>0, Unfinished DEF TreeInv
    <3> HIDE DEF c
    <3> QED
      BY <1>0, <2>1, <3>1 DEF Own, None
  <2> HIDE DEF c
  <2>5. c \in Frames /\ FrameOK(config, c)
    BY <1>0, <2>2, RecordType
  <2> QED
    BY <1>0, <1>1, <2>3, <2>4, <2>5, TreeBecome
<1>2. CASE Return(a, "error")
  BY <1>0, <1>2, ErrorTree
<1> QED
  BY <1>1, <1>2 DEF Load

LEMMA StartStageTree ==
  ASSUME TypeInv, TreeInv, TypeInv', NEW a \in DOMAIN calls, StartStage(a)
  PROVE  TreeInv'
<1> DEFINE M == FirstMembers(a)
           c == [calls[a] EXCEPT !.at = IF InThreads(a) THEN "joining" ELSE "waiting",
                                 !.member = 1, !.stageOk = TRUE]
<1>0. /\ calls[a].at = "stages" /\ calls[a].stage <= Len(Stages(a))
      /\ UNCHANGED <<config, failures>> /\ calls' = Calling(a, M, c)
  BY DEF StartStage
<1>1. /\ Len(Stage(a).files) \in Nat /\ Len(Stage(a).files) >= 1
      /\ Stage(a).files = config[calls[a].file].stages[calls[a].stage].files
      /\ calls[a].stage \in Nat
  BY <1>0, MembersType, FrameType, FrameFields DEF Stage, Stages
<1>2. M \in SUBSET (1 .. Len(Stage(a).files)) /\ 1 \in M
  BY <1>1 DEF FirstMembers
<1>3. /\ c.at = IF InThreads(a) THEN "joining" ELSE "waiting"
      /\ c.member = 1 /\ c.stageOk /\ c.result = calls[a].result
      /\ c.stage = calls[a].stage /\ c.allOk = calls[a].allOk
      /\ c.mode = calls[a].mode /\ c.file = calls[a].file
  BY FrameType DEF Frames
<1>4. InThreads(a) => M = 1 .. Len(Stage(a).files)
  BY DEF FirstMembers
<1>5. ~InThreads(a) => M = {1}
  BY DEF FirstMembers
<1>6. calls'[a] = c /\ DOMAIN calls' = DOMAIN calls \cup {Child(a, m) : m \in M}
  BY <1>0 DEF Calling
<1> HIDE DEF c, M
<1>7. c \in Frames /\ FrameOK(config, c)
  BY <1>0, <1>6, RecordType
<1>8. ASSUME NEW b \in DOMAIN calls, Under(a, b)
      PROVE  Below(config, c, Turn(a, b), calls[b])
  <2>1. Below(config, calls[a], Turn(a, b), calls[b])
    BY <1>8 DEF TreeInv
  <2>2. Turn(a, b)[1] \in Nat
    BY <1>8, PlacesType, TowardUnder
  <2> QED
    BY <1>0, <1>1, <1>3, <2>1, <2>2 DEF Below, Consumed
<1>9. calls[a].result = None
  BY <1>0, Unfinished
<1>10. ASSUME NEW m \in M, NEW d
       PROVE  Below(config, c, <<calls[a].stage, m>>, d)
  BY <1>1, <1>2, <1>3, <1>4, <1>5, <1>9 DEF Below, Consumed, None
<1>11. Own(config, c, a, DOMAIN calls \cup {Child(a, m) : m \in M}, failures)
  <2>1. Own(config, calls[a], a, DOMAIN calls, failures)
    BY DEF TreeInv
  <2>2. \A m \in M : Append(a, <<c.stage, m>>) \in DOMAIN calls \cup {Child(a, i) : i \in M}
    BY <1>3 DEF Child
  <2>3. c.at = "waiting" => Append(a, <<c.stage, c.member>>)
                              \in DOMAIN calls \cup {Child(a, i) : i \in M}
    BY <1>2, <1>3, <2>2
  <2>4. c.at = "joining" =>
          \A m \in 1 .. Len(config[c.file].stages[c.stage].files) :
            Append(a, <<c.stage, m>>) \in DOMAIN calls \cup {Child(a, i) : i \in M}
    BY <1>1, <1>3, <1>4, <2>2
  <2> QED
    BY <1>0, <1>3, <1>9, <2>1, <2>3, <2>4 DEF Own, None
<1> QED
  BY <1>0, <1>2, <1>7, <1>8, <1>10, <1>11, TreeCalling

\* The member that a call waits for has been called.
LEMMA MemberCalled ==
  ASSUME TypeInv, TreeInv, NEW a \in DOMAIN calls, calls[a].at \in {"waiting", "joining"}
  PROVE  /\ Child(a, calls[a].member) \in DOMAIN calls
         /\ calls[a].stage \in Nat /\ calls[a].member \in Nat
<1> DEFINE m == calls[a].member
<1>1. /\ calls[a].stage \in Nat /\ m \in Nat
      /\ calls[a].at \in {"waiting", "joining"} => m >= 1 /\ m <= Len(Stage(a).files)
  BY FrameType, FrameFields DEF FrameOK, Stage, Stages
<1>2. Own(config, calls[a], a, DOMAIN calls, failures)
  BY DEF TreeInv
<1>3. Len(Stage(a).files) \in Nat
  BY FrameType, MembersType
<1>4. Child(a, m) \in DOMAIN calls
  BY <1>1, <1>2, <1>3 DEF Own, Child, Stage, Stages
<1> QED
  BY <1>1, <1>4

\* What a call that waits for members, here or in threads, knows of those it
\* has passed, and of the next one when it has returned.
LEMMA PassedMembers ==
  ASSUME TypeInv, TreeInv, NEW a \in DOMAIN calls, calls[a].at \in {"waiting", "joining"},
         calls[Child(a, calls[a].member)].result \in {"true", "false"},
         NEW b \in DOMAIN calls, Under(a, b), Turn(a, b)[1] = calls[a].stage,
         Turn(a, b)[2] <= calls[a].member
  PROVE  /\ Good(calls[b])
         /\ calls[a].stageOk /\ calls[Child(a, calls[a].member)].result = "true"
              => Passed(calls[b])
<1> DEFINE m == calls[a].member
<1>1. Below(config, calls[a], Turn(a, b), calls[b])
  BY DEF TreeInv
<1>2. Turn(a, b) \in Nat \X Nat
  BY PlacesType, TowardUnder
<1>3. CASE Turn(a, b)[2] < m
  BY <1>1, <1>3 DEF Below
<1>4. CASE Turn(a, b)[2] = m
  <2>1. Turn(a, b) = <<calls[a].stage, m>>
    BY <1>2, <1>4
  <2> QED
    BY <2>1, MemberCalled, MemberDone
<1> QED
  BY <1>2, <1>3, <1>4, MemberCalled

\* What the result of the member that a call waits for may be, and means.
LEMMA MemberResult ==
  ASSUME TypeInv, TreeInv, NEW a \in DOMAIN calls, calls[a].at \in {"waiting", "joining"},
         calls[Child(a, calls[a].member)].result \notin {None, "error"}
  PROVE  /\ calls[Child(a, calls[a].member)].result \in {"true", "false"}
         /\ calls[Child(a, calls[a].member)].result # "true" => Blame(failures, a)
<1>1. calls[Child(a, calls[a].member)].result \in {"true", "false"}
  BY MemberCalled, FrameType, FrameFields DEF ResultKinds
<1> QED
  BY <1>1, MemberCalled, MemberDone

LEMMA MemberReturnsTree ==
  ASSUME TypeInv, TreeInv, TypeInv', NEW a \in DOMAIN calls, MemberReturns(a)
  PROVE  TreeInv'
<1> DEFINE m == calls[a].member
           r == calls[Child(a, m)].result
           c == [calls[a] EXCEPT !.member = m + 1]
<1>0. /\ calls[a].at = "waiting" /\ UNCHANGED <<config, failures>> /\ r # None
      /\ calls[a].stage \in Nat /\ m \in Nat /\ calls[a].result = None
      /\ calls[a].stage <= Len(Stages(a))
      /\ Own(config, calls[a], a, DOMAIN calls, failures)
  BY FrameType, FrameFields, Unfinished DEF MemberReturns, TreeInv
<1>1. ASSUME NEW b \in DOMAIN calls, Under(a, b)
      PROVE  /\ Below(config, calls[a], Turn(a, b), calls[b])
             /\ Turn(a, b) \in Nat \X Nat
             /\ Turn(a, b)[1] = calls[a].stage => Turn(a, b)[2] <= m
  BY <1>0, <1>1, PlacesType, TowardUnder DEF TreeInv, Below
<1>2. CASE r = "error" /\ Return(a, "error")
  BY <1>0, <1>2, ErrorTree
<1>3. CASE r = "true" /\ m < Len(Stage(a).files) /\ calls' = Calling(a, {m + 1}, c)
  <2>1. {m + 1} \in SUBSET (1 .. Len(Stage(a).files))
    BY <1>0, <1>3, FrameType, MembersType
  <2>2. /\ c.at = "waiting" /\ c.member = m + 1 /\ c.result = None
        /\ c.stageOk = calls[a].stageOk
        /\ c.stage = calls[a].stage /\ c.allOk = calls[a].allOk
        /\ c.mode = calls[a].mode /\ c.file = calls[a].file
    BY <1>0, FrameType DEF Frames
  <2>3. calls'[a] = c /\ DOMAIN calls' = DOMAIN calls \cup {Child(a, i) : i \in {m + 1}}
    BY <1>3 DEF Calling
  <2> HIDE DEF c
  <2>4. c \in Frames /\ FrameOK(config, c)
    BY <1>0, <2>3, RecordType
  <2>5. calls[a].stageOk
    BY <1>0 DEF Own
  <2>6. ASSUME NEW b \in DOMAIN calls, Under(a, b)
        PROVE  Below(config, c, Turn(a, b), calls[b])
    <3>1. Turn(a, b)[1] = calls[a].stage => Good(calls[b]) /\ Passed(calls[b])
      BY <1>0, <1>1, <1>3, <2>5, <2>6, PassedMembers
    <3> QED
      BY <1>0, <1>1, <2>2, <2>6, <3>1 DEF Below, Consumed
  <2>7. \A i \in {m + 1} : \A d : Below(config, c, <<calls[a].stage, i>>, d)
    BY <1>0, <2>2 DEF Below, Consumed, None
  <2>8. Own(config, c, a, DOMAIN calls \cup {Child(a, i) : i \in {m + 1}}, failures)
    BY <1>0, <2>2 DEF Own, Child, None
  <2> QED
    BY <1>0, <1>3, <2>1, <2>4, <2>6, <2>7, <2>8, TreeCalling
<1>4. CASE /\ r # "error" /\ Become(a, AfterStage(a, r = "true"))
  <2>1. r \in {"true", "false"}
    BY <1>0, <1>4, MemberResult
  <2>2. (r = "true") \in BOOLEAN
    BY Zenon
  <2>3. calls[a].stageOk
    BY <1>0 DEF Own
  <2>4. ASSUME NEW b \in DOMAIN calls, Under(a, b), Turn(a, b)[1] = calls[a].stage
        PROVE  Good(calls[b]) /\ (r = "true" => Passed(calls[b]))
    BY <1>0, <1>1, <2>1, <2>3, <2>4, PassedMembers
  <2>5. r # "true" => Blame(failures, a)
    BY <1>0, <1>4, MemberResult
  <2> QED
    BY <1>0, <1>4, <2>2, <2>4, <2>5, StageEndsTree
<1> QED
  BY <1>2, <1>3, <1>4 DEF MemberReturns

LEMMA JoinMemberTree ==
  ASSUME TypeInv, TreeInv, TypeInv', NEW a \in DOMAIN calls, JoinMember(a)
  PROVE  TreeInv'
<1> DEFINE m == calls[a].member
           r == calls[Child(a, m)].result
           ok == calls[a].stageOk /\ r = "true"
           c == [calls[a] EXCEPT !.member = m + 1, !.stageOk = ok]
<1>0. /\ calls[a].at = "joining" /\ UNCHANGED <<config, failures>> /\ r # None
      /\ calls[a].stage \in Nat /\ m \in Nat /\ calls[a].result = None
      /\ calls[a].stage <= Len(Stages(a)) /\ Len(Stage(a).files) \in Nat
      /\ Stage(a).files = config[calls[a].file].stages[calls[a].stage].files
      /\ Own(config, calls[a], a, DOMAIN calls, failures)
  BY FrameType, FrameFields, MembersType, Unfinished
     DEF JoinMember, TreeInv, Stage, Stages
<1>1. ASSUME NEW b \in DOMAIN calls, Under(a, b)
      PROVE  /\ Below(config, calls[a], Turn(a, b), calls[b])
             /\ Turn(a, b) \in Nat \X Nat
             /\ Turn(a, b)[1] = calls[a].stage => Turn(a, b)[2] <= Len(Stage(a).files)
  BY <1>0, <1>1, PlacesType, TowardUnder DEF TreeInv, Below
<1>2. CASE r = "error" /\ Return(a, "error")
  BY <1>0, <1>2, ErrorTree
<1>3. ASSUME r # "error"
      PROVE  /\ r \in {"true", "false"} /\ ok \in BOOLEAN
             /\ ~ok => Blame(failures, a)
             /\ \A b \in DOMAIN calls :
                  Under(a, b) /\ Turn(a, b)[1] = calls[a].stage /\ Turn(a, b)[2] <= m =>
                    Good(calls[b]) /\ (ok => Passed(calls[b]))
  <2>1. r \in {"true", "false"} /\ (r # "true" => Blame(failures, a))
    BY <1>0, <1>3, MemberResult
  <2>2. ok \in BOOLEAN
    <3>1. calls[a].stageOk \in BOOLEAN
      BY FrameType, FrameFields
    <3> QED
      BY <3>1, Zenon
  <2>3. ~ok => Blame(failures, a)
    BY <1>0, <2>1 DEF Own
  <2> QED
    BY <1>0, <1>1, <2>1, <2>2, <2>3, PassedMembers
<1>4. CASE r # "error" /\ m < Len(Stage(a).files) /\ Become(a, c)
  <2>1. /\ c.at = "joining" /\ c.member = m + 1 /\ c.result = None
        /\ c.stageOk = ok
        /\ c.stage = calls[a].stage /\ c.allOk = calls[a].allOk
        /\ c.mode = calls[a].mode /\ c.file = calls[a].file
    <3> HIDE DEF ok
    <3> QED
      BY <1>0, FrameType DEF Frames
  <2>2. calls'[a] = c /\ DOMAIN calls' = DOMAIN calls
    BY <1>4 DEF Become
  <2> HIDE DEF c, ok
  <2>3. c \in Frames /\ FrameOK(config, c)
    BY <1>0, <2>2, RecordType
  <2>4. ASSUME NEW b \in DOMAIN calls, Under(a, b)
        PROVE  Below(config, c, Turn(a, b), calls[b])
    BY <1>0, <1>1, <1>3, <1>4, <2>1, <2>4 DEF Below, Consumed
  <2>5. Own(config, c, a, DOMAIN calls, failures)
    BY <1>0, <1>3, <1>4, <2>1 DEF Own, None
  <2> QED
    BY <1>0, <1>4, <2>3, <2>4, <2>5, TreeBecome
<1>5. CASE r # "error" /\ ~(m < Len(Stage(a).files)) /\ Become(a, AfterStage(a, ok))
  <2> HIDE DEF ok
  <2>1. ASSUME NEW b \in DOMAIN calls, Under(a, b), Turn(a, b)[1] = calls[a].stage
        PROVE  Good(calls[b]) /\ (ok => Passed(calls[b]))
    BY <1>0, <1>1, <1>3, <1>5, <2>1
  <2> QED
    BY <1>0, <1>3, <1>5, <2>1, StageEndsTree
<1> QED
  BY <1>2, <1>4, <1>5 DEF JoinMember

\* A call whose includes are done goes on, or returns with what became of
\* its tasks.
LEMMA AfterIncludesTree ==
  ASSUME TypeInv, TreeInv, TypeInv', NEW a \in DOMAIN calls,
         calls[a].at \in {"stages", "name", "tasks", "running"},
         NEW c, Become(a, c), UNCHANGED config,
         failures \subseteq failures', \A x \in failures' \ failures : x.call = a,
         c.at \in {"name", "tasks", "running", "returned"},
         c.stage = calls[a].stage, c.mode = calls[a].mode, c.file = calls[a].file,
         c.allOk => calls[a].allOk,
         c.at # "returned" => c.result = None,
         c.mode = "pipeline" =>
           /\ c.result = "true" => c.allOk /\ c.task > config[c.file].tasks
           /\ \A x \in failures' \ failures :
                x.end # "reported" => ~c.allOk \/ c.result \in {"false", "error"},
         ~c.allOk \/ c.result = "false" => Blame(failures', a)
  PROVE  TreeInv'
<1>1. DOMAIN calls' = DOMAIN calls /\ calls'[a] = c
  BY DEF Become
<1>2. c \in Frames /\ FrameOK(config, c)
  BY <1>1, RecordType
<1>3. ASSUME NEW b \in DOMAIN calls, Under(a, b)
      PROVE  Below(config, c, Turn(a, b), calls[b])
  <2>1. Below(config, calls[a], Turn(a, b), calls[b])
    BY <1>3 DEF TreeInv
  <2> QED
    BY <2>1 DEF Below, Consumed
<1>4. Own(config, c, a, DOMAIN calls, failures')
  <2>1. /\ Own(config, calls[a], a, DOMAIN calls, failures) /\ calls[a].result = None
        /\ Blame(failures, a) => Blame(failures', a)
    BY Unfinished DEF TreeInv, Blame
  <2> QED
    BY <2>1 DEF Own, None
<1> QED
  BY <1>2, <1>3, <1>4, TreeBecome

LEMMA MovesTree ==
  ASSUME TypeInv, TreeInv, TypeInv', NEW a \in DOMAIN calls,
         StagesEnd(a) \/ NameTemp(a) \/ StartTask(a) \/ PluginReads(a)
  PROVE  TreeInv'
<1>1. PICK c : /\ Become(a, c) /\ UNCHANGED <<config, failures>>
               /\ c.at \in {"name", "tasks", "running"} /\ c.stage = calls[a].stage
               /\ c.mode = calls[a].mode /\ c.file = calls[a].file
               /\ c.allOk = calls[a].allOk /\ c.result = calls[a].result
               /\ calls[a].at \in {"stages", "name", "tasks", "running"}
  <2>0. calls[a] \in Frames
    BY FrameType
  <2>1. CASE StagesEnd(a)
    BY <2>0, <2>1 DEF StagesEnd, Goto, Frames
  <2>2. CASE NameTemp(a)
    <3>1. PICK t \in Ticks :
            Become(a, [calls[a] EXCEPT !.at = "tasks", !.path = PathOf(a, t)])
      BY <2>2 DEF NameTemp
    <3> QED
      BY <2>0, <2>2, <3>1 DEF NameTemp, Frames
  <2>3. CASE StartTask(a)
    BY <2>0, <2>3 DEF StartTask, HasTask, Frames
  <2>4. CASE PluginReads(a)
    <3> DEFINE g == IF temp[calls[a].path] = NoFile THEN Missing ELSE temp[calls[a].path]
    <3>1. Become(a, [calls[a] EXCEPT !.got = g])
      BY <2>4 DEF PluginReads
    <3> HIDE DEF g
    <3> QED
      BY <2>0, <2>4, <3>1 DEF PluginReads, Frames
  <2> QED
    BY <2>1, <2>2, <2>3, <2>4
<1>2. /\ calls[a].result = None /\ Own(config, calls[a], a, DOMAIN calls, failures)
  BY <1>1, Unfinished DEF TreeInv
<1>3. ~c.allOk \/ c.result = "false" => Blame(failures', a)
  BY <1>1, <1>2 DEF Own, None
<1> QED
  BY <1>1, <1>2, <1>3, AfterIncludesTree DEF None

LEMMA TasksEndTree ==
  ASSUME TypeInv, TreeInv, TypeInv', NEW a \in DOMAIN calls, TasksEnd(a)
  PROVE  TreeInv'
<1> DEFINE r == IF calls[a].allOk THEN "true" ELSE "false"
           c == Returned(a, r)
<1>0. /\ calls[a].at = "tasks" /\ UNCHANGED <<config, failures>> /\ Become(a, c)
      /\ calls[a].task > config[calls[a].file].tasks
      /\ Own(config, calls[a], a, DOMAIN calls, failures)
  BY DEF TasksEnd, Return, TreeInv, Tasks
<1>1. /\ c.at = "returned" /\ c.result = r /\ c.stage = calls[a].stage
      /\ c.mode = calls[a].mode /\ c.file = calls[a].file
      /\ c.allOk = calls[a].allOk /\ c.task = calls[a].task
  BY FrameType DEF Returned, Frames
<1> HIDE DEF c
<1>2. ~c.allOk \/ c.result = "false" => Blame(failures', a)
  BY <1>0, <1>1 DEF Own
<1> QED
  BY <1>0, <1>1, <1>2, AfterIncludesTree

LEMMA EndTaskTree ==
  ASSUME TypeInv, TreeInv, TypeInv', NEW a \in DOMAIN calls, EndTask(a)
  PROVE  TreeInv'
<1>0. /\ calls[a].at = "running" /\ UNCHANGED config
      /\ a \in Places /\ calls[a] \in Frames /\ calls[a].result = None
      /\ Own(config, calls[a], a, DOMAIN calls, failures)
  BY EndTaskIs, FrameType, Unfinished DEF TreeInv
<1>1. PICK end \in Ends :
        /\ failures' = IF end = "finished" THEN failures
                       ELSE failures \cup {[call |-> a, end |-> end]}
        /\ \/ end = "broken" /\ Return(a, "error")
           \/ calls[a].mode = "single" /\ Return(a, "true")
           \/ end # "broken" /\ ~CountsAsOk(end) /\ Return(a, "false")
           \/ end # "broken" /\ Become(a, TaskEnded(a, end))
  BY EndTaskIs
<1>2. /\ failures \subseteq failures'
      /\ \A x \in failures' \ failures : x.call = a /\ x.end = end
      /\ Blame(failures, a) => Blame(failures', a)
      /\ ~calls[a].allOk => Blame(failures', a)
  BY <1>0, <1>1 DEF Own, Blame
<1>3. ASSUME end # "broken", ~CountsAsOk(end)
      PROVE  Blame(failures', a)
  <2>1. end \in {"crashed", "failed"}
    BY <1>3, EndAssumption DEF EndKinds, CountsAsOk
  <2>2. IsPrefix(a, a)
    BY <1>0, PrefixIsUnder
  <2> DEFINE x == [call |-> a, end |-> end]
  <2>3. x \in failures' /\ IsPrefix(a, x.call) /\ x.end = end
    BY <1>1, <2>1, <2>2
  <2> HIDE DEF x
  <2> QED
    BY <2>1, <2>3 DEF Blame
<1>4. CASE end = "broken" /\ Return(a, "error")
  BY <1>0, <1>2, <1>4, ErrorTree
<1>5. CASE calls[a].mode = "single" /\ Return(a, "true")
  <2> DEFINE c == Returned(a, "true")
  <2>1. /\ c.at = "returned" /\ c.result = "true" /\ c.stage = calls[a].stage
        /\ c.mode = "single" /\ c.file = calls[a].file /\ c.allOk = calls[a].allOk
    BY <1>0, <1>5 DEF Returned, Frames
  <2>2. Become(a, c)
    BY <1>5 DEF Return
  <2> HIDE DEF c
  <2> QED
    BY <1>0, <1>2, <1>5, <2>1, <2>2, AfterIncludesTree
<1>6. CASE end # "broken" /\ ~CountsAsOk(end) /\ Return(a, "false")
  <2> DEFINE c == Returned(a, "false")
  <2>1. /\ c.at = "returned" /\ c.result = "false" /\ c.stage = calls[a].stage
        /\ c.mode = calls[a].mode /\ c.file = calls[a].file /\ c.allOk = calls[a].allOk
    BY <1>0 DEF Returned, Frames
  <2>2. Become(a, c)
    BY <1>6 DEF Return
  <2> HIDE DEF c
  <2> QED
    BY <1>0, <1>2, <1>3, <1>6, <2>1, <2>2, AfterIncludesTree
<1>7. CASE end # "broken" /\ Become(a, TaskEnded(a, end))
  <2> DEFINE c == TaskEnded(a, end)
  <2>1. /\ c.at = "tasks" /\ c.result = None /\ c.stage = calls[a].stage
        /\ c.mode = calls[a].mode /\ c.file = calls[a].file
        /\ c.allOk = (calls[a].allOk /\ CountsAsOk(end))
    BY <1>0 DEF TaskEnded, Frames
  <2> HIDE DEF c
  <2>2. ~c.allOk => Blame(failures', a)
    BY <1>2, <1>3, <1>7, <2>1
  <2>3. \A x \in failures' \ failures : x.end # "reported" => ~c.allOk
    BY <1>1, <1>2, <2>1 DEF CountsAsOk
  <2>4. Become(a, c)
    BY <1>7 DEF c
  <2> QED
    BY <1>0, <1>2, <2>1, <2>2, <2>3, <2>4, AfterIncludesTree DEF None
<1> QED
  BY <1>1, <1>4, <1>5, <1>6, <1>7

LEMMA InitTree == Init => TreeInv
<1> SUFFICES ASSUME Init PROVE TreeInv
  OBVIOUS
<1>1. PICK m \in Modes : calls = [a \in {<<>>} |-> NewCall(Main, FALSE, m)]
  BY DEF Init
<1>2. /\ DOMAIN calls = {<<>>} /\ calls[<<>>] = NewCall(Main, FALSE, m) /\ failures = {}
  BY <1>1 DEF Init
<1>3. ~Under(<<>>, <<>>)
  BY DEF Under
<1> QED
  BY <1>2, <1>3 DEF TreeInv, Own, NewCall, None

LEMMA StepTree ==
  ASSUME TypeInv, TreeInv, [Next]_vars
  PROVE  TreeInv'
<1>1. TypeInv'
  BY StepType
<1>2. ASSUME NEW a \in DOMAIN calls, PluginMissing(a)
      PROVE  TreeInv'
  BY <1>2, ErrorTree DEF PluginMissing, HasTask
<1>3. ASSUME NEW a \in DOMAIN calls, CallNext(a)
      PROVE  TreeInv'
  BY <1>1, <1>2, <1>3, LoadTree, StartStageTree, MemberReturnsTree, JoinMemberTree,
     MovesTree, EndTaskTree, TasksEndTree DEF CallNext
<1>4. CASE UNCHANGED vars
  BY <1>4 DEF vars, TreeInv
<1> QED
  BY <1>3, <1>4 DEF Next, Finished

LEMMA Invariance == Spec => [](TypeInv /\ TreeInv)
BY InitType, StepType, InitTree, StepTree, PTL DEF Spec

(***************************************************************************)
(* The properties.                                                         *)
(***************************************************************************)

\* Whatever the files include and however the threads interleave, a file's
\* tasks and its next stage wait for everything the earlier stages started,
\* at every depth (executor.rs:262-330).
THEOREM Includes == Spec => []IncludesComeFirst
<1>1. ASSUME TypeInv, TreeInv PROVE IncludesComeFirst
  <2> SUFFICES ASSUME NEW a \in DOMAIN calls, NEW b \in DOMAIN calls, IsStrictPrefix(a, b),
                      \/ calls[a].at \in {"name", "tasks", "running"}
                      \/ b[Len(a) + 1][1] < calls[a].stage
               PROVE  calls[b].at = "returned"
    BY DEF IncludesComeFirst
  <2>1. Under(a, b)
    BY <1>1, PlacesType, PrefixIsUnder
  <2>2. Below(config, calls[a], Turn(a, b), calls[b])
    BY <1>1, <2>1 DEF TreeInv
  <2> QED
    BY <2>2 DEF Below, Consumed, Turn, Good
<1> QED
  BY <1>1, Invariance, PTL

\* When no call has returned with an error, nothing runs on after the
\* outermost one has returned (executor.rs:300-326).
THEOREM Quiet == Spec => []QuietAfterReturn
<1>1. ASSUME TypeInv, TreeInv PROVE QuietAfterReturn
  <2> SUFFICES ASSUME calls[<<>>].at = "returned",
                      \A a \in DOMAIN calls : calls[a].result # "error",
                      NEW b \in DOMAIN calls
               PROVE  calls[b].at = "returned"
    BY DEF QuietAfterReturn, AllReturned
  <2>1. <<>> \in DOMAIN calls /\ b \in Places /\ <<>> \in Places
    BY <1>1, PlacesType DEF TypeInv, TypeOK
  <2>2. calls[<<>>].result \in {"true", "false"}
    BY <1>1, <2>1, FrameType, FrameFields DEF FrameOK, ResultKinds
  <2>3. b = <<>> \/ Under(<<>>, b)
    BY <2>1 DEF Under, Places
  <2>4. CASE Under(<<>>, b)
    <3>1. Below(config, calls[<<>>], Turn(<<>>, b), calls[b])
      BY <1>1, <2>1, <2>4 DEF TreeInv
    <3> QED
      BY <2>2, <3>1 DEF Below, Consumed, Good
  <2> QED
    BY <2>3, <2>4
<1> QED
  BY <1>1, Invariance, PTL

LEMMA HonestState ==
  ASSUME TypeInv, TreeInv
  PROVE  ResultIsHonest
<1> SUFFICES ASSUME NEW a \in DOMAIN calls, calls[a].mode = "pipeline"
             PROVE  /\ calls[a].result = "true" =>
                         /\ \A x \in FailuresUnder(a) : x.end = "reported"
                         /\ \A b \in DOMAIN calls :
                              IsPrefix(a, b) => calls[b].task > Tasks(b)
                    /\ calls[a].result = "false" =>
                         \E x \in FailuresUnder(a) : x.end \in {"crashed", "failed"}
  BY DEF ResultIsHonest
<1>1. a \in Places /\ DOMAIN calls \subseteq Places
  BY PlacesType
<1>2. \A b \in DOMAIN calls : Own(config, calls[b], b, DOMAIN calls, failures)
  BY DEF TreeInv
<1>3. CASE calls[a].result = "true"
  <2>1. ASSUME NEW b \in DOMAIN calls, IsPrefix(a, b)
        PROVE  /\ calls[b].result = "true" /\ calls[b].allOk
               /\ calls[b].mode = "pipeline" /\ calls[b].task > Tasks(b)
    <3>1. calls[b].result = "true" /\ calls[b].mode = "pipeline"
      <4>1. b = a \/ Under(a, b)
        BY <1>1, <2>1, PrefixIsUnder
      <4>2. CASE Under(a, b)
        <5>1. Below(config, calls[a], Turn(a, b), calls[b]) /\ b # <<>>
          BY <1>1, <4>2 DEF TreeInv, Under, Places
        <5>2. calls[a].allOk
          BY <1>2, <1>3 DEF Own
        <5> QED
          BY <1>2, <1>3, <5>1, <5>2 DEF Below, Consumed, Passed, Own
      <4> QED
        BY <1>3, <4>1, <4>2
    <3> QED
      BY <1>2, <3>1 DEF Own, Tasks
  <2>2. ASSUME NEW x \in FailuresUnder(a)
        PROVE  x.end = "reported"
    <3>1. x \in failures /\ IsPrefix(a, x.call) /\ x.call \in DOMAIN calls
      BY DEF FailuresUnder, TypeInv, TypeOK
    <3>2. /\ calls[x.call].result = "true" /\ calls[x.call].allOk
          /\ calls[x.call].mode = "pipeline"
      BY <2>1, <3>1
    <3> QED
      BY <1>2, <3>1, <3>2 DEF Own
  <2> QED
    BY <1>3, <2>1, <2>2
<1>4. CASE calls[a].result = "false"
  <2>1. Blame(failures, a)
    BY <1>2, <1>4 DEF Own
  <2> QED
    BY <1>4, <2>1 DEF Blame, FailuresUnder
<1> QED
  BY <1>3, <1>4

\* The Boolean a pipeline returns agrees with what has happened at every
\* depth of its includes and in all of its threads (executor.rs:264-398).
THEOREM Honest == Spec => []ResultIsHonest
BY HonestState, Invariance, PTL

(***************************************************************************)
(* stop_on_error.                                                          *)
(***************************************************************************)

Active(b) == calls[b].at # "returned"
Within(d, b) == d = b \/ Under(d, b)
Bad(x) == x.end # "reported"
Waited(b) == Child(b, calls[b].member)

\* A call under one that stops on errors stops on errors, and no such call
\* starts threads.
StopInherited ==
  /\ \A a, b \in DOMAIN calls :
       Under(a, b) => calls[a].at # "load" /\ (calls[a].stop => calls[b].stop)
  /\ \A a \in DOMAIN calls : calls[a].stop => calls[a].at # "joining"

\* Under a call that stops on errors one call is active at a time, and the
\* calls above it wait for it.
OneAtATime ==
  /\ \A a, b \in DOMAIN calls : Under(a, b) /\ calls[a].stop /\ Active(b) =>
       calls[a].at = "waiting" /\ Within(Waited(a), b)
  /\ \A d, b, e \in DOMAIN calls :
       calls[d].stop /\ Within(d, b) /\ Within(d, e) /\ Active(b) /\ Active(e) =>
         Within(b, e) \/ Within(e, b)

\* After a failure under it, only those calls are active that wait for where
\* it happened.
Halted ==
  /\ \A x \in failures : calls[x.call].at # "load"
  /\ \A d, b \in DOMAIN calls : \A x \in failures :
       calls[d].stop /\ Within(d, b) /\ Active(b) /\ Bad(x) /\ Within(d, x.call) =>
         calls[b].at = "waiting" /\ Within(Waited(b), x.call)

StopInv == StopInherited /\ OneAtATime /\ Halted

\* How a step of call a changes the calls and failures: the record of a alone,
BecomesShape(a, c) ==
  /\ Become(a, c) /\ c.at \notin {"load", "waiting"}
  /\ c.stop = calls[a].stop \/ (calls[a].at = "load" /\ failures' = failures)
  /\ calls[a].stop => c.stop
  /\ c.at = "joining" => calls[a].at = "joining" /\ c.stop = calls[a].stop
  /\ failures \subseteq failures'
  /\ \A x \in failures' \ failures :
       /\ x.call = a /\ calls[a].at \in {"tasks", "running"}
       /\ Bad(x) /\ calls[a].stop => c.at = "returned"
  /\ calls[a].at = "waiting" =>
       /\ calls[Waited(a)].result # None
       /\ calls[a].stop /\ c.at # "returned" => calls[Waited(a)].result = "true"

\* or calls of members with it.
CallsShape(a, M, c) ==
  /\ calls' = Calling(a, M, c) /\ UNCHANGED failures
  /\ calls[a].at \in {"stages", "waiting"}
  /\ c.at \in {"waiting", "joining"}
  /\ c.stop = calls[a].stop /\ c.stage = calls[a].stage
  /\ calls[a].stop => c.at = "waiting" /\ M = {c.member}
  /\ calls[a].at = "waiting" => calls[Waited(a)].result = "true"

LEMMA Shapes ==
  ASSUME TypeInv, TreeInv, NEW a \in DOMAIN calls, CallNext(a)
  PROVE  /\ Active(a) /\ UNCHANGED config
         /\ \/ \E c : BecomesShape(a, c)
            \/ \E c : \E M \in SUBSET Nat : CallsShape(a, M, c)
<1> USE DEF Active
<1>0. /\ calls[a] \in Frames /\ calls[a].stage \in Nat /\ calls[a].member \in Nat
      /\ ("waiting" = calls[a].at => calls[a].stageOk)
  BY FrameType, FrameFields DEF TreeInv, Own
<1>e. ASSUME Return(a, "error"), calls[a].at \notin {"load", "returned", "waiting"}, UNCHANGED config,
             failures \subseteq failures',
             \A x \in failures' \ failures : x.call = a /\ calls[a].at \in {"tasks", "running"}
      PROVE  \E c : BecomesShape(a, c)
  <2> DEFINE c == Returned(a, "error")
  <2>1. Become(a, c) /\ c.at = "returned" /\ c.stop = calls[a].stop
    BY <1>0, <1>e DEF Return, Returned, Frames
  <2> HIDE DEF c
  <2> QED
    BY <1>e, <2>1 DEF BecomesShape
<1>1. CASE Load(a)
  <2>1. calls[a].at = "load" /\ UNCHANGED <<config, failures>>
    BY <1>1 DEF Load
  <2>2. PICK c : /\ Become(a, c) /\ c.at \in {"name", "stages", "returned"}
                 /\ calls[a].stop => c.stop
    <3>2. CASE ~Return(a, "error")
      <4> DEFINE single == calls[a].mode = "single"
                 c == [calls[a] EXCEPT !.at = IF single THEN "name" ELSE "stages",
                         !.stop = EffectiveStop(@, config[calls[a].file].stop)]
      <4>1. Become(a, c)
        BY <1>1, <3>2 DEF Load
      <4>2. c.at \in {"name", "stages"} /\ (calls[a].stop => c.stop)
        BY <1>0 DEF Frames, EffectiveStop
      <4> HIDE DEF c
      <4> QED
        BY <4>1, <4>2
    <3>3. Return(a, "error") => Become(a, Returned(a, "error"))
      BY DEF Return
    <3>4. Returned(a, "error").at = "returned" /\ Returned(a, "error").stop = calls[a].stop
      BY <1>0 DEF Returned, Frames
    <3> QED
      BY <3>2, <3>3, <3>4
  <2> QED
    BY <2>1, <2>2 DEF BecomesShape
<1>2. CASE StartStage(a)
  <2> DEFINE M == FirstMembers(a)
             c == [calls[a] EXCEPT !.at = IF InThreads(a) THEN "joining" ELSE "waiting",
                                   !.member = 1, !.stageOk = TRUE]
  <2>1. /\ calls[a].at = "stages" /\ UNCHANGED <<config, failures>>
        /\ calls' = Calling(a, M, c) /\ calls[a].stage <= Len(Stages(a))
    BY <1>2 DEF StartStage
  <2>2. /\ c.at = (IF InThreads(a) THEN "joining" ELSE "waiting") /\ c.member = 1
        /\ c.stop = calls[a].stop /\ c.stage = calls[a].stage
    BY <1>0 DEF Frames
  <2>3. calls[a].stop => ~InThreads(a) /\ M = {1}
    BY DEF FirstMembers, InThreads
  <2>4. M \in SUBSET Nat
    <3>1. Len(Stage(a).files) \in Nat
      BY <2>1, MembersType
    <3> QED
      BY <3>1 DEF FirstMembers
  <2> HIDE DEF c, M
  <2>5. CallsShape(a, M, c)
    BY <2>1, <2>2, <2>3 DEF CallsShape
  <2> QED
    BY <2>1, <2>4, <2>5
<1>3. CASE MemberReturns(a)
  <2> DEFINE r == calls[Waited(a)].result
             m == calls[a].member
             c == [calls[a] EXCEPT !.member = m + 1]
  <2>1. calls[a].at = "waiting" /\ r # None /\ UNCHANGED <<config, failures>>
    BY <1>3 DEF MemberReturns, Waited
  <2>2. CASE r = "error" /\ Return(a, "error")
    <3> DEFINE d == Returned(a, "error")
    <3>1. Become(a, d) /\ d.at = "returned" /\ d.stop = calls[a].stop
      BY <1>0, <2>2 DEF Return, Returned, Frames
    <3> HIDE DEF d
    <3> QED
      BY <2>1, <3>1 DEF BecomesShape
  <2>3. CASE r = "true" /\ calls' = Calling(a, {m + 1}, c)
    <3>1. /\ c.at = "waiting" /\ c.member = m + 1 /\ c.stop = calls[a].stop
          /\ c.stage = calls[a].stage
      BY <1>0, <2>1 DEF Frames
    <3> HIDE DEF c
    <3>2. CallsShape(a, {m + 1}, c)
      BY <2>1, <2>3, <3>1 DEF CallsShape
    <3> QED
      BY <1>0, <2>1, <3>2
  <2>4. CASE r # "error" /\ Become(a, AfterStage(a, r = "true"))
    <3> DEFINE d == AfterStage(a, r = "true")
    <3>1. /\ d.at \in {"stages", "returned"} /\ d.stop = calls[a].stop
          /\ calls[a].stop /\ d.at # "returned" => r = "true"
      BY <1>0 DEF AfterStage, Returned, Frames
    <3> HIDE DEF d
    <3>2. Become(a, d)
      BY <2>4 DEF d
    <3> QED
      BY <2>1, <3>1, <3>2 DEF BecomesShape
  <2> QED
    BY <1>3, <2>2, <2>3, <2>4 DEF MemberReturns, Waited
<1>4. CASE JoinMember(a)
  <2> DEFINE m == calls[a].member
             r == calls[Child(a, m)].result
             ok == calls[a].stageOk /\ r = "true"
             c == [calls[a] EXCEPT !.member = m + 1, !.stageOk = ok]
  <2>1. calls[a].at = "joining" /\ UNCHANGED <<config, failures>>
    BY <1>4 DEF JoinMember
  <2>2. CASE Return(a, "error")
    BY <1>e, <2>1, <2>2
  <2>3. CASE Become(a, c)
    <3> HIDE DEF ok
    <3>1. c.at = "joining" /\ c.stop = calls[a].stop
      BY <1>0, <2>1 DEF Frames
    <3>2. Become(a, c)
      BY <2>3
    <3> HIDE DEF c
    <3> QED
      BY <2>1, <3>1, <3>2 DEF BecomesShape
  <2>4. CASE Become(a, AfterStage(a, ok))
    <3> DEFINE d == AfterStage(a, ok)
    <3> HIDE DEF ok
    <3>1. d.at \in {"stages", "returned"} /\ d.stop = calls[a].stop /\ Become(a, d)
      BY <1>0, <2>4 DEF AfterStage, Returned, Frames
    <3> HIDE DEF d
    <3> QED
      BY <2>1, <3>1 DEF BecomesShape
  <2> QED
    BY <1>4, <2>2, <2>3, <2>4 DEF JoinMember
<1>5. CASE StagesEnd(a)
  <2> DEFINE c == [calls[a] EXCEPT !.at = "name"]
  <2>1. /\ Become(a, c) /\ c.at = "name" /\ c.stop = calls[a].stop
        /\ calls[a].at = "stages" /\ UNCHANGED <<config, failures>>
    BY <1>0, <1>5 DEF StagesEnd, Goto, Frames
  <2> HIDE DEF c
  <2> QED
    BY <2>1 DEF BecomesShape
<1>6. CASE NameTemp(a)
  <2>1. PICK t \in Ticks :
          Become(a, [calls[a] EXCEPT !.at = "tasks", !.path = PathOf(a, t)])
    BY <1>6 DEF NameTemp
  <2> DEFINE c == [calls[a] EXCEPT !.at = "tasks", !.path = PathOf(a, t)]
  <2>2. /\ Become(a, c) /\ c.at = "tasks" /\ c.stop = calls[a].stop
        /\ calls[a].at = "name" /\ UNCHANGED <<config, failures>>
    BY <1>0, <1>6, <2>1 DEF NameTemp, Frames
  <2> HIDE DEF c
  <2> QED
    BY <2>2 DEF BecomesShape
<1>7. CASE PluginMissing(a)
  BY <1>7, <1>e DEF PluginMissing, HasTask
<1>8. CASE StartTask(a)
  <2> DEFINE c == [calls[a] EXCEPT !.at = "running", !.got = NoFile]
  <2>1. /\ Become(a, c) /\ c.at = "running" /\ c.stop = calls[a].stop
        /\ calls[a].at = "tasks" /\ UNCHANGED <<config, failures>>
    BY <1>0, <1>8 DEF StartTask, HasTask, Frames
  <2> HIDE DEF c
  <2> QED
    BY <2>1 DEF BecomesShape
<1>9. CASE PluginReads(a)
  <2> DEFINE g == IF temp[calls[a].path] = NoFile THEN Missing ELSE temp[calls[a].path]
             c == [calls[a] EXCEPT !.got = g]
  <2>1. Become(a, c) /\ calls[a].at = "running" /\ UNCHANGED <<config, failures>>
    BY <1>9 DEF PluginReads
  <2> HIDE DEF g
  <2>2. c.at = "running" /\ c.stop = calls[a].stop
    BY <1>0, <2>1 DEF Frames
  <2> HIDE DEF c
  <2> QED
    BY <2>1, <2>2 DEF BecomesShape
<1>10. CASE EndTask(a)
  <2>1. calls[a].at = "running" /\ UNCHANGED config
    BY <1>10, EndTaskIs
  <2>2. PICK end \in Ends :
          /\ failures' = IF end = "finished" THEN failures
                         ELSE failures \cup {[call |-> a, end |-> end]}
          /\ \/ \E r \in {"true", "false", "error"} : Return(a, r)
             \/ /\ CountsAsOk(end) \/ ~calls[a].stop
                /\ Become(a, TaskEnded(a, end))
    BY <1>10, EndTaskIs
  <2>3. PICK c : /\ Become(a, c) /\ c.at \in {"tasks", "returned"} /\ c.stop = calls[a].stop
                 /\ c.at = "returned" \/ CountsAsOk(end) \/ ~calls[a].stop
    <3>1. CASE \E r \in {"true", "false", "error"} : Return(a, r)
      <4>1. PICK r \in {"true", "false", "error"} : Return(a, r)
        BY <3>1
      <4> DEFINE d == Returned(a, r)
      <4>2. Become(a, d) /\ d.at = "returned" /\ d.stop = calls[a].stop
        BY <1>0, <4>1 DEF Return, Returned, Frames
      <4> HIDE DEF d
      <4> QED
        BY <4>2
    <3>2. CASE Become(a, TaskEnded(a, end)) /\ (CountsAsOk(end) \/ ~calls[a].stop)
      <4> DEFINE d == TaskEnded(a, end)
      <4>1. Become(a, d) /\ d.at = "tasks" /\ d.stop = calls[a].stop
        BY <1>0, <3>2 DEF TaskEnded, Frames
      <4> HIDE DEF d
      <4> QED
        BY <3>2, <4>1
    <3> QED
      BY <2>2, <3>1, <3>2
  <2>4. /\ failures \subseteq failures'
        /\ \A x \in failures' \ failures :
             /\ x.call = a
             /\ Bad(x) /\ calls[a].stop => c.at = "returned"
    BY <2>2, <2>3 DEF Bad, CountsAsOk
  <2> QED
    BY <2>1, <2>3, <2>4 DEF BecomesShape
<1>11. CASE TasksEnd(a)
  <2>1. PICK r : Return(a, r)
    BY <1>11 DEF TasksEnd
  <2> DEFINE d == Returned(a, r)
  <2>2. /\ Become(a, d) /\ d.at = "returned" /\ d.stop = calls[a].stop
        /\ calls[a].at = "tasks" /\ UNCHANGED <<config, failures>>
    BY <1>0, <1>11, <2>1 DEF TasksEnd, Return, Returned, Frames
  <2> HIDE DEF d
  <2> QED
    BY <2>2 DEF BecomesShape
<1>12. Active(a) /\ UNCHANGED config
  BY DEF CallNext, Load, StartStage, MemberReturns, JoinMember, StagesEnd, NameTemp,
         PluginMissing, HasTask, StartTask, PluginReads, EndTask, TasksEnd
<1> QED
  BY <1>1, <1>2, <1>3, <1>4, <1>5, <1>6, <1>7, <1>8, <1>9, <1>10, <1>11, <1>12
     DEF CallNext

LEMMA WithinIsPrefix ==
  ASSUME NEW a \in Places, NEW b \in Places
  PROVE  IsPrefix(a, b) <=> Within(a, b)
BY PrefixIsUnder DEF Within

LEMMA WithinWithin ==
  ASSUME NEW a \in Places, NEW b \in Places, NEW c \in Places, Within(a, b), Within(b, c)
  PROVE  Within(a, c)
BY UnderUnder DEF Within

\* The call a call waits for.
LEMMA WaitedIs ==
  ASSUME TypeInv, TreeInv, NEW a \in DOMAIN calls, calls[a].at = "waiting"
  PROVE  Waited(a) \in DOMAIN calls /\ Under(a, Waited(a)) /\ Waited(a) # <<>>
<1>1. Waited(a) \in DOMAIN calls /\ <<calls[a].stage, calls[a].member>> \in Nat \X Nat
  BY MemberCalled DEF Waited
<1>2. Under(a, Waited(a))
  BY <1>1, PlacesType, UnderAppend DEF Waited, Child
<1>3. Len(a) >= 0 /\ Len(<<>>) = 0
  BY PlacesType DEF Places
<1> QED
  BY <1>1, <1>2, <1>3 DEF Under

\* When a call that stops on errors goes on, nothing below it is active.
LEMMA NoneBelow ==
  ASSUME TypeInv, TreeInv, StopInv, NEW a \in DOMAIN calls, calls[a].stop,
         calls[a].at = "waiting" => calls[Waited(a)].result # None,
         NEW b \in DOMAIN calls, Under(a, b)
  PROVE  ~Active(b)
<1> SUFFICES ASSUME Active(b) PROVE FALSE
  OBVIOUS
<1>1. calls[a].at = "waiting" /\ Within(Waited(a), b)
  BY DEF StopInv, OneAtATime
<1>2. /\ Waited(a) \in DOMAIN calls /\ Under(a, Waited(a))
      /\ calls[Waited(a)].at = "returned"
  <2>1. Waited(a) \in DOMAIN calls /\ Under(a, Waited(a))
    BY <1>1, WaitedIs
  <2>2. FrameOK(config, calls[Waited(a)])
    BY <2>1, FrameType
  <2> QED
    BY <1>1, <2>1, <2>2 DEF FrameOK
<1>3. calls[Waited(a)].stop
  BY <1>2 DEF StopInv, StopInherited
<1> QED
  BY <1>1, <1>2, <1>3 DEF Within, Active, StopInv, OneAtATime

\* When the member a call waits for has returned true, no failure is below it.
LEMMA NoFailureBelow ==
  ASSUME TypeInv, TreeInv, NEW a \in DOMAIN calls, calls[a].at = "waiting",
         calls[Waited(a)].result = "true",
         NEW x \in failures, Within(Waited(a), x.call)
  PROVE  ~Bad(x)
<1>1. Waited(a) \in DOMAIN calls /\ Waited(a) # <<>>
  BY WaitedIs
<1>2. calls[Waited(a)].mode = "pipeline"
  BY <1>1 DEF TreeInv, Own
<1>3. x.call \in DOMAIN calls
  BY DEF TypeInv, TypeOK
<1>4. x \in FailuresUnder(Waited(a))
  BY <1>1, <1>3, PlacesType, WithinIsPrefix DEF FailuresUnder
<1> QED
  BY <1>1, <1>2, <1>4, HonestState DEF ResultIsHonest, Bad

LEMMA BecomesStop ==
  ASSUME TypeInv, TreeInv, StopInv, NEW a \in DOMAIN calls, Active(a), UNCHANGED config,
         NEW c, BecomesShape(a, c)
  PROVE  StopInv'
<1>0. /\ DOMAIN calls' = DOMAIN calls /\ calls'[a] = c
      /\ \A b \in DOMAIN calls : b # a => calls'[b] = calls[b]
  BY DEF BecomesShape, Become
<1>1. DOMAIN calls \subseteq Places /\ \A x \in failures : x.call \in DOMAIN calls
  BY PlacesType DEF TypeInv, TypeOK
<1>2. \A d \in DOMAIN calls : calls[d].stop => calls'[d].stop
  BY <1>0 DEF BecomesShape
<1>3. ASSUME NEW d \in DOMAIN calls, calls'[d].stop, ~calls[d].stop
      PROVE  d = a /\ calls[a].at = "load" /\ failures' = failures
             /\ \A b \in DOMAIN calls : ~Under(d, b)
  BY <1>0, <1>3 DEF BecomesShape, StopInv, StopInherited
<1>4. \A b \in DOMAIN calls : Active(b)' => Active(b)
  BY <1>0 DEF Active
<1>5. StopInherited'
  BY <1>0, <1>2, <1>3 DEF StopInherited, StopInv, BecomesShape
<1>6. ASSUME NEW p \in DOMAIN calls, NEW b \in DOMAIN calls,
             Under(p, b), calls'[p].stop, Active(b)'
      PROVE  calls'[p].at = "waiting" /\ Within(Waited(p)', b)
  <2>1. calls[p].stop /\ Active(b)
    BY <1>3, <1>4, <1>6
  <2>2. p # a
    BY <1>6, <2>1, NoneBelow DEF BecomesShape
  <2>3. calls[p].at = "waiting" /\ Within(Waited(p), b)
    BY <1>6, <2>1 DEF StopInv, OneAtATime
  <2> QED
    BY <1>0, <2>2, <2>3 DEF Waited, Child
<1>7. ASSUME NEW d \in DOMAIN calls, NEW b \in DOMAIN calls, NEW e \in DOMAIN calls,
             calls'[d].stop, Within(d, b), Within(d, e), Active(b)', Active(e)'
      PROVE  Within(b, e) \/ Within(e, b)
  <2>1. CASE calls[d].stop
    BY <1>4, <1>7, <2>1 DEF StopInv, OneAtATime
  <2>2. CASE ~calls[d].stop
    BY <1>3, <1>7, <2>2 DEF Within
  <2> QED
    BY <2>1, <2>2
<1>8. \A x \in failures' : x.call \in DOMAIN calls /\ calls'[x.call].at # "load"
  BY <1>0, <1>1 DEF BecomesShape, StopInv, Halted
<1>9. ASSUME NEW d \in DOMAIN calls, NEW b \in DOMAIN calls, NEW x \in failures',
             calls'[d].stop, Within(d, b), Active(b)', Bad(x), Within(d, x.call)
      PROVE  calls'[b].at = "waiting" /\ Within(Waited(b)', x.call)
  <2>1. calls[d].stop
    BY <1>1, <1>3, <1>9 DEF Within, StopInv, Halted
  <2>2. calls[b].stop /\ Active(b)
    BY <1>4, <1>9, <2>1 DEF Within, StopInv, StopInherited
  <2>3. CASE x \in failures
    <3>1. calls[b].at = "waiting" /\ Within(Waited(b), x.call)
      BY <1>9, <2>1, <2>2, <2>3 DEF StopInv, Halted
    <3>2. b # a
      BY <1>0, <1>9, <2>2, <2>3, <3>1, NoFailureBelow DEF Active, BecomesShape
    <3> QED
      BY <1>0, <3>1, <3>2 DEF Waited, Child
  <2>4. CASE x \notin failures
    <3>1. x.call = a /\ calls[a].at \in {"tasks", "running"}
      BY <2>4 DEF BecomesShape
    <3>2. calls[a].stop
      BY <1>9, <2>1, <3>1 DEF Within, StopInv, StopInherited
    <3>3. b # a
      BY <1>0, <1>9, <2>4, <3>2 DEF Active, BecomesShape
    <3>4. Under(a, b) \/ Under(b, a)
      BY <1>9, <2>1, <2>2, <3>1, <3>3 DEF Within, StopInv, OneAtATime
    <3>5. ~Under(a, b)
      BY <2>2, <3>1, <3>2 DEF StopInv, OneAtATime
    <3>6. calls[b].at = "waiting" /\ Within(Waited(b), a)
      BY <2>2, <3>4, <3>5 DEF StopInv, OneAtATime
    <3> QED
      BY <1>0, <3>1, <3>3, <3>6 DEF Waited, Child
  <2> QED
    BY <2>3, <2>4
<1>10. OneAtATime'
  BY <1>0, <1>6, <1>7 DEF OneAtATime
<1>11. Halted'
  BY <1>0, <1>8, <1>9 DEF Halted
<1> QED
  BY <1>5, <1>10, <1>11 DEF StopInv

LEMMA CallsStop ==
  ASSUME TypeInv, TreeInv, StopInv, NEW a \in DOMAIN calls, Active(a), UNCHANGED config,
         NEW c, NEW M \in SUBSET Nat, CallsShape(a, M, c)
  PROVE  StopInv'
<1>0. /\ DOMAIN calls \subseteq DOMAIN calls' /\ calls'[a] = c
      /\ \A b \in DOMAIN calls : b # a => calls'[b] = calls[b]
      /\ \A b \in DOMAIN calls' : b \in DOMAIN calls \/ \E m \in M : b = Child(a, m)
      /\ \A b \in DOMAIN calls' : b \notin DOMAIN calls =>
           calls'[b].stop = calls[a].stop /\ calls'[b].at = "load"
  BY DEF CallsShape, Calling, NewCall
<1>1. /\ DOMAIN calls \subseteq Places /\ \A x \in failures : x.call \in DOMAIN calls
      /\ calls[a].stage \in Nat
  BY PlacesType, FrameType, FrameFields DEF TypeInv, TypeOK
<1>2. ASSUME NEW b \in DOMAIN calls', b \notin DOMAIN calls
      PROVE  /\ b \in Places /\ Under(a, b)
             /\ calls[a].stop => b = Waited(a)'
             /\ \A p \in DOMAIN calls : Under(p, b) => Within(p, a)
  <2>1. PICK m \in M : b = Child(a, m)
    BY <1>0, <1>2
  <2>2. <<calls[a].stage, m>> \in Nat \X Nat /\ b = Append(a, <<calls[a].stage, m>>)
    BY <1>1, <2>1 DEF Child
  <2>3. b \in Places
    BY <1>1, <2>2 DEF Places
  <2>4. Under(a, b) /\ \A p \in DOMAIN calls : Under(p, b) => Within(p, a)
    BY <1>1, <2>2, UnderAppend DEF Within
  <2>5. calls[a].stop => m = c.member /\ c.stage = calls[a].stage
    BY DEF CallsShape
  <2> QED
    BY <1>0, <2>2, <2>3, <2>4, <2>5 DEF Waited, Child
<1>3. ASSUME NEW p \in DOMAIN calls', NEW b \in DOMAIN calls', Under(p, b)
      PROVE  p \in DOMAIN calls
  BY <1>0, <1>3, NewIsLeaf
<1>4. \A p \in DOMAIN calls : calls'[p].stop = calls[p].stop
  BY <1>0 DEF CallsShape
<1>5. \A b \in DOMAIN calls : Active(b)' => Active(b)
  BY <1>0 DEF Active
<1>6. ASSUME calls[a].stop, NEW b \in DOMAIN calls, Under(a, b)
      PROVE  ~Active(b)
  BY <1>6, NoneBelow DEF CallsShape, None
<1>7. ASSUME NEW p \in DOMAIN calls, NEW b \in DOMAIN calls', b \notin DOMAIN calls, Within(p, b)
      PROVE  Within(p, a) /\ (calls'[p].stop => calls[a].stop)
  <2>1. Within(p, a)
    BY <1>2, <1>7 DEF Within
  <2> QED
    BY <1>4, <2>1 DEF Within, StopInv, StopInherited
<1>8. StopInherited'
  <2>1. ASSUME NEW p \in DOMAIN calls', NEW b \in DOMAIN calls', Under(p, b)
        PROVE  calls'[p].at # "load" /\ (calls'[p].stop => calls'[b].stop)
    <3>1. p \in DOMAIN calls
      BY <1>3, <2>1
    <3>2. calls'[p].at # "load"
      <4>1. CASE p = a
        BY <1>0, <4>1 DEF CallsShape
      <4>2. CASE p # a /\ b \in DOMAIN calls
        BY <1>0, <2>1, <3>1, <4>2 DEF StopInv, StopInherited
      <4>3. CASE p # a /\ b \notin DOMAIN calls
        BY <1>0, <1>7, <2>1, <3>1, <4>3 DEF Within, StopInv, StopInherited
      <4> QED
        BY <4>1, <4>2, <4>3
    <3>3. CASE b \in DOMAIN calls
      BY <1>4, <2>1, <3>1, <3>2, <3>3 DEF StopInv, StopInherited
    <3>4. CASE b \notin DOMAIN calls
      BY <1>0, <1>7, <2>1, <3>1, <3>2, <3>4 DEF Within
    <3> QED
      BY <3>3, <3>4
  <2>2. ASSUME NEW p \in DOMAIN calls', calls'[p].stop
        PROVE  calls'[p].at # "joining"
    <3>1. CASE p = a
      BY <1>0, <2>2, <3>1 DEF CallsShape
    <3>2. CASE p \in DOMAIN calls /\ p # a
      BY <1>0, <2>2, <3>2 DEF StopInv, StopInherited
    <3>3. CASE p \notin DOMAIN calls
      BY <1>0, <3>3
    <3> QED
      BY <3>1, <3>2, <3>3
  <2> QED
    BY <2>1, <2>2 DEF StopInherited
<1>9. ASSUME NEW p \in DOMAIN calls', NEW b \in DOMAIN calls',
             Under(p, b), calls'[p].stop, Active(b)'
      PROVE  calls'[p].at = "waiting" /\ Within(Waited(p)', b)
  <2>1. p \in DOMAIN calls /\ calls[p].stop
    BY <1>3, <1>4, <1>9
  <2>2. CASE p = a
    <3>1. b \notin DOMAIN calls
      BY <1>5, <1>6, <1>9, <2>1, <2>2
    <3> QED
      BY <1>0, <1>2, <2>1, <2>2, <3>1 DEF CallsShape, Within
  <2>3. CASE p # a
    <3>1. Waited(p)' = Waited(p) /\ calls'[p] = calls[p]
      BY <1>0, <2>1, <2>3 DEF Waited, Child
    <3>2. CASE b \in DOMAIN calls
      BY <1>5, <1>9, <2>1, <3>1, <3>2 DEF StopInv, OneAtATime
    <3>3. CASE b \notin DOMAIN calls
      <4>1. Under(p, a)
        BY <1>7, <1>9, <2>1, <2>3, <3>3 DEF Within
      <4>2. calls[p].at = "waiting" /\ Within(Waited(p), a)
        BY <2>1, <4>1 DEF StopInv, OneAtATime
      <4>3. Waited(p) \in Places
        BY <1>1, <2>1, <4>2, WaitedIs
      <4>4. b \in Places /\ Within(a, b)
        BY <1>2, <3>3 DEF Within
      <4>5. Within(Waited(p), b)
        BY <1>1, <4>2, <4>3, <4>4, WithinWithin
      <4> QED
        BY <3>1, <4>2, <4>5
    <3> QED
      BY <3>2, <3>3
  <2> QED
    BY <2>2, <2>3
<1>10. ASSUME NEW d \in DOMAIN calls, NEW b \in DOMAIN calls', NEW e \in DOMAIN calls,
              calls'[d].stop, b \notin DOMAIN calls, Within(d, b), Within(d, e), Active(e)'
       PROVE  Within(e, b)
  <2>1. Within(d, a) /\ calls[a].stop /\ calls[d].stop /\ Active(e)
    BY <1>4, <1>5, <1>7, <1>10
  <2>2. Within(a, e) \/ Within(e, a)
    BY <1>10, <2>1 DEF StopInv, OneAtATime
  <2>3. ~Under(a, e)
    BY <1>6, <2>1
  <2>4. Within(e, a) /\ Within(a, b) /\ b \in Places
    BY <1>2, <1>10, <2>2, <2>3 DEF Within
  <2> QED
    BY <1>1, <2>4, WithinWithin
<1>11. ASSUME NEW d \in DOMAIN calls', NEW b \in DOMAIN calls', NEW e \in DOMAIN calls',
              calls'[d].stop, Within(d, b), Within(d, e), Active(b)', Active(e)'
       PROVE  Within(b, e) \/ Within(e, b)
  <2>1. CASE d \notin DOMAIN calls
    BY <1>3, <1>11, <2>1 DEF Within
  <2>2. CASE d \in DOMAIN calls /\ b \in DOMAIN calls /\ e \in DOMAIN calls
    BY <1>4, <1>5, <1>11, <2>2 DEF StopInv, OneAtATime
  <2>3. CASE d \in DOMAIN calls /\ b \notin DOMAIN calls /\ e \in DOMAIN calls
    BY <1>10, <1>11, <2>3
  <2>4. CASE d \in DOMAIN calls /\ b \in DOMAIN calls /\ e \notin DOMAIN calls
    BY <1>10, <1>11, <2>4
  <2>5. CASE d \in DOMAIN calls /\ b \notin DOMAIN calls /\ e \notin DOMAIN calls
    <3>1. calls[a].stop
      BY <1>7, <1>11, <2>5
    <3> QED
      BY <1>2, <2>5, <3>1 DEF Within
  <2> QED
    BY <2>1, <2>2, <2>3, <2>4, <2>5
<1>12. \A x \in failures' : calls'[x.call].at # "load"
  BY <1>0, <1>1 DEF CallsShape, StopInv, Halted
<1>13. ASSUME NEW d \in DOMAIN calls', NEW b \in DOMAIN calls', NEW x \in failures',
              calls'[d].stop, Within(d, b), Active(b)', Bad(x), Within(d, x.call)
       PROVE  calls'[b].at = "waiting" /\ Within(Waited(b)', x.call)
  <2>1. x \in failures /\ x.call \in DOMAIN calls
    BY <1>1 DEF CallsShape
  <2>2. d \in DOMAIN calls /\ calls[d].stop
    BY <1>0, <1>3, <1>4, <1>13, <2>1 DEF Within
  <2>3. ~Within(d, a)
    <3> SUFFICES ASSUME Within(d, a) PROVE FALSE
      OBVIOUS
    <3>1. calls[a].at = "waiting" /\ Within(Waited(a), x.call)
      BY <1>13, <2>1, <2>2 DEF StopInv, Halted
    <3> QED
      BY <1>13, <2>1, <3>1, NoFailureBelow DEF CallsShape
  <2>4. b \in DOMAIN calls /\ b # a
    BY <1>7, <1>13, <2>2, <2>3
  <2>5. calls[b].at = "waiting" /\ Within(Waited(b), x.call)
    BY <1>5, <1>13, <2>1, <2>2, <2>4 DEF StopInv, Halted
  <2> QED
    BY <1>0, <2>4, <2>5 DEF Waited, Child
<1>14. OneAtATime'
  BY <1>9, <1>11 DEF OneAtATime
<1>15. Halted'
  BY <1>12, <1>13 DEF Halted
<1> QED
  BY <1>8, <1>14, <1>15 DEF StopInv

LEMMA StopInit == Init => StopInv
<1> SUFFICES ASSUME Init PROVE StopInv
  OBVIOUS
<1>1. DOMAIN calls = {<<>>} /\ failures = {} /\ calls[<<>>].at = "load"
  BY DEF Init, NewCall
<1>2. ~Under(<<>>, <<>>)
  BY Len(<<>>) = 0 DEF Under
<1> QED
  BY <1>1, <1>2 DEF StopInv, StopInherited, OneAtATime, Halted, Within

LEMMA StopStep ==
  ASSUME TypeInv, TreeInv, StopInv, [Next]_vars
  PROVE  StopInv'
<1>1. CASE UNCHANGED vars
  BY <1>1 DEF vars, StopInv, StopInherited, OneAtATime, Halted, Active, Waited, Child
<1>2. ASSUME NEW a \in DOMAIN calls, CallNext(a)
      PROVE  StopInv'
  BY <1>2, Shapes, BecomesStop, CallsStop
<1> QED
  BY <1>1, <1>2 DEF Next, Finished

\* Once a task has failed under a call that stops on errors, no task starts
\* under that call, at any depth and in no thread (executor.rs:274, 285, 323,
\* 396).
THEOREM Stops == Spec => StopHalts
<1> DEFINE Halting == \A a \in DOMAIN calls : StartsTask(a) =>
             \A d \in DOMAIN calls : calls[d].stop /\ IsPrefix(d, a) =>
               \A x \in FailuresUnder(d) : x.end = "reported"
<1>1. ASSUME TypeInv, StopInv PROVE Halting
  <2> SUFFICES ASSUME NEW a \in DOMAIN calls, StartsTask(a),
                      NEW d \in DOMAIN calls, calls[d].stop, IsPrefix(d, a),
                      NEW x \in FailuresUnder(d), Bad(x)
               PROVE  FALSE
    BY DEF Bad
  <2>1. x \in failures /\ x.call \in DOMAIN calls /\ DOMAIN calls \subseteq Places
    BY <1>1, PlacesType DEF FailuresUnder, TypeInv, TypeOK
  <2>2. Within(d, a) /\ Within(d, x.call)
    BY <2>1, WithinIsPrefix DEF FailuresUnder
  <2>3. calls[a].at = "tasks"
    BY DEF StartsTask
  <2> QED
    BY <1>1, <2>1, <2>2, <2>3 DEF StopInv, Halted, Active
<1>2. TypeInv /\ StopInv => [Halting]_vars
  BY <1>1
<1>3. Spec => [](TypeInv /\ TreeInv /\ StopInv)
  BY InitType, StepType, InitTree, StepTree, StopInit, StopStep, PTL DEF Spec
<1> QED
  BY <1>2, <1>3, PTL DEF StopHalts


(***************************************************************************)
(* The temporary task file.                                                *)
(***************************************************************************)

\* Between naming the temporary file and returning.
HasPath(c) == c.at \in {"tasks", "running"}

\* Another call is on a file of the same stem.
Rival(a) ==
  \E b \in DOMAIN calls \ {a} : Stem(calls[b].file) = Stem(calls[a].file)

\* The snapshot that a's plugin is to open is there, unless a has a rival.
Snapshots ==
  \A a \in DOMAIN calls :
    /\ HasPath(calls[a]) => calls[a].path.stem = Stem(calls[a].file)
    /\ calls[a].at = "running" =>
         temp[calls[a].path] = calls[a].file \/ Rival(a)
    /\ calls[a].got \in {NoFile, calls[a].file} \/ Rival(a)

\* Each temporary file is some call's to remove, unless a plugin was missing.
Owned ==
  \A p \in Paths : temp[p] # NoFile =>
    \/ \E a \in DOMAIN calls : HasPath(calls[a]) /\ calls[a].path = p
    \/ \E x \in failures : x.end = "missing"

TempInv == Snapshots /\ Owned

\* How a step takes the record of call a to d, and the temporary files along.
TempStep(a, d) ==
  LET c == calls[a]
  IN \/ /\ ~HasPath(c) /\ ~HasPath(d) /\ d.got \in {NoFile, c.got} /\ temp' = temp
     \/ /\ c.at = "name" /\ d.at = "tasks" /\ d.got = c.got /\ temp' = temp
        /\ d.path.stem = Stem(c.file)
     \/ /\ HasPath(c) /\ d.at = "returned" /\ d.got = NoFile /\ temp' = temp
        /\ \E x \in failures' : x.end = "missing"
     \/ /\ c.at = "tasks" /\ d.at = "running" /\ d.got = NoFile /\ d.path = c.path
        /\ temp' = [temp EXCEPT ![c.path] = c.file]
     \/ /\ c.at = "running" /\ d.at = "running" /\ d.path = c.path /\ temp' = temp
        /\ d.got = IF temp[c.path] = NoFile THEN Missing ELSE temp[c.path]
     \/ /\ c.at = "running" /\ d.at = "tasks" /\ d.got = NoFile /\ d.path = c.path
        /\ temp' = temp
     \/ /\ HasPath(c) /\ d.at = "returned" /\ d.got = NoFile
        /\ temp' = Removed(a)

\* A step of call a: its record becomes d, and members may be called.
CallStep(a, d) ==
  /\ DOMAIN calls \subseteq DOMAIN calls' /\ UNCHANGED config
  /\ calls'[a] = d /\ d.file = calls[a].file
  /\ \A b \in DOMAIN calls \ {a} : calls'[b] = calls[b]
  /\ \A b \in DOMAIN calls' \ DOMAIN calls :
       /\ calls'[b].at = "load" /\ calls'[b].got = NoFile
       /\ calls[a].at \in {"stages", "waiting"} /\ calls[a].stage <= Len(Stages(a))
       /\ \E m \in 1 .. Len(Stage(a).files) :
            b = Child(a, m) /\ calls'[b].file = Included(a, m)

LEMMA BecomeStep ==
  ASSUME NEW a \in DOMAIN calls, NEW c, Become(a, c), c.file = calls[a].file,
         UNCHANGED config
  PROVE  CallStep(a, c)
BY DEF Become, CallStep

LEMMA CallingStep ==
  ASSUME TypeInv, NEW a \in DOMAIN calls, NEW c,
         calls[a].at \in {"stages", "waiting"}, calls[a].stage <= Len(Stages(a)),
         NEW M \in SUBSET (1 .. Len(Stage(a).files)),
         calls' = Calling(a, M, c), c.file = calls[a].file, UNCHANGED config
  PROVE  CallStep(a, c)
<1>1. /\ DOMAIN calls' = DOMAIN calls \cup {Child(a, m) : m \in M}
      /\ calls'[a] = c
      /\ \A b \in DOMAIN calls \ {a} : calls'[b] = calls[b]
      /\ \A b \in DOMAIN calls' \ DOMAIN calls :
           calls'[b] = NewCall(Included(a, Last(b)[2]), calls[a].stop, "pipeline")
  BY DEF Calling
<1>2. a \in Places /\ calls[a].stage \in Nat
  BY FrameType, FrameFields
<1>3. ASSUME NEW m \in M
      PROVE  Last(Child(a, m)) = <<calls[a].stage, m>>
  <2>1. <<calls[a].stage, m>> \in Nat \X Nat
    BY <1>2
  <2> QED
    BY <2>1, <1>2 DEF Child, Last, Places
<1>4. ASSUME NEW b \in DOMAIN calls' \ DOMAIN calls
      PROVE  /\ calls'[b].at = "load" /\ calls'[b].got = NoFile
             /\ \E m \in 1 .. Len(Stage(a).files) :
                  b = Child(a, m) /\ calls'[b].file = Included(a, m)
  <2>1. PICK m \in M : b = Child(a, m)
    BY <1>1
  <2>2. calls'[b] = NewCall(Included(a, m), calls[a].stop, "pipeline")
    BY <1>1, <1>3, <2>1
  <2> QED
    BY <2>1, <2>2 DEF NewCall
<1> QED
  BY <1>1, <1>4 DEF CallStep

\* The record of a call that returns.
LEMMA ReturnedIs ==
  ASSUME TypeInv, NEW a \in DOMAIN calls, NEW r
  PROVE  /\ Returned(a, r).at = "returned" /\ Returned(a, r).got = NoFile
         /\ Returned(a, r).file = calls[a].file /\ Returned(a, r).result = r
BY FrameType DEF Returned, Frames

LEMMA AfterStageIs ==
  ASSUME TypeInv, NEW a \in DOMAIN calls, NEW ok
  PROVE  /\ AfterStage(a, ok).at \in {"stages", "returned"}
         /\ AfterStage(a, ok).got \in {NoFile, calls[a].got}
         /\ AfterStage(a, ok).file = calls[a].file
<1>1. CASE ~ok /\ calls[a].stop
  <2> DEFINE d == Returned(a, "false")
             e == [d EXCEPT !.allOk = FALSE]
  <2>1. d \in Frames
    BY ReturnedType
  <2>2. d.at = "returned" /\ d.got = NoFile /\ d.file = calls[a].file
    BY ReturnedIs
  <2> HIDE DEF d
  <2>3. e.at = d.at /\ e.got = d.got /\ e.file = d.file
    BY <2>1 DEF Frames
  <2>4. AfterStage(a, ok) = e
    BY <1>1 DEF AfterStage, d
  <2> QED
    BY <2>2, <2>3, <2>4
<1>2. CASE ~(~ok /\ calls[a].stop)
  BY <1>2, FrameType DEF AfterStage, Frames
<1> QED
  BY <1>1, <1>2

\* A step of call a that is about calls alone.
OnlyCalls(a) ==
  \E d : CallStep(a, d) /\ TempStep(a, d) /\ UNCHANGED <<temp, failures, alarm>>

\* The steps of loading and of the include stages.
LEMMA IncludeSteps ==
  ASSUME TypeInv, TreeInv, NEW a \in DOMAIN calls,
         Load(a) \/ StartStage(a) \/ MemberReturns(a) \/ JoinMember(a)
  PROVE  OnlyCalls(a)
<1>1. /\ calls[a].at \in {"load", "stages", "waiting", "joining"}
      /\ UNCHANGED <<config, temp, failures, alarm>>
  BY DEF Load, StartStage, MemberReturns, JoinMember
<1>2. ASSUME NEW d, CallStep(a, d), ~HasPath(d), d.got \in {NoFile, calls[a].got}
      PROVE  OnlyCalls(a)
  <2>1. ~HasPath(calls[a])
    BY <1>1 DEF HasPath
  <2> QED
    BY <1>1, <1>2, <2>1 DEF TempStep, OnlyCalls
<1>3. ASSUME NEW d, Become(a, d), ~HasPath(d), d.got \in {NoFile, calls[a].got},
             d.file = calls[a].file
      PROVE  OnlyCalls(a)
  BY <1>1, <1>2, <1>3, BecomeStep
<1>4. ASSUME NEW r, Return(a, r)
      PROVE  OnlyCalls(a)
  BY <1>3, <1>4, ReturnedIs DEF Return, HasPath
<1>5. ASSUME NEW ok, Become(a, AfterStage(a, ok))
      PROVE  OnlyCalls(a)
  BY <1>3, <1>5, AfterStageIs DEF HasPath
<1>6. ASSUME NEW d, calls[a].at \in {"stages", "waiting"},
             calls[a].stage <= Len(Stages(a)),
             NEW M \in SUBSET (1 .. Len(Stage(a).files)),
             calls' = Calling(a, M, d), ~HasPath(d),
             d.got = calls[a].got, d.file = calls[a].file
      PROVE  OnlyCalls(a)
  BY <1>1, <1>2, <1>6, CallingStep
<1>7. calls[a] \in Frames /\ calls[a].member \in Nat
  BY FrameType, FrameFields
<1>8. CASE Load(a)
  <2> DEFINE single == calls[a].mode = "single"
             c == [calls[a] EXCEPT !.at = IF single THEN "name" ELSE "stages",
                     !.stop = EffectiveStop(@, config[calls[a].file].stop)]
  <2>1. c.at \in {"name", "stages"} /\ c.got = calls[a].got /\ c.file = calls[a].file
    BY <1>7 DEF Frames
  <2>2. Become(a, c) \/ Return(a, "error")
    BY <1>8 DEF Load
  <2> HIDE DEF c
  <2> QED
    BY <1>3, <1>4, <2>1, <2>2 DEF HasPath
<1>9. CASE StartStage(a)
  <2> DEFINE M == FirstMembers(a)
             c == [calls[a] EXCEPT !.at = IF InThreads(a) THEN "joining" ELSE "waiting",
                                   !.member = 1, !.stageOk = TRUE]
  <2>1. /\ calls' = Calling(a, M, c) /\ calls[a].at = "stages"
        /\ calls[a].stage <= Len(Stages(a))
    BY <1>9 DEF StartStage
  <2>2. c.at \in {"waiting", "joining"} /\ c.got = calls[a].got
        /\ c.file = calls[a].file
    BY <1>7 DEF Frames
  <2>3. M \in SUBSET (1 .. Len(Stage(a).files))
    <3>1. Len(Stage(a).files) \in Nat /\ Len(Stage(a).files) >= 1
      BY <2>1, MembersType
    <3> QED
      BY <3>1 DEF FirstMembers
  <2> HIDE DEF c, M
  <2> QED
    BY <1>6, <2>1, <2>2, <2>3 DEF HasPath
<1>10. CASE MemberReturns(a)
  <2> DEFINE m == calls[a].member
             r == calls[Child(a, m)].result
             c == [calls[a] EXCEPT !.member = m + 1]
  <2>1. \/ Return(a, "error")
        \/ m < Len(Stage(a).files) /\ calls' = Calling(a, {m + 1}, c)
        \/ Become(a, AfterStage(a, r = "true"))
    BY <1>10 DEF MemberReturns
  <2>2. /\ c.at = "waiting" /\ c.got = calls[a].got /\ c.file = calls[a].file
        /\ calls[a].at = "waiting" /\ calls[a].stage <= Len(Stages(a))
    BY <1>7, <1>10, FrameType DEF Frames, MemberReturns
  <2>3. m < Len(Stage(a).files) => {m + 1} \in SUBSET (1 .. Len(Stage(a).files))
    BY <1>7, <2>2, MembersType
  <2> HIDE DEF c
  <2> QED
    BY <1>4, <1>5, <1>6, <2>1, <2>2, <2>3 DEF HasPath
<1>11. CASE JoinMember(a)
  <2> DEFINE m == calls[a].member
             r == calls[Child(a, m)].result
             ok == calls[a].stageOk /\ r = "true"
             c == [calls[a] EXCEPT !.member = m + 1, !.stageOk = ok]
  <2>1. \/ Return(a, "error")
        \/ Become(a, c)
        \/ Become(a, AfterStage(a, ok))
    BY <1>11 DEF JoinMember
  <2> HIDE DEF ok
  <2>2. c.at = "joining" /\ c.got = calls[a].got /\ c.file = calls[a].file
    BY <1>7, <1>11 DEF Frames, JoinMember
  <2> HIDE DEF c
  <2> QED
    BY <1>3, <1>4, <1>5, <2>1, <2>2 DEF HasPath
<1> QED
  BY <1>8, <1>9, <1>10, <1>11

\* The steps of the tasks.
LEMMA TaskSteps ==
  ASSUME TypeInv, TreeInv, NEW a \in DOMAIN calls,
         \/ StagesEnd(a) \/ NameTemp(a) \/ PluginMissing(a) \/ StartTask(a)
         \/ PluginReads(a) \/ EndTask(a) \/ TasksEnd(a)
  PROVE  \E d : CallStep(a, d) /\ TempStep(a, d)
<1>1. calls[a] \in Frames /\ UNCHANGED config
  BY FrameType DEF StagesEnd, NameTemp, PluginMissing, StartTask, PluginReads,
                   EndTask, TasksEnd
<1>2. ASSUME NEW d, Become(a, d), TempStep(a, d), d.file = calls[a].file
      PROVE  \E e : CallStep(a, e) /\ TempStep(a, e)
  BY <1>1, <1>2, BecomeStep
<1>3. ASSUME NEW r, Return(a, r), HasPath(calls[a]),
             temp' = Removed(a) \/ (temp' = temp /\ \E x \in failures' : x.end = "missing")
      PROVE  \E e : CallStep(a, e) /\ TempStep(a, e)
  <2> DEFINE d == Returned(a, r)
  <2>1. d.at = "returned" /\ d.got = NoFile /\ d.file = calls[a].file
    BY ReturnedIs
  <2>2. Become(a, d)
    BY <1>3 DEF Return
  <2> HIDE DEF d
  <2>3. TempStep(a, d)
    BY <1>3, <2>1 DEF TempStep
  <2> QED
    BY <1>2, <2>1, <2>2, <2>3
<1>4. CASE StagesEnd(a)
  <2> DEFINE d == [calls[a] EXCEPT !.at = "name"]
  <2>1. d.at = "name" /\ d.got = calls[a].got /\ d.file = calls[a].file
    BY <1>1 DEF Frames
  <2>2. Become(a, d) /\ temp' = temp /\ calls[a].at = "stages"
    BY <1>4 DEF StagesEnd, Goto
  <2> HIDE DEF d
  <2> QED
    BY <1>2, <2>1, <2>2 DEF TempStep, HasPath
<1>5. CASE NameTemp(a)
  <2>1. PICK t \in Ticks :
          Become(a, [calls[a] EXCEPT !.at = "tasks", !.path = PathOf(a, t)])
    BY <1>5 DEF NameTemp
  <2> DEFINE d == [calls[a] EXCEPT !.at = "tasks", !.path = PathOf(a, t)]
  <2>2. /\ d.at = "tasks" /\ d.got = calls[a].got /\ d.file = calls[a].file
        /\ d.path = PathOf(a, t)
    BY <1>1 DEF Frames
  <2>3. Become(a, d) /\ temp' = temp /\ calls[a].at = "name"
    BY <1>5, <2>1 DEF NameTemp
  <2>4. d.path.stem = Stem(calls[a].file)
    BY <2>2 DEF PathOf
  <2> HIDE DEF d
  <2> QED
    BY <1>2, <2>2, <2>3, <2>4 DEF TempStep
<1>6. CASE PluginMissing(a)
  <2>1. \E x \in failures' : x.end = "missing"
    <3>1. [call |-> a, end |-> "missing"] \in failures'
      BY <1>6 DEF PluginMissing
    <3> QED
      BY <3>1
  <2>2. Return(a, "error") /\ temp' = temp /\ HasPath(calls[a])
    BY <1>6 DEF PluginMissing, HasTask, HasPath
  <2> QED
    BY <1>3, <2>1, <2>2
<1>7. CASE StartTask(a)
  <2> DEFINE d == [calls[a] EXCEPT !.at = "running", !.got = NoFile]
  <2>1. /\ d.at = "running" /\ d.got = NoFile /\ d.file = calls[a].file
        /\ d.path = calls[a].path
    BY <1>1 DEF Frames
  <2>2. /\ Become(a, d) /\ calls[a].at = "tasks"
        /\ temp' = [temp EXCEPT ![calls[a].path] = calls[a].file]
    BY <1>7 DEF StartTask, HasTask
  <2> HIDE DEF d
  <2> QED
    BY <1>2, <2>1, <2>2 DEF TempStep
<1>8. CASE PluginReads(a)
  <2> DEFINE x == IF temp[calls[a].path] = NoFile THEN Missing ELSE temp[calls[a].path]
             d == [calls[a] EXCEPT !.got = x]
  <2>1. /\ d.at = calls[a].at /\ d.got = x /\ d.file = calls[a].file
        /\ d.path = calls[a].path
    BY <1>1 DEF Frames
  <2>2. Become(a, d) /\ temp' = temp /\ calls[a].at = "running"
    BY <1>8 DEF PluginReads
  <2> HIDE DEF d
  <2> QED
    BY <1>2, <2>1, <2>2 DEF TempStep
<1>9. CASE EndTask(a)
  <2>1. calls[a].at = "running" /\ HasPath(calls[a])
    BY <1>9, EndTaskIs DEF HasPath
  <2>2. PICK end \in Ends :
          \/ \E r : Return(a, r) /\ temp' = Removed(a)
          \/ Become(a, TaskEnded(a, end)) /\ temp' = temp
    BY <1>9, EndTaskIs
  <2> DEFINE d == TaskEnded(a, end)
  <2>3. /\ d.at = "tasks" /\ d.got = NoFile /\ d.file = calls[a].file
        /\ d.path = calls[a].path
    BY <1>1 DEF TaskEnded, Frames
  <2> HIDE DEF d
  <2>4. CASE Become(a, d) /\ temp' = temp
    BY <1>2, <2>1, <2>3, <2>4 DEF TempStep
  <2> QED
    BY <1>3, <2>1, <2>2, <2>4 DEF d
<1>10. CASE TasksEnd(a)
  <2>1. HasPath(calls[a]) /\ temp' = Removed(a) /\ \E r : Return(a, r)
    BY <1>10 DEF TasksEnd, HasPath
  <2> QED
    BY <1>3, <2>1
<1> QED
  BY <1>4, <1>5, <1>6, <1>7, <1>8, <1>9, <1>10

LEMMA StepShape ==
  ASSUME TypeInv, TreeInv, NEW a \in DOMAIN calls, CallNext(a)
  PROVE  /\ \E d : CallStep(a, d) /\ TempStep(a, d)
         /\ failures \subseteq failures'
<1>1. failures \subseteq failures'
  BY Shapes DEF BecomesShape, CallsShape
<1> QED
  BY <1>1, IncludeSteps, TaskSteps DEF CallNext, OnlyCalls

LEMMA TempInit == Init => TempInv
<1> SUFFICES ASSUME Init PROVE TempInv
  OBVIOUS
<1>1. \A a \in DOMAIN calls : calls[a].at = "load" /\ calls[a].got = NoFile
  BY DEF Init, NewCall
<1>2. Snapshots
  BY <1>1 DEF Snapshots, HasPath
<1>3. Owned
  BY DEF Init, Owned
<1> QED
  BY <1>2, <1>3 DEF TempInv

\* A rival stays one.
LEMMA RivalStays ==
  ASSUME NEW a \in DOMAIN calls, NEW d, CallStep(a, d), NEW b \in DOMAIN calls, Rival(b)
  PROVE  Rival(b)'
<1>1. PICK e \in DOMAIN calls \ {b} : Stem(calls[e].file) = Stem(calls[b].file)
  BY DEF Rival
<1>2. /\ calls'[e].file = calls[e].file /\ calls'[b].file = calls[b].file
      /\ e \in DOMAIN calls' \ {b}
  BY DEF CallStep
<1> QED
  BY <1>1, <1>2 DEF Rival

\* The temporary file of b when a step changes the one of a.
LEMMA OtherSnapshot ==
  ASSUME TypeInv, Snapshots, NEW a \in DOMAIN calls, NEW d, CallStep(a, d),
         NEW b \in DOMAIN calls, b # a, HasPath(calls[a]), HasPath(calls[b]),
         NEW x, temp' = [temp EXCEPT ![calls[a].path] = x]
  PROVE  temp'[calls[b].path] = temp[calls[b].path] \/ Rival(b)
<1>1. CASE calls[a].path = calls[b].path
  <2>1. Stem(calls[a].file) = Stem(calls[b].file)
    BY <1>1 DEF Snapshots
  <2> QED
    BY <2>1 DEF Rival
<1>2. CASE calls[a].path # calls[b].path
  <2>1. calls[b].path \in Paths /\ temp \in [Paths -> Files \cup {NoFile}]
    BY FrameType DEF FrameOK, HasPath, TypeInv, TypeOK
  <2> QED
    BY <1>2, <2>1
<1> QED
  BY <1>1, <1>2

LEMMA SnapshotsStep ==
  ASSUME TypeInv, TempInv, NEW a \in DOMAIN calls, NEW d, CallStep(a, d), TempStep(a, d)
  PROVE  Snapshots'
<1>1. /\ temp \in [Paths -> Files \cup {NoFile}]
      /\ HasPath(calls[a]) => calls[a].path \in Paths
      /\ calls[a].at = "running" => calls[a].file # NoFile
  BY FrameType, FileAssumption DEF FrameOK, HasPath, TypeInv, TypeOK, NoFile
<1>2. ASSUME NEW b \in DOMAIN calls, b # a
      PROVE  /\ HasPath(calls'[b]) => calls'[b].path.stem = Stem(calls'[b].file)
             /\ calls'[b].at = "running" =>
                  temp'[calls'[b].path] = calls'[b].file \/ Rival(b)'
             /\ calls'[b].got \in {NoFile, calls'[b].file} \/ Rival(b)'
  <2>1. calls'[b] = calls[b]
    BY <1>2 DEF CallStep
  <2>2. Rival(b) => Rival(b)'
    BY RivalStays
  <2>3. ASSUME calls[b].at = "running"
        PROVE  temp'[calls[b].path] = temp[calls[b].path] \/ Rival(b)
    <3>1. CASE temp' = temp
      BY <3>1
    <3>2. CASE /\ HasPath(calls[a])
               /\ \E x : temp' = [temp EXCEPT ![calls[a].path] = x]
      BY <1>2, <2>3, <3>2, OtherSnapshot DEF TempInv, HasPath
    <3> QED
      BY <3>1, <3>2 DEF TempStep, Removed, HasPath
  <2> QED
    BY <2>1, <2>2, <2>3 DEF TempInv, Snapshots
<1>3. /\ calls'[a] = d /\ d.file = calls[a].file
      /\ Rival(a) => Rival(a)'
  BY RivalStays DEF CallStep
<1>4. /\ HasPath(d) => d.path.stem = Stem(d.file)
      /\ d.at = "running" => temp'[d.path] = d.file \/ Rival(a)
      /\ d.got \in {NoFile, d.file} \/ Rival(a)
  <2>1. CASE ~HasPath(calls[a]) /\ ~HasPath(d) /\ d.got \in {NoFile, calls[a].got}
    BY <1>3, <2>1 DEF TempInv, Snapshots, HasPath
  <2>2. CASE /\ calls[a].at = "name" /\ d.at = "tasks" /\ d.got = calls[a].got
             /\ d.path.stem = Stem(calls[a].file)
    BY <1>3, <2>2 DEF TempInv, Snapshots
  <2>3. CASE d.at = "returned" /\ d.got = NoFile
    BY <2>3 DEF HasPath
  <2>4. CASE /\ calls[a].at = "tasks" /\ d.at = "running" /\ d.got = NoFile
             /\ d.path = calls[a].path
             /\ temp' = [temp EXCEPT ![calls[a].path] = calls[a].file]
    BY <1>1, <1>3, <2>4 DEF TempInv, Snapshots, HasPath
  <2>5. CASE /\ calls[a].at = "running" /\ d.at = "running"
             /\ d.path = calls[a].path /\ temp' = temp
             /\ d.got = IF temp[calls[a].path] = NoFile THEN Missing
                                                        ELSE temp[calls[a].path]
    BY <1>1, <1>3, <2>5 DEF TempInv, Snapshots, HasPath
  <2>6. CASE /\ calls[a].at = "running" /\ d.at = "tasks" /\ d.got = NoFile
             /\ d.path = calls[a].path
    BY <1>3, <2>6 DEF TempInv, Snapshots, HasPath
  <2> QED
    BY <2>1, <2>2, <2>3, <2>4, <2>5, <2>6 DEF TempStep
<1>5. \A b \in DOMAIN calls' \ DOMAIN calls :
        ~HasPath(calls'[b]) /\ calls'[b].at # "running" /\ calls'[b].got = NoFile
  BY DEF CallStep, HasPath
<1>6. ASSUME NEW b \in DOMAIN calls'
      PROVE  /\ HasPath(calls'[b]) => calls'[b].path.stem = Stem(calls'[b].file)
             /\ calls'[b].at = "running" =>
                  temp'[calls'[b].path] = calls'[b].file \/ Rival(b)'
             /\ calls'[b].got \in {NoFile, calls'[b].file} \/ Rival(b)'
  <2>1. CASE b = a
    BY <1>3, <1>4, <2>1
  <2>2. CASE b \in DOMAIN calls /\ b # a
    BY <1>2, <2>2
  <2>3. CASE b \in DOMAIN calls' \ DOMAIN calls
    BY <1>5, <2>3
  <2> QED
    BY <2>1, <2>2, <2>3
<1> QED
  BY <1>6 DEF Snapshots, HasPath

LEMMA OwnedStep ==
  ASSUME TypeInv, TempInv, NEW a \in DOMAIN calls, NEW d, CallStep(a, d), TempStep(a, d),
         failures \subseteq failures'
  PROVE  Owned'
<1> SUFFICES ASSUME NEW p \in Paths, temp'[p] # NoFile,
                    ~ \E x \in failures' : x.end = "missing"
             PROVE  \E b \in DOMAIN calls' : HasPath(calls'[b]) /\ calls'[b].path = p
  BY DEF Owned, HasPath
<1>1. temp \in [Paths -> Files \cup {NoFile}]
  BY DEF TypeInv, TypeOK
<1>2. calls'[a] = d /\ a \in DOMAIN calls'
      /\ \A b \in DOMAIN calls \ {a} : b \in DOMAIN calls' /\ calls'[b] = calls[b]
  BY DEF CallStep
<1>3. CASE temp[p] # NoFile
  <2>1. PICK b \in DOMAIN calls : HasPath(calls[b]) /\ calls[b].path = p
    BY <1>3 DEF TempInv, Owned
  <2>2. CASE b # a
    BY <1>2, <2>1, <2>2
  <2>3. CASE b = a
    <3>1. HasPath(calls[a]) /\ calls[a].path = p
      BY <2>1, <2>3
    <3>2. temp' # Removed(a)
      BY <1>1, <3>1 DEF Removed
    <3>3. HasPath(d) /\ d.path = p
      BY <3>1, <3>2 DEF TempStep, HasPath
    <3> QED
      BY <1>2, <3>3
  <2> QED
    BY <2>2, <2>3
<1>4. CASE temp[p] = NoFile
  <2>1. /\ calls[a].at = "tasks" /\ d.at = "running" /\ d.path = calls[a].path
        /\ temp' = [temp EXCEPT ![calls[a].path] = calls[a].file]
    <3>1. temp' # temp
      BY <1>4
    <3>2. temp' # Removed(a)
      BY <1>1, <1>4 DEF Removed
    <3> QED
      BY <3>1, <3>2 DEF TempStep
  <2>2. d.path = p
    BY <1>1, <1>4, <2>1
  <2> QED
    BY <1>2, <2>1, <2>2 DEF HasPath
<1> QED
  BY <1>3, <1>4

LEMMA TempStays ==
  ASSUME TypeInv, TreeInv, TempInv, [Next]_vars
  PROVE  TempInv'
<1>1. ASSUME NEW a \in DOMAIN calls, CallNext(a)
      PROVE  TempInv'
  <2>1. PICK d : CallStep(a, d) /\ TempStep(a, d)
    BY <1>1, StepShape
  <2>2. failures \subseteq failures'
    BY <1>1, StepShape
  <2> QED
    BY <2>1, <2>2, SnapshotsStep, OwnedStep DEF TempInv
<1>2. CASE UNCHANGED vars
  BY <1>2 DEF vars, TempInv, Snapshots, Owned, Rival
<1> QED
  BY <1>1, <1>2 DEF Next, Finished

LEMMA TempInvariance == Spec => []TempInv
BY InitType, StepType, InitTree, StepTree, TempInit, TempStays, PTL DEF Spec

\* However the threads interleave, a plugin finds the snapshot of its own task
\* file unless another call is on a file of the same stem, for every project
\* (executor.rs, make_run_tmp_path and run_tasks).
THEOREM OwnSnapshot == Spec => []OwnSnapshotOfOwnStem
<1>1. TempInv => OwnSnapshotOfOwnStem
  BY DEF TempInv, Snapshots, Rival, OwnSnapshotOfOwnStem
<1> QED
  BY <1>1, TempInvariance, PTL

\* When all calls have returned and no plugin was missing, no temporary task
\* file is left, whatever ended the calls (executor.rs:391).
THEOREM CleansUp == Spec => []NoTempLeft
<1>1. TempInv => NoTempLeft
  BY DEF TempInv, Owned, HasPath, AllReturned, NoTempLeft
<1> QED
  BY <1>1, TempInvariance, PTL

(***************************************************************************)
(* The exit code.                                                          *)
(***************************************************************************)

\* What is known of each failure as soon as it happens.
Told ==
  \A x \in failures :
    /\ x.end # "finished"
    /\ x.end \in {"missing", "broken"} => calls[x.call].result = "error"
    /\ x.end \in {"reported", "failed"} => alarm

LEMMA ToldStep ==
  ASSUME TypeInv, TreeInv, Told, [Next]_vars
  PROVE  Told'
<1> DEFINE News(x, a) ==
             /\ x.call = a /\ x.end # "finished"
             /\ x.end \in {"missing", "broken"} => calls'[a].result = "error"
             /\ x.end \in {"reported", "failed"} => alarm'
<1>1. ASSUME NEW a \in DOMAIN calls, CallNext(a), alarm => alarm',
             \A x \in failures' \ failures : News(x, a)
      PROVE  Told'
  <2>1. PICK d : CallStep(a, d)
    BY <1>1, StepShape
  <2>2. calls[a].result = None
    BY <1>1, Shapes, Unfinished DEF Active
  <2>3. ASSUME NEW x \in failures
        PROVE  x.end \in {"missing", "broken"} => calls'[x.call].result = "error"
    <3>1. x.call \in DOMAIN calls
      BY DEF TypeInv, TypeOK
    <3> QED
      BY <2>1, <2>2, <3>1 DEF Told, CallStep, None
  <2> QED
    BY <1>1, <2>3 DEF Told
<1>2. ASSUME NEW a \in DOMAIN calls,
             \/ Load(a) \/ StartStage(a) \/ MemberReturns(a) \/ JoinMember(a)
             \/ StagesEnd(a) \/ NameTemp(a) \/ StartTask(a) \/ PluginReads(a)
             \/ TasksEnd(a)
      PROVE  Told'
  <2>1. UNCHANGED <<failures, alarm>>
    BY <1>2 DEF Load, StartStage, MemberReturns, JoinMember, StagesEnd, NameTemp,
                StartTask, PluginReads, TasksEnd
  <2> QED
    BY <1>1, <1>2, <2>1 DEF CallNext
<1>3. ASSUME NEW a \in DOMAIN calls, PluginMissing(a)
      PROVE  Told'
  <2>1. /\ alarm' = alarm /\ Become(a, Returned(a, "error"))
        /\ failures' = failures \cup {[call |-> a, end |-> "missing"]}
    BY <1>3 DEF PluginMissing, Return
  <2>2. calls'[a].result = "error"
    BY <2>1, ReturnedIs DEF Become
  <2> QED
    BY <1>1, <1>3, <2>1, <2>2 DEF CallNext
<1>4. ASSUME NEW a \in DOMAIN calls, EndTask(a)
      PROVE  Told'
  <2>1. PICK end \in Ends :
          /\ failures' = IF end = "finished" THEN failures
                         ELSE failures \cup {[call |-> a, end |-> end]}
          /\ alarm' = (alarm \/ end \in {"reported", "failed"})
          /\ end = "broken" => Return(a, "error")
    BY <1>4, EndTaskIs
  <2>2. end = "broken" => calls'[a].result = "error"
    BY <2>1, ReturnedIs DEF Become, Return
  <2>3. end \in {"reported", "failed"} => alarm'
    BY <2>1
  <2>4. alarm => alarm'
    BY <2>1
  <2>5. ASSUME NEW x \in failures' \ failures
        PROVE  News(x, a)
    <3>1. end # "finished" /\ x = [call |-> a, end |-> end]
      BY <2>1
    <3>2. x.call = a /\ x.end = end
      BY <3>1
    <3>3. end # "missing"
      BY EndAssumption DEF EndKinds
    <3> QED
      BY <2>2, <2>3, <3>1, <3>2, <3>3
  <2> HIDE DEF News
  <2> QED
    BY <1>1, <1>4, <2>4, <2>5 DEF CallNext
<1>5. CASE UNCHANGED vars
  BY <1>5 DEF vars, Told
<1> QED
  BY <1>2, <1>3, <1>4, <1>5 DEF Next, CallNext, Finished

\* An error reaches the outermost call, when that returns.
LEMMA ErrorsRise ==
  ASSUME TypeInv, TreeInv, AllReturned, NEW b \in DOMAIN calls,
         calls[b].result = "error"
  PROVE  calls[<<>>].result = "error"
<1>1. <<>> \in DOMAIN calls /\ b \in Places /\ <<>> \in Places
  BY PlacesType DEF TypeInv, TypeOK
<1>2. calls[<<>>].result \in {"true", "false", "error"}
  BY <1>1, FrameType, FrameFields DEF FrameOK, ResultKinds, AllReturned
<1>3. b = <<>> \/ Under(<<>>, b)
  BY <1>1 DEF Under, Places
<1>4. CASE Under(<<>>, b)
  <2>1. Below(config, calls[<<>>], Turn(<<>>, b), calls[b])
    BY <1>1, <1>4 DEF TreeInv
  <2> QED
    BY <1>2, <2>1 DEF Below, Consumed, Good
<1> QED
  BY <1>3, <1>4

\* Whatever goes wrong, at any depth and in any thread, `oc run` exits with
\* 1, unless all that went wrong is a plugin that exited with another code
\* than 0 and said nothing (executor.rs; oc-cli main.rs:203-210).
THEOREM ExitTells == Spec => []ExitTellsFailure
<1>1. ASSUME TypeInv, TreeInv, Told
      PROVE  ExitTellsFailure
  <2> SUFFICES ASSUME AllReturned, NEW x \in failures, x.end # "crashed"
               PROVE  calls[<<>>].result = "error" \/ alarm
    BY DEF ExitTellsFailure, ExitCode
  <2>1. x.call \in DOMAIN calls /\ x.end \in EndKinds \cup {"missing"}
    BY <1>1 DEF TypeInv, TypeOK
  <2>2. calls[x.call].result = "error" \/ alarm
    BY <1>1, <2>1 DEF Told, EndKinds
  <2> QED
    BY <1>1, <2>1, <2>2, ErrorsRise
<1>2. Init => Told
  BY DEF Init, Told
<1> QED
  BY <1>1, <1>2, InitType, StepType, InitTree, StepTree, ToldStep, PTL DEF Spec

(***************************************************************************)
(* Includes.                                                               *)
(***************************************************************************)

AbsoluteCalls ==
  IsAbsolute(Main) => \A a \in DOMAIN calls : IsAbsolute(calls[a].file)

\* The file at f includes the one at g, at place y of its stages.
IncludedAt(cfg, f, y, g) ==
  /\ y[1] \in 1 .. Len(cfg[f].stages)
  /\ y[2] \in 1 .. Len(cfg[f].stages[y[1]].files)
  /\ g = ResolveInclude(f, ParsedInclude(f, cfg[f].stages[y[1]].files[y[2]]))

\* A call was made for an include of the file of the call above it.
Caller(b) ==
  \E a \in DOMAIN calls, y \in Nat \X Nat :
    /\ b = Append(a, y) /\ calls[a].file \in Files
    /\ IncludedAt(config, calls[a].file, y, calls[b].file)

IncludeInv == AbsoluteCalls /\ \A b \in DOMAIN calls \ {<<>>} : Caller(b)

LEMMA Append2 ==
  ASSUME NEW a \in Places, NEW y \in Nat \X Nat
  PROVE  Front(Append(a, y)) = a /\ Last(Append(a, y)) = y /\ Append(a, y) # <<>>
BY DEF Places, Front, Last

\* Joined to the directory of an absolute path, a path is absolute.
LEMMA JoinedIs ==
  ASSUME NEW base \in Seq(STRING), Len(base) >= 2, IsAbsolute(base),
         NEW written \in Seq(STRING)
  PROVE  LET f == ResolveInclude(base, ParsedInclude(base, written))
         IN /\ f = IF IsAbsolute(written) THEN written ELSE Directory(base) \o written
            /\ IsAbsolute(f)
<1>1. /\ Directory(base) \in Seq(STRING) /\ Len(Directory(base)) >= 1
      /\ Directory(base)[1] = base[1]
  BY DEF Directory, Front
<1>2. ~IsAbsolute(written) => IsAbsolute(Directory(base) \o written)
  <2>1. (Directory(base) \o written)[1] = base[1]
    BY <1>1
  <2>2. Head(Directory(base) \o written) = (Directory(base) \o written)[1]
    BY <1>1
  <2>3. Head(base) = base[1]
    OBVIOUS
  <2> QED
    BY <2>1, <2>2, <2>3 DEF IsAbsolute
<1> QED
  BY <1>2 DEF ResolveInclude, ParsedInclude, Joined

\* Joined to the working directory, a path stays what it is.
LEMMA JoinedHere ==
  ASSUME NEW base \in Seq(STRING), Len(base) = 1, NEW written \in Seq(STRING)
  PROVE  /\ ResolveInclude(base, ParsedInclude(base, written)) = written
         /\ Directory(base) \o written = written
<1>1. Directory(base) = <<>>
  BY DEF Directory, Front
<1>2. <<>> \o written = written
  OBVIOUS
<1> QED
  BY <1>1, <1>2 DEF ResolveInclude, ParsedInclude, Joined

LEMMA IncludeInit == Init => IncludeInv
<1> SUFFICES ASSUME Init PROVE IncludeInv
  OBVIOUS
<1>1. DOMAIN calls = {<<>>} /\ calls[<<>>].file = Main
  BY DEF Init, NewCall
<1> QED
  BY <1>1 DEF IncludeInv, AbsoluteCalls

\* The root is a directory; and run_oce_file was given an absolute path, or
\* all relative paths are of files in the working directory.
Rooted ==
  /\ \A f \in Files : IsAbsolute(f) => Len(f) >= 2
  /\ IsAbsolute(Main) \/ \A f \in Files : ~IsAbsolute(f) => Len(f) = 1

LEMMA IncludeStep ==
  ASSUME Rooted, TypeInv, TreeInv, IncludeInv, [Next]_vars
  PROVE  IncludeInv'
<1>1. ASSUME NEW a \in DOMAIN calls, CallNext(a)
      PROVE  IncludeInv'
  <2>1. PICK d : CallStep(a, d)
    BY <1>1, StepShape
  <2>2. /\ config' = config /\ DOMAIN calls \subseteq DOMAIN calls'
        /\ \A b \in DOMAIN calls : calls'[b].file = calls[b].file
    BY <2>1 DEF CallStep
  <2>3. ASSUME NEW b \in DOMAIN calls' \ DOMAIN calls
        PROVE  (b # <<>> => Caller(b)') /\ (IsAbsolute(Main) => IsAbsolute(calls'[b].file))
    <3>1. PICK m \in 1 .. Len(Stage(a).files) :
            b = Child(a, m) /\ calls'[b].file = Included(a, m)
      BY <2>1 DEF CallStep
    <3> DEFINE f == calls[a].file
               i == calls[a].stage
               written == config[f].stages[i].files[m]
    <3>2. /\ f \in Files /\ f \in Seq(STRING) /\ i \in Nat \ {0}
          /\ i <= Len(config[f].stages)
      BY <2>1, FrameType, FrameFields DEF CallStep, FrameOK, Stages
    <3>3. calls'[b].file = ResolveInclude(f, ParsedInclude(f, written))
      BY <3>1 DEF Included, Stage, Stages
    <3>4. written \in Seq(STRING) /\ m \in Nat
      <4>1. m \in 1 .. Len(config[f].stages[i].files)
        BY DEF Stage, Stages
      <4> HIDE DEF f, i
      <4> QED
        BY <3>2, <4>1, StageType
    <3>5. b = Append(a, <<i, m>>) /\ <<i, m>> \in Nat \X Nat
      BY <3>1, <3>2, <3>4 DEF Child
    <3>6. Caller(b)'
      <4>1. m \in 1 .. Len(config[f].stages[i].files)
        BY DEF Stage, Stages
      <4> DEFINE y == <<i, m>>
      <4>2. y[1] = i /\ y[2] = m /\ i \in 1 .. Len(config[f].stages)
        BY <3>2, ConfigType
      <4>3. IncludedAt(config, f, y, calls'[b].file)
        BY <3>3, <4>1, <4>2 DEF IncludedAt
      <4> HIDE DEF y
      <4>4. b = Append(a, y) /\ y \in Nat \X Nat
        BY <3>5 DEF y
      <4>5. f = calls'[a].file /\ a \in DOMAIN calls'
        BY <2>2
      <4> HIDE DEF f, i, written
      <4> QED
        BY <2>2, <3>2, <4>3, <4>4, <4>5 DEF Caller
    <3>7. IsAbsolute(Main) => IsAbsolute(calls'[b].file)
      BY <3>2, <3>3, <3>4, JoinedIs DEF IncludeInv, AbsoluteCalls, Rooted
    <3> QED
      BY <3>6, <3>7
  <2>4. ASSUME NEW b \in DOMAIN calls, Caller(b)
        PROVE  Caller(b)'
    BY <2>2, <2>4 DEF Caller
  <2> QED
    BY <2>2, <2>3, <2>4 DEF IncludeInv, AbsoluteCalls
<1>2. CASE UNCHANGED vars
  BY <1>2 DEF vars, IncludeInv, AbsoluteCalls, Caller
<1> QED
  BY <1>1, <1>2 DEF Next, Finished

\* Given such paths, every include, at every depth, opens the file that its
\* path names from the directory of the file that contains it (oc-core
\* parse.rs, parse_include; executor.rs, resolve_include).
THEOREM FindsFiles ==
  ASSUME Rooted
  PROVE  Spec => []IncludeFindsItsFile
<1>1. ASSUME TypeInv, IncludeInv
      PROVE  IncludeFindsItsFile
  <2> SUFFICES
        ASSUME NEW b \in DOMAIN calls \ {<<>>}
        PROVE  LET by == calls[Front(b)].file
                   written == config[by].stages[Last(b)[1]].files[Last(b)[2]]
               IN calls[b].file = IF IsAbsolute(written) THEN written
                                  ELSE Directory(by) \o written
    BY DEF IncludeFindsItsFile
  <2>1. PICK a \in DOMAIN calls, y \in Nat \X Nat :
          /\ b = Append(a, y) /\ calls[a].file \in Files
          /\ IncludedAt(config, calls[a].file, y, calls[b].file)
    BY <1>1 DEF IncludeInv, Caller
  <2> DEFINE f == calls[a].file
             written == config[f].stages[y[1]].files[y[2]]
  <2>2. Front(b) = a /\ Last(b) = y
    BY <1>1, <2>1, PlacesType, Append2
  <2>3. f \in Seq(STRING)
    BY <1>1, FrameType, FrameFields
  <2>4. (IsAbsolute(f) /\ Len(f) >= 2) \/ Len(f) = 1
    BY <1>1, <2>1 DEF Rooted, IncludeInv, AbsoluteCalls
  <2>5. written \in Seq(STRING)
    <3> HIDE DEF f
    <3>1. f \in Files /\ y[1] \in Nat \ {0}
      BY <2>1 DEF f, IncludedAt
    <3>2. y[1] <= Len(config[f].stages) /\ y[2] \in 1 .. Len(config[f].stages[y[1]].files)
      BY <2>1 DEF f, IncludedAt
    <3> QED
      BY <1>1, <3>1, <3>2, StageType
  <2>6. calls[b].file = IF IsAbsolute(written) THEN written ELSE Directory(f) \o written
    <3>1. calls[b].file = ResolveInclude(f, ParsedInclude(f, written))
      BY <2>1 DEF IncludedAt
    <3> HIDE DEF f, written
    <3>2. CASE IsAbsolute(f) /\ Len(f) >= 2
      BY <2>3, <2>5, <3>1, <3>2, JoinedIs
    <3>3. CASE Len(f) = 1
      BY <2>3, <2>5, <3>1, <3>3, JoinedHere
    <3> QED
      BY <2>4, <3>2, <3>3
  <2> QED
    BY <2>2, <2>6
<1> QED
  BY <1>1, InitType, StepType, InitTree, StepTree, IncludeInit, IncludeStep, PTL DEF Spec

=============================================================================
