------------------------------ MODULE Pipeline ------------------------------
(***************************************************************************)
(* run_oce_file and run_oc_file_impl of crates/oc-runner/src/executor.rs:  *)
(* a .oce file includes others in stages, sequentially or with one thread  *)
(* per file, and then runs its own tasks one after the other.  A task      *)
(* writes the temporary task file, starts the plugin, and waits for        *)
(* run_tool_task, whose results RunContract describes.                     *)
(*                                                                         *)
(* A call of run_oc_file_impl is known by its place in the tree of calls:  *)
(* <<>> for the outermost, and one pair <<stage, member>> more for a file  *)
(* it includes.  The calls of a tree share nothing but the directory of    *)
(* temporary files and on_event.                                           *)
(*                                                                         *)
(* A path is the sequence of its names, the last one without extension and *)
(* as make_run_tmp_path spells it; an absolute path begins with "/".       *)
(***************************************************************************)
EXTENDS Naturals, Sequences, FiniteSets, SequencesExt

CONSTANTS
  Files,       \* paths of the .oce files there are
  Main,        \* path run_oce_file is called with
  Configs,     \* what the files may contain: file -> [stop, stages, tasks],
               \* each stage with the paths its files are included by
  Ticks,       \* milliseconds in which calls may compute a file name
  Ends,        \* how tasks may end
  MayMiss,     \* whether a task's plugin or pinned version may be missing
  MayNotLoad,  \* whether a file may be unreadable or invalid
  Modes        \* {"pipeline"}, {"single"} or both

EndKinds == {"finished", "reported", "crashed", "failed", "broken"}

ASSUME FileAssumption == Files \subseteq Seq(STRING) \ {<<>>} /\ Main \in Files
ASSUME EndAssumption == Ends \subseteq EndKinds
ASSUME ModeAssumption == Modes \subseteq {"pipeline", "single"}
\* A stage that parse_include returns: no group is empty.
StagesOf == [par : BOOLEAN, files : Seq(Seq(STRING)) \ {<<>>}]
ASSUME ConfigAssumption ==
  Configs \subseteq [Files -> [stop : BOOLEAN, stages : Seq(StagesOf), tasks : Nat]]
ASSUME ChoiceAssumption == MayMiss \in BOOLEAN /\ MayNotLoad \in BOOLEAN

VARIABLES
  config,   \* what the files contain
  calls,    \* per call, its record
  temp,     \* per temporary path, the file whose tasks are written there
  failures, \* history: [call, end] of tasks that did not end well
  alarm     \* whether on_event has seen event.run.failed

vars == <<config, calls, temp, failures, alarm>>

None == "none"
\* In place of a file: there is none (temp), or none is opened yet (got); the
\* plugin found none.
NoFile == <<>>
Missing == <<"missing">>

NoPath == [stem |-> None, tick |-> 0]

(***************************************************************************)
(* Paths.                                                                  *)
(***************************************************************************)

IsAbsolute(p) == Head(p) = "/"

\* Path::parent and file_stem.
Directory(p) == Front(p)
Stem(p) == Last(p)

\* Path::join: an absolute path takes the place of what it is joined to.
Joined(dir, p) == IF IsAbsolute(p) THEN p ELSE dir \o p

\* parse_include: the path of an include in the file at base.
ParsedInclude(base, written) == Joined(Directory(base), written)

\* Mutant of ResolveInclude: absolute paths are not told apart.
ResolveIncludeAll(base, rel) == Directory(base) \o rel

\* The executor resolves what the parser has resolved.
ResolveInclude(base, rel) ==
  IF IsAbsolute(rel) THEN rel ELSE Joined(Directory(base), rel)

\* Temporary paths, which all lie in one directory.
Paths == {[stem |-> Stem(f), tick |-> t] : f \in Files, t \in Ticks}

\* A call that has just begun.
NewCall(file, stop, mode) ==
  [file |-> file, stop |-> stop, mode |-> mode, at |-> "load", stage |-> 1,
   member |-> 1, stageOk |-> TRUE, allOk |-> TRUE, task |-> 1,
   path |-> NoPath, got |-> NoFile, result |-> None]

Points == {"load", "stages", "waiting", "joining", "name", "tasks", "running",
           "returned"}
ResultKinds == {None, "true", "false", "error"}

Frames ==
  [file : Seq(STRING), stop : BOOLEAN, mode : {"pipeline", "single"}, at : Points,
   stage : Nat, member : Nat, stageOk : BOOLEAN, allOk : BOOLEAN, task : Nat,
   path : Paths \cup {NoPath}, got : Files \cup {NoFile, Missing},
   result : ResultKinds]

TypeOK ==
  /\ config \in Configs
  /\ DOMAIN calls \subseteq Seq(Nat \X Nat) /\ <<>> \in DOMAIN calls
  /\ \A a \in DOMAIN calls : calls[a] \in Frames
  /\ temp \in [Paths -> Files \cup {NoFile}]
  /\ failures \subseteq [call : DOMAIN calls, end : EndKinds \cup {"missing"}]
  /\ alarm \in BOOLEAN

Init ==
  /\ config \in Configs
  /\ \E m \in Modes : calls = [a \in {<<>>} |-> NewCall(Main, FALSE, m)]
  /\ temp = [p \in Paths |-> NoFile]
  /\ failures = {} /\ alarm = FALSE

Stages(a) == config[calls[a].file].stages
Stage(a) == Stages(a)[calls[a].stage]
Tasks(a) == config[calls[a].file].tasks
\* The path call a goes to for member m of its stage.
Included(a, m) ==
  ResolveInclude(calls[a].file, ParsedInclude(calls[a].file, Stage(a).files[m]))

Child(a, m) == Append(a, <<calls[a].stage, m>>)

\* Call a goes on with record c.
Become(a, c) == calls' = [calls EXCEPT ![a] = c]
Goto(a, point) == Become(a, [calls[a] EXCEPT !.at = point])

\* The record of call a when it returns r; its frame is gone.
Returned(a, r) ==
  [calls[a] EXCEPT !.at = "returned", !.result = r, !.got = NoFile]
Return(a, r) == Become(a, Returned(a, r))

(***************************************************************************)
(* Loading, and the include stages.                                        *)
(***************************************************************************)

\* Mutant of EffectiveStop: the caller's flag is not inherited.
EffectiveStopOwn(inherited, own) == own

EffectiveStop(inherited, own) == inherited \/ own

\* Single-task mode ignores the includes, and needs the task it is to run.
Load(a) ==
  /\ calls[a].at = "load"
  /\ LET single == calls[a].mode = "single"
         loads == /\ calls[a].file \in Files
                  /\ single => Tasks(a) > 0
     IN
     \/ /\ loads
        /\ Become(a, [calls[a] EXCEPT
              !.at = IF single THEN "name" ELSE "stages",
              !.stop = EffectiveStop(@, config[calls[a].file].stop)])
     \/ /\ MayNotLoad \/ ~loads
        /\ Return(a, "error")
  /\ UNCHANGED <<config, temp, failures, alarm>>

\* Are the members of the stage given a thread each?
InThreads(a) == Stage(a).par /\ ~calls[a].stop

\* The members of the stage that are called when it starts.
FirstMembers(a) == IF InThreads(a) THEN 1 .. Len(Stage(a).files) ELSE {1}

\* The calls of a together with new calls of the members in M, and a at p.
Calling(a, M, c) ==
  [b \in DOMAIN calls \cup {Child(a, m) : m \in M} |->
     IF b = a THEN c
     ELSE IF b \in DOMAIN calls THEN calls[b]
     ELSE NewCall(Included(a, Last(b)[2]), calls[a].stop, "pipeline")]

StartStage(a) ==
  /\ calls[a].at = "stages"
  /\ calls[a].stage <= Len(Stages(a))
  /\ calls' = Calling(a, FirstMembers(a),
                [calls[a] EXCEPT !.at = IF InThreads(a) THEN "joining" ELSE "waiting",
                                 !.member = 1, !.stageOk = TRUE])
  /\ UNCHANGED <<config, temp, failures, alarm>>

\* Mutant of AfterStage: the next stage is the same one.
AfterStageStays(a, ok) == [calls[a] EXCEPT !.at = "stages", !.allOk = @ /\ ok]

\* What call a does once the stage has ended with ok.
AfterStage(a, ok) ==
  IF ~ok /\ calls[a].stop
  THEN [Returned(a, "false") EXCEPT !.allOk = FALSE]
  ELSE [calls[a] EXCEPT !.at = "stages", !.stage = @ + 1,
                        !.allOk = @ /\ ok]

\* A call made in this thread has returned.
MemberReturns(a) ==
  /\ calls[a].at = "waiting"
  /\ LET m == calls[a].member
         r == calls[Child(a, m)].result
     IN /\ r # None
        /\ IF r = "error" THEN Return(a, "error")
           ELSE IF r = "true" /\ m < Len(Stage(a).files)
           THEN calls' = Calling(a, {m + 1}, [calls[a] EXCEPT !.member = m + 1])
           ELSE Become(a, AfterStage(a, r = "true"))
  /\ UNCHANGED <<config, temp, failures, alarm>>

\* Mutant of JoinMember: the first thread to be joined ends the stage.
JoinMemberFirst(a) ==
  /\ calls[a].at = "joining"
  /\ calls[Child(a, 1)].result # None
  /\ Become(a, AfterStage(a, calls[Child(a, 1)].result = "true"))
  /\ UNCHANGED <<config, temp, failures, alarm>>

\* handle.join() of the next thread; an error returns at once, and the
\* threads not yet joined go on by themselves.
JoinMember(a) ==
  /\ calls[a].at = "joining"
  /\ LET m == calls[a].member
         r == calls[Child(a, m)].result
         ok == calls[a].stageOk /\ r = "true"
     IN /\ r # None
        /\ IF r = "error" THEN Return(a, "error")
           ELSE IF m < Len(Stage(a).files)
           THEN Become(a, [calls[a] EXCEPT !.member = m + 1, !.stageOk = ok])
           ELSE Become(a, AfterStage(a, ok))
  /\ UNCHANGED <<config, temp, failures, alarm>>

(***************************************************************************)
(* The tasks of the file.                                                  *)
(***************************************************************************)

StagesEnd(a) ==
  /\ calls[a].at = "stages"
  /\ calls[a].stage > Len(Stages(a))
  /\ Goto(a, "name")
  /\ UNCHANGED <<config, temp, failures, alarm>>

\* Mutant of PathOf: the name does not tell the files apart.
PathOfTick(a, t) == [stem |-> Stem(Main), tick |-> t]

\* make_run_tmp_path: the stem, the process and the millisecond.
PathOf(a, t) == [stem |-> Stem(calls[a].file), tick |-> t]

NameTemp(a) ==
  /\ calls[a].at = "name"
  /\ \E t \in Ticks :
       Become(a, [calls[a] EXCEPT !.at = "tasks", !.path = PathOf(a, t)])
  /\ UNCHANGED <<config, temp, failures, alarm>>

HasTask(a) == calls[a].at = "tasks" /\ calls[a].task <= Tasks(a)

\* plugins.get or resolve finds nothing, or the snapshot cannot be written:
\* `?` leaves the file of an earlier task behind.
PluginMissing(a) ==
  /\ MayMiss /\ HasTask(a)
  /\ Return(a, "error")
  /\ failures' = failures \cup {[call |-> a, end |-> "missing"]}
  /\ UNCHANGED <<config, temp, alarm>>

\* fs::write of the snapshot, and the start of the plugin.
StartTask(a) ==
  /\ HasTask(a)
  /\ temp' = [temp EXCEPT ![calls[a].path] = calls[a].file]
  /\ Become(a, [calls[a] EXCEPT !.at = "running", !.got = NoFile])
  /\ UNCHANGED <<config, failures, alarm>>

\* The plugin opens the path it was given.
PluginReads(a) ==
  /\ calls[a].at = "running" /\ calls[a].got = NoFile
  /\ LET x == temp[calls[a].path]
     IN Become(a, [calls[a] EXCEPT !.got = IF x = NoFile THEN Missing ELSE x])
  /\ UNCHANGED <<config, temp, failures, alarm>>

\* Mutant of CountsAsOk: a summary is a success.
CountsAsOkSummary(end) == end # "broken"

\* exit_code = 0.
CountsAsOk(end) == end \in {"finished", "reported"}

\* Mutant of Removed: the file is left.
RemovedNot(a) == temp

\* temp after remove_file.
Removed(a) == [temp EXCEPT ![calls[a].path] = NoFile]

\* run_tool_task returns, whether or not the plugin has opened its file.  A
\* task that reports its failure does so through on_event, whatever its exit
\* code.
EndTask(a) ==
  /\ calls[a].at = "running"
  /\ \E end \in Ends :
       /\ failures' = IF end = "finished" THEN failures
                      ELSE failures \cup {[call |-> a, end |-> end]}
       /\ alarm' = (alarm \/ end \in {"reported", "failed"})
       /\ CASE end = "broken" ->
                 Return(a, "error") /\ temp' = Removed(a)
            [] end # "broken" /\ calls[a].mode = "single" ->
                 Return(a, "true") /\ temp' = Removed(a)
            [] end # "broken" /\ calls[a].mode # "single"
               /\ ~CountsAsOk(end) /\ calls[a].stop ->
                 Return(a, "false") /\ temp' = Removed(a)
            [] OTHER ->
                 /\ Become(a, [calls[a] EXCEPT !.at = "tasks", !.task = @ + 1, !.got = NoFile,
                                 !.allOk = @ /\ CountsAsOk(end)])
                 /\ UNCHANGED temp
  /\ UNCHANGED config

\* After the last task the file is removed.
TasksEnd(a) ==
  /\ calls[a].at = "tasks"
  /\ calls[a].task > Tasks(a)
  /\ Return(a, IF calls[a].allOk THEN "true" ELSE "false")
  /\ temp' = Removed(a)
  /\ UNCHANGED <<config, failures, alarm>>

AllReturned == \A a \in DOMAIN calls : calls[a].at = "returned"

Finished == AllReturned /\ UNCHANGED vars

CallNext(a) ==
  \/ Load(a) \/ StartStage(a) \/ MemberReturns(a) \/ JoinMember(a)
  \/ StagesEnd(a) \/ NameTemp(a) \/ PluginMissing(a) \/ StartTask(a)
  \/ PluginReads(a) \/ EndTask(a) \/ TasksEnd(a)

Next == (\E a \in DOMAIN calls : CallNext(a)) \/ Finished

Spec == Init /\ [][Next]_vars

\* Some thread goes on while one can; run_tool_task returns.
FairSpec == Spec /\ WF_vars(\E a \in DOMAIN calls : CallNext(a))

(***************************************************************************)
(* Properties.                                                             *)
(***************************************************************************)

\* The failures of call d and of all calls below it.
FailuresUnder(d) == {x \in failures : IsPrefix(d, x.call)}

StartsTask(a) == calls[a].at = "tasks" /\ calls'[a].at = "running"

\* Once a task has failed under a call that stops on errors, no task starts
\* under that call, at any depth of includes and in no thread
\* (inherited_stop, and the sequential fallback of parallel stages).
StopHalts ==
  [][\A a \in DOMAIN calls : StartsTask(a) =>
       \A d \in DOMAIN calls : calls[d].stop /\ IsPrefix(d, a) =>
         \A x \in FailuresUnder(d) : x.end = "reported"]_vars

\* A file's tasks, and the next stage, wait for everything the earlier
\* stages started, threads and nested includes alike.
IncludesComeFirst ==
  \A a, b \in DOMAIN calls :
    /\ IsStrictPrefix(a, b)
    /\ \/ calls[a].at \in {"name", "tasks", "running"}
       \/ b[Len(a) + 1][1] < calls[a].stage
    => calls[b].at = "returned"

\* Ok(true) means that every task of the file and of all its includes has
\* run and exited with 0; Ok(false) that one has not exited with 0.
ResultIsHonest ==
  \A a \in DOMAIN calls : calls[a].mode = "pipeline" =>
    /\ calls[a].result = "true" =>
         /\ \A x \in FailuresUnder(a) : x.end = "reported"
         /\ \A b \in DOMAIN calls : IsPrefix(a, b) => calls[b].task > Tasks(b)
    /\ calls[a].result = "false" =>
         \E x \in FailuresUnder(a) : x.end \in {"crashed", "failed"}

\* formats/oce-1.md:47: the file a plugin opens is the snapshot of its own
\* task file, provided no other call is on a file of the same stem: then
\* nobody overwrites or removes the snapshot before the plugin opens it,
\* however the threads interleave (make_run_tmp_path).
OwnSnapshotOfOwnStem ==
  \A a \in DOMAIN calls :
    \/ calls[a].got \in {NoFile, calls[a].file}
    \/ \E b \in DOMAIN calls \ {a} : Stem(calls[b].file) = Stem(calls[a].file)

\* formats/oce-1.md:53: "The temporary file is deleted after the run
\* completes."  It is, unless a later task of the file found no plugin.
NoTempLeft ==
  AllReturned /\ (\A x \in failures : x.end # "missing") =>
    \A p \in Paths : temp[p] = NoFile

\* formats/oce-1.md:43: "Relative paths resolve from the containing .oce
\* file", at every depth.  The parser and the executor both resolve them: that
\* comes out right when run_oce_file was given an absolute path, or one in the
\* working directory whose includes lie there too.
IncludeFindsItsFile ==
  \A a \in DOMAIN calls \ {<<>>} :
    LET by == calls[Front(a)].file
        written == config[by].stages[Last(a)[1]].files[Last(a)[2]]
    IN calls[a].file = IF IsAbsolute(written) THEN written
                       ELSE Directory(by) \o written

\* oc-core model.rs:51-54: all files of a stage finish, and their output is
\* collected, before a failure is reported.  A task that fails does not change
\* that; only an error (Err) leaves threads behind.
QuietAfterReturn ==
  /\ calls[<<>>].at = "returned"
  /\ \A a \in DOMAIN calls : calls[a].result # "error"
  => AllReturned

\* run_oce_file returns when the includes have no cycle.
Terminates == <>(calls[<<>>].at = "returned")

\* The exit code of `oc run` (oc-cli main.rs:203-210).
ExitCode == IF calls[<<>>].result = "error" \/ alarm THEN 1 ELSE 0

\* Whatever goes wrong at any depth and in any thread, and however late, the
\* exit code of `oc run` tells, with the one exception of a plugin that exits
\* with another code than 0 and has not reported its failure.
ExitTellsFailure ==
  AllReturned /\ (\E x \in failures : x.end # "crashed") => ExitCode = 1
=============================================================================
