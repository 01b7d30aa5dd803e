----------------------------- MODULE PluginStore -----------------------------
(***************************************************************************)
(* The store of installed plugins that crates/oc-runner keeps on disk and  *)
(* in the SQLite database it shares with the host application, for one     *)
(* plugin id: install_package, uninstall_plugin and verify_installed of    *)
(* installer.rs, and the part of executor.rs that picks an installation    *)
(* and runs it.                                                            *)
(*                                                                         *)
(* Every command runs in a process of its own.  No transaction spans two   *)
(* statements, so each statement and each file operation is a step, other  *)
(* processes run in between, and a step may fail or the process may stop   *)
(* there: what was done stays done.  A package is a record of the facts    *)
(* the gates of install_package look at, with two file names: `bin`, that  *)
(* of its entrypoint, and `file`, its own.                                 *)
(*                                                                         *)
(* Files are written chunk by chunk, each writer from its own position, so *)
(* two writers of one file may leave a mix of both.                        *)
(***************************************************************************)
EXTENDS Naturals, Sequences, FiniteSets

CONSTANTS
  Processes,   \* processes that run commands on the store
  Commands,    \* which of "install", "uninstall", "verify" and "run" they run
  Packages,    \* the packages somebody may install
  Consents,    \* the flag combinations install is called with
  Length,      \* per file that a package brings, its number of chunks
  MayFail,     \* whether steps fail and processes stop half-way
  MayDamage    \* whether files change behind the store's back

Seals == {"trusted", "unknown", "none", "forged"}

ASSUME PackageAssumption ==
  \A k \in Packages :
    /\ k.ver \in Nat /\ k.seal \in Seals /\ k.bin \in STRING /\ k.file \in STRING
    /\ k.valid \in BOOLEAN /\ k.intact \in BOOLEAN
    /\ k.revoked \in BOOLEAN /\ k.risky \in BOOLEAN
ASSUME ConsentAssumption ==
  Consents \subseteq [dev : BOOLEAN, risk : BOOLEAN, ack : BOOLEAN]
ASSUME FaultAssumption == MayFail \in BOOLEAN /\ MayDamage \in BOOLEAN

Versions == {k.ver : k \in Packages}
Builds == {k.build : k \in Packages}
Binaries == {k.bin : k \in Packages}
Capabilities == {k.caps : k \in Packages}

\* The entrypoint paths, a file name below the directory of a version.  What
\* else is written to those directories nobody reads, and is not kept.
Path(x) == <<x.ver, x.bin>>
Paths == {Path(k) : k \in Packages}

\* What names an installation: its id, and with it the path in its row.
IdOf(x) == [ver |-> x.ver, build |-> x.build]
Same(x, y) == IdOf(x) = IdOf(y)
Seen(x) == [ver |-> x.ver, build |-> x.build, bin |-> x.bin]

\* The files an install writes, in this order: the binary, a copy of the
\* package under its own name, manifest.json.
Kinds == {"binary", "archive", "manifest"}
After == [binary |-> {"archive", "manifest"}, archive |-> {"manifest"}, manifest |-> {}]
NameOf(k, kind) == CASE kind = "binary"   -> k.bin
                     [] kind = "archive"  -> k.file
                     [] kind = "manifest" -> "manifest.json"
PathOf(k, kind) == <<k.ver, NameOf(k, kind)>>
SourceOf(k, kind) == IF kind = "binary" THEN <<kind, k.build>> ELSE <<kind, k>>
Sources == {SourceOf(k, kind) : k \in Packages, kind \in Kinds}
ASSUME LengthAssumption == Length \in [Sources -> Nat \ {0}]

\* A file is the sequence of its chunks: <<source, i>>, a gap of zeros, or
\* something put there from outside.
Zero == <<>>
Damaged == <<"damaged">>
Files == Seq((Sources \X Nat) \cup {Zero, Damaged})
Prefix(source, n) == [i \in 1..n |-> <<source, i>>]
Whole(build) == Prefix(<<"binary", build>>, Length[<<"binary", build>>])

\* Writing chunk c at position i, with zeros up to it.
WriteAt(f, i, c) ==
  [k \in 1..(IF i > Len(f) THEN i ELSE Len(f)) |->
     IF k = i THEN c ELSE IF k <= Len(f) THEN f[k] ELSE Zero]

VARIABLES
  rows,        \* plugin_installations, keyed by version and build
  disk,        \* per entrypoint path, the file there: at most one
  registry,    \* the plugin's row of plugin_registry
  pc,          \* per process, the next step of its command
  job,         \* per process, the package it installs and its trust_status
  part,        \* per process, the file it is about to write or writing
  handle,      \* per process, the path of the file it has open, unless that
               \* has been removed meanwhile: at most one
  pos,         \* per process, how many chunks of that file it has written
  found,       \* per process, the installation it has read: at most one
  removing,    \* per process, whether uninstall has remove_files set
  result,      \* per process, what its last command returned
  touched,     \* history: processes whose package's binary has been damaged
               \* since they opened it
  sole,        \* history: per process, the paths its command has opened for
               \* the binary or removed, if no other writer, removal or damage
               \* has come since
  vouched,     \* history: per path that nothing has opened, removed or damaged
               \* since, the ids that the last command to return Ok answers
               \* for: an install for its own, an uninstall, which leaves no
               \* row, for all
  condemned    \* history: ids whose verification returned false, until their
               \* row is deleted

store == <<rows, disk, registry>>
writing == <<part, handle, pos>>
locals == <<job, writing, found, removing>>
history == <<touched, vouched, sole, condemned>>
vars == <<store, pc, locals, result, history>>

Statuses == {"verified", "warning"}
Ids == {IdOf(k) : k \in Packages}
Installations == {Seen(k) : k \in Packages}
Rows == {r \in [ver : Versions, build : Builds, bin : Binaries, caps : Capabilities,
                trust : Statuses, hashOk : BOOLEAN, quarantined : BOOLEAN,
                declared : BOOLEAN] : Seen(r) \in Installations}
InstallSteps == {"open", "write", "register", "clear", "insert", "declare"}
UninstallSteps == {"lookup", "remove", "deleteRows", "setUninstalled"}
VerifySteps == {"hash", "setHashOk", "setHashBad", "quarantine",
                "setQuarantined"}
RunSteps == {"list", "dispatch"}
Results == {"none", "refused", "failed", "installed", "uninstalled", "purged",
            "intact", "condemned", "ran"}
Jobs == [pkg : Packages, status : Statuses]

TypeOK ==
  /\ rows \subseteq Rows
  /\ disk \in [Paths -> SUBSET Files]
  /\ registry \in [status : Statuses \cup {"absent", "quarantined", "uninstalled"},
                   current : Versions \cup {0}]
  /\ pc \in [Processes -> {"idle"} \cup InstallSteps \cup UninstallSteps
                                   \cup VerifySteps \cup RunSteps]
  /\ job \in [Processes -> SUBSET Jobs]
  /\ part \in [Processes -> Kinds]
  /\ handle \in [Processes -> SUBSET Paths]
  /\ pos \in [Processes -> Nat]
  /\ found \in [Processes -> SUBSET Installations]
  /\ removing \in [Processes -> BOOLEAN]
  /\ result \in [Processes -> Results]
  /\ touched \subseteq Processes /\ condemned \subseteq Ids
  /\ vouched \in [Paths -> SUBSET Ids]
  /\ sole \in [Processes -> SUBSET Paths]

Init ==
  /\ rows = {}
  /\ disk = [path \in Paths |-> {}]
  /\ registry = [status |-> "absent", current |-> 0]
  /\ pc = [p \in Processes |-> "idle"]
  /\ job = [p \in Processes |-> {}]
  /\ part = [p \in Processes |-> "binary"]
  /\ handle = [p \in Processes |-> {}]
  /\ pos = [p \in Processes |-> 0]
  /\ found = [p \in Processes |-> {}]
  /\ removing = [p \in Processes |-> FALSE]
  /\ result = [p \in Processes |-> "none"]
  /\ touched = {} /\ condemned = {}
  /\ vouched = [path \in Paths |-> {}]
  /\ sole = [p \in Processes |-> {}]

(***************************************************************************)
(* Queries of the repositories.                                            *)
(***************************************************************************)

Live == {r \in rows : ~r.quarantined}

\* The rows of S that may come first in descending semver order: rows of
\* one version tie, and the database returns them in either order.
Highest(S) == {r \in S : \A q \in S : q.ver <= r.ver}

\* What get_current (of Live) and get_any (of rows) may return: {} for None.
FirstOf(S) == IF S = {} THEN {{}} ELSE {{r} : r \in Highest(S)}

\* UPDATE ... WHERE installation_id: the rows after it has set the flag.
MarkHash(of, ok) ==
  {IF \E f \in of : Same(r, f) THEN [r EXCEPT !.hashOk = ok] ELSE r : r \in rows}
MarkQuarantined(of) ==
  {IF \E f \in of : Same(r, f) THEN [r EXCEPT !.quarantined = TRUE] ELSE r :
     r \in rows}

Step(p, from, to) == pc[p] = from /\ pc' = [pc EXCEPT ![p] = to]
Finish(p, from, r) == Step(p, from, "idle") /\ result' = [result EXCEPT ![p] = r]
Start(p, to) == Step(p, "idle", to) /\ result' = [result EXCEPT ![p] = "none"]
NoJob(p) == job' = [job EXCEPT ![p] = {}] /\ touched' = touched \ {p}
NoRow(p) == found' = [found EXCEPT ![p] = {}]

(***************************************************************************)
(* install_package.                                                        *)
(***************************************************************************)

\* Mutant of TrustOf: an absent signature is no reason to stop.
TrustOfLax(k, c) ==
  IF k.seal = "trusted" THEN {"verified"}
  ELSE IF k.seal = "none" \/ (c.dev /\ k.seal = "unknown") THEN {"warning"}
  ELSE {}

\* evaluate_trust: the trust_status of package k, or {} when it is refused.
TrustOf(k, c) ==
  IF k.seal = "trusted" THEN {"verified"}
  ELSE IF c.dev /\ k.seal \in {"unknown", "none"} THEN {"warning"}
  ELSE {}

\* Mutant of CapsAccepted: the gate looks at the rows of the same version.
CapsAcceptedSame(k, c, current) ==
  c.ack \/ \A r \in current : r.ver = k.ver => r.caps = k.caps

\* Step 4c: a change against the current row must be acknowledged.
CapsAccepted(k, c, current) == c.ack \/ \A r \in current : r.caps = k.caps

\* Steps 1 to 7, none of which writes anything.  `valid`: validate_manifest
\* passes and no entry of the archive is over its size limit.
Admits(k, c, current) ==
  /\ k.valid
  /\ ~k.revoked
  /\ k.risky => c.risk
  /\ CapsAccepted(k, c, current)
  /\ k.intact
  /\ TrustOf(k, c) # {}

BeginInstall(p, k, c) ==
  /\ \E current \in FirstOf(Live) : Admits(k, c, current)
  /\ Start(p, "open")
  /\ job' = [job EXCEPT ![p] = [pkg : {k}, status : TrustOf(k, c)]]
  /\ NoRow(p)
  /\ touched' = touched \ {p}
  /\ UNCHANGED <<store, writing, removing, vouched, sole, condemned>>

RefuseInstall(p, k, c) ==
  /\ \E current \in FirstOf(Live) : ~Admits(k, c, current)
  /\ Finish(p, "idle", "refused")
  /\ NoJob(p) /\ NoRow(p)
  /\ UNCHANGED <<store, writing, removing, vouched, sole, condemned>>

\* On to the next file that is somebody's entrypoint, or to the registry.
NextFile(p) ==
  \E j \in job[p] :
    LET rest == {kind \in After[part[p]] : PathOf(j.pkg, kind) \in Paths}
    IN  /\ pc' = [pc EXCEPT ![p] = IF rest = {} THEN "register" ELSE "open"]
        /\ part' = [part EXCEPT ![p] = IF rest = {} THEN "binary"
                                       ELSE IF "archive" \in rest THEN "archive"
                                       ELSE "manifest"]

\* fs::write and fs::copy open the file with truncation ...
OpenFile(p) ==
  /\ Step(p, "open", "write")
  /\ \E j \in job[p] : LET path == PathOf(j.pkg, part[p]) IN
       /\ path \in Paths
       /\ disk' = [disk EXCEPT ![path] = {<<>>}]
       /\ handle' = [handle EXCEPT ![p] = {path}]
       /\ touched' = IF part[p] = "binary" THEN touched \ {p} ELSE touched
       /\ vouched' = [vouched EXCEPT ![path] = {}]
       /\ sole' = [q \in Processes |->
            IF /\ q = p /\ part[p] = "binary"
               /\ \A o \in Processes \ {p} : path \notin handle[o]
            THEN {path} ELSE sole[q] \ {path}]
  /\ UNCHANGED <<rows, registry, job, part, pos, found, removing, result, condemned>>

\* ... and write its bytes, chunk by chunk, to nobody when the file has been
\* removed since.
WriteFile(p) ==
  /\ pc[p] = "write"
  /\ \E j \in job[p] : LET source == SourceOf(j.pkg, part[p]) IN
       /\ pos[p] < Length[source]
       /\ disk' = [path \in Paths |->
            IF path \in handle[p]
            THEN {WriteAt(f, pos[p] + 1, <<source, pos[p] + 1>>) : f \in disk[path]}
            ELSE disk[path]]
  /\ pos' = [pos EXCEPT ![p] = @ + 1]
  /\ UNCHANGED <<rows, registry, pc, job, part, handle, found, removing, result, history>>

\* The file is written and its permissions are set.
CloseFile(p) ==
  /\ pc[p] = "write"
  /\ \E j \in job[p] : pos[p] = Length[SourceOf(j.pkg, part[p])]
  /\ NextFile(p)
  /\ handle' = [handle EXCEPT ![p] = {}]
  /\ pos' = [pos EXCEPT ![p] = 0]
  /\ UNCHANGED <<store, job, found, removing, result, history>>

\* registry_repo.upsert.
UpsertRegistry(p) ==
  /\ Step(p, "register", "clear")
  /\ \E j \in job[p] :
       registry' = [status |-> j.status, current |-> j.pkg.ver]
  /\ UNCHANGED <<rows, disk, locals, result, history>>

\* installation_repo.delete of the id about to be inserted.
DeleteOld(p) ==
  /\ Step(p, "clear", "insert")
  /\ \E j \in job[p] :
       /\ rows' = {r \in rows : ~Same(r, j.pkg)}
       /\ condemned' = condemned \ {IdOf(j.pkg)}
  /\ UNCHANGED <<disk, registry, locals, result, touched, vouched, sole>>

\* Mutants of NewRow: the quarantine of an earlier row is carried over; the
\* package's seal is stored in place of the decision.
NewRowQuarantined(j) ==
  [ver |-> j.pkg.ver, build |-> j.pkg.build, bin |-> j.pkg.bin,
   caps |-> j.pkg.caps, trust |-> j.status, hashOk |-> TRUE,
   quarantined |-> TRUE, declared |-> FALSE]

NewRow(j) ==
  [ver |-> j.pkg.ver, build |-> j.pkg.build, bin |-> j.pkg.bin,
   caps |-> j.pkg.caps, trust |-> j.status, hashOk |-> TRUE,
   quarantined |-> FALSE, declared |-> FALSE]

\* installation_repo.insert, which fails when another process has inserted
\* the same id since the delete.
InsertRow(p) ==
  /\ \E j \in job[p] :
       IF \E r \in rows : Same(r, j.pkg)
       THEN /\ Finish(p, "insert", "failed")
            /\ sole' = [sole EXCEPT ![p] = {}]
            /\ UNCHANGED rows
       ELSE /\ Step(p, "insert", "declare")
            /\ rows' = rows \cup {NewRow(j)}
            /\ UNCHANGED <<result, sole>>
  /\ UNCHANGED <<disk, registry, locals, touched, vouched, condemned>>

\* insert_capability, whose foreign key fails when the row is gone; the
\* package declares at least one capability or sandbox entry.  Snippets,
\* cached content and the audit log that follow are non-fatal.
DeclareCapabilities(p) ==
  /\ \E j \in job[p] :
       IF \E r \in rows : Same(r, j.pkg)
       THEN /\ Finish(p, "declare", "installed")
            /\ rows' = {IF Same(r, j.pkg) THEN [r EXCEPT !.declared = TRUE]
                        ELSE r : r \in rows}
            /\ vouched' = [path \in Paths |->
                 IF path \in sole[p] THEN {IdOf(j.pkg)} ELSE vouched[path]]
       ELSE Finish(p, "declare", "failed") /\ UNCHANGED <<rows, vouched>>
  /\ sole' = [sole EXCEPT ![p] = {}]
  /\ UNCHANGED <<disk, registry, locals, touched, condemned>>

Install(p) ==
  \/ \E k \in Packages, c \in Consents :
       BeginInstall(p, k, c) \/ RefuseInstall(p, k, c)
  \/ OpenFile(p) \/ WriteFile(p) \/ CloseFile(p) \/ UpsertRegistry(p)
  \/ DeleteOld(p) \/ InsertRow(p) \/ DeclareCapabilities(p)

(***************************************************************************)
(* uninstall_plugin.                                                       *)
(***************************************************************************)

\* get_any, with the remove_files the caller passes.
BeginUninstall(p) ==
  /\ \E first \in FirstOf(rows) : found' = [found EXCEPT ![p] = {Seen(r) : r \in first}]
  /\ \E b \in BOOLEAN : removing' = [removing EXCEPT ![p] = b]
  /\ Start(p, "lookup")
  /\ NoJob(p)
  /\ UNCHANGED <<store, writing, vouched, sole, condemned>>

\* registry_repo.get; neither row: the plugin is not installed.
LookupRegistry(p) ==
  /\ IF found[p] = {} /\ registry.status = "absent"
     THEN Finish(p, "lookup", "failed")
     ELSE /\ Step(p, "lookup", IF removing[p] THEN "remove" ELSE "deleteRows")
          /\ UNCHANGED result
  /\ UNCHANGED <<store, locals, history>>

\* The install directory of the row get_any returned, with all that is in it.
RemoveFiles(p) ==
  /\ Step(p, "remove", "deleteRows")
  /\ LET gone == {path \in Paths : \E f \in found[p] : path[1] = f.ver} IN
       /\ disk' = [path \in Paths |-> IF path \in gone THEN {} ELSE disk[path]]
       /\ handle' = [q \in Processes |-> handle[q] \ gone]
       /\ vouched' = [path \in Paths |-> IF path \in gone THEN {} ELSE vouched[path]]
       /\ sole' = [q \in Processes |-> IF q = p THEN gone ELSE sole[q] \ gone]
  /\ UNCHANGED <<rows, registry, job, part, pos, found, removing, result, touched, condemned>>

\* Mutants of RowsToDelete: only the row get_any returned; only the rows
\* that are quarantined.
RowsToDeleteFound(p) == {r \in rows : Seen(r) \in found[p]}
RowsToDeleteQuarantined(p) == {r \in rows : r.quarantined}

\* delete_all_for_plugin takes the quarantined rows too.
RowsToDelete(p) == rows

DeleteRows(p) ==
  /\ Step(p, "deleteRows", "setUninstalled")
  /\ rows' = rows \ RowsToDelete(p)
  /\ condemned' = condemned \ {IdOf(r) : r \in RowsToDelete(p)}
  /\ UNCHANGED <<disk, registry, locals, result, touched, vouched, sole>>

\* Mutant of SetStatus: uninstall deletes the registry row.
SetStatusDeletes(s) ==
  registry' = IF s = "uninstalled" THEN [status |-> "absent", current |-> 0]
              ELSE [registry EXCEPT !.status = s]

\* set_trust_status, an UPDATE: it does not create the row.
SetStatus(s) ==
  registry' = IF registry.status = "absent" THEN registry
              ELSE [registry EXCEPT !.status = s]

SetUninstalled(p) ==
  /\ Finish(p, "setUninstalled", IF removing[p] THEN "purged" ELSE "uninstalled")
  /\ SetStatus("uninstalled")
  /\ removing' = [removing EXCEPT ![p] = FALSE]
  /\ found' = [found EXCEPT ![p] = IF removing[p] THEN @ ELSE {}]
  /\ vouched' = [path \in Paths |-> IF path \in sole[p] THEN Ids ELSE vouched[path]]
  /\ sole' = [sole EXCEPT ![p] = {}]
  /\ UNCHANGED <<rows, disk, job, writing, touched, condemned>>

Uninstall(p) ==
  \/ BeginUninstall(p) \/ LookupRegistry(p) \/ RemoveFiles(p)
  \/ DeleteRows(p) \/ SetUninstalled(p)

(***************************************************************************)
(* verify_installed.                                                       *)
(***************************************************************************)

BeginVerify(p) ==
  /\ \E first \in FirstOf(Live) :
       /\ found' = [found EXCEPT ![p] = {Seen(r) : r \in first}]
       /\ IF first = {} THEN Finish(p, "idle", "failed") ELSE Start(p, "hash")
  /\ NoJob(p)
  /\ UNCHANGED <<store, writing, removing, vouched, sole, condemned>>

\* The file is looked for, read and hashed.
HashFile(p) ==
  /\ \E f \in found[p] :
       Step(p, "hash", IF disk[Path(f)] = {} THEN "quarantine"
                       ELSE IF disk[Path(f)] = {Whole(f.build)} THEN "setHashOk"
                       ELSE "setHashBad")
  /\ UNCHANGED <<store, locals, result, history>>

SetHashOk(p) ==
  /\ Finish(p, "setHashOk", "intact")
  /\ rows' = MarkHash(found[p], TRUE)
  /\ NoRow(p)
  /\ UNCHANGED <<disk, registry, job, writing, removing, history>>

SetHashBad(p) ==
  /\ Step(p, "setHashBad", "quarantine")
  /\ rows' = MarkHash(found[p], FALSE)
  /\ UNCHANGED <<disk, registry, locals, result, history>>

\* Mutant of Quarantine: only the registry is told.
QuarantineSkipped(p) ==
  /\ Step(p, "quarantine", "setQuarantined")
  /\ UNCHANGED <<store, locals, result, history>>

Quarantine(p) ==
  /\ Step(p, "quarantine", "setQuarantined")
  /\ rows' = MarkQuarantined(found[p])
  /\ UNCHANGED <<disk, registry, locals, result, history>>

SetQuarantined(p) ==
  /\ Finish(p, "setQuarantined", "condemned")
  /\ SetStatus("quarantined")
  /\ condemned' = condemned \cup {IdOf(f) : f \in found[p]}
  /\ UNCHANGED <<rows, disk, locals, touched, vouched, sole>>

Verify(p) ==
  \/ BeginVerify(p) \/ HashFile(p) \/ SetHashOk(p) \/ SetHashBad(p)
  \/ Quarantine(p) \/ SetQuarantined(p)

(***************************************************************************)
(* load_plugin_map and the dispatch of a task (executor.rs).               *)
(***************************************************************************)

\* registry_repo.list: the plugin is skipped unless it is trusted.
BeginRun(p) ==
  /\ IF registry.status \in Statuses
     THEN Start(p, "list")
     ELSE Finish(p, "idle", "failed")
  /\ NoJob(p) /\ NoRow(p)
  /\ UNCHANGED <<store, writing, removing, vouched, sole, condemned>>

\* list_for_plugin, without the rows whose file is missing.  A task without
\* a pin takes the highest version, a pin any of them.
ListRows(p) ==
  /\ LET present == {r \in Live : disk[Path(r)] # {}}
     IN IF present = {}
        THEN Finish(p, "list", "failed") /\ UNCHANGED found
        ELSE /\ Step(p, "list", "dispatch")
             /\ \E r \in present : found' = [found EXCEPT ![p] = {Seen(r)}]
             /\ UNCHANGED result
  /\ UNCHANGED <<store, job, writing, removing, history>>

\* The file at the entrypoint path is spawned, without another look at it.
Dispatch(p) ==
  /\ \E r \in found[p] :
       Finish(p, "dispatch", IF disk[Path(r)] = {} THEN "failed" ELSE "ran")
  /\ NoRow(p)
  /\ UNCHANGED <<store, job, writing, removing, history>>

Run(p) == BeginRun(p) \/ ListRows(p) \/ Dispatch(p)

(***************************************************************************)
(* The environment.                                                        *)
(***************************************************************************)

\* A step fails, which ends the command with `?`, or the process stops.
Fail(p) ==
  /\ MayFail
  /\ pc[p] # "idle"
  /\ Finish(p, pc[p], "failed")
  /\ NoJob(p) /\ NoRow(p)
  /\ part' = [part EXCEPT ![p] = "binary"]
  /\ handle' = [handle EXCEPT ![p] = {}]
  /\ pos' = [pos EXCEPT ![p] = 0]
  /\ removing' = [removing EXCEPT ![p] = FALSE]
  /\ sole' = [sole EXCEPT ![p] = {}]
  /\ UNCHANGED <<store, vouched, condemned>>

\* An installed file is changed or deleted by something else.
Damage(path) ==
  /\ MayDamage
  /\ disk[path] # {}
  /\ \/ /\ disk' = [disk EXCEPT ![path] = {<<Damaged>>}]
        /\ UNCHANGED handle
     \/ /\ disk' = [disk EXCEPT ![path] = {}]
        /\ handle' = [q \in Processes |-> handle[q] \ {path}]
  /\ touched' = touched \cup {q \in Processes :
       /\ pc[q] = "open" => part[q] # "binary"
       /\ \E j \in job[q] : Path(j.pkg) = path}
  /\ vouched' = [vouched EXCEPT ![path] = {}]
  /\ sole' = [q \in Processes |-> sole[q] \ {path}]
  /\ UNCHANGED <<rows, registry, pc, job, part, pos, found, removing, result, condemned>>

Next ==
  \/ \E p \in Processes :
       \/ "install" \in Commands /\ Install(p)
       \/ "uninstall" \in Commands /\ Uninstall(p)
       \/ "verify" \in Commands /\ Verify(p)
       \/ "run" \in Commands /\ Run(p)
       \/ Fail(p)
  \/ \E path \in Paths : Damage(path)

Spec == Init /\ [][Next]_vars

(***************************************************************************)
(* Properties that hold however commands interleave, fail or stop.         *)
(***************************************************************************)

\* Does some call accept package k?  Stated from the package's facts and
\* the consents given, not from the gates.
Acceptable(k) ==
  /\ k.valid /\ k.intact /\ ~k.revoked
  /\ k.risky => \E c \in Consents : c.risk
  /\ \/ k.seal = "trusted"
     \/ k.seal # "forged" /\ \E c \in Consents : c.dev

\* What may be at position i of the file at path: a gap, damage, or what some
\* acceptable package writes there.
MayHold(path, i, c) ==
  \/ c \in {Zero, Damaged}
  \/ \E k \in Packages, kind \in Kinds :
       /\ Acceptable(k) /\ PathOf(k, kind) = path
       /\ c = <<SourceOf(k, kind), i>>

\* Whatever overlapping and stopped commands have left at an entrypoint, no
\* chunk of a file that a task runs is from a refused package, or from one
\* that is installed at another path; and the file is no mix, but a whole
\* build, once an install that had it to itself has returned Ok and until it
\* is opened, removed or damaged again (installer.rs, gates before the first
\* write, fs::write; executor.rs, dispatch).
OnlyAcceptableRuns ==
  \A p \in Processes : pc[p] = "dispatch" =>
    \A r \in found[p] : \A f \in disk[Path(r)] :
      /\ \A i \in DOMAIN f : MayHold(Path(r), i, f[i])
      /\ \A id \in vouched[Path(r)] : f = Whole(id.build)

\* Installation rows belong to a registered plugin, as their foreign key
\* demands, at every point between the statements of all commands.
RowsAreRegistered == rows # {} => registry.status # "absent"

(***************************************************************************)
(* Properties of commands that do not overlap (one process), although any  *)
(* of them may fail or stop half-way and leave its traces to the next.     *)
(***************************************************************************)

\* Nothing the package brings is written over its own binary.
OwnName(k) == k.bin \notin {k.file, "manifest.json"}

\* An install that returns Ok has repaired whatever earlier commands left:
\* the file, the row, its capabilities and the registry agree.  The file is
\* excepted when the package or manifest.json has the name of the binary:
\* the copy then replaces it (installer.rs, step 10).
InstalledIsWhole ==
  \A p \in Processes : result[p] = "installed" =>
    \A j \in job[p] :
      /\ OwnName(j.pkg) /\ p \notin touched =>
           disk[Path(j.pkg)] = {Whole(j.pkg.build)}
      /\ \E r \in Live : /\ Seen(r) = Seen(j.pkg) /\ r.caps = j.pkg.caps
                        /\ r.trust = j.status /\ r.hashOk /\ r.declared
      /\ registry = [status |-> j.status, current |-> j.pkg.ver]

\* An uninstall that returns Ok leaves no row and marks the plugin, also
\* when quarantined or orphaned rows were there; with remove_files the files of
\* the highest version are gone (and of that one only: oc-cli main.rs:116 says
\* "the plugin binary and install directory").
UninstallForgets ==
  \A p \in Processes : result[p] \in {"uninstalled", "purged"} =>
    /\ rows = {} /\ registry.status = "uninstalled"
    /\ result[p] = "purged" =>
         \A f \in found[p], path \in Paths : path[1] = f.ver => disk[path] = {}

\* While nobody acknowledges a change of capabilities, the installations
\* that tasks may be dispatched to all declare the same ones.
OneCapabilitySet ==
  (\A c \in Consents : ~c.ack) =>
    \A r, q \in Live : r.caps = q.caps

\* After verify_installed returned false for an installation, no task is
\* dispatched to it until an install or uninstall has deleted its row, what-
\* ever is installed of other builds and versions meanwhile.  (Another build of
\* the same version is another installation of the same file: that one stays
\* live, and a later install makes the plugin trusted again.)
CondemnedNeverRuns ==
  \A p \in Processes : pc[p] = "dispatch" =>
    {IdOf(r) : r \in found[p]} \cap condemned = {}

\* Commands that return Ok leave rows that agree with their files:
\* verify_installed returns false only of a file that was changed from
\* outside, or last opened or removed by a command that then stopped, by an
\* install of another build of the same version, or by an install's copy of a
\* package that is named like its binary.
FalseHasACause ==
  \A p \in Processes : result[p] = "condemned" =>
    \A f \in found[p] : IdOf(f) \notin vouched[Path(f)]
=============================================================================
