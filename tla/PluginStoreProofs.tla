-------------------------- MODULE PluginStoreProofs --------------------------
(***************************************************************************)
(* Proofs about PluginStore, for every set of packages, consents and file  *)
(* lengths: what holds however many processes interleave (TypeCorrect,     *)
(* SafeRuns, Registered), and what holds when commands do not overlap      *)
(* (Repairs, Forgets, CapabilitiesAgree, CondemnedStays, NoFalseAlarm).    *)
(***************************************************************************)
EXTENDS PluginStore, SequenceTheorems, TLAPS

USE DEF Step, Finish, Start, NoJob, NoRow, store, writing, locals, history

(***************************************************************************)
(* Packages and files.                                                     *)
(***************************************************************************)

\* A job has the package and the trust_status of one admitted call.
LEMMA AdmittedJob ==
  ASSUME NEW k \in Packages, NEW c \in Consents, NEW current,
         Admits(k, c, current)
  PROVE  /\ Acceptable(k)
         /\ [pkg : {k}, status : TrustOf(k, c)] \subseteq Jobs
BY DEF Admits, TrustOf, Acceptable, Jobs, Statuses

LEMMA PackageType ==
  ASSUME NEW k \in Packages
  PROVE  /\ k.ver \in Versions /\ k.build \in Builds /\ k.bin \in Binaries
         /\ k.caps \in Capabilities
         /\ Path(k) \in Paths /\ PathOf(k, "binary") = Path(k)
         /\ IdOf(k) \in Ids /\ Seen(k) \in Installations
         /\ SourceOf(k, "binary") = <<"binary", k.build>>
         /\ \A kind \in Kinds : SourceOf(k, kind) \in Sources
BY DEF Versions, Builds, Binaries, Capabilities, Paths, Path, PathOf, NameOf, Ids,
       Installations, Sources, SourceOf, Kinds

LEMMA SeenType ==
  ASSUME NEW f \in Installations
  PROVE  /\ IdOf(f) \in Ids /\ Path(f) \in Paths
         /\ f.ver \in Versions /\ f.build \in Builds
BY DEF Installations, Seen, IdOf, Ids, Path, Paths, Versions, Builds

LEMMA RowType ==
  ASSUME NEW r \in Rows
  PROVE  /\ Seen(r) \in Installations /\ IdOf(r) \in Ids /\ Path(r) \in Paths
         /\ IdOf(Seen(r)) = IdOf(r) /\ Path(Seen(r)) = Path(r)
         /\ Seen(r).ver = r.ver /\ Seen(r).build = r.build
<1>1. /\ IdOf(Seen(r)) = IdOf(r) /\ Path(Seen(r)) = Path(r)
      /\ Seen(r).ver = r.ver /\ Seen(r).build = r.build
  BY DEF Seen, IdOf, Path
<1>. QED BY <1>1, SeenType DEF Rows

\* Rows with one Seen have the same id and path.
LEMMA SameSeen ==
  ASSUME NEW r, NEW q, Seen(r) = Seen(q)
  PROVE  IdOf(r) = IdOf(q) /\ Path(r) = Path(q) /\ r.ver = q.ver /\ r.build = q.build
BY DEF Seen, IdOf, Path

LEMMA SourceLength ==
  ASSUME NEW s \in Sources
  PROVE  Length[s] \in Nat /\ Length[s] >= 1
BY LengthAssumption

\* Setting one flag gives a row again, of the same installation.
LEMMA RowUpdate ==
  ASSUME NEW r \in Rows, NEW b \in BOOLEAN
  PROVE  /\ [r EXCEPT !.declared = b] \in Rows
         /\ [r EXCEPT !.hashOk = b] \in Rows
         /\ [r EXCEPT !.quarantined = b] \in Rows
         /\ Seen([r EXCEPT !.declared = b]) = Seen(r)
         /\ Seen([r EXCEPT !.hashOk = b]) = Seen(r)
         /\ Seen([r EXCEPT !.quarantined = b]) = Seen(r)
<1>1. /\ Seen([r EXCEPT !.declared = b]) = Seen(r)
      /\ Seen([r EXCEPT !.hashOk = b]) = Seen(r)
      /\ Seen([r EXCEPT !.quarantined = b]) = Seen(r)
  BY DEF Rows, Seen
<1>. QED BY <1>1 DEF Rows

Chunk == (Sources \X Nat) \cup {Zero, Damaged}

LEMMA EmptyFile == <<>> \in Files /\ <<Damaged>> \in Files
BY DEF Files

\* g is f with chunk c written at place i.
Written(f, i, c, g) ==
  /\ g \in Files
  /\ Len(g) = IF i > Len(f) THEN i ELSE Len(f)
  /\ \A k \in 1..Len(g) : g[k] = IF k = i THEN c ELSE IF k <= Len(f) THEN f[k] ELSE Zero

LEMMA WriteAtType ==
  ASSUME NEW f \in Files, NEW i \in Nat, i >= 1, NEW c \in Chunk
  PROVE  Written(f, i, c, WriteAt(f, i, c))
<1> DEFINE n == IF i > Len(f) THEN i ELSE Len(f)
<1>1. n \in Nat /\ Len(f) \in Nat
  BY DEF Files
<1>2. \A k \in 1..n : (IF k = i THEN c ELSE IF k <= Len(f) THEN f[k] ELSE Zero) \in Chunk
  BY <1>1 DEF Files, Chunk
<1> HIDE DEF n
<1>3. WriteAt(f, i, c) = [k \in 1..n |-> IF k = i THEN c ELSE IF k <= Len(f) THEN f[k] ELSE Zero]
  BY DEF WriteAt, n
<1>4. WriteAt(f, i, c) \in Seq(Chunk) /\ Len(WriteAt(f, i, c)) = n
  BY <1>1, <1>2, <1>3
<1>. QED BY <1>3, <1>4 DEF Files, Chunk, n, Written

LEMMA PrefixType ==
  ASSUME NEW s \in Sources, NEW n \in Nat
  PROVE  /\ Prefix(s, n) \in Files /\ Len(Prefix(s, n)) = n
         /\ \A i \in 1..n : Prefix(s, n)[i] = <<s, i>>
         /\ n = 0 => Prefix(s, n) = <<>>
<1>1. \A i \in 1..n : <<s, i>> \in Chunk
  BY DEF Chunk
<1>2. Prefix(s, n) = [i \in 1..n |-> <<s, i>>]
  BY DEF Prefix
<1>3. Prefix(s, n) \in Seq(Chunk) /\ Len(Prefix(s, n)) = n
  BY <1>1, <1>2
<1>4. n = 0 => Prefix(s, n) = <<>>
  BY <1>3
<1>. QED BY <1>2, <1>3, <1>4 DEF Files, Chunk

\* The next chunk of a source, written after those before it.
LEMMA PrefixGrows ==
  ASSUME NEW s \in Sources, NEW n \in Nat
  PROVE  WriteAt(Prefix(s, n), n + 1, <<s, n + 1>>) = Prefix(s, n + 1)
<1> DEFINE g == WriteAt(Prefix(s, n), n + 1, <<s, n + 1>>)
           h == Prefix(s, n + 1)
<1>1. Written(Prefix(s, n), n + 1, <<s, n + 1>>, g)
  BY PrefixType, WriteAtType DEF Chunk
<1>2. g \in Files /\ Len(g) = n + 1 /\ h \in Files /\ Len(h) = n + 1
  BY <1>1, PrefixType DEF Written
<1>3. \A k \in 1..(n + 1) : h[k] = <<s, k>>
  BY PrefixType
<1>5. \A k \in 1..(n + 1) :
        g[k] = IF k = n + 1 THEN <<s, n + 1>>
               ELSE IF k <= n THEN Prefix(s, n)[k] ELSE Zero
  BY <1>1, <1>2, PrefixType DEF Written
<1>6. \A k \in 1..n : Prefix(s, n)[k] = <<s, k>>
  BY PrefixType
<1> HIDE DEF g, h
<1>7. \A k \in 1..(n + 1) : g[k] = h[k]
  BY <1>3, <1>5, <1>6
<1>4. g = h
  BY <1>2, <1>7, SeqEqual DEF Files
<1>. QED BY <1>4 DEF g, h

(***************************************************************************)
(* Types.                                                                  *)
(***************************************************************************)

\* Queries return rows of the table.
LEMMA FirstOfRows ==
  ASSUME NEW S, NEW first \in FirstOf(S)
  PROVE  first \subseteq S
BY DEF FirstOf, Highest

LEMMA JobType ==
  ASSUME TypeOK, NEW p \in Processes, NEW j \in job[p]
  PROVE  /\ j \in Jobs /\ j.pkg \in Packages /\ j.status \in Statuses
         /\ j.status # "absent" /\ part[p] \in Kinds
         /\ SourceOf(j.pkg, part[p]) \in Sources
         /\ SourceOf(j.pkg, "binary") \in Sources
<1>1. j \in Jobs /\ part[p] \in Kinds
  BY DEF TypeOK
<1>2. j.pkg \in Packages /\ j.status \in Statuses /\ j.status # "absent"
  BY <1>1 DEF Jobs, Statuses
<1>. QED BY <1>1, <1>2, PackageType DEF Kinds

LEMMA TypeInit == Init => TypeOK
BY DEF Init, TypeOK, Statuses, Results, Kinds

\* A chunk written to whatever is at a path.
LEMMA WrittenFiles ==
  ASSUME NEW S \in SUBSET Files, NEW i \in Nat, NEW s \in Sources
  PROVE  {WriteAt(f, i + 1, <<s, i + 1>>) : f \in S} \in SUBSET Files
<1>1. ASSUME NEW f \in S
      PROVE  WriteAt(f, i + 1, <<s, i + 1>>) \in Files
  <2>1. Written(f, i + 1, <<s, i + 1>>, WriteAt(f, i + 1, <<s, i + 1>>))
    BY WriteAtType DEF Chunk
  <2>. QED BY <2>1 DEF Written
<1>. QED BY <1>1

LEMMA TypeFiles ==
  ASSUME TypeOK, NEW p \in Processes, OpenFile(p) \/ WriteFile(p) \/ CloseFile(p)
  PROVE  TypeOK'
<1> USE DEF TypeOK, InstallSteps
<1>1. CASE OpenFile(p)
  <2>1. PICK path \in Paths :
          /\ disk' = [disk EXCEPT ![path] = {<<>>}]
          /\ handle' = [handle EXCEPT ![p] = {path}]
          /\ touched' = IF part[p] = "binary" THEN touched \ {p} ELSE touched
          /\ vouched' = [vouched EXCEPT ![path] = {}]
          /\ sole' = [q \in Processes |->
               IF /\ q = p /\ part[p] = "binary"
                  /\ \A o \in Processes \ {p} : path \notin handle[o]
               THEN {path} ELSE sole[q] \ {path}]
    BY <1>1 DEF OpenFile
  <2>2. disk' \in [Paths -> SUBSET Files]
    BY <2>1, EmptyFile
  <2>3. sole' \in [Processes -> SUBSET Paths]
    BY <2>1
  <2>4. /\ handle' \in [Processes -> SUBSET Paths]
        /\ vouched' \in [Paths -> SUBSET Ids]
        /\ touched' \subseteq Processes
    BY <2>1
  <2>. QED BY <1>1, <2>2, <2>3, <2>4 DEF OpenFile
<1>2. CASE WriteFile(p)
  <2>1. PICK j \in job[p] :
          disk' = [path \in Paths |->
            IF path \in handle[p]
            THEN {WriteAt(f, pos[p] + 1, <<SourceOf(j.pkg, part[p]), pos[p] + 1>>) :
                    f \in disk[path]}
            ELSE disk[path]]
    BY <1>2 DEF WriteFile
  <2>2. SourceOf(j.pkg, part[p]) \in Sources
    BY JobType
  <2>3. \A path \in Paths :
          {WriteAt(f, pos[p] + 1, <<SourceOf(j.pkg, part[p]), pos[p] + 1>>) :
             f \in disk[path]} \in SUBSET Files
    BY <2>2, WrittenFiles
  <2>4. disk' \in [Paths -> SUBSET Files]
    BY <2>1, <2>3
  <2>. QED BY <1>2, <2>4 DEF WriteFile
<1>3. CASE CloseFile(p)
  <2>1. PICK kind \in Kinds : part' = [part EXCEPT ![p] = kind]
    BY <1>3 DEF CloseFile, NextFile, Kinds
  <2>2. PICK to \in {"register", "open"} : pc' = [pc EXCEPT ![p] = to]
    BY <1>3 DEF CloseFile, NextFile
  <2>. QED BY <1>3, <2>1, <2>2 DEF CloseFile
<1>. QED BY <1>1, <1>2, <1>3

LEMMA TypeInstall ==
  ASSUME TypeOK, NEW p \in Processes, Install(p)
  PROVE  TypeOK'
<1> USE DEF TypeOK, InstallSteps, Results
<1>1. ASSUME NEW k \in Packages, NEW c \in Consents, BeginInstall(p, k, c)
      PROVE  TypeOK'
  <2>1. [pkg : {k}, status : TrustOf(k, c)] \in SUBSET Jobs
    BY <1>1, AdmittedJob DEF BeginInstall
  <2>2. job' \in [Processes -> SUBSET Jobs]
    BY <1>1, <2>1 DEF BeginInstall
  <2>. QED BY <1>1, <2>2 DEF BeginInstall
<1>2. ASSUME NEW k \in Packages, NEW c \in Consents, RefuseInstall(p, k, c)
      PROVE  TypeOK'
  BY <1>2 DEF RefuseInstall
<1>3. ASSUME NEW j \in job[p]
      PROVE  /\ j \in Jobs /\ j.pkg \in Packages /\ j.status \in Statuses
             /\ j.pkg.ver \in Versions /\ j.pkg.build \in Builds
             /\ j.pkg.caps \in Capabilities /\ j.pkg.bin \in Binaries
             /\ Seen(j.pkg) \in Installations /\ IdOf(j.pkg) \in Ids
  BY <1>3, JobType, PackageType
<1>4. CASE OpenFile(p) \/ WriteFile(p) \/ CloseFile(p)
  BY <1>4, TypeFiles
<1>6. CASE UpsertRegistry(p)
  BY <1>6, <1>3 DEF UpsertRegistry
<1>7. CASE DeleteOld(p)
  BY <1>7 DEF DeleteOld
<1>8. CASE InsertRow(p)
  <2>1. ASSUME NEW j \in job[p] PROVE NewRow(j) \in Rows
    <3>1. Seen(NewRow(j)) = Seen(j.pkg)
      BY DEF NewRow, Seen
    <3>. QED BY <1>3, <3>1 DEF NewRow, Rows
  <2>. QED BY <1>8, <2>1 DEF InsertRow
<1>9. CASE DeclareCapabilities(p)
  <2>1. \A r \in rows : [r EXCEPT !.declared = TRUE] \in Rows
    BY RowUpdate
  <2>2. rows' \subseteq Rows
    BY <1>9, <2>1 DEF DeclareCapabilities
  <2>3. vouched' \in [Paths -> SUBSET Ids]
    BY <1>9, <1>3 DEF DeclareCapabilities
  <2>. QED BY <1>9, <2>2, <2>3 DEF DeclareCapabilities
<1>. QED BY <1>1, <1>2, <1>4, <1>6, <1>7, <1>8, <1>9 DEF Install

LEMMA TypeUninstall ==
  ASSUME TypeOK, NEW p \in Processes, Uninstall(p)
  PROVE  TypeOK'
<1> USE DEF TypeOK, UninstallSteps, Results
<1>1. CASE BeginUninstall(p)
  <2>1. \A first \in FirstOf(rows) : {Seen(r) : r \in first} \in SUBSET Installations
    BY FirstOfRows, RowType
  <2>. QED BY <1>1, <2>1 DEF BeginUninstall
<1>2. CASE LookupRegistry(p)
  BY <1>2 DEF LookupRegistry
<1>3. CASE RemoveFiles(p)
  <2>1. PICK gone \in SUBSET Paths :
          /\ disk' = [path \in Paths |-> IF path \in gone THEN {} ELSE disk[path]]
          /\ handle' = [q \in Processes |-> handle[q] \ gone]
          /\ vouched' = [path \in Paths |-> IF path \in gone THEN {} ELSE vouched[path]]
          /\ sole' = [q \in Processes |-> IF q = p THEN gone ELSE sole[q] \ gone]
    BY <1>3 DEF RemoveFiles
  <2>2. /\ disk' \in [Paths -> SUBSET Files] /\ handle' \in [Processes -> SUBSET Paths]
        /\ vouched' \in [Paths -> SUBSET Ids] /\ sole' \in [Processes -> SUBSET Paths]
    BY <2>1
  <2>. QED BY <1>3, <2>2 DEF RemoveFiles
<1>4. CASE DeleteRows(p)
  BY <1>4 DEF DeleteRows
<1>5. CASE SetUninstalled(p)
  BY <1>5 DEF SetUninstalled, SetStatus
<1>. QED BY <1>1, <1>2, <1>3, <1>4, <1>5 DEF Uninstall

LEMMA TypeVerify ==
  ASSUME TypeOK, NEW p \in Processes, Verify(p)
  PROVE  TypeOK'
<1> USE DEF TypeOK, VerifySteps, Results
<1>0. ASSUME NEW of, NEW ok \in BOOLEAN
      PROVE  MarkHash(of, ok) \subseteq Rows /\ MarkQuarantined(of) \subseteq Rows
  <2>1. ASSUME NEW x \in MarkHash(of, ok)
        PROVE  x \in Rows
    <3>1. PICK r \in rows : x = IF \E f \in of : Same(r, f)
                                THEN [r EXCEPT !.hashOk = ok] ELSE r
      BY DEF MarkHash
    <3>2. r \in Rows /\ [r EXCEPT !.hashOk = ok] \in Rows
      BY RowUpdate
    <3>. QED BY <3>1, <3>2
  <2>2. ASSUME NEW x \in MarkQuarantined(of)
        PROVE  x \in Rows
    <3>1. PICK r \in rows : x = IF \E f \in of : Same(r, f)
                                THEN [r EXCEPT !.quarantined = TRUE] ELSE r
      BY DEF MarkQuarantined
    <3>2. r \in Rows /\ [r EXCEPT !.quarantined = TRUE] \in Rows
      BY RowUpdate
    <3>. QED BY <3>1, <3>2
  <2>. QED BY <2>1, <2>2
<1>1. CASE BeginVerify(p)
  <2>1. \A first \in FirstOf(Live) : {Seen(r) : r \in first} \in SUBSET Installations
    BY FirstOfRows, RowType DEF Live
  <2>. QED BY <1>1, <2>1 DEF BeginVerify
<1>2. CASE HashFile(p)
  BY <1>2 DEF HashFile
<1>3. CASE SetHashOk(p)
  BY <1>3, <1>0 DEF SetHashOk
<1>4. CASE SetHashBad(p)
  BY <1>4, <1>0 DEF SetHashBad
<1>5. CASE Quarantine(p)
  BY <1>5, <1>0 DEF Quarantine
<1>6. CASE SetQuarantined(p)
  <2>1. condemned' \subseteq Ids
    BY <1>6, SeenType DEF SetQuarantined
  <2>. QED BY <1>6, <2>1 DEF SetQuarantined, SetStatus
<1>. QED BY <1>1, <1>2, <1>3, <1>4, <1>5, <1>6 DEF Verify

LEMMA TypeStep == TypeOK /\ [Next]_vars => TypeOK'
<1> SUFFICES ASSUME TypeOK, [Next]_vars
             PROVE  TypeOK'
  OBVIOUS
<1> USE DEF TypeOK
<1>1. ASSUME NEW p \in Processes, Run(p)
      PROVE  TypeOK'
  <2> USE DEF RunSteps, Results
  <2>1. CASE BeginRun(p)
    BY <2>1 DEF BeginRun
  <2>2. CASE ListRows(p)
    <3>1. \A r \in Live : {Seen(r)} \in SUBSET Installations
      BY RowType DEF Live
    <3>. QED BY <2>2, <3>1 DEF ListRows
  <2>3. CASE Dispatch(p)
    BY <2>3 DEF Dispatch
  <2>. QED BY <1>1, <2>1, <2>2, <2>3 DEF Run
<1>2. ASSUME NEW p \in Processes, Fail(p)
      PROVE  TypeOK'
  BY <1>2 DEF Fail, Results, Kinds
<1>3. ASSUME NEW path \in Paths, Damage(path)
      PROVE  TypeOK'
  <2>1. disk' \in [Paths -> SUBSET Files]
    <3>1. PICK S \in SUBSET Files : disk' = [disk EXCEPT ![path] = S]
      BY <1>3, EmptyFile DEF Damage
    <3>. QED BY <3>1
  <2>2. handle' \in [Processes -> SUBSET Paths] /\ sole' \in [Processes -> SUBSET Paths]
    BY <1>3 DEF Damage
  <2>3. touched' \subseteq Processes /\ vouched' \in [Paths -> SUBSET Ids]
    BY <1>3 DEF Damage
  <2>. QED BY <1>3, <2>1, <2>2, <2>3 DEF Damage
<1>4. CASE UNCHANGED vars
  BY <1>4 DEF vars
<1>. QED BY <1>1, <1>2, <1>3, <1>4, TypeInstall, TypeUninstall, TypeVerify DEF Next

\* Every variable keeps its type, whatever the commands do (PluginStore).
THEOREM TypeCorrect == Spec => []TypeOK
BY TypeInit, TypeStep, PTL DEF Spec


(***************************************************************************)
(* The jobs of installs.                                                   *)
(***************************************************************************)

\* A process installs one package at a time, and none that no call may accept.
OneJob == \A p \in Processes : \A i, j \in job[p] : i = j
JobsAcceptable == \A p \in Processes : \A j \in job[p] : Acceptable(j.pkg)

JobInv == OneJob /\ JobsAcceptable

\* A process drops its job at the start of another command or keeps it.
KeepsJob(p) == job' = job \/ job' = [job EXCEPT ![p] = {}]

LEMMA JobKept ==
  ASSUME TypeOK, JobInv, NEW p \in Processes, KeepsJob(p)
  PROVE  JobInv'
BY DEF TypeOK, JobInv, OneJob, JobsAcceptable, KeepsJob

LEMMA JobInstall ==
  ASSUME TypeOK, JobInv, NEW p \in Processes, Install(p)
  PROVE  JobInv'
<1>1. ASSUME NEW k \in Packages, NEW c \in Consents, BeginInstall(p, k, c)
      PROVE  JobInv'
  <2>1. Acceptable(k)
    BY <1>1, AdmittedJob DEF BeginInstall
  <2>2. \A i, j \in [pkg : {k}, status : TrustOf(k, c)] : i = j
    BY DEF TrustOf
  <2>3. \A j \in [pkg : {k}, status : TrustOf(k, c)] : j.pkg = k
    OBVIOUS
  <2>. QED BY <1>1, <2>1, <2>2, <2>3 DEF BeginInstall, TypeOK, JobInv, OneJob, JobsAcceptable
<1>2. ASSUME NEW k \in Packages, NEW c \in Consents, RefuseInstall(p, k, c)
      PROVE  JobInv'
  BY <1>2, JobKept DEF RefuseInstall, KeepsJob
<1>3. CASE OpenFile(p) \/ WriteFile(p) \/ CloseFile(p)
  BY <1>3, JobKept DEF OpenFile, WriteFile, CloseFile, KeepsJob
<1>4. CASE UpsertRegistry(p) \/ DeleteOld(p) \/ InsertRow(p) \/ DeclareCapabilities(p)
  BY <1>4, JobKept
  DEF UpsertRegistry, DeleteOld, InsertRow, DeclareCapabilities, KeepsJob
<1>. QED BY <1>1, <1>2, <1>3, <1>4 DEF Install

LEMMA JobStep == TypeOK /\ JobInv /\ [Next]_vars => JobInv'
<1> SUFFICES ASSUME TypeOK, JobInv, [Next]_vars
             PROVE  JobInv'
  OBVIOUS
<1>1. ASSUME NEW p \in Processes, Uninstall(p) \/ Verify(p) \/ Run(p) \/ Fail(p)
      PROVE  JobInv'
  <2>1. CASE Uninstall(p)
    <3>1. KeepsJob(p)
      BY <2>1 DEF Uninstall, BeginUninstall, LookupRegistry, RemoveFiles, DeleteRows,
                  SetUninstalled, KeepsJob
    <3>. QED BY <3>1, JobKept
  <2>2. CASE Verify(p)
    <3>1. KeepsJob(p)
      BY <2>2 DEF Verify, BeginVerify, HashFile, SetHashOk, SetHashBad, Quarantine,
                  SetQuarantined, KeepsJob
    <3>. QED BY <3>1, JobKept
  <2>3. CASE Run(p) \/ Fail(p)
    <3>1. KeepsJob(p)
      BY <2>3 DEF Run, BeginRun, ListRows, Dispatch, Fail, KeepsJob
    <3>. QED BY <3>1, JobKept
  <2>. QED BY <1>1, <2>1, <2>2, <2>3
<1>2. CASE (\E path \in Paths : Damage(path)) \/ UNCHANGED vars
  BY <1>2 DEF Damage, vars, JobInv, OneJob, JobsAcceptable
<1>. QED BY <1>1, <1>2, JobInstall DEF Next

LEMMA JobInit == Init => JobInv
BY DEF Init, JobInv, OneJob, JobsAcceptable

(***************************************************************************)
(* The invariant behind OnlyAcceptableRuns.  What an open handle may write *)
(* is known from its process; a path on its own is what its only writer    *)
(* has made of it, and stays so when that command vouches for it.          *)
(***************************************************************************)

\* A process has a file open only while it writes it, from its start on.
HandleInv ==
  \A p \in Processes :
    /\ pc[p] # "write" => pos[p] = 0
    /\ \A path \in handle[p] :
         pc[p] = "write" /\ \A j \in job[p] : PathOf(j.pkg, part[p]) = path

\* No file holds anything of a refused package, or of one for another path.
DiskHeld ==
  \A path \in Paths : \A f \in disk[path] : \A i \in DOMAIN f : MayHold(path, i, f[i])

\* The binary is written, and what follows is not yet done with.
Late(p) ==
  \/ pc[p] \in {"register", "clear", "insert", "declare"}
  \/ pc[p] \in {"open", "write"} /\ part[p] # "binary"

\* What a command has made of a path that it has had for itself.
SoleFile(p, path) ==
  \/ pc[p] \in {"deleteRows", "setUninstalled"} /\ disk[path] = {}
  \/ /\ pc[p] = "write" /\ part[p] = "binary" /\ path \in handle[p]
     /\ \A j \in job[p] : disk[path] = {Prefix(SourceOf(j.pkg, "binary"), pos[p])}
  \/ /\ Late(p) /\ path \notin handle[p]
     /\ \A j \in job[p] : disk[path] = {Whole(j.pkg.build)}

SoleFiles ==
  \A p \in Processes : \A path \in sole[p] :
    SoleFile(p, path) /\ \A q \in Processes \ {p} : path \notin handle[q]

VouchedFiles ==
  \A path \in Paths : vouched[path] # {} =>
    /\ \A q \in Processes : path \notin handle[q]
    /\ \A f \in disk[path] : \A id \in vouched[path] : f = Whole(id.build)

FileInv == HandleInv /\ DiskHeld /\ SoleFiles /\ VouchedFiles

LEMMA FileInit == Init => FileInv
BY DEF Init, FileInv, HandleInv, DiskHeld, SoleFiles, VouchedFiles

\* Process q is where it was.
Waits(q) == pc'[q] = pc[q] /\ job'[q] = job[q] /\ part'[q] = part[q] /\ pos'[q] = pos[q]

\* A path that neither its owner nor its content has left stays on its own.
LEMMA SoleSame ==
  ASSUME NEW q \in Processes, NEW path \in Paths, Waits(q), SoleFile(q, path),
         path \in handle'[q] <=> path \in handle[q], disk'[path] = disk[path]
  PROVE  SoleFile(q, path)'
BY DEF Waits, SoleFile, Late

\* Between commands, and at every step that has no use for it, a process has
\* no path of its own.
LEMMA NoSole ==
  ASSUME TypeOK, FileInv, NEW p \in Processes,
         pc[p] \notin {"deleteRows", "setUninstalled", "write", "open", "register",
                       "clear", "insert", "declare"}
  PROVE  sole[p] = {}
BY DEF FileInv, SoleFiles, SoleFile, Late

\* A step of p that leaves files and handles alone, and vouches for nothing
\* but what it has made of paths of its own.
LEMMA FileQuiet ==
  ASSUME TypeOK, TypeOK', FileInv, NEW p \in Processes,
         disk' = disk, handle' = handle, pos' = pos,
         \A path \in Paths :
           \/ vouched'[path] = vouched[path]
           \/ /\ path \in sole[p]
              /\ \A f \in disk[path] : \A id \in vouched'[path] : f = Whole(id.build),
         pc[p] # "write", pc'[p] # "write",
         \A q \in Processes \ {p} : Waits(q) /\ sole'[q] = sole[q],
         sole'[p] = {} \/ /\ sole'[p] = sole[p] /\ job'[p] = job[p]
                          /\ \/ Late(p) /\ Late(p)'
                             \/ {pc[p], pc'[p]} \subseteq {"deleteRows", "setUninstalled"}
  PROVE  FileInv'
<1> USE DEF FileInv
<1>1. handle[p] = {}
  BY DEF HandleInv, TypeOK
<1>2. HandleInv'
  BY <1>1 DEF HandleInv, Waits
<1>3. DiskHeld'
  BY DEF DiskHeld
<1>5. ASSUME NEW path \in Paths, vouched'[path] # {}
      PROVE  /\ \A q \in Processes : path \notin handle'[q]
             /\ \A f \in disk'[path] : \A id \in vouched'[path] : f = Whole(id.build)
  <2>1. CASE vouched'[path] = vouched[path]
    BY <1>5, <2>1 DEF VouchedFiles
  <2>2. CASE /\ path \in sole[p]
             /\ \A f \in disk[path] : \A id \in vouched'[path] : f = Whole(id.build)
    <3>1. \A q \in Processes \ {p} : path \notin handle[q]
      BY <2>2 DEF SoleFiles
    <3>. QED BY <1>1, <2>2, <3>1
  <2>. QED BY <2>1, <2>2
<1>4. ASSUME NEW q \in Processes, NEW path \in sole'[q]
      PROVE  SoleFile(q, path)' /\ \A r \in Processes \ {q} : path \notin handle'[r]
  <2>1. path \in Paths /\ path \in sole[q]
    BY <1>4 DEF TypeOK
  <2>2. SoleFile(q, path) /\ \A r \in Processes \ {q} : path \notin handle[r]
    BY <2>1 DEF SoleFiles
  <2>3. CASE q # p
    BY <2>1, <2>2, <2>3, SoleSame
  <2>4. CASE q = p
    BY <1>1, <1>4, <2>2, <2>4 DEF SoleFile, Late
  <2>. QED BY <2>2, <2>3, <2>4
<1>. QED BY <1>2, <1>3, <1>4, <1>5 DEF SoleFiles, VouchedFiles

\* What is put at a place of a file leaves the rest of it as it was.
LEMMA HeldAfterWrite ==
  ASSUME NEW path, NEW f \in Files, NEW n \in Nat, NEW c \in Chunk,
         \A i \in DOMAIN f : MayHold(path, i, f[i]),
         MayHold(path, n + 1, c)
  PROVE  \A i \in DOMAIN WriteAt(f, n + 1, c) :
           MayHold(path, i, WriteAt(f, n + 1, c)[i])
<1> DEFINE g == WriteAt(f, n + 1, c)
<1>1. Written(f, n + 1, c, g)
  BY WriteAtType
<1>2. DOMAIN g = 1..Len(g) /\ DOMAIN f = 1..Len(f) /\ Len(g) \in Nat /\ Len(f) \in Nat
  BY <1>1 DEF Written, Files
<1>3. \A i \in 1..Len(g) :
        g[i] = IF i = n + 1 THEN c ELSE IF i <= Len(f) THEN f[i] ELSE Zero
  BY <1>1 DEF Written
<1> HIDE DEF g
<1>4. ASSUME NEW i \in 1..Len(g)
      PROVE  MayHold(path, i, g[i])
  <2>1. CASE i = n + 1
    BY <1>3, <2>1
  <2>2. CASE i # n + 1 /\ i <= Len(f)
    <3>1. g[i] = f[i] /\ i \in DOMAIN f
      BY <1>2, <1>3, <2>2
    <3>. QED BY <3>1
  <2>3. CASE i # n + 1 /\ ~(i <= Len(f))
    <3>1. g[i] = Zero
      BY <1>3, <2>3
    <3>. QED BY <3>1 DEF MayHold
  <2>. QED BY <2>1, <2>2, <2>3
<1>. QED BY <1>2, <1>4 DEF g

LEMMA FileOpen ==
  ASSUME TypeOK, TypeOK', JobInv, FileInv, NEW p \in Processes, OpenFile(p)
  PROVE  FileInv'
<1> USE DEF FileInv, TypeOK
<1>1. PICK j \in job[p] :
        /\ PathOf(j.pkg, part[p]) \in Paths
        /\ disk' = [disk EXCEPT ![PathOf(j.pkg, part[p])] = {<<>>}]
        /\ handle' = [handle EXCEPT ![p] = {PathOf(j.pkg, part[p])}]
        /\ vouched' = [vouched EXCEPT ![PathOf(j.pkg, part[p])] = {}]
        /\ sole' = [q \in Processes |->
             IF /\ q = p /\ part[p] = "binary"
                /\ \A o \in Processes \ {p} : PathOf(j.pkg, part[p]) \notin handle[o]
             THEN {PathOf(j.pkg, part[p])} ELSE sole[q] \ {PathOf(j.pkg, part[p])}]
  BY DEF OpenFile
<1> DEFINE at == PathOf(j.pkg, part[p])
<1>2. /\ pc[p] = "open" /\ pc'[p] = "write" /\ UNCHANGED <<job, part, pos>>
      /\ \A q \in Processes \ {p} : Waits(q)
  BY DEF OpenFile, Waits
<1>3. /\ at \in Paths /\ disk'[at] = {<<>>} /\ vouched'[at] = {} /\ handle'[p] = {at}
      /\ \A path \in Paths : path # at =>
           disk'[path] = disk[path] /\ vouched'[path] = vouched[path]
      /\ \A q \in Processes \ {p} : handle'[q] = handle[q] /\ sole'[q] = sole[q] \ {at}
      /\ sole'[p] = IF /\ part[p] = "binary"
                       /\ \A o \in Processes \ {p} : at \notin handle[o]
                    THEN {at} ELSE sole[p] \ {at}
  BY <1>1
<1>9. at = PathOf(j.pkg, part[p])
  OBVIOUS
<1> HIDE DEF at
<1>4. handle[p] = {} /\ pos[p] = 0
  BY <1>2 DEF HandleInv
<1>11. SoleFiles
  OBVIOUS
<1>12. DiskHeld /\ VouchedFiles
  OBVIOUS
<1>5. HandleInv'
  <2>1. \A i \in job[p] : i = j
    BY DEF JobInv, OneJob
  <2>. QED BY <1>2, <1>3, <1>9, <2>1 DEF HandleInv, Waits
<1>6. ASSUME NEW path \in Paths, NEW f \in disk'[path], NEW i \in DOMAIN f
      PROVE  MayHold(path, i, f[i])
  <2>1. CASE path = at
    BY <1>3, <1>6, <2>1
  <2>2. CASE path # at
    BY <1>3, <1>6, <2>2, <1>12 DEF DiskHeld
  <2>. QED BY <2>1, <2>2
<1>7. ASSUME NEW path \in Paths, vouched'[path] # {}
      PROVE  /\ \A q \in Processes : path \notin handle'[q]
             /\ \A f \in disk'[path] : \A id \in vouched'[path] : f = Whole(id.build)
  <2>1. path # at
    BY <1>3, <1>7
  <2>2. disk'[path] = disk[path] /\ vouched'[path] = vouched[path]
    BY <1>3, <2>1
  <2>3. \A q \in Processes : path \in handle'[q] => path \in handle[q]
    BY <1>3, <2>1
  <2>. QED BY <1>7, <2>2, <2>3, <1>12 DEF VouchedFiles
<1>8. ASSUME NEW q \in Processes, NEW path \in sole'[q]
      PROVE  SoleFile(q, path)' /\ \A r \in Processes \ {q} : path \notin handle'[r]
  <2>1. CASE q # p
    <3>1. path \in sole[q] /\ path # at /\ path \in Paths
      BY <1>3, <1>8, <2>1
    <3>2. SoleFile(q, path) /\ \A r \in Processes \ {q} : path \notin handle[r]
      BY <3>1 DEF SoleFiles
    <3>3. SoleFile(q, path)'
      BY <1>2, <1>3, <2>1, <3>1, <3>2, SoleSame
    <3>. QED BY <1>3, <2>1, <3>1, <3>2, <3>3
  <2>2. CASE q = p /\ path \in sole[p] /\ path # at
    <3>1. SoleFile(p, path) /\ \A r \in Processes \ {p} : path \notin handle[r]
      BY <2>2, <1>11 DEF SoleFiles
    <3>2. Late(p) /\ \A i \in job[p] : disk[path] = {Whole(i.pkg.build)}
      BY <1>2, <3>1 DEF SoleFile
    <3>3. Late(p)' /\ path \notin handle'[p] /\ disk'[path] = disk[path]
      BY <1>2, <1>3, <1>8, <2>2, <3>2 DEF Late
    <3>. QED BY <1>2, <1>3, <2>2, <3>1, <3>2, <3>3 DEF SoleFile
  <2>3. CASE /\ q = p /\ path = at /\ part[p] = "binary"
             /\ \A o \in Processes \ {p} : at \notin handle[o]
    <3>1. ASSUME NEW i \in job[p]
          PROVE  Prefix(SourceOf(i.pkg, "binary"), 0) = <<>>
      BY JobType, PrefixType
    <3>. QED BY <1>2, <1>3, <1>4, <2>3, <3>1 DEF SoleFile
  <2>4. q = p => \/ path \in sole[p] /\ path # at
                 \/ /\ path = at /\ part[p] = "binary"
                    /\ \A o \in Processes \ {p} : at \notin handle[o]
    BY <1>3, <1>8
  <2>. QED BY <2>1, <2>2, <2>3, <2>4
<1>. QED BY <1>5, <1>6, <1>7, <1>8 DEF SoleFiles, DiskHeld, VouchedFiles

\* What a write makes of the file that is there, if any.
PutAt(S, i, c) == {WriteAt(f, i, c) : f \in S}

LEMMA PutWritten ==
  ASSUME NEW i, NEW c
  PROVE  /\ \A S : \A g \in PutAt(S, i, c) : \E f \in S : g = WriteAt(f, i, c)
         /\ \A x : PutAt({x}, i, c) = {WriteAt(x, i, c)}
<1>1. ASSUME NEW S, NEW g \in PutAt(S, i, c)
      PROVE  \E f \in S : g = WriteAt(f, i, c)
  BY <1>1 DEF PutAt
<1>2. ASSUME NEW x
      PROVE  PutAt({x}, i, c) = {WriteAt(x, i, c)}
  BY DEF PutAt
<1>. QED BY <1>1, <1>2

LEMMA FileWrite ==
  ASSUME TypeOK, TypeOK', JobInv, FileInv, NEW p \in Processes, WriteFile(p)
  PROVE  FileInv'
<1> USE DEF TypeOK
<1>1. PICK j \in job[p] :
        disk' = [path \in Paths |->
          IF path \in handle[p]
          THEN {WriteAt(f, pos[p] + 1, <<SourceOf(j.pkg, part[p]), pos[p] + 1>>) :
                  f \in disk[path]}
          ELSE disk[path]]
  BY DEF WriteFile
<1> DEFINE s == SourceOf(j.pkg, part[p])
           n == pos[p]
           Put(S) == PutAt(S, n + 1, <<s, n + 1>>)
<1>2. /\ pc[p] = "write" /\ pos' = [pos EXCEPT ![p] = n + 1]
      /\ UNCHANGED <<pc, job, part, handle, sole, vouched>>
  BY DEF WriteFile
<1>3. \A path \in Paths :
        /\ path \notin handle[p] => disk'[path] = disk[path]
        /\ path \in handle[p] => disk'[path] = Put(disk[path])
  BY <1>1 DEF PutAt
<1>11. /\ \A S : \A g \in Put(S) : \E f \in S : g = WriteAt(f, n + 1, <<s, n + 1>>)
       /\ \A x : Put({x}) = {WriteAt(x, n + 1, <<s, n + 1>>)}
  BY PutWritten
<1>4. /\ s \in Sources /\ n \in Nat /\ <<s, n + 1>> \in Chunk /\ pos'[p] = n + 1
      /\ \A i \in job[p] : i = j
  BY <1>2, JobType DEF Chunk, JobInv, OneJob
<1>5. s = SourceOf(j.pkg, part[p])
  OBVIOUS
<1> HIDE DEF s, n, Put
<1>6. HandleInv /\ DiskHeld /\ SoleFiles /\ VouchedFiles
  BY DEF FileInv
<1>7. HandleInv'
  BY <1>2, <1>6 DEF HandleInv
<1>8. ASSUME NEW path \in Paths, NEW g \in disk'[path]
      PROVE  \A i \in DOMAIN g : MayHold(path, i, g[i])
  <2>1. CASE path \notin handle[p]
    BY <1>3, <1>6, <1>8, <2>1 DEF DiskHeld
  <2>2. CASE path \in handle[p]
    <3>1. PICK f \in disk[path] : g = WriteAt(f, n + 1, <<s, n + 1>>)
      BY <1>3, <1>8, <1>11, <2>2
    <3>2. f \in Files /\ \A i \in DOMAIN f : MayHold(path, i, f[i])
      BY <1>6 DEF DiskHeld
    <3>3. MayHold(path, n + 1, <<s, n + 1>>)
      <4>1. j.pkg \in Packages /\ part[p] \in Kinds /\ Acceptable(j.pkg)
        BY JobType DEF JobInv, JobsAcceptable
      <4>2. PathOf(j.pkg, part[p]) = path
        BY <1>6, <2>2 DEF HandleInv
      <4>. QED BY <1>5, <4>1, <4>2 DEF MayHold
    <3>. QED BY <1>4, <3>1, <3>2, <3>3, HeldAfterWrite
  <2>. QED BY <2>1, <2>2
<1>9. VouchedFiles'
  <2>1. ASSUME NEW path \in Paths, vouched[path] # {}
        PROVE  path \notin handle[p] /\ disk'[path] = disk[path]
    BY <1>3, <1>6, <2>1 DEF VouchedFiles
  <2>. QED BY <1>2, <1>6, <2>1 DEF VouchedFiles
<1>10. ASSUME NEW q \in Processes, NEW path \in sole'[q]
       PROVE  SoleFile(q, path)' /\ \A r \in Processes \ {q} : path \notin handle'[r]
  <2>1. /\ path \in sole[q] /\ path \in Paths /\ SoleFile(q, path)
        /\ \A r \in Processes \ {q} : path \notin handle[r]
    BY <1>2, <1>6, <1>10 DEF SoleFiles
  <2>2. CASE q # p
    <3>1. Waits(q) /\ disk'[path] = disk[path]
      BY <1>2, <1>3, <2>1, <2>2 DEF Waits
    <3>. QED BY <1>2, <2>1, <3>1, SoleSame
  <2>3. CASE q = p /\ path \notin handle[p]
    BY <1>2, <1>3, <2>1, <2>3 DEF SoleFile, Late
  <2>4. CASE q = p /\ path \in handle[p]
    <3>1. part[p] = "binary" /\ disk[path] = {Prefix(SourceOf(j.pkg, "binary"), n)}
      BY <1>2, <2>1, <2>4 DEF SoleFile, n
    <3>2. disk'[path] = {WriteAt(Prefix(s, n), n + 1, <<s, n + 1>>)}
      BY <1>3, <1>5, <1>11, <2>1, <2>4, <3>1
    <3>3. disk'[path] = {Prefix(s, n + 1)}
      BY <1>4, <3>2, PrefixGrows
    <3>4. \A i \in job'[p] : i = j
      BY <1>2, <1>4
    <3>5. disk'[path] = {Prefix(SourceOf(j.pkg, "binary"), pos'[p])}
      BY <1>4, <1>5, <3>1, <3>3
    <3>. QED BY <1>2, <2>1, <2>4, <3>1, <3>4, <3>5 DEF SoleFile
  <2>. QED BY <2>2, <2>3, <2>4
<1>. QED BY <1>7, <1>8, <1>9, <1>10 DEF FileInv, SoleFiles, DiskHeld

\* Where CloseFile goes on to.
LEMMA NextFileStep ==
  ASSUME TypeOK, NEW p \in Processes, CloseFile(p)
  PROVE  /\ Late(p)'
         /\ \A q \in Processes \ {p} : pc'[q] = pc[q] /\ part'[q] = part[q]
<1>1. PICK to \in {"register", "open"}, kind \in Kinds :
        /\ pc' = [pc EXCEPT ![p] = to] /\ part' = [part EXCEPT ![p] = kind]
        /\ to = "open" => kind # "binary"
  BY DEF CloseFile, NextFile, Kinds
<1>. QED BY <1>1 DEF TypeOK, Late

LEMMA FileClose ==
  ASSUME TypeOK, TypeOK', JobInv, FileInv, NEW p \in Processes, CloseFile(p)
  PROVE  FileInv'
<1> USE DEF TypeOK
<1>1. /\ pc[p] = "write" /\ UNCHANGED <<disk, job, sole, vouched>>
      /\ handle' = [handle EXCEPT ![p] = {}] /\ pos' = [pos EXCEPT ![p] = 0]
      /\ \E j \in job[p] : pos[p] = Length[SourceOf(j.pkg, part[p])]
  BY DEF CloseFile
<1>2. HandleInv /\ DiskHeld /\ SoleFiles /\ VouchedFiles
  BY DEF FileInv
<1>3. \A q \in Processes \ {p} : Waits(q)
  BY <1>1, NextFileStep DEF Waits
<1>4. HandleInv'
  BY <1>1, <1>2, <1>3 DEF HandleInv, Waits
<1>5. DiskHeld' /\ VouchedFiles'
  BY <1>1, <1>2 DEF DiskHeld, VouchedFiles
<1>6. ASSUME NEW q \in Processes, NEW path \in sole'[q]
      PROVE  SoleFile(q, path)' /\ \A r \in Processes \ {q} : path \notin handle'[r]
  <2>1. /\ path \in sole[q] /\ path \in Paths /\ SoleFile(q, path)
        /\ \A r \in Processes \ {q} : path \notin handle[r]
    BY <1>1, <1>2, <1>6 DEF SoleFiles
  <2>2. CASE q # p
    BY <1>1, <1>3, <2>1, <2>2, SoleSame
  <2>3. CASE q = p
    <3>1. ASSUME NEW i \in job[p]
          PROVE  disk[path] = {Whole(i.pkg.build)}
      <4>1. CASE Late(p) /\ path \notin handle[p]
        BY <1>1, <2>1, <2>3, <4>1 DEF SoleFile, Late
      <4>2. CASE part[p] = "binary" /\ disk[path] = {Prefix(SourceOf(i.pkg, "binary"), pos[p])}
        <5>1. pos[p] = Length[SourceOf(i.pkg, part[p])]
          BY <1>1 DEF JobInv, OneJob
        <5>2. SourceOf(i.pkg, "binary") = <<"binary", i.pkg.build>>
          BY JobType, PackageType
        <5>. QED BY <4>2, <5>1, <5>2 DEF Whole
      <4>. QED BY <1>1, <2>1, <2>3, <4>1, <4>2 DEF SoleFile
    <3>2. Late(p)' /\ path \notin handle'[p]
      BY <1>1, NextFileStep
    <3>. QED BY <1>1, <2>1, <2>3, <3>1, <3>2 DEF SoleFile
  <2>. QED BY <2>2, <2>3
<1>. QED BY <1>4, <1>5, <1>6 DEF FileInv, SoleFiles

\* The files at the paths in gone are removed, by uninstall_plugin, which is
\* then sure of it, or by something else, which may also leave other content.
Gone(gone, to, owner) ==
  /\ \A path \in Paths :
       IF path \in gone THEN disk'[path] = to /\ vouched'[path] = {}
       ELSE disk'[path] = disk[path] /\ vouched'[path] = vouched[path]
  /\ \A q \in Processes : handle'[q] = IF to = {} THEN handle[q] \ gone ELSE handle[q]
  /\ UNCHANGED <<job, part, pos>>
  /\ \A q \in Processes : q # owner =>
       pc'[q] = pc[q] /\ sole'[q] = sole[q] \ gone
  /\ owner \in Processes =>
       /\ pc[owner] # "write" /\ pc'[owner] = "deleteRows"
       /\ sole'[owner] = gone /\ to = {}

LEMMA FileGone ==
  ASSUME TypeOK, TypeOK', FileInv, NEW gone \in SUBSET Paths, NEW to \in SUBSET Files,
         \A f \in to : f = <<Damaged>>, NEW owner, Gone(gone, to, owner)
  PROVE  FileInv'
<1> USE DEF TypeOK, Gone
<1>2. HandleInv /\ DiskHeld /\ SoleFiles /\ VouchedFiles
  BY DEF FileInv
<1>3. \A path \in Paths : /\ path \in gone => disk'[path] = to /\ vouched'[path] = {}
                          /\ path \notin gone => disk'[path] = disk[path]
                                                 /\ vouched'[path] = vouched[path]
  OBVIOUS
<1>4. \A q \in Processes : /\ handle'[q] \subseteq handle[q]
                           /\ \A path \in Paths \ gone : path \in handle'[q] <=> path \in handle[q]
                           /\ to = {} => handle'[q] \cap gone = {}
  OBVIOUS
<1>5. HandleInv'
  <2>1. ASSUME NEW q \in Processes, q = owner
        PROVE  handle'[q] = {} /\ pos'[q] = 0
    BY <1>2, <1>4, <2>1 DEF HandleInv
  <2>2. ASSUME NEW q \in Processes, q # owner
        PROVE  pc'[q] = pc[q] /\ handle'[q] \subseteq handle[q]
    BY <1>4, <2>2
  <2>. QED BY <1>2, <2>1, <2>2 DEF HandleInv
<1>6. ASSUME NEW path \in Paths, NEW f \in disk'[path], NEW i \in DOMAIN f
      PROVE  MayHold(path, i, f[i])
  <2>1. CASE path \in gone
    <3>1. f = <<Damaged>>
      BY <1>3, <1>6, <2>1
    <3>2. i = 1 /\ f[i] = Damaged
      BY <1>6, <3>1
    <3>. QED BY <3>2 DEF MayHold
  <2>2. CASE path \notin gone
    BY <1>2, <1>3, <1>6, <2>2 DEF DiskHeld
  <2>. QED BY <2>1, <2>2
<1>7. ASSUME NEW path \in Paths, vouched'[path] # {}
      PROVE  /\ \A q \in Processes : path \notin handle'[q]
             /\ \A f \in disk'[path] : \A id \in vouched'[path] : f = Whole(id.build)
  BY <1>2, <1>3, <1>4, <1>7 DEF VouchedFiles
<1>8. ASSUME NEW q \in Processes, NEW path \in sole'[q]
      PROVE  SoleFile(q, path)' /\ \A r \in Processes \ {q} : path \notin handle'[r]
  <2>1. CASE q = owner
    <3>1. path \in gone /\ pc'[q] = "deleteRows" /\ to = {}
      BY <1>8, <2>1
    <3>. QED BY <1>3, <1>4, <3>1 DEF SoleFile
  <2>2. CASE q # owner
    <3>1. path \in sole[q] /\ path \in Paths \ gone
      BY <1>8, <2>2
    <3>2. SoleFile(q, path) /\ \A r \in Processes \ {q} : path \notin handle[r]
      BY <1>2, <3>1 DEF SoleFiles
    <3>3. Waits(q)
      BY <2>2 DEF Waits
    <3>. QED BY <1>3, <1>4, <3>1, <3>2, <3>3, SoleSame
  <2>. QED BY <2>1, <2>2
<1>. QED BY <1>5, <1>6, <1>7, <1>8 DEF FileInv, SoleFiles, DiskHeld, VouchedFiles

LEMMA FileInstall ==
  ASSUME TypeOK, TypeOK', JobInv, FileInv, NEW p \in Processes, Install(p)
  PROVE  FileInv'
<1> USE DEF TypeOK, Waits
<1>1. ASSUME NEW k \in Packages, NEW c \in Consents,
             BeginInstall(p, k, c) \/ RefuseInstall(p, k, c)
      PROVE  FileInv'
  <2>1. pc[p] = "idle" /\ sole' = sole
    BY <1>1 DEF BeginInstall, RefuseInstall
  <2>2. sole'[p] = {}
    BY <2>1, NoSole
  <2>3. /\ pc'[p] # "write" /\ UNCHANGED <<disk, handle, vouched, pos>>
        /\ \A q \in Processes \ {p} : Waits(q) /\ sole'[q] = sole[q]
    BY <1>1 DEF BeginInstall, RefuseInstall
  <2>. QED BY <2>1, <2>2, <2>3, FileQuiet
<1>2. CASE UpsertRegistry(p) \/ DeleteOld(p) \/ InsertRow(p)
  <2>1. /\ pc[p] \in {"register", "clear", "insert"}
        /\ UNCHANGED <<disk, handle, vouched, pos, job, part>>
        /\ \/ pc'[p] \in {"clear", "insert", "declare"} /\ sole' = sole
           \/ sole'[p] = {}
        /\ pc'[p] # "write"
    BY <1>2 DEF UpsertRegistry, DeleteOld, InsertRow
  <2>2. \A q \in Processes \ {p} : Waits(q) /\ sole'[q] = sole[q]
    BY <1>2 DEF UpsertRegistry, DeleteOld, InsertRow
  <2>3. sole'[p] = {} \/ (sole'[p] = sole[p] /\ Late(p) /\ Late(p)')
    BY <2>1 DEF Late
  <2>. QED BY <2>1, <2>2, <2>3, FileQuiet
<1>3. CASE DeclareCapabilities(p)
  <2>1. PICK j \in job[p] :
          \/ vouched' = [path \in Paths |->
               IF path \in sole[p] THEN {IdOf(j.pkg)} ELSE vouched[path]]
          \/ vouched' = vouched
    BY <1>3 DEF DeclareCapabilities
  <2>2. /\ pc[p] = "declare" /\ pc'[p] = "idle" /\ UNCHANGED <<disk, handle, pos>>
        /\ sole' = [sole EXCEPT ![p] = {}]
        /\ \A q \in Processes \ {p} : Waits(q)
    BY <1>3 DEF DeclareCapabilities
  <2>3. ASSUME NEW path \in sole[p]
        PROVE  disk[path] = {Whole(j.pkg.build)}
    <3>1. SoleFile(p, path)
      BY DEF FileInv, SoleFiles
    <3>. QED BY <2>2, <3>1 DEF SoleFile
  <2>4. IdOf(j.pkg).build = j.pkg.build
    BY DEF IdOf
  <2>5. ASSUME NEW path \in Paths
        PROVE  \/ vouched'[path] = vouched[path]
               \/ /\ path \in sole[p]
                  /\ \A f \in disk[path] : \A id \in vouched'[path] : f = Whole(id.build)
    <3>1. CASE vouched'[path] = vouched[path]
      BY <3>1
    <3>2. CASE path \in sole[p] /\ vouched'[path] = {IdOf(j.pkg)}
      BY <2>3, <2>4, <3>2
    <3>. QED BY <2>1, <3>1, <3>2
  <2>6. \A q \in Processes \ {p} : sole'[q] = sole[q]
    BY <2>2
  <2>. QED BY <2>2, <2>5, <2>6, FileQuiet
<1>. QED BY <1>1, <1>2, <1>3, FileOpen, FileWrite, FileClose DEF Install

LEMMA FileUninstall ==
  ASSUME TypeOK, TypeOK', FileInv, NEW p \in Processes, Uninstall(p)
  PROVE  FileInv'
<1> USE DEF TypeOK, Waits
<1>1. CASE BeginUninstall(p) \/ LookupRegistry(p)
  <2>1. pc[p] \in {"idle", "lookup"} /\ sole' = sole
    BY <1>1 DEF BeginUninstall, LookupRegistry
  <2>2. sole'[p] = {}
    BY <2>1, NoSole
  <2>3. /\ pc'[p] # "write" /\ UNCHANGED <<disk, handle, vouched, pos>>
        /\ \A q \in Processes \ {p} : Waits(q) /\ sole'[q] = sole[q]
    BY <1>1 DEF BeginUninstall, LookupRegistry
  <2>. QED BY <2>1, <2>2, <2>3, FileQuiet
<1>2. CASE RemoveFiles(p)
  <2>1. PICK gone \in SUBSET Paths :
          /\ disk' = [path \in Paths |-> IF path \in gone THEN {} ELSE disk[path]]
          /\ handle' = [q \in Processes |-> handle[q] \ gone]
          /\ vouched' = [path \in Paths |-> IF path \in gone THEN {} ELSE vouched[path]]
          /\ sole' = [q \in Processes |-> IF q = p THEN gone ELSE sole[q] \ gone]
    BY <1>2 DEF RemoveFiles
  <2>2. /\ pc[p] = "remove" /\ pc'[p] = "deleteRows" /\ UNCHANGED <<job, part, pos>>
        /\ \A q \in Processes \ {p} : pc'[q] = pc[q]
    BY <1>2 DEF RemoveFiles
  <2>3. sole'[p] = gone /\ \A q \in Processes \ {p} : sole'[q] = sole[q] \ gone
    BY <2>1
  <2>4. \A path \in Paths :
          IF path \in gone THEN disk'[path] = {} /\ vouched'[path] = {}
          ELSE disk'[path] = disk[path] /\ vouched'[path] = vouched[path]
    BY <2>1
  <2>5. \A q \in Processes : handle'[q] = handle[q] \ gone
    BY <2>1
  <2>6. Gone(gone, {}, p)
    BY <2>2, <2>3, <2>4, <2>5 DEF Gone
  <2>. QED BY <2>6, FileGone
<1>3. CASE DeleteRows(p)
  <2>1. /\ {pc[p], pc'[p]} \subseteq {"deleteRows", "setUninstalled"}
        /\ UNCHANGED <<disk, handle, vouched, pos, job, sole>>
        /\ \A q \in Processes \ {p} : Waits(q)
    BY <1>3 DEF DeleteRows
  <2>. QED BY <2>1, FileQuiet
<1>4. CASE SetUninstalled(p)
  <2>1. /\ pc[p] = "setUninstalled" /\ pc'[p] = "idle" /\ UNCHANGED <<disk, handle, pos>>
        /\ vouched' = [path \in Paths |-> IF path \in sole[p] THEN Ids ELSE vouched[path]]
        /\ sole' = [sole EXCEPT ![p] = {}]
        /\ \A q \in Processes \ {p} : Waits(q)
    BY <1>4 DEF SetUninstalled
  <2>2. ASSUME NEW path \in sole[p]
        PROVE  disk[path] = {}
    BY <2>1 DEF FileInv, SoleFiles, SoleFile, Late
  <2>3. \A path \in Paths : vouched'[path] = vouched[path] \/ path \in sole[p]
    BY <2>1
  <2>. QED BY <2>1, <2>2, <2>3, FileQuiet
<1>. QED BY <1>1, <1>2, <1>3, <1>4 DEF Uninstall

\* A step that looks at files and rows.
LEMMA FileRead ==
  ASSUME TypeOK, TypeOK', FileInv, NEW p \in Processes,
         pc[p] \in {"idle"} \cup VerifySteps \cup RunSteps,
         NEW to, to # "write", pc' = [pc EXCEPT ![p] = to],
         job' = job \/ job' = [job EXCEPT ![p] = {}],
         UNCHANGED <<disk, handle, part, pos, vouched, sole>>
  PROVE  FileInv'
<1>1. \A q \in Processes \ {p} : Waits(q)
  BY DEF TypeOK, Waits
<1>2. pc'[p] = to /\ sole[p] = {}
  BY NoSole DEF TypeOK, VerifySteps, RunSteps
<1>. QED BY <1>1, <1>2, FileQuiet DEF VerifySteps, RunSteps

LEMMA FileReads ==
  ASSUME TypeOK, TypeOK', FileInv, NEW p \in Processes, Verify(p) \/ Run(p)
  PROVE  FileInv'
<1> DEFINE Reading == {"idle"} \cup VerifySteps \cup RunSteps
           Quiet == /\ job' = job \/ job' = [job EXCEPT ![p] = {}]
                    /\ UNCHANGED <<disk, handle, part, pos, vouched, sole>>
           Moves == \E to : pc' = [pc EXCEPT ![p] = to] /\ to # "write"
<1>1. CASE BeginVerify(p)
  <2>1. PICK first : IF first = {} THEN Finish(p, "idle", "failed") ELSE Start(p, "hash")
    BY <1>1 DEF BeginVerify
  <2>2. Finish(p, "idle", "failed") \/ Start(p, "hash")
    BY <2>1
  <2>3. pc[p] \in Reading /\ Moves
    BY <2>2
  <2>4. Quiet
    BY <1>1 DEF BeginVerify
  <2>. QED BY <2>3, <2>4, FileRead
<1>2. CASE HashFile(p)
  <2>1. PICK to \in {"quarantine", "setHashOk", "setHashBad"} : Step(p, "hash", to)
    BY <1>2 DEF HashFile
  <2>2. Quiet
    BY <1>2 DEF HashFile
  <2>. QED BY <2>1, <2>2, FileRead DEF VerifySteps
<1>3. CASE SetHashOk(p) \/ SetHashBad(p) \/ Quarantine(p) \/ SetQuarantined(p)
  <2>1. pc[p] \in Reading /\ Moves
    BY <1>3 DEF SetHashOk, SetHashBad, Quarantine, SetQuarantined, VerifySteps
  <2>2. Quiet
    BY <1>3 DEF SetHashOk, SetHashBad, Quarantine, SetQuarantined
  <2>. QED BY <2>1, <2>2, FileRead
<1>4. CASE BeginRun(p)
  <2>1. Finish(p, "idle", "failed") \/ Start(p, "list")
    BY <1>4 DEF BeginRun
  <2>2. pc[p] \in Reading /\ Moves
    BY <2>1
  <2>3. Quiet
    BY <1>4 DEF BeginRun
  <2>. QED BY <2>2, <2>3, FileRead
<1>5. CASE ListRows(p)
  <2>1. Finish(p, "list", "failed") \/ Step(p, "list", "dispatch")
    BY <1>5 DEF ListRows
  <2>2. pc[p] \in Reading /\ Moves
    BY <2>1 DEF RunSteps
  <2>3. Quiet
    BY <1>5 DEF ListRows
  <2>. QED BY <2>2, <2>3, FileRead
<1>6. CASE Dispatch(p)
  <2>1. \E end : Finish(p, "dispatch", end)
    BY <1>6 DEF Dispatch
  <2>2. pc[p] = "dispatch" /\ pc' = [pc EXCEPT ![p] = "idle"]
    BY <2>1
  <2>3. Quiet
    BY <1>6 DEF Dispatch
  <2>. QED BY <2>2, <2>3, FileRead DEF RunSteps
<1>. QED BY <1>1, <1>2, <1>3, <1>4, <1>5, <1>6 DEF Verify, Run

LEMMA FileFail ==
  ASSUME TypeOK, TypeOK', FileInv, NEW p \in Processes, Fail(p)
  PROVE  FileInv'
<1> USE DEF TypeOK
<1>1. /\ UNCHANGED <<disk, vouched>>
      /\ handle' = [handle EXCEPT ![p] = {}] /\ pos' = [pos EXCEPT ![p] = 0]
      /\ sole' = [sole EXCEPT ![p] = {}]
      /\ \A q \in Processes \ {p} : Waits(q)
  BY DEF Fail, Waits
<1>2. HandleInv /\ DiskHeld /\ SoleFiles /\ VouchedFiles
  BY DEF FileInv
<1>3. HandleInv'
  BY <1>1, <1>2 DEF HandleInv, Waits
<1>4. DiskHeld' /\ VouchedFiles'
  BY <1>1, <1>2 DEF DiskHeld, VouchedFiles
<1>5. ASSUME NEW q \in Processes, NEW path \in sole'[q]
      PROVE  SoleFile(q, path)' /\ \A r \in Processes \ {q} : path \notin handle'[r]
  <2>1. q # p /\ path \in sole[q] /\ path \in Paths
    BY <1>1, <1>5
  <2>2. SoleFile(q, path) /\ \A r \in Processes \ {q} : path \notin handle[r]
    BY <1>2, <2>1 DEF SoleFiles
  <2>. QED BY <1>1, <2>1, <2>2, SoleSame
<1>. QED BY <1>3, <1>4, <1>5 DEF FileInv, SoleFiles

LEMMA FileDamage ==
  ASSUME TypeOK, TypeOK', FileInv, NEW path \in Paths, Damage(path)
  PROVE  FileInv'
<1> USE DEF TypeOK
<1>1. PICK to \in SUBSET Files :
        /\ disk' = [disk EXCEPT ![path] = to]
        /\ \A f \in to : f = <<Damaged>>
        /\ to # {} => handle' = handle
        /\ to = {} => handle' = [q \in Processes |-> handle[q] \ {path}]
  BY EmptyFile DEF Damage
<1>2. \A at \in Paths :
        IF at \in {path} THEN disk'[at] = to /\ vouched'[at] = {}
        ELSE disk'[at] = disk[at] /\ vouched'[at] = vouched[at]
  BY <1>1 DEF Damage
<1>5. \A q \in Processes : handle'[q] = IF to = {} THEN handle[q] \ {path} ELSE handle[q]
  BY <1>1
<1>3. /\ UNCHANGED <<pc, job, part, pos>>
      /\ \A q \in Processes : sole'[q] = sole[q] \ {path}
  BY DEF Damage
<1>4. PICK owner : owner \notin Processes
  BY NoSetContainsEverything
<1>6. Gone({path}, to, owner)
  BY <1>2, <1>3, <1>4, <1>5 DEF Gone
<1>. QED BY <1>1, <1>6, FileGone

LEMMA FileStep == TypeOK /\ TypeOK' /\ JobInv /\ FileInv /\ [Next]_vars => FileInv'
<1> SUFFICES ASSUME TypeOK, TypeOK', JobInv, FileInv, [Next]_vars
             PROVE  FileInv'
  OBVIOUS
<1>1. CASE UNCHANGED vars
  BY <1>1 DEF vars, FileInv, HandleInv, DiskHeld, SoleFiles, SoleFile, Late, VouchedFiles
<1>. QED BY <1>1, FileInstall, FileUninstall, FileReads, FileFail, FileDamage DEF Next

\* However many commands overlap, fail and stop: what a task runs was written
\* chunk by chunk from acceptable packages that have their entrypoint at this
\* path, and it is a whole build once an install that had the path to itself
\* has returned Ok, until something opens, removes or changes the file
\* (install_package, fs::write; executor.rs, dispatch).
THEOREM SafeRuns == Spec => []OnlyAcceptableRuns
<1>1. TypeOK /\ FileInv => OnlyAcceptableRuns
  <2> SUFFICES ASSUME TypeOK, FileInv, NEW p \in Processes, NEW r \in found[p],
                      NEW f \in disk[Path(r)]
               PROVE  /\ \A i \in DOMAIN f : MayHold(Path(r), i, f[i])
                      /\ \A id \in vouched[Path(r)] : f = Whole(id.build)
    BY DEF OnlyAcceptableRuns
  <2>1. Path(r) \in Paths
    BY SeenType DEF TypeOK
  <2>2. \A i \in DOMAIN f : MayHold(Path(r), i, f[i])
    BY <2>1 DEF FileInv, DiskHeld
  <2>3. \A id \in vouched[Path(r)] : f = Whole(id.build)
    BY <2>1 DEF FileInv, VouchedFiles
  <2>. QED BY <2>2, <2>3
<1>. QED BY <1>1, JobInit, JobStep, FileInit, FileStep, TypeCorrect, PTL DEF Spec

(***************************************************************************)
(* The foreign key of the rows.                                            *)
(***************************************************************************)

\* Past the upsert, the plugin's registry row is there.
RegisteredFirst ==
  \A p \in Processes : pc[p] \in {"clear", "insert", "declare"} =>
    registry.status # "absent"

RegisterInv == RegisteredFirst /\ RowsAreRegistered

LEMMA RegisterInit == Init => RegisterInv
BY DEF Init, RegisterInv, RegisteredFirst, RowsAreRegistered

LEMMA RegisterInstall ==
  ASSUME TypeOK, RegisterInv, NEW p \in Processes, Install(p)
  PROVE  RegisterInv'
<1> USE DEF RegisterInv, RegisteredFirst, RowsAreRegistered, TypeOK
<1>1. ASSUME NEW k \in Packages, NEW c \in Consents,
             BeginInstall(p, k, c) \/ RefuseInstall(p, k, c)
      PROVE  RegisterInv'
  BY <1>1 DEF BeginInstall, RefuseInstall
<1>2. CASE OpenFile(p) \/ WriteFile(p)
  BY <1>2 DEF OpenFile, WriteFile
<1>3. CASE CloseFile(p)
  <2>1. PICK to \in {"register", "open"} : pc' = [pc EXCEPT ![p] = to]
    BY <1>3 DEF CloseFile, NextFile
  <2>. QED BY <1>3, <2>1 DEF CloseFile
<1>4. CASE UpsertRegistry(p)
  BY <1>4, JobType DEF UpsertRegistry
<1>5. CASE DeleteOld(p)
  BY <1>5 DEF DeleteOld
<1>6. CASE InsertRow(p)
  BY <1>6 DEF InsertRow
<1>7. CASE DeclareCapabilities(p)
  BY <1>7 DEF DeclareCapabilities
<1>. QED BY <1>1, <1>2, <1>3, <1>4, <1>5, <1>6, <1>7 DEF Install

LEMMA RegisterStep == TypeOK /\ RegisterInv /\ [Next]_vars => RegisterInv'
<1> SUFFICES ASSUME TypeOK, RegisterInv, [Next]_vars
             PROVE  RegisterInv'
  OBVIOUS
<1> USE DEF RegisterInv, RegisteredFirst, RowsAreRegistered, TypeOK
<1>1. ASSUME NEW p \in Processes, Uninstall(p)
      PROVE  RegisterInv'
  BY <1>1 DEF Uninstall, BeginUninstall, LookupRegistry, RemoveFiles, DeleteRows,
              SetUninstalled, SetStatus
<1>2. ASSUME NEW p \in Processes, Verify(p)
      PROVE  RegisterInv'
  <2>1. CASE BeginVerify(p) \/ HashFile(p) \/ SetHashOk(p)
    BY <1>2, <2>1 DEF BeginVerify, HashFile, SetHashOk, MarkHash
  <2>2. CASE SetHashBad(p) \/ Quarantine(p)
    BY <1>2, <2>2 DEF SetHashBad, Quarantine, MarkHash, MarkQuarantined
  <2>3. CASE SetQuarantined(p)
    BY <1>2, <2>3 DEF SetQuarantined, SetStatus
  <2>. QED BY <1>2, <2>1, <2>2, <2>3 DEF Verify
<1>3. ASSUME NEW p \in Processes, Run(p) \/ Fail(p)
      PROVE  RegisterInv'
  BY <1>3 DEF Run, BeginRun, ListRows, Dispatch, Fail
<1>4. CASE (\E path \in Paths : Damage(path)) \/ UNCHANGED vars
  BY <1>4 DEF Damage, vars
<1>. QED BY <1>1, <1>2, <1>3, <1>4, RegisterInstall DEF Next

\* The foreign key of plugin_installations holds between all statements.
THEOREM Registered == Spec => []RowsAreRegistered
<1>1. RegisterInv => RowsAreRegistered
  BY DEF RegisterInv
<1>. QED BY <1>1, RegisterInit, RegisterStep, TypeCorrect, PTL DEF Spec

(***************************************************************************)
(* What commands that do not overlap keep: each step of install_package    *)
(* adds its part of InstalledIsWhole, and nothing else runs before the     *)
(* last one.                                                               *)
(***************************************************************************)

\* A result is only kept between commands.
ResultAtRest == \A p \in Processes : pc[p] # "idle" => result[p] = "none"

\* An install starts with the binary.
PartAtRest == \A p \in Processes : pc[p] \notin {"open", "write"} => part[p] = "binary"

\* From when it is opened, the binary is the install's own, until something
\* changes it or the package is copied over it.
OwnBinary ==
  \A p \in Processes : \A j \in job[p] :
    (pc[p] = "write" \/ Late(p)) /\ p \notin touched /\ OwnName(j.pkg) =>
      Path(j.pkg) \in sole[p]

RegistryDone(j) == registry = [status |-> j.status, current |-> j.pkg.ver]

RowDone(j, r) ==
  /\ Seen(r) = Seen(j.pkg) /\ r.caps = j.pkg.caps /\ r.trust = j.status
  /\ r.hashOk /\ ~r.quarantined

WrittenSoFar ==
  \A p \in Processes : \A j \in job[p] :
    /\ pc[p] \in {"clear", "insert", "declare"} => RegistryDone(j)
    /\ pc[p] = "declare" => \E r \in rows : RowDone(j, r)

RepairInv == ResultAtRest /\ PartAtRest /\ OwnBinary /\ WrittenSoFar /\ InstalledIsWhole

LEMMA RepairInit == Init => RepairInv
BY DEF Init, RepairInv, ResultAtRest, PartAtRest, OwnBinary, WrittenSoFar, InstalledIsWhole

\* A step that ends with neither an install under way nor one just
\* completed has nothing to show but the first two conjuncts.
LEMMA NothingInstalled ==
  ASSUME NEW self, Processes = {self}, TypeOK, TypeOK',
         pc'[self] \notin InstallSteps, part'[self] = "binary",
         result'[self] # "installed",
         pc'[self] # "idle" => result'[self] = "none"
  PROVE  RepairInv'
BY DEF RepairInv, ResultAtRest, PartAtRest, OwnBinary, WrittenSoFar, InstalledIsWhole,
       Late, InstallSteps

\* A step between the first and the last of an install.
LEMMA Installing ==
  ASSUME NEW self, Processes = {self}, TypeOK, TypeOK', RepairInv,
         job' = job, result' = result,
         pc[self] \in InstallSteps, pc'[self] \in InstallSteps,
         pc'[self] \notin {"open", "write"} => part'[self] = "binary",
         \A j \in job[self] :
           /\ (pc'[self] = "write" \/ Late(self)') /\ self \notin touched'
                /\ OwnName(j.pkg) => Path(j.pkg) \in sole'[self]
           /\ pc'[self] \in {"clear", "insert", "declare"} => RegistryDone(j)'
           /\ pc'[self] = "declare" => \E r \in rows' : RowDone(j, r)'
  PROVE  RepairInv'
<1>1. result[self] = "none" /\ pc'[self] # "idle"
  BY DEF RepairInv, ResultAtRest, InstallSteps
<1>2. ResultAtRest' /\ PartAtRest' /\ InstalledIsWhole'
  BY <1>1 DEF ResultAtRest, PartAtRest, InstalledIsWhole
<1>3. OwnBinary' /\ WrittenSoFar'
  BY DEF OwnBinary, WrittenSoFar
<1>. QED BY <1>2, <1>3 DEF RepairInv

LEMMA OwnFile ==
  ASSUME NEW k, OwnName(k), NEW kind \in Kinds, PathOf(k, kind) = Path(k)
  PROVE  kind = "binary"
BY DEF OwnName, PathOf, Path, NameOf, Kinds

LEMMA RepairFiles ==
  ASSUME NEW self, Processes = {self}, TypeOK, TypeOK', JobInv, RepairInv,
         OpenFile(self) \/ WriteFile(self) \/ CloseFile(self)
  PROVE  RepairInv'
<1> USE DEF TypeOK, InstallSteps
<1>0. OwnBinary /\ PartAtRest
  BY DEF RepairInv
<1>1. CASE OpenFile(self)
  <2>1. PICK j \in job[self] :
          /\ touched' = IF part[self] = "binary" THEN touched \ {self} ELSE touched
          /\ sole' = [q \in Processes |->
               IF /\ q = self /\ part[self] = "binary"
                  /\ \A o \in Processes \ {self} : PathOf(j.pkg, part[self]) \notin handle[o]
               THEN {PathOf(j.pkg, part[self])} ELSE sole[q] \ {PathOf(j.pkg, part[self])}]
    BY <1>1 DEF OpenFile
  <2>2. /\ pc[self] = "open" /\ pc'[self] = "write"
        /\ UNCHANGED <<job, result, part>>
    BY <1>1 DEF OpenFile
  <2>3. sole'[self] = IF part[self] = "binary" THEN {PathOf(j.pkg, part[self])}
                      ELSE sole[self] \ {PathOf(j.pkg, part[self])}
    BY <2>1
  <2>4. ASSUME self \notin touched', OwnName(j.pkg)
        PROVE  Path(j.pkg) \in sole'[self]
    <3>1. CASE part[self] = "binary"
      BY <2>3, <3>1, JobType, PackageType
    <3>2. CASE part[self] # "binary"
      <4>1. PathOf(j.pkg, part[self]) # Path(j.pkg)
        BY <2>4, <3>2, OwnFile, JobType
      <4>2. Path(j.pkg) \in sole[self]
        BY <1>0, <2>1, <2>2, <2>4, <3>2 DEF OwnBinary, Late
      <4>. QED BY <2>3, <3>2, <4>1, <4>2
    <3>. QED BY <3>1, <3>2
  <2>5. \A i \in job[self] : i = j
    BY DEF JobInv, OneJob
  <2>. QED BY <2>2, <2>4, <2>5, Installing
<1>2. CASE WriteFile(self)
  <2>1. /\ pc[self] = "write" /\ UNCHANGED <<pc, job, part, result, touched, sole>>
    BY <1>2 DEF WriteFile
  <2>2. \A j \in job[self] : self \notin touched /\ OwnName(j.pkg) => Path(j.pkg) \in sole[self]
    BY <1>0, <2>1 DEF OwnBinary
  <2>. QED BY <2>1, <2>2, Installing
<1>3. CASE CloseFile(self)
  <2>1. PICK to \in {"register", "open"}, kind \in Kinds :
          /\ pc' = [pc EXCEPT ![self] = to] /\ part' = [part EXCEPT ![self] = kind]
          /\ to = "register" => kind = "binary"
    BY <1>3 DEF CloseFile, NextFile, Kinds
  <2>2. pc[self] = "write" /\ UNCHANGED <<job, result, touched, sole>>
    BY <1>3 DEF CloseFile
  <2>3. \A j \in job[self] : self \notin touched /\ OwnName(j.pkg) => Path(j.pkg) \in sole[self]
    BY <1>0, <2>2 DEF OwnBinary
  <2>4. pc'[self] = to /\ part'[self] = kind
    BY <2>1
  <2>. QED BY <2>1, <2>2, <2>3, <2>4, Installing
<1>. QED BY <1>1, <1>2, <1>3

LEMMA RepairInstall ==
  ASSUME NEW self, Processes = {self}, TypeOK, TypeOK', JobInv, FileInv, RepairInv,
         Install(self)
  PROVE  RepairInv'
<1> USE DEF TypeOK, InstallSteps
<1>0. OwnBinary /\ PartAtRest /\ WrittenSoFar
  BY DEF RepairInv
<1>1. ASSUME NEW k \in Packages, NEW c \in Consents, BeginInstall(self, k, c)
      PROVE  RepairInv'
  <2>1. pc[self] = "idle" /\ pc'[self] = "open" /\ part' = part /\ result'[self] = "none"
    BY <1>1 DEF BeginInstall
  <2>2. part[self] = "binary"
    BY <1>0, <2>1 DEF PartAtRest
  <2>. QED BY <2>1, <2>2 DEF RepairInv, ResultAtRest, PartAtRest, OwnBinary,
                             WrittenSoFar, InstalledIsWhole, Late
<1>2. ASSUME NEW k \in Packages, NEW c \in Consents, RefuseInstall(self, k, c)
      PROVE  RepairInv'
  <2>1. pc[self] = "idle" /\ pc'[self] = "idle" /\ part' = part /\ result'[self] = "refused"
    BY <1>2 DEF RefuseInstall
  <2>2. part[self] = "binary"
    BY <1>0, <2>1 DEF PartAtRest
  <2>. QED BY <2>1, <2>2, NothingInstalled
<1>4. ASSUME pc[self] \in {"register", "clear", "insert", "declare"}, NEW j \in job[self]
      PROVE  /\ part[self] = "binary" /\ Late(self) /\ \A i \in job[self] : i = j
             /\ self \notin touched /\ OwnName(j.pkg) => Path(j.pkg) \in sole[self]
             /\ pc[self] \in {"clear", "insert", "declare"} => RegistryDone(j)
             /\ pc[self] = "declare" => \E r \in rows : RowDone(j, r)
  BY <1>0, <1>4 DEF PartAtRest, OwnBinary, WrittenSoFar, Late, JobInv, OneJob
<1>5. CASE UpsertRegistry(self)
  <2>1. PICK j \in job[self] : registry' = [status |-> j.status, current |-> j.pkg.ver]
    BY <1>5 DEF UpsertRegistry
  <2>2. /\ pc[self] = "register" /\ pc'[self] = "clear"
        /\ UNCHANGED <<job, part, result, touched, sole>>
    BY <1>5 DEF UpsertRegistry
  <2>3. RegistryDone(j)'
    BY <2>1, <2>2 DEF RegistryDone
  <2>. QED BY <1>4, <2>2, <2>3, Installing
<1>6. CASE DeleteOld(self)
  <2>1. PICK j \in job[self] : TRUE
    BY <1>6 DEF DeleteOld
  <2>2. /\ pc[self] = "clear" /\ pc'[self] = "insert"
        /\ UNCHANGED <<job, part, result, registry, touched, sole>>
    BY <1>6 DEF DeleteOld
  <2>3. RegistryDone(j)'
    BY <1>4, <2>2 DEF RegistryDone
  <2>. QED BY <1>4, <2>2, <2>3, Installing
<1>7. CASE InsertRow(self)
  <2>1. PICK j \in job[self] :
          IF \E r \in rows : Same(r, j.pkg)
          THEN Finish(self, "insert", "failed")
          ELSE /\ Step(self, "insert", "declare")
               /\ rows' = rows \cup {NewRow(j)}
               /\ UNCHANGED <<result, sole>>
    BY <1>7 DEF InsertRow
  <2>2. pc[self] = "insert" /\ UNCHANGED <<job, part, registry, touched>>
    BY <1>7, <2>1 DEF InsertRow
  <2>3. CASE \E r \in rows : Same(r, j.pkg)
    <3>1. pc'[self] = "idle" /\ result'[self] = "failed" /\ part'[self] = "binary"
      BY <1>4, <2>1, <2>2, <2>3
    <3>. QED BY <3>1, NothingInstalled
  <2>4. CASE ~ \E r \in rows : Same(r, j.pkg)
    <3>1. pc'[self] = "declare" /\ UNCHANGED <<result, sole>> /\ NewRow(j) \in rows'
      BY <2>1, <2>4
    <3>2. RowDone(j, NewRow(j))'
      <4>1. RowDone(j, NewRow(j))
        BY DEF RowDone, NewRow, Seen
      <4>. QED BY <4>1 DEF RowDone, NewRow, Seen
    <3>3. RegistryDone(j)'
      BY <1>4, <2>2 DEF RegistryDone
    <3>. QED BY <1>4, <2>2, <3>1, <3>2, <3>3, Installing
  <2>. QED BY <2>3, <2>4
<1>8. CASE DeclareCapabilities(self)
  <2>1. PICK j \in job[self] :
          IF \E r \in rows : Same(r, j.pkg)
          THEN /\ Finish(self, "declare", "installed")
               /\ rows' = {IF Same(r, j.pkg) THEN [r EXCEPT !.declared = TRUE]
                           ELSE r : r \in rows}
          ELSE Finish(self, "declare", "failed") /\ UNCHANGED rows
    BY <1>8 DEF DeclareCapabilities
  <2>2. pc[self] = "declare" /\ UNCHANGED <<job, part, disk, registry, touched>>
    BY <1>8, <2>1 DEF DeclareCapabilities
  <2>3. PICK r \in rows : RowDone(j, r)
    BY <1>4, <2>2
  <2>4. Same(r, j.pkg)
    BY <2>3, SameSeen DEF RowDone, Same
  <2>5. /\ pc'[self] = "idle" /\ result'[self] = "installed"
        /\ [r EXCEPT !.declared = TRUE] \in rows'
    BY <2>1, <2>4
  <2>6. PICK q \in rows' :
          /\ Seen(q) = Seen(j.pkg) /\ q.caps = j.pkg.caps /\ q.trust = j.status
          /\ q.hashOk /\ ~q.quarantined /\ q.declared
    <3>1. r \in Rows
      OBVIOUS
    <3>2. Seen([r EXCEPT !.declared = TRUE]) = Seen(r)
      BY <3>1, RowUpdate
    <3>. QED BY <2>3, <2>5, <3>1, <3>2 DEF RowDone, Rows
  <2>7. OwnName(j.pkg) /\ self \notin touched => disk[Path(j.pkg)] = {Whole(j.pkg.build)}
    BY <1>4, <2>2 DEF FileInv, SoleFiles, SoleFile
  <2>8. InstalledIsWhole'
    <3>1. \A i \in job'[self] : i = j
      BY <1>4, <2>2
    <3>2. q \in Live'
      BY <2>6 DEF Live
    <3>3. RegistryDone(j)
      BY <1>4, <2>2
    <3>. QED BY <2>2, <2>6, <2>7, <3>1, <3>2, <3>3 DEF InstalledIsWhole, RegistryDone
  <2>9. part[self] = "binary"
    BY <1>4, <2>2
  <2>. QED BY <2>2, <2>5, <2>8, <2>9
           DEF RepairInv, ResultAtRest, PartAtRest, OwnBinary, WrittenSoFar, Late
<1>. QED BY <1>1, <1>2, <1>5, <1>6, <1>7, <1>8, RepairFiles DEF Install

\* verify_installed from its start to its result.
LEMMA VerifyMoves ==
  ASSUME TypeOK, ResultAtRest, NEW p \in Processes, Verify(p)
  PROVE  /\ part' = part
         /\ {pc[p], pc'[p]} \subseteq {"idle"} \cup VerifySteps
         /\ pc'[p] # "idle" => result'[p] = "none"
         /\ result'[p] \in {"none", "failed", "intact", "condemned"}
<1> USE DEF VerifySteps, ResultAtRest, TypeOK
<1>1. CASE BeginVerify(p)
  <2>1. Finish(p, "idle", "failed") \/ Start(p, "hash")
    BY <1>1 DEF BeginVerify
  <2>2. part' = part
    BY <1>1 DEF BeginVerify
  <2>. QED BY <2>1, <2>2
<1>2. CASE HashFile(p)
  <2>1. PICK to \in {"quarantine", "setHashOk", "setHashBad"} : Step(p, "hash", to)
    BY <1>2 DEF HashFile
  <2>2. part' = part /\ result' = result
    BY <1>2 DEF HashFile
  <2>. QED BY <2>1, <2>2
<1>3. CASE SetHashOk(p)
  BY <1>3 DEF SetHashOk
<1>4. CASE SetHashBad(p) \/ Quarantine(p)
  BY <1>4 DEF SetHashBad, Quarantine
<1>5. CASE SetQuarantined(p)
  BY <1>5 DEF SetQuarantined
<1>. QED BY <1>1, <1>2, <1>3, <1>4, <1>5 DEF Verify

LEMMA RepairStep ==
  ASSUME NEW self, Processes = {self}, TypeOK, TypeOK', JobInv, FileInv, RepairInv,
         [Next]_vars
  PROVE  RepairInv'
<1> USE DEF TypeOK
<1>0. OwnBinary /\ PartAtRest /\ WrittenSoFar /\ ResultAtRest /\ InstalledIsWhole
  BY DEF RepairInv
<1>1. ASSUME pc[self] \notin {"open", "write"}
      PROVE  part[self] = "binary"
  BY <1>0, <1>1 DEF PartAtRest
<1>2. CASE Uninstall(self)
  <2>1. /\ pc[self] \notin {"open", "write"} /\ part' = part
        /\ pc'[self] \notin InstallSteps /\ result'[self] # "installed"
        /\ pc'[self] # "idle" => result'[self] = "none"
    BY <1>0, <1>2
    DEF Uninstall, BeginUninstall, LookupRegistry, RemoveFiles, DeleteRows,
        SetUninstalled, InstallSteps, ResultAtRest
  <2>. QED BY <1>1, <2>1, NothingInstalled
<1>3. CASE Verify(self)
  <2>1. /\ pc[self] \notin {"open", "write"} /\ part' = part
        /\ pc'[self] \notin InstallSteps /\ result'[self] # "installed"
        /\ pc'[self] # "idle" => result'[self] = "none"
    BY <1>0, <1>3, VerifyMoves DEF VerifySteps, InstallSteps
  <2>. QED BY <1>1, <2>1, NothingInstalled
<1>4. CASE Run(self)
  <2>1. /\ pc[self] \notin {"open", "write"} /\ part' = part
        /\ pc'[self] \notin InstallSteps /\ result'[self] # "installed"
        /\ pc'[self] # "idle" => result'[self] = "none"
    BY <1>0, <1>4 DEF Run, BeginRun, ListRows, Dispatch, InstallSteps, ResultAtRest
  <2>. QED BY <1>1, <2>1, NothingInstalled
<1>5. CASE Fail(self)
  BY <1>5, NothingInstalled DEF Fail, InstallSteps
<1>6. ASSUME NEW path \in Paths, Damage(path)
      PROVE  RepairInv'
  <2>1. /\ UNCHANGED <<rows, registry, pc, job, part, result>>
        /\ sole'[self] = sole[self] \ {path}
        /\ \A at \in Paths : at # path => disk'[at] = disk[at]
        /\ touched \subseteq touched'
    BY <1>6 DEF Damage
  <2>2. ASSUME NEW j \in job[self], Path(j.pkg) = path,
               pc[self] = "open" => part[self] # "binary"
        PROVE  self \in touched'
    BY <1>6, <2>2 DEF Damage
  <2>3. OwnBinary'
    BY <1>0, <2>1, <2>2 DEF OwnBinary, Late
  <2>4. WrittenSoFar'
    BY <1>0, <2>1 DEF WrittenSoFar, RegistryDone, RowDone
  <2>5. ASSUME result[self] = "installed", NEW j \in job[self], self \notin touched'
        PROVE  disk'[Path(j.pkg)] = disk[Path(j.pkg)]
    <3>1. pc[self] = "idle"
      BY <1>0, <2>5 DEF ResultAtRest
    <3>2. Path(j.pkg) # path /\ Path(j.pkg) \in Paths
      BY <2>2, <2>5, <3>1, JobType, PackageType
    <3>. QED BY <2>1, <3>2
  <2>6. InstalledIsWhole'
    BY <1>0, <2>1, <2>5 DEF InstalledIsWhole, Live
  <2>. QED BY <1>0, <2>1, <2>3, <2>4, <2>6 DEF RepairInv, ResultAtRest, PartAtRest
<1>7. CASE UNCHANGED vars
  BY <1>0, <1>7 DEF vars, RepairInv, ResultAtRest, PartAtRest, OwnBinary, Late,
       WrittenSoFar, RegistryDone, RowDone, InstalledIsWhole, Live
<1>. QED BY <1>2, <1>3, <1>4, <1>5, <1>6, <1>7, RepairInstall DEF Next

\* When commands do not overlap, an install that returns Ok leaves file,
\* row, capabilities and registry in agreement, whatever commands that
\* failed or stopped half-way had left, for every set of packages and
\* however many chunks they have (install_package).
THEOREM Repairs ==
  ASSUME NEW CONSTANT self, Processes = {self}
  PROVE  Spec => []InstalledIsWhole
<1>1. RepairInv => InstalledIsWhole
  BY DEF RepairInv
<1>2. TypeOK /\ TypeOK' /\ JobInv /\ FileInv /\ RepairInv /\ [Next]_vars => RepairInv'
  BY RepairStep
<1>. QED BY <1>1, <1>2, RepairInit, JobInit, JobStep, FileInit, FileStep, TypeCorrect,
            PTL DEF Spec

(***************************************************************************)
(* The other promises of commands that do not overlap.  Each is read off   *)
(* an invariant that says, step by step, what the command under way has    *)
(* already seen to.                                                        *)
(***************************************************************************)

FilesGone(p) ==
  removing[p] => \A f \in found[p], path \in Paths : path[1] = f.ver => disk[path] = {}

\* What uninstall_plugin has seen to before each of its steps.
Forgetting ==
  \A p \in Processes :
    /\ pc[p] = "lookup" /\ found[p] # {} => rows # {}
    /\ pc[p] \in {"remove", "deleteRows", "setUninstalled"} =>
         registry.status # "absent"
    /\ pc[p] \in {"deleteRows", "setUninstalled"} => FilesGone(p)
    /\ pc[p] = "setUninstalled" => rows = {}

ForgetInv == ResultAtRest /\ Forgetting /\ UninstallForgets

\* The rows of a condemned id are quarantined until an install or uninstall
\* has deleted them.
CondemnedIsQuarantined ==
  /\ \A r \in Live : IdOf(r) \notin condemned
  /\ \A p \in Processes :
       /\ pc[p] = "insert" => \A j \in job[p] : IdOf(j.pkg) \notin condemned
       /\ pc[p] = "setQuarantined" =>
            \A f \in found[p] : \A r \in Live : IdOf(r) # IdOf(f)

CondemnInv == CondemnedIsQuarantined /\ CondemnedNeverRuns

\* The package being installed declares what the live rows declare.
CapsKept ==
  /\ \A r, q \in Live : r.caps = q.caps
  /\ \A p \in Processes :
       pc[p] \in {"open", "write", "register", "clear", "insert"} =>
         \A j \in job[p] : \A r \in Live : r.caps = j.pkg.caps

\* A row that the last command answers for agrees with its file.
RowsAgree ==
  \A r \in rows : IdOf(r) \in vouched[Path(r)] => disk[Path(r)] = {Whole(r.build)}

\* What verify_installed relies on when it condemns, and install_package
\* when it returns.
CauseKept ==
  \A p \in Processes :
    /\ pc[p] = "write" \/ Late(p) => \A j \in job[p] : vouched[Path(j.pkg)] = {}
    /\ pc[p] = "hash" => /\ \A f \in found[p] : \E r \in rows : Seen(r) = f
                         /\ \A f, g \in found[p] : f = g
    /\ pc[p] \in {"setHashBad", "quarantine", "setQuarantined"} =>
         \A f \in found[p] : IdOf(f) \notin vouched[Path(f)]

CauseInv == RowsAgree /\ CauseKept /\ FalseHasACause

LEMMA ForgetInit == Init => ForgetInv
BY DEF Init, ForgetInv, ResultAtRest, Forgetting, UninstallForgets, FilesGone

\* A step outside uninstall_plugin has neither a result of it to answer for
\* nor a step of it to prepare.
LEMMA NothingForgotten ==
  ASSUME NEW self, Processes = {self}, TypeOK, TypeOK',
         pc'[self] \notin UninstallSteps,
         result'[self] \notin {"uninstalled", "purged"},
         pc'[self] # "idle" => result'[self] = "none"
  PROVE  ForgetInv'
BY DEF ForgetInv, ResultAtRest, Forgetting, UninstallForgets, FilesGone,
       UninstallSteps

LEMMA ForgetUninstall ==
  ASSUME NEW self, Processes = {self}, TypeOK, TypeOK', RowsAreRegistered,
         ForgetInv, Uninstall(self)
  PROVE  ForgetInv'
<1> USE DEF TypeOK, ForgetInv, ResultAtRest, Forgetting, FilesGone
<1>1. CASE BeginUninstall(self)
  <2>1. PICK first \in FirstOf(rows) :
          found' = [found EXCEPT ![self] = {Seen(r) : r \in first}]
    BY <1>1 DEF BeginUninstall
  <2>2. found'[self] # {} => rows # {}
    BY <2>1, FirstOfRows
  <2>. QED BY <1>1, <2>2 DEF BeginUninstall, UninstallForgets
<1>2. CASE LookupRegistry(self)
  <2>1. CASE found[self] = {} /\ registry.status = "absent"
    BY <1>2, <2>1, NothingForgotten DEF LookupRegistry, UninstallSteps
  <2>2. CASE ~ (found[self] = {} /\ registry.status = "absent")
    <3>1. registry.status # "absent"
      BY <1>2, <2>2 DEF LookupRegistry, RowsAreRegistered
    <3>. QED BY <1>2, <2>2, <3>1 DEF LookupRegistry, UninstallForgets
  <2>. QED BY <2>1, <2>2
<1>3. CASE RemoveFiles(self)
  <2>1. \A f \in found'[self], path \in Paths : path[1] = f.ver => disk'[path] = {}
    BY <1>3 DEF RemoveFiles
  <2>. QED BY <1>3, <2>1 DEF RemoveFiles, UninstallForgets
<1>4. CASE DeleteRows(self)
  BY <1>4 DEF DeleteRows, RowsToDelete, UninstallForgets
<1>5. CASE SetUninstalled(self)
  BY <1>5 DEF SetUninstalled, SetStatus, UninstallForgets
<1>. QED BY <1>1, <1>2, <1>3, <1>4, <1>5 DEF Uninstall

LEMMA ForgetStep ==
  ASSUME NEW self, Processes = {self}, TypeOK, TypeOK', RowsAreRegistered,
         ForgetInv, [Next]_vars
  PROVE  ForgetInv'
<1> USE DEF TypeOK, ForgetInv, ResultAtRest
<1>1. CASE Install(self)
  <2>1. ASSUME NEW k \in Packages, NEW c \in Consents,
               BeginInstall(self, k, c) \/ RefuseInstall(self, k, c)
        PROVE  ForgetInv'
    BY <2>1, NothingForgotten DEF BeginInstall, RefuseInstall, UninstallSteps
  <2>2. CASE OpenFile(self) \/ WriteFile(self) \/ UpsertRegistry(self)
    BY <2>2, NothingForgotten
    DEF OpenFile, WriteFile, UpsertRegistry, UninstallSteps
  <2>4. CASE CloseFile(self)
    <3>1. PICK to \in {"register", "open"} : pc' = [pc EXCEPT ![self] = to]
      BY <2>4 DEF CloseFile, NextFile
    <3>2. pc[self] = "write" /\ result' = result
      BY <2>4 DEF CloseFile
    <3>. QED BY <3>1, <3>2, NothingForgotten DEF UninstallSteps
  <2>3. CASE DeleteOld(self) \/ InsertRow(self) \/ DeclareCapabilities(self)
    BY <2>3, NothingForgotten
    DEF DeleteOld, InsertRow, DeclareCapabilities, UninstallSteps
  <2>. QED BY <1>1, <2>1, <2>2, <2>3, <2>4 DEF Install
<1>2. CASE Verify(self)
  BY <1>2, VerifyMoves, NothingForgotten DEF VerifySteps, UninstallSteps
<1>3. CASE Run(self)
  BY <1>3, NothingForgotten DEF Run, BeginRun, ListRows, Dispatch, UninstallSteps
<1>4. CASE Fail(self)
  BY <1>4, NothingForgotten DEF Fail, UninstallSteps
<1>5. ASSUME NEW path \in Paths, Damage(path)
      PROVE  ForgetInv'
  <2>1. \A at \in Paths : disk[at] = {} => disk'[at] = {}
    BY <1>5 DEF Damage
  <2>2. UNCHANGED <<rows, registry, pc, found, removing, result>>
    BY <1>5 DEF Damage
  <2>. QED BY <2>1, <2>2 DEF Forgetting, FilesGone, UninstallForgets
<1>6. CASE UNCHANGED vars
  BY <1>6 DEF vars, Forgetting, FilesGone, UninstallForgets
<1>. QED BY <1>1, <1>2, <1>3, <1>4, <1>5, <1>6, ForgetUninstall DEF Next

\* When commands do not overlap, an uninstall that returns Ok has deleted
\* every row, the quarantined ones too, has marked the plugin uninstalled and,
\* when asked to, has removed the files of the version it found, whatever
\* commands that stopped half-way had left (uninstall_plugin).
THEOREM Forgets ==
  ASSUME NEW CONSTANT self, Processes = {self}
  PROVE  Spec => []UninstallForgets
<1>1. ForgetInv => UninstallForgets
  BY DEF ForgetInv
<1>2. TypeOK /\ TypeOK' /\ RowsAreRegistered /\ ForgetInv /\ [Next]_vars
      => ForgetInv'
  BY ForgetStep
<1>. QED BY <1>1, <1>2, ForgetInit, TypeCorrect, Registered, PTL DEF Spec

\* The rows of new are rows of old but for flags, and a live one was live.
Derived(new, old) ==
  \A r \in new : \E q \in old :
    /\ Seen(r) = Seen(q) /\ r.caps = q.caps
    /\ ~r.quarantined => ~q.quarantined

LEMMA MarkedRows ==
  ASSUME TypeOK, NEW of, NEW ok \in BOOLEAN
  PROVE  /\ Derived(MarkHash(of, ok), rows)
         /\ Derived(MarkQuarantined(of), rows)
         /\ \A r \in MarkQuarantined(of) :
              ~r.quarantined => \A f \in of : ~Same(r, f)
<1>1. ASSUME NEW r \in rows
      PROVE  /\ Seen([r EXCEPT !.hashOk = ok]) = Seen(r)
             /\ [r EXCEPT !.hashOk = ok].caps = r.caps
             /\ [r EXCEPT !.hashOk = ok].quarantined = r.quarantined
             /\ Seen([r EXCEPT !.quarantined = TRUE]) = Seen(r)
             /\ [r EXCEPT !.quarantined = TRUE].caps = r.caps
             /\ [r EXCEPT !.quarantined = TRUE].quarantined
  <2>1. r \in Rows
    BY DEF TypeOK
  <2>2. Seen([r EXCEPT !.hashOk = ok]) = Seen(r)
    BY <2>1, RowUpdate
  <2>3. Seen([r EXCEPT !.quarantined = TRUE]) = Seen(r)
    BY <2>1, RowUpdate
  <2>. QED BY <2>1, <2>2, <2>3 DEF Rows
<1>. QED BY <1>1, SameSeen DEF Derived, MarkHash, MarkQuarantined, Same

LEMMA DeclaredRows ==
  ASSUME TypeOK, NEW p \in Processes, DeclareCapabilities(p)
  PROVE  Derived(rows', rows)
<1>1. ASSUME NEW r \in rows
      PROVE  /\ Seen([r EXCEPT !.declared = TRUE]) = Seen(r)
             /\ [r EXCEPT !.declared = TRUE].caps = r.caps
             /\ [r EXCEPT !.declared = TRUE].quarantined = r.quarantined
  <2>1. r \in Rows
    BY DEF TypeOK
  <2>2. Seen([r EXCEPT !.declared = TRUE]) = Seen(r)
    BY <2>1, RowUpdate
  <2>. QED BY <2>1, <2>2 DEF Rows
<1>2. PICK k : \/ rows' = {IF Same(r, k) THEN [r EXCEPT !.declared = TRUE]
                           ELSE r : r \in rows}
               \/ rows' = rows
  BY DEF DeclareCapabilities
<1>3. ASSUME NEW r \in rows'
      PROVE  \E q \in rows : r = q \/ r = [q EXCEPT !.declared = TRUE]
  BY <1>2
<1>. QED BY <1>1, <1>3 DEF Derived

\* Only insert adds a row; every other step keeps, flags or deletes rows.
LEMMA RowsStep ==
  ASSUME TypeOK, [Next]_vars
  PROVE  \/ Derived(rows', rows)
         \/ \E p \in Processes : \E j \in job[p] :
              /\ InsertRow(p) /\ pc[p] = "insert"
              /\ rows' = rows \cup {NewRow(j)}
<1>1. \A S : S \subseteq rows => Derived(S, rows)
  BY DEF Derived
<1>2. ASSUME NEW p \in Processes, Install(p), ~InsertRow(p)
      PROVE  Derived(rows', rows)
  <2>1. CASE DeclareCapabilities(p)
    BY <2>1, DeclaredRows
  <2>2. CASE DeleteOld(p)
    BY <2>2, <1>1 DEF DeleteOld
  <2>3. CASE rows' = rows
    BY <2>3, <1>1
  <2>. QED BY <1>2, <2>1, <2>2, <2>3
           DEF Install, BeginInstall, RefuseInstall, OpenFile, WriteFile,
               CloseFile, UpsertRegistry
<1>3. ASSUME NEW p \in Processes, InsertRow(p)
      PROVE  \/ Derived(rows', rows)
             \/ \E j \in job[p] : /\ pc[p] = "insert"
                                  /\ rows' = rows \cup {NewRow(j)}
  BY <1>3, <1>1 DEF InsertRow
<1>4. ASSUME NEW p \in Processes, Uninstall(p)
      PROVE  Derived(rows', rows)
  BY <1>4, <1>1 DEF Uninstall, BeginUninstall, LookupRegistry, RemoveFiles,
                    DeleteRows, RowsToDelete, SetUninstalled
<1>5. ASSUME NEW p \in Processes, Verify(p)
      PROVE  Derived(rows', rows)
  <2>1. rows' = rows \/ \E of : \E ok \in BOOLEAN :
                            rows' = MarkHash(of, ok) \/ rows' = MarkQuarantined(of)
    BY <1>5 DEF Verify, BeginVerify, HashFile, SetHashOk, SetHashBad, Quarantine,
                SetQuarantined
  <2>. QED BY <2>1, <1>1, MarkedRows
<1>6. ASSUME NEW p \in Processes, Run(p) \/ Fail(p)
      PROVE  Derived(rows', rows)
  BY <1>6, <1>1 DEF Run, BeginRun, ListRows, Dispatch, Fail
<1>7. ASSUME NEW path \in Paths, Damage(path)
      PROVE  Derived(rows', rows)
  BY <1>7, <1>1 DEF Damage
<1>8. CASE UNCHANGED vars
  BY <1>8, <1>1 DEF vars
<1>. QED BY <1>2, <1>3, <1>4, <1>5, <1>6, <1>7, <1>8 DEF Next

LEMMA DerivedLive ==
  ASSUME Derived(rows', rows), NEW r \in Live'
  PROVE  \E q \in Live : Seen(q) = Seen(r) /\ IdOf(q) = IdOf(r) /\ q.caps = r.caps
<1>1. PICK q \in rows : Seen(r) = Seen(q) /\ r.caps = q.caps /\ (~r.quarantined => ~q.quarantined)
  BY DEF Derived, Live
<1>2. q \in Live
  BY <1>1 DEF Live
<1>. QED BY <1>1, <1>2, SameSeen

LEMMA CondemnInit == Init => CondemnInv
BY DEF Init, CondemnInv, CondemnedIsQuarantined, CondemnedNeverRuns, Live

\* A step that condemns nothing and adds no row keeps the condemned ids
\* quarantined; what is left to show depends on the step that follows it.
LEMMA StillQuarantined ==
  ASSUME NEW self, Processes = {self}, TypeOK, TypeOK', CondemnInv,
         Derived(rows', rows), condemned' \subseteq condemned,
         pc'[self] = "insert" => \A j \in job'[self] : IdOf(j.pkg) \notin condemned',
         pc'[self] = "setQuarantined" =>
           \A f \in found'[self] : \A r \in Live' : IdOf(r) # IdOf(f),
         pc'[self] = "dispatch" => \A r \in found'[self] : IdOf(r) \notin condemned'
  PROVE  CondemnInv'
<1>1. \A r \in Live' : IdOf(r) \notin condemned'
  BY DerivedLive DEF CondemnInv, CondemnedIsQuarantined
<1>. QED BY <1>1 DEF CondemnInv, CondemnedIsQuarantined, CondemnedNeverRuns

LEMMA CondemnInstall ==
  ASSUME NEW self, Processes = {self}, TypeOK, TypeOK', JobInv, CondemnInv,
         [Next]_vars, Install(self)
  PROVE  CondemnInv'
<1> USE DEF TypeOK, InstallSteps
<1>1. CASE Derived(rows', rows) /\ ~ DeleteOld(self) /\ ~ CloseFile(self)
  <2>1. condemned' = condemned
    BY <1>1 DEF Install, BeginInstall, RefuseInstall, OpenFile, WriteFile,
                UpsertRegistry, InsertRow, DeclareCapabilities
  <2>2. pc'[self] \notin {"insert", "setQuarantined", "dispatch"}
    BY <1>1 DEF Install, BeginInstall, RefuseInstall, OpenFile, WriteFile,
                UpsertRegistry, InsertRow, DeclareCapabilities
  <2>. QED BY <1>1, <2>1, <2>2, StillQuarantined
<1>2. CASE CloseFile(self)
  <2>1. PICK to \in {"register", "open"} : pc' = [pc EXCEPT ![self] = to]
    BY <1>2 DEF CloseFile, NextFile
  <2>2. rows' = rows /\ condemned' = condemned
    BY <1>2 DEF CloseFile
  <2>3. Derived(rows', rows)
    BY <2>2 DEF Derived
  <2>. QED BY <2>1, <2>2, <2>3, StillQuarantined
<1>3. CASE DeleteOld(self)
  <2>1. PICK j \in job[self] : /\ condemned' = condemned \ {IdOf(j.pkg)}
                               /\ rows' \subseteq rows
    BY <1>3 DEF DeleteOld
  <2>2. \A i \in job'[self] : IdOf(i.pkg) \notin condemned'
    BY <1>3, <2>1 DEF DeleteOld, JobInv, OneJob
  <2>3. pc'[self] = "insert"
    BY <1>3 DEF DeleteOld
  <2>4. Derived(rows', rows)
    BY <2>1 DEF Derived
  <2>. QED BY <2>1, <2>2, <2>3, <2>4, StillQuarantined
<1>4. ASSUME NEW j \in job[self], InsertRow(self), pc[self] = "insert",
             rows' = rows \cup {NewRow(j)}
      PROVE  CondemnInv'
  <2>1. condemned' = condemned /\ pc'[self] \in {"idle", "declare"}
    BY <1>4 DEF InsertRow
  <2>2. IdOf(j.pkg) \notin condemned /\ IdOf(NewRow(j)) = IdOf(j.pkg)
    BY <1>4 DEF CondemnInv, CondemnedIsQuarantined, NewRow, IdOf
  <2>3. \A r \in Live' : r \in Live \/ r = NewRow(j)
    BY <1>4 DEF Live
  <2>4. \A r \in Live' : IdOf(r) \notin condemned'
    BY <2>1, <2>2, <2>3 DEF CondemnInv, CondemnedIsQuarantined
  <2>. QED BY <2>1, <2>4 DEF CondemnInv, CondemnedIsQuarantined, CondemnedNeverRuns
<1>. QED BY <1>1, <1>2, <1>3, <1>4, RowsStep

LEMMA CondemnVerify ==
  ASSUME NEW self, Processes = {self}, TypeOK, TypeOK', ResultAtRest, CondemnInv,
         Verify(self)
  PROVE  CondemnInv'
<1> USE DEF TypeOK
<1>0. pc'[self] \in {"idle"} \cup VerifySteps
  BY VerifyMoves
<1>1. CASE BeginVerify(self) \/ HashFile(self) \/ SetHashOk(self) \/ SetHashBad(self)
  <2>1. condemned' = condemned
    BY <1>1 DEF BeginVerify, HashFile, SetHashOk, SetHashBad
  <2>2. pc'[self] # "setQuarantined"
    <3>1. CASE BeginVerify(self)
      <4>1. Finish(self, "idle", "failed") \/ Start(self, "hash")
        BY <3>1 DEF BeginVerify
      <4>. QED BY <4>1
    <3>2. CASE HashFile(self)
      <4>1. PICK to \in {"quarantine", "setHashOk", "setHashBad"} : Step(self, "hash", to)
        BY <3>2 DEF HashFile
      <4>. QED BY <4>1
    <3>. QED BY <1>1, <3>1, <3>2 DEF SetHashOk, SetHashBad
  <2>3. rows' = rows \/ \E of : \E ok \in BOOLEAN : rows' = MarkHash(of, ok)
    BY <1>1 DEF BeginVerify, HashFile, SetHashOk, SetHashBad
  <2>4. Derived(rows', rows)
    BY <2>3, MarkedRows DEF Derived
  <2>. QED BY <1>0, <2>1, <2>2, <2>4, StillQuarantined DEF VerifySteps
<1>2. CASE Quarantine(self)
  <2>1. /\ rows' = MarkQuarantined(found[self]) /\ found' = found
        /\ pc'[self] = "setQuarantined" /\ condemned' = condemned
    BY <1>2 DEF Quarantine
  <2>2. Derived(rows', rows) /\ \A r \in Live' : \A f \in found[self] : ~Same(r, f)
    BY <2>1, MarkedRows DEF Live
  <2>. QED BY <2>1, <2>2, StillQuarantined DEF Same
<1>3. CASE SetQuarantined(self)
  <2>1. /\ rows' = rows /\ pc'[self] = "idle" /\ pc[self] = "setQuarantined"
        /\ condemned' = condemned \cup {IdOf(f) : f \in found[self]}
    BY <1>3 DEF SetQuarantined
  <2>2. \A r \in Live' : IdOf(r) \notin condemned'
    BY <2>1 DEF CondemnInv, CondemnedIsQuarantined, Live
  <2>. QED BY <2>1, <2>2 DEF CondemnInv, CondemnedIsQuarantined, CondemnedNeverRuns
<1>. QED BY <1>1, <1>2, <1>3 DEF Verify

LEMMA CondemnStep ==
  ASSUME NEW self, Processes = {self}, TypeOK, TypeOK', JobInv, ResultAtRest, CondemnInv,
         [Next]_vars
  PROVE  CondemnInv'
<1> USE DEF TypeOK
<1>1. \A S : S \subseteq rows => Derived(S, rows)
  BY DEF Derived
<1>2. CASE Uninstall(self)
  <2>1. /\ rows' \subseteq rows /\ condemned' \subseteq condemned
        /\ pc'[self] \in UninstallSteps \cup {"idle"}
    BY <1>2 DEF Uninstall, BeginUninstall, LookupRegistry, RemoveFiles,
                DeleteRows, RowsToDelete, SetUninstalled, UninstallSteps
  <2>. QED BY <1>1, <2>1, StillQuarantined DEF UninstallSteps
<1>3. CASE Run(self)
  <2>1. CASE ListRows(self)
    <3>1. /\ rows' = rows /\ condemned' = condemned
          /\ pc'[self] \in {"idle", "dispatch"}
          /\ pc'[self] = "dispatch" =>
               \A f \in found'[self] : \E r \in Live : f = Seen(r)
      BY <2>1 DEF ListRows
    <3>2. pc'[self] = "dispatch" => \A r \in found'[self] : IdOf(r) \notin condemned'
      BY <3>1, RowType DEF CondemnInv, CondemnedIsQuarantined, Live
    <3>. QED BY <1>1, <3>1, <3>2, StillQuarantined
  <2>2. CASE BeginRun(self) \/ Dispatch(self)
    <3>1. /\ rows' = rows /\ condemned' = condemned
          /\ pc'[self] \in {"idle", "list"}
      BY <2>2 DEF BeginRun, Dispatch
    <3>. QED BY <1>1, <3>1, StillQuarantined
  <2>. QED BY <1>3, <2>1, <2>2 DEF Run
<1>4. CASE Fail(self)
  <2>1. rows' = rows /\ condemned' = condemned /\ pc'[self] = "idle"
    BY <1>4 DEF Fail
  <2>. QED BY <1>1, <2>1, StillQuarantined
<1>5. ASSUME \/ \E path \in Paths : Damage(path)
             \/ UNCHANGED vars
      PROVE  CondemnInv'
  <2>1. UNCHANGED <<rows, condemned, pc, job, found>>
    BY <1>5 DEF Damage, vars
  <2>. QED BY <2>1 DEF CondemnInv, CondemnedIsQuarantined, CondemnedNeverRuns, Live
<1>. QED BY <1>2, <1>3, <1>4, <1>5, CondemnInstall, CondemnVerify DEF Next

\* When commands do not overlap, no task is dispatched to an installation
\* that verify_installed condemned before an install or uninstall has deleted
\* its row, however many builds a version has and whatever is installed,
\* removed or damaged meanwhile (installer.rs, verify_installed; executor.rs,
\* load_plugin_map).
THEOREM CondemnedStays ==
  ASSUME NEW CONSTANT self, Processes = {self}
  PROVE  Spec => []CondemnedNeverRuns
<1>1. CondemnInv => CondemnedNeverRuns
  BY DEF CondemnInv
<1>2. RepairInv => ResultAtRest
  BY DEF RepairInv
<1>3. TypeOK /\ TypeOK' /\ JobInv /\ FileInv /\ RepairInv /\ [Next]_vars => RepairInv'
  BY RepairStep
<1>4. /\ TypeOK /\ TypeOK' /\ JobInv /\ ResultAtRest /\ CondemnInv /\ [Next]_vars
      => CondemnInv'
  BY CondemnStep
<1>. QED BY <1>1, <1>2, <1>3, <1>4, RepairInit, JobInit, JobStep, FileInit, FileStep,
            CondemnInit, TypeCorrect, PTL DEF Spec

NoAck == \A c \in Consents : ~c.ack

LEMMA CapsStep ==
  ASSUME NEW self, Processes = {self}, TypeOK, TypeOK', ResultAtRest, NoAck,
         CapsKept, [Next]_vars
  PROVE  CapsKept'
<1> USE DEF TypeOK
<1> DEFINE Steps == {"open", "write", "register", "clear", "insert"}
<1>1. CASE Derived(rows', rows)
  <2>1. \A r, q \in Live' : r.caps = q.caps
    BY <1>1, DerivedLive DEF CapsKept
  <2>2. ASSUME NEW k \in Packages, NEW c \in Consents, BeginInstall(self, k, c)
        PROVE  CapsKept'
    <3>1. PICK current \in FirstOf(Live) : \A r \in current : r.caps = k.caps
      BY <2>2 DEF BeginInstall, Admits, CapsAccepted, NoAck
    <3>2. ASSUME NEW r \in Live
          PROVE  r.caps = k.caps
      <4>1. current \subseteq Live
        BY <3>1, FirstOfRows
      <4>2. FirstOf(Live) = {{q} : q \in Highest(Live)}
        BY <3>2 DEF FirstOf
      <4>3. PICK q : current = {q}
        BY <3>1, <4>2
      <4>4. q \in Live /\ q.caps = k.caps
        BY <3>1, <4>1, <4>3
      <4>. QED BY <3>2, <4>4 DEF CapsKept
    <3>3. \A j \in job'[self] : j.pkg = k
      BY <2>2 DEF BeginInstall
    <3>4. Live' = Live
      BY <2>2 DEF BeginInstall, Live
    <3>. QED BY <2>1, <3>2, <3>3, <3>4 DEF CapsKept
  <2>3. CASE pc'[self] \notin Steps
    BY <2>1, <2>3 DEF CapsKept
  <2>4. CASE pc'[self] \in Steps /\ job' = job /\ pc[self] \in Steps
    BY <1>1, <2>1, <2>4, DerivedLive DEF CapsKept
  <2>5. ASSUME NEW k \in Packages, NEW c \in Consents, RefuseInstall(self, k, c)
        PROVE  pc'[self] \notin Steps
    BY <2>5 DEF RefuseInstall
  <2>10. CASE CloseFile(self)
    <3>1. PICK to \in {"register", "open"} : pc' = [pc EXCEPT ![self] = to]
      BY <2>10 DEF CloseFile, NextFile
    <3>2. job' = job /\ pc[self] = "write"
      BY <2>10 DEF CloseFile
    <3>. QED BY <2>4, <3>1, <3>2
  <2>6. CASE \/ OpenFile(self) \/ WriteFile(self) \/ UpsertRegistry(self)
             \/ DeleteOld(self) \/ InsertRow(self) \/ DeclareCapabilities(self)
    <3>1. job' = job /\ (pc'[self] \in Steps => pc[self] \in Steps)
      BY <2>6 DEF OpenFile, WriteFile, UpsertRegistry, DeleteOld, InsertRow,
                  DeclareCapabilities
    <3>. QED BY <2>3, <2>4, <3>1
  <2>7. CASE Uninstall(self) \/ Verify(self)
    <3>1. CASE Uninstall(self)
      <4>1. pc'[self] \notin Steps
        BY <3>1 DEF Uninstall, BeginUninstall, LookupRegistry, RemoveFiles,
                    DeleteRows, SetUninstalled
      <4>. QED BY <2>3, <4>1
    <3>2. CASE Verify(self)
      <4>1. pc'[self] \notin Steps
        BY <3>2, VerifyMoves DEF VerifySteps
      <4>. QED BY <2>3, <4>1
    <3>. QED BY <2>7, <3>1, <3>2
  <2>8. CASE Run(self) \/ Fail(self)
    <3>1. pc'[self] \notin Steps
      BY <2>8 DEF Run, BeginRun, ListRows, Dispatch, Fail
    <3>. QED BY <2>3, <3>1
  <2>9. CASE (\E path \in Paths : Damage(path)) \/ UNCHANGED vars
    <3>1. job' = job /\ pc' = pc
      BY <2>9 DEF Damage, vars
    <3>. QED BY <2>3, <2>4, <3>1
  <2>. QED BY <2>2, <2>3, <2>5, <2>6, <2>7, <2>8, <2>9, <2>10 DEF Next, Install
<1>2. ASSUME NEW j \in job[self], InsertRow(self), pc[self] = "insert",
             rows' = rows \cup {NewRow(j)}
      PROVE  CapsKept'
  <2>1. \A r \in Live' : r \in Live \/ r = NewRow(j)
    BY <1>2 DEF Live
  <2>2. NewRow(j).caps = j.pkg.caps /\ \A r \in Live : r.caps = j.pkg.caps
    BY <1>2 DEF NewRow, CapsKept
  <2>3. pc'[self] \notin Steps
    BY <1>2 DEF InsertRow
  <2>. QED BY <2>1, <2>2, <2>3 DEF CapsKept
<1>. QED BY <1>1, <1>2, RowsStep

\* When commands do not overlap and no call acknowledges a change of
\* capabilities, all installations that tasks may be dispatched to declare the
\* same ones, whatever is installed, quarantined or left half-done (gate 4c of
\* install_package).
THEOREM CapabilitiesAgree ==
  ASSUME NEW CONSTANT self, Processes = {self}
  PROVE  Spec => []OneCapabilitySet
<1>1. CASE NoAck
  <2>1. Init => CapsKept
    BY DEF Init, CapsKept, Live
  <2>2. TypeOK /\ TypeOK' /\ ResultAtRest /\ CapsKept /\ [Next]_vars => CapsKept'
    BY <1>1, CapsStep
  <2>4. RepairInv => ResultAtRest
    BY DEF RepairInv
  <2>5. TypeOK /\ TypeOK' /\ JobInv /\ FileInv /\ RepairInv /\ [Next]_vars => RepairInv'
    BY RepairStep
  <2>3. CapsKept => OneCapabilitySet
    BY DEF CapsKept, OneCapabilitySet
  <2>. QED BY <2>1, <2>2, <2>3, <2>4, <2>5, RepairInit, JobInit, JobStep, FileInit,
              FileStep, TypeCorrect, PTL DEF Spec
<1>2. CASE ~NoAck
  <2>1. OneCapabilitySet
    BY <1>2 DEF NoAck, OneCapabilitySet
  <2>. QED BY <2>1, PTL
<1>. QED BY <1>1, <1>2

LEMMA CauseInit == Init => CauseInv
BY DEF Init, CauseInv, RowsAgree, CauseKept, FalseHasACause, Late

\* A step that vouches for no more than before, and for nothing at a path that
\* it changes, leaves the rows in agreement with the files.
Vouches ==
  \A path \in Paths :
    /\ vouched'[path] \subseteq vouched[path]
    /\ disk'[path] = disk[path] \/ vouched'[path] = {}

LEMMA StillAgree ==
  ASSUME TypeOK, RowsAgree, Derived(rows', rows), Vouches
  PROVE  RowsAgree'
<1>1. ASSUME NEW r \in rows', IdOf(r) \in vouched'[Path(r)]
      PROVE  disk'[Path(r)] = {Whole(r.build)}
  <2>1. PICK q \in rows : Seen(r) = Seen(q)
    BY DEF Derived
  <2>2. IdOf(q) = IdOf(r) /\ Path(q) = Path(r) /\ q.build = r.build
    BY <2>1, SameSeen
  <2>3. Path(q) \in Paths
    BY RowType DEF TypeOK
  <2>4. disk[Path(q)] = {Whole(q.build)} /\ disk'[Path(q)] = disk[Path(q)]
    BY <1>1, <2>2, <2>3 DEF Vouches, RowsAgree
  <2>. QED BY <2>2, <2>4
<1>. QED BY <1>1 DEF RowsAgree

LEMMA Untouched ==
  ASSUME disk' = disk, vouched' = vouched
  PROVE  Vouches
BY DEF Vouches

\* A file that is written is nobody's to vouch for.
LEMMA WriteVouches ==
  ASSUME TypeOK, FileInv, NEW p \in Processes, OpenFile(p) \/ WriteFile(p) \/ CloseFile(p)
  PROVE  Vouches
<1> USE DEF TypeOK
<1>1. CASE OpenFile(p)
  <2>1. PICK at \in Paths : /\ disk' = [disk EXCEPT ![at] = {<<>>}]
                            /\ vouched' = [vouched EXCEPT ![at] = {}]
    BY <1>1 DEF OpenFile
  <2>. QED BY <2>1 DEF Vouches
<1>2. CASE WriteFile(p)
  <2>1. \A path \in Paths : path \notin handle[p] => disk'[path] = disk[path]
    BY <1>2 DEF WriteFile
  <2>2. vouched' = vouched /\ \A path \in handle[p] : vouched[path] = {}
    BY <1>2 DEF WriteFile, FileInv, VouchedFiles
  <2>. QED BY <2>1, <2>2 DEF Vouches
<1>3. CASE CloseFile(p)
  BY <1>3, Untouched DEF CloseFile
<1>. QED BY <1>1, <1>2, <1>3

LEMMA CauseInstall ==
  ASSUME NEW self, Processes = {self}, TypeOK, TypeOK', JobInv, FileInv, RepairInv,
         CauseInv, [Next]_vars, Install(self)
  PROVE  CauseInv'
<1> USE DEF TypeOK, InstallSteps
<1>0. RowsAgree /\ CauseKept /\ ResultAtRest /\ PartAtRest
  BY DEF CauseInv, RepairInv
<1>1. ASSUME RowsAgree', pc'[self] \in {"idle"} \cup InstallSteps,
             result'[self] # "condemned",
             pc'[self] = "write" \/ Late(self)' =>
               \A j \in job'[self] : vouched'[Path(j.pkg)] = {}
      PROVE  CauseInv'
  BY <1>1 DEF CauseInv, CauseKept, FalseHasACause
<1>2. ASSUME NEW k \in Packages, NEW c \in Consents,
             BeginInstall(self, k, c) \/ RefuseInstall(self, k, c)
      PROVE  CauseInv'
  <2>1. /\ UNCHANGED <<rows, disk, vouched, part>>
        /\ pc[self] = "idle" /\ pc'[self] \in {"idle", "open"}
        /\ result'[self] \in {"none", "refused"}
    BY <1>2 DEF BeginInstall, RefuseInstall
  <2>2. RowsAgree'
    BY <1>0, <2>1 DEF RowsAgree
  <2>3. part'[self] = "binary"
    BY <1>0, <2>1 DEF PartAtRest
  <2>. QED BY <1>1, <2>1, <2>2, <2>3 DEF Late
<1>3. ASSUME rows' = rows, Vouches, job' = job, result' = result, pc[self] # "idle",
             pc'[self] \in InstallSteps,
             \/ pc[self] = "write" \/ Late(self)
             \/ \A j \in job[self] : vouched'[Path(j.pkg)] = {}
      PROVE  CauseInv'
  <2>1. Derived(rows', rows)
    BY <1>3 DEF Derived
  <2>2. RowsAgree'
    BY <1>0, <1>3, <2>1, StillAgree
  <2>3. \A j \in job[self] : vouched'[Path(j.pkg)] = {}
    <3>1. \A j \in job[self] : Path(j.pkg) \in Paths
      BY JobType, PackageType
    <3>. QED BY <1>0, <1>3, <3>1 DEF CauseKept, Vouches
  <2>. QED BY <1>0, <1>1, <1>3, <2>2, <2>3 DEF ResultAtRest
<1>4. CASE OpenFile(self)
  <2>1. /\ UNCHANGED <<rows, job, part, result>> /\ pc[self] = "open" /\ pc'[self] = "write"
    BY <1>4 DEF OpenFile
  <2>2. ASSUME part[self] = "binary", NEW j \in job[self]
        PROVE  vouched'[Path(j.pkg)] = {}
    <3>1. PICK i \in job[self] : vouched' = [vouched EXCEPT ![PathOf(i.pkg, part[self])] = {}]
      BY <1>4 DEF OpenFile
    <3>2. i = j /\ PathOf(j.pkg, part[self]) = Path(j.pkg) /\ Path(j.pkg) \in Paths
      BY <2>2, JobType, PackageType DEF JobInv, OneJob
    <3>. QED BY <3>1, <3>2
  <2>. QED BY <1>3, <1>4, <2>1, <2>2, WriteVouches DEF Late
<1>5. CASE WriteFile(self)
  <2>1. /\ UNCHANGED <<rows, job, result, pc>> /\ pc[self] = "write"
    BY <1>5 DEF WriteFile
  <2>. QED BY <1>3, <1>5, <2>1, WriteVouches
<1>6. CASE CloseFile(self)
  <2>1. /\ UNCHANGED <<rows, job, result>> /\ pc[self] = "write"
    BY <1>6 DEF CloseFile
  <2>2. pc'[self] \in InstallSteps
    BY <1>6, NextFileStep DEF Late
  <2>. QED BY <1>3, <1>6, <2>1, <2>2, WriteVouches
<1>7. CASE UpsertRegistry(self)
  <2>1. /\ UNCHANGED <<rows, job, result, disk, vouched>>
        /\ pc[self] = "register" /\ pc'[self] = "clear"
    BY <1>7 DEF UpsertRegistry
  <2>. QED BY <1>3, <2>1, Untouched DEF Late
<1>8. ASSUME pc[self] \in {"clear", "insert", "declare"}, NEW j \in job[self]
      PROVE  vouched[Path(j.pkg)] = {}
  BY <1>0, <1>8 DEF CauseKept, Late
<1>9. CASE DeleteOld(self)
  <2>1. /\ UNCHANGED <<job, result, disk, vouched>> /\ rows' \subseteq rows
        /\ pc[self] = "clear" /\ pc'[self] = "insert"
    BY <1>9 DEF DeleteOld
  <2>2. RowsAgree'
    BY <1>0, <2>1 DEF RowsAgree
  <2>. QED BY <1>0, <1>1, <1>8, <2>1, <2>2 DEF ResultAtRest
<1>10. CASE InsertRow(self)
  <2>1. /\ UNCHANGED <<job, disk, vouched>>
        /\ pc[self] = "insert" /\ pc'[self] \in {"idle", "declare"}
        /\ result'[self] \in {"failed", result[self]}
        /\ \/ rows' = rows
           \/ \E j \in job[self] : rows' = rows \cup {NewRow(j)}
    BY <1>10 DEF InsertRow
  <2>2. \A j : Path(NewRow(j)) = Path(j.pkg)
    BY DEF NewRow, Path
  <2>3. RowsAgree'
    <3>1. SUFFICES ASSUME NEW r \in rows', IdOf(r) \in vouched[Path(r)]
                   PROVE  disk[Path(r)] = {Whole(r.build)}
      BY <2>1 DEF RowsAgree
    <3>2. CASE r \in rows
      BY <1>0, <3>1, <3>2 DEF RowsAgree
    <3>3. ASSUME NEW j \in job[self], r = NewRow(j) PROVE FALSE
      <4>1. vouched[Path(j.pkg)] = {}  BY <1>8, <2>1
      <4>. QED BY <2>2, <3>1, <3>3, <4>1
    <3>. QED BY <2>1, <3>2, <3>3
  <2>4. result'[self] # "condemned" /\ pc'[self] \in {"idle"} \cup InstallSteps
    BY <1>0, <2>1 DEF ResultAtRest
  <2>5. \A j \in job'[self] : vouched'[Path(j.pkg)] = {}
    BY <1>8, <2>1
  <2>. QED BY <1>1, <2>3, <2>4, <2>5
<1>11. CASE DeclareCapabilities(self)
  <2>1. PICK j \in job[self] :
          \/ vouched' = [path \in Paths |->
               IF path \in sole[self] THEN {IdOf(j.pkg)} ELSE vouched[path]]
          \/ vouched' = vouched
    BY <1>11 DEF DeclareCapabilities
  <2>2. /\ disk' = disk /\ pc[self] = "declare" /\ pc'[self] = "idle"
        /\ result'[self] \in {"installed", "failed"}
    BY <1>11 DEF DeclareCapabilities
  <2>3. ASSUME NEW path \in sole[self]
        PROVE  disk[path] = {Whole(j.pkg.build)}
    <3>1. SoleFile(self, path)
      BY DEF FileInv, SoleFiles
    <3>. QED BY <2>2, <3>1 DEF SoleFile
  <2>4. Derived(rows', rows)
    BY <1>11, DeclaredRows
  <2>5. ASSUME NEW r \in rows', IdOf(r) \in vouched'[Path(r)]
        PROVE  disk'[Path(r)] = {Whole(r.build)}
    <3>1. PICK q \in rows : Seen(r) = Seen(q)
      BY <2>4 DEF Derived
    <3>2. IdOf(q) = IdOf(r) /\ Path(q) = Path(r) /\ q.build = r.build
      BY <3>1, SameSeen
    <3>3. Path(r) \in Paths
      BY <3>2, RowType
    <3>4. CASE vouched'[Path(r)] = vouched[Path(r)]
      BY <1>0, <2>2, <2>5, <3>2, <3>4 DEF RowsAgree
    <3>5. CASE Path(r) \in sole[self] /\ vouched'[Path(r)] = {IdOf(j.pkg)}
      <4>1. r.build = j.pkg.build
        BY <2>5, <3>5 DEF IdOf
      <4>. QED BY <2>2, <2>3, <3>5, <4>1
    <3>. QED BY <2>1, <3>3, <3>4, <3>5
  <2>6. RowsAgree'
    BY <2>5 DEF RowsAgree
  <2>. QED BY <1>1, <2>2, <2>6 DEF Late
<1>. QED BY <1>2, <1>4, <1>5, <1>6, <1>7, <1>9, <1>10, <1>11 DEF Install

LEMMA CauseVerify ==
  ASSUME NEW self, Processes = {self}, TypeOK, TypeOK', RepairInv, CauseInv,
         Verify(self)
  PROVE  CauseInv'
<1> USE DEF TypeOK
<1>0. RowsAgree /\ CauseKept /\ ResultAtRest
  BY DEF CauseInv, RepairInv
<1>1. UNCHANGED <<disk, vouched>>
  BY DEF Verify, BeginVerify, HashFile, SetHashOk, SetHashBad, Quarantine,
         SetQuarantined
<1>2. Derived(rows', rows)
  <2>1. rows' = rows \/ \E of : \E ok \in BOOLEAN :
                            rows' = MarkHash(of, ok) \/ rows' = MarkQuarantined(of)
    BY DEF Verify, BeginVerify, HashFile, SetHashOk, SetHashBad, Quarantine,
           SetQuarantined
  <2>. QED BY <2>1, MarkedRows DEF Derived
<1>3. RowsAgree'
  BY <1>0, <1>1, <1>2, StillAgree, Untouched
<1>4. ~Late(self)' /\ pc'[self] # "write"
  BY VerifyMoves, <1>0 DEF VerifySteps, Late
<1>5. CASE BeginVerify(self)
  <2>1. PICK first \in FirstOf(Live) :
          found' = [found EXCEPT ![self] = {Seen(r) : r \in first}]
    BY <1>5 DEF BeginVerify
  <2>2. rows' = rows /\ \A f \in found'[self] : \E r \in rows : f = Seen(r)
    BY <1>5, <2>1, FirstOfRows DEF BeginVerify, Live
  <2>3. Finish(self, "idle", "failed") \/ Start(self, "hash")
    BY <1>5 DEF BeginVerify
  <2>4. pc'[self] \in {"idle", "hash"} /\ result'[self] # "condemned"
    BY <2>3
  <2>5. \A f, g \in found'[self] : f = g
    BY <2>1 DEF FirstOf
  <2>. QED BY <1>3, <1>4, <2>2, <2>4, <2>5 DEF CauseInv, CauseKept, FalseHasACause
<1>6. CASE HashFile(self)
  <2>1. PICK f \in found[self] :
          Step(self, "hash", IF disk[Path(f)] = {} THEN "quarantine"
                             ELSE IF disk[Path(f)] = {Whole(f.build)} THEN "setHashOk"
                             ELSE "setHashBad")
    BY <1>6 DEF HashFile
  <2>2. found' = found /\ result' = result
    BY <1>6 DEF HashFile
  <2>3. \E r \in rows : Seen(r) = f
    BY <1>0, <2>1 DEF CauseKept
  <2>4. disk[Path(f)] # {Whole(f.build)} => IdOf(f) \notin vouched[Path(f)]
    <3>1. PICK r \in rows : Seen(r) = f
      BY <2>3
    <3>2. IdOf(f) = IdOf(r) /\ Path(f) = Path(r) /\ f.build = r.build
      BY <3>1, RowType
    <3>. QED BY <1>0, <3>2 DEF RowsAgree
  <2>5. {Whole(f.build)} # {}
    OBVIOUS
  <2>6. pc'[self] \in {"quarantine", "setHashBad"} => IdOf(f) \notin vouched[Path(f)]
    BY <2>1, <2>4, <2>5
  <2>7. \A g \in found[self] : g = f
    BY <1>0, <2>1 DEF CauseKept
  <2>8. pc'[self] \in {"quarantine", "setHashBad", "setHashOk"} /\ result[self] = "none"
    BY <1>0, <2>1 DEF ResultAtRest
  <2>. QED BY <1>1, <1>3, <1>4, <2>2, <2>6, <2>7, <2>8
           DEF CauseInv, CauseKept, FalseHasACause
<1>7. CASE SetHashOk(self)
  <2>1. pc'[self] = "idle" /\ result'[self] = "intact"
    BY <1>7 DEF SetHashOk
  <2>. QED BY <1>3, <1>4, <2>1 DEF CauseInv, CauseKept, FalseHasACause
<1>8. CASE SetHashBad(self) \/ Quarantine(self) \/ SetQuarantined(self)
  <2>1. /\ found' = found
        /\ pc[self] \in {"setHashBad", "quarantine", "setQuarantined"}
        /\ pc'[self] \in {"quarantine", "setQuarantined", "idle"}
    BY <1>8 DEF SetHashBad, Quarantine, SetQuarantined
  <2>2. \A f \in found'[self] : IdOf(f) \notin vouched'[Path(f)]
    BY <1>0, <1>1, <2>1 DEF CauseKept
  <2>. QED BY <1>3, <1>4, <2>1, <2>2 DEF CauseInv, CauseKept, FalseHasACause
<1>. QED BY <1>5, <1>6, <1>7, <1>8 DEF Verify

LEMMA CauseUninstall ==
  ASSUME NEW self, Processes = {self}, TypeOK, TypeOK', RepairInv, ForgetInv,
         CauseInv, Uninstall(self)
  PROVE  CauseInv'
<1> USE DEF TypeOK
<1>0. RowsAgree /\ CauseKept /\ ResultAtRest
  BY DEF CauseInv, RepairInv
<1>1. rows' \subseteq rows /\ pc'[self] \in UninstallSteps \cup {"idle"}
  BY DEF Uninstall, BeginUninstall, LookupRegistry, RemoveFiles, DeleteRows,
         RowsToDelete, SetUninstalled, UninstallSteps
<1>2. Derived(rows', rows)
  BY <1>1 DEF Derived
<1>3. result'[self] # "condemned"
  <2>1. CASE BeginUninstall(self)
    BY <2>1 DEF BeginUninstall
  <2>2. CASE LookupRegistry(self) \/ RemoveFiles(self) \/ DeleteRows(self)
    BY <1>0, <2>2 DEF LookupRegistry, RemoveFiles, DeleteRows, ResultAtRest
  <2>3. CASE SetUninstalled(self)
    BY <2>3 DEF SetUninstalled
  <2>. QED BY <2>1, <2>2, <2>3 DEF Uninstall
<1>4. RowsAgree'
  <2>1. CASE SetUninstalled(self)
    <3>1. rows' = {}
      BY <2>1 DEF SetUninstalled, ForgetInv, Forgetting
    <3>. QED BY <3>1 DEF RowsAgree
  <2>2. CASE RemoveFiles(self)
    <3>1. PICK gone \in SUBSET Paths :
            /\ disk' = [path \in Paths |-> IF path \in gone THEN {} ELSE disk[path]]
            /\ vouched' = [path \in Paths |-> IF path \in gone THEN {} ELSE vouched[path]]
      BY <2>2 DEF RemoveFiles
    <3>2. Vouches
      BY <3>1 DEF Vouches
    <3>. QED BY <1>0, <1>2, <3>2, StillAgree
  <2>3. CASE BeginUninstall(self) \/ LookupRegistry(self) \/ DeleteRows(self)
    <3>1. UNCHANGED <<disk, vouched>>
      BY <2>3 DEF BeginUninstall, LookupRegistry, DeleteRows
    <3>. QED BY <1>0, <1>2, <3>1, StillAgree, Untouched
  <2>. QED BY <2>1, <2>2, <2>3 DEF Uninstall
<1>. QED BY <1>1, <1>3, <1>4 DEF CauseInv, CauseKept, FalseHasACause, UninstallSteps, Late

LEMMA CauseStep ==
  ASSUME NEW self, Processes = {self}, TypeOK, TypeOK', JobInv, FileInv, RepairInv,
         ForgetInv, CauseInv, [Next]_vars
  PROVE  CauseInv'
<1> USE DEF TypeOK
<1>0. RowsAgree /\ CauseKept /\ ResultAtRest /\ FalseHasACause
  BY DEF CauseInv, RepairInv
<1>1. CASE Run(self) \/ Fail(self)
  <2>1. UNCHANGED <<rows, disk, vouched>>
    BY <1>1 DEF Run, BeginRun, ListRows, Dispatch, Fail
  <2>2. pc'[self] \in {"idle", "list", "dispatch"}
    BY <1>1 DEF Run, BeginRun, ListRows, Dispatch, Fail
  <2>3. result'[self] # "condemned"
    BY <1>0, <1>1 DEF Run, BeginRun, ListRows, Dispatch, Fail, ResultAtRest
  <2>4. RowsAgree'
    BY <1>0, <2>1 DEF RowsAgree
  <2>. QED BY <2>2, <2>3, <2>4 DEF CauseInv, CauseKept, FalseHasACause, Late
<1>2. ASSUME NEW path \in Paths, Damage(path)
      PROVE  CauseInv'
  <2>1. /\ UNCHANGED <<rows, pc, job, part, found, result>>
        /\ vouched' = [vouched EXCEPT ![path] = {}]
        /\ \A at \in Paths : at # path => disk'[at] = disk[at]
    BY <1>2 DEF Damage
  <2>2. Vouches
    BY <2>1 DEF Vouches
  <2>3. Derived(rows', rows)
    BY <2>1 DEF Derived
  <2>4. RowsAgree'
    BY <1>0, <2>2, <2>3, StillAgree
  <2>5. \A at \in Paths : vouched'[at] \subseteq vouched[at]
    BY <2>2 DEF Vouches
  <2>6. /\ \A j \in job[self] : Path(j.pkg) \in Paths
        /\ \A f \in found[self] : Path(f) \in Paths
    BY JobType, PackageType, SeenType
  <2>7. \A j \in job[self] : vouched[Path(j.pkg)] = {} => vouched'[Path(j.pkg)] = {}
    BY <2>5, <2>6
  <2>8. \A f \in found[self] : IdOf(f) \notin vouched[Path(f)] => IdOf(f) \notin vouched'[Path(f)]
    BY <2>5, <2>6
  <2>9. CauseKept'
    BY <1>0, <2>1, <2>7, <2>8 DEF CauseKept, Late
  <2>10. FalseHasACause'
    BY <1>0, <2>1, <2>8 DEF FalseHasACause
  <2>. QED BY <2>4, <2>9, <2>10 DEF CauseInv
<1>3. CASE UNCHANGED vars
  BY <1>0, <1>3 DEF vars, CauseInv, RowsAgree, CauseKept, FalseHasACause, Late
<1>. QED BY <1>1, <1>2, <1>3, CauseInstall, CauseUninstall, CauseVerify DEF Next

\* When commands do not overlap, verify_installed condemns only files that
\* something else has changed, that a command has opened or removed and then
\* not returned Ok, or that an install of another build of the version, or the
\* copy of a package, has written.
THEOREM NoFalseAlarm ==
  ASSUME NEW CONSTANT self, Processes = {self}
  PROVE  Spec => []FalseHasACause
<1>1. CauseInv => FalseHasACause
  BY DEF CauseInv
<1>2. TypeOK /\ TypeOK' /\ JobInv /\ FileInv /\ RepairInv /\ [Next]_vars => RepairInv'
  BY RepairStep
<1>3. TypeOK /\ TypeOK' /\ RowsAreRegistered /\ ForgetInv /\ [Next]_vars
      => ForgetInv'
  BY ForgetStep
<1>4. /\ TypeOK /\ TypeOK' /\ JobInv /\ FileInv /\ RepairInv /\ ForgetInv /\ CauseInv
      /\ [Next]_vars
      => CauseInv'
  BY CauseStep
<1>. QED BY <1>1, <1>2, <1>3, <1>4, RepairInit, ForgetInit, CauseInit, JobInit, JobStep,
            FileInit, FileStep, TypeCorrect, Registered, PTL DEF Spec
=============================================================================
