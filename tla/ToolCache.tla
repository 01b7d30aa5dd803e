------------------------------ MODULE ToolCache ------------------------------
(***************************************************************************)
(* The cache of downloaded tools: select_release, cache_release and        *)
(* pin_tool_into_project of crates/ocp-host/src/registry.rs, called one    *)
(* after the other by host processes that share the cache and a project.   *)
(*                                                                         *)
(* A file is a sequence of chunks.  Opening it for writing truncates it,   *)
(* and each writer then writes chunk by chunk at its own position, so a    *)
(* file that is truncated under a writer has gaps, which read as zeros.    *)
(* Nothing looks at the cache before it downloads, and nothing locks.      *)
(***************************************************************************)
EXTENDS Naturals, Sequences

CONSTANTS
  Processes,   \* host processes
  Artifacts,   \* the files a registry may serve
  Chunks,      \* per artifact, its length in chunks
  Indexes,     \* the release indexes a registry may publish
  MaxCommands  \* bound: commands that are ever started

Release == [ver : STRING, platform : STRING, sha256 : Artifacts, name : STRING,
            safe : BOOLEAN]

ASSUME ProcessAssumption == "none" \notin Processes
ASSUME ArtifactAssumption == Chunks \in [Artifacts -> Nat \ {0}]
ASSUME IndexAssumption ==
  \A index \in Indexes : \A i \in DOMAIN index : index[i] \in Release
ASSUME CommandAssumption == MaxCommands \in Nat

VARIABLES
  cached,    \* per cache path, the file; a path not in the domain is absent
  pinned,    \* per file name, the file below <project_root>/bin/
  pc,        \* per process, its next step
  job,       \* per process, the release it has selected: at most one
  bytes,     \* per process, the artifact it has downloaded: at most one
  pos,       \* per process, how many chunks it has written
  commands,  \* number of commands started
  opener,    \* history: per cache path, the process that truncated it last, or
             \* "none" once that process has written all of its download
  undisturbed \* history: processes since whose own download no other process
              \* has opened the same cache path or the same file of the project

vars == <<cached, pinned, pc, job, bytes, pos, commands, opener, undisturbed>>
history == <<opener, undisturbed>>

\* A chunk of zeros; a file that is absent or empty.
Zero == <<>>
NoFile == <<>>

Releases == UNION {{index[i] : i \in DOMAIN index} : index \in Indexes}

\* Mutant of CachePath: no directory for the hash.
CachePathByName(r) == <<r.ver, r.platform, r.name>>

\* cache_path_for_release: family and tool are the same for all; the hash is a
\* directory of the path.
CachePath(r) == <<r.ver, r.platform, r.sha256, r.name>>
CachePaths == {CachePath(r) : r \in Releases}
Names == {r.name : r \in Releases}

\* The chunks of an artifact, and a file that holds it.
Whole(a) == [i \in 1..Chunks[a] |-> <<a, i>>]

\* Writing one chunk at a position, with zeros up to it.
WriteAt(f, i, c) ==
  [k \in 1..(IF i > Len(f) THEN i ELSE Len(f)) |->
     IF k = i THEN c ELSE IF k <= Len(f) THEN f[k] ELSE Zero]

Steps == {"idle", "request", "open", "write", "pin", "copy", "pinned", "failed"}
Resting == {"idle", "pinned", "failed"}
Files == Seq((Artifacts \X Nat) \cup {Zero})

TypeOK ==
  /\ cached \in [CachePaths -> Files]
  /\ pinned \in [Names -> Files]
  /\ pc \in [Processes -> Steps]
  /\ job \in [Processes -> SUBSET Releases]
  /\ bytes \in [Processes -> SUBSET Artifacts]
  /\ pos \in [Processes -> Nat]
  /\ commands \in 0..MaxCommands
  /\ opener \in [CachePaths -> Processes \cup {"none"}]
  /\ undisturbed \subseteq Processes

Init ==
  /\ cached = [k \in CachePaths |-> NoFile]
  /\ pinned = [n \in Names |-> NoFile]
  /\ pc = [p \in Processes |-> "idle"]
  /\ job = [p \in Processes |-> {}]
  /\ bytes = [p \in Processes |-> {}]
  /\ pos = [p \in Processes |-> 0]
  /\ commands = 0 /\ undisturbed = {}
  /\ opener = [k \in CachePaths |-> "none"]

-----------------------------------------------------------------------------
(* select_release and cache_release.                                       *)

\* The first release of the index with this version and platform.
Selected(index, ver, platform) ==
  LET fits == {i \in DOMAIN index : index[i].ver = ver /\ index[i].platform = platform}
  IN  {index[i] : i \in {i \in fits : \A j \in fits : i <= j}}

\* Load an index, select a release, refuse names that are no plain file names.
Begin(p, index, ver, platform) ==
  /\ pc[p] \in Resting /\ commands < MaxCommands
  /\ \E r \in Selected(index, ver, platform) :
       /\ r.safe
       /\ job' = [job EXCEPT ![p] = {r}]
  /\ pc' = [pc EXCEPT ![p] = "request"]
  /\ commands' = commands + 1
  /\ undisturbed' = undisturbed \ {p}
  /\ UNCHANGED <<cached, pinned, bytes, pos, opener>>

\* Mutant of HashOk: any artifact will do.
AnyHash(r, a) == TRUE

HashOk(r, a) == a = r.sha256

\* The download, up to the size limit, then its hash.  An answer that fails, is
\* cut off or too long ends the command like a wrong hash: FailCommand.
Download(p, a) ==
  /\ pc[p] = "request"
  /\ \E r \in job[p] : HashOk(r, a)
  /\ bytes' = [bytes EXCEPT ![p] = {a}]
  /\ pc' = [pc EXCEPT ![p] = "open"]
  /\ UNCHANGED <<cached, pinned, job, pos, commands, history>>

\* fs::write opens and truncates the file ...
OpenCached(p) ==
  /\ pc[p] = "open"
  /\ \E r \in job[p] :
       /\ cached' = [cached EXCEPT ![CachePath(r)] = NoFile]
       /\ opener' = [opener EXCEPT ![CachePath(r)] = p]
       /\ undisturbed' = {q \in undisturbed \cup {p} :
            q = p \/ \A o \in job[q] : CachePath(o) # CachePath(r)}
  /\ pc' = [pc EXCEPT ![p] = "write"]
  /\ pos' = [pos EXCEPT ![p] = 0]
  /\ UNCHANGED <<pinned, job, bytes, commands>>

\* ... and writes it, chunk by chunk.
WriteCached(p) ==
  /\ pc[p] = "write"
  /\ \E r \in job[p], a \in bytes[p] :
       /\ pos[p] < Chunks[a]
       /\ cached' = [cached EXCEPT ![CachePath(r)] =
                       WriteAt(@, pos[p] + 1, Whole(a)[pos[p] + 1])]
  /\ pos' = [pos EXCEPT ![p] = @ + 1]
  /\ UNCHANGED <<pinned, pc, job, bytes, commands, history>>

\* The file is written: cache_release returns its path.
ReturnPath(p) ==
  /\ pc[p] = "write"
  /\ \E r \in job[p], a \in bytes[p] :
       /\ pos[p] = Chunks[a]
       /\ opener' = [opener EXCEPT ![CachePath(r)] = IF @ = p THEN "none" ELSE @]
  /\ pc' = [pc EXCEPT ![p] = "pin"]
  /\ bytes' = [bytes EXCEPT ![p] = {}]
  /\ pos' = [pos EXCEPT ![p] = 0]
  /\ UNCHANGED <<cached, pinned, job, commands, undisturbed>>

-----------------------------------------------------------------------------
(* pin_tool_into_project: fs::copy.                                        *)

\* Mutant of OpenPinned: the file is opened without truncating it.
OpenPinnedInPlace(p) ==
  /\ pc[p] = "pin"
  /\ pc' = [pc EXCEPT ![p] = "copy"]
  /\ UNCHANGED <<cached, pinned, job, bytes, pos, commands, history>>

\* The processes that are copying to this name.
Copying(n) == {q \in Processes : pc[q] = "copy" /\ \E r \in job[q] : r.name = n}

OpenPinned(p) ==
  /\ pc[p] = "pin"
  /\ \E r \in job[p] :
       /\ pinned' = [pinned EXCEPT ![r.name] = NoFile]
       /\ undisturbed' = {q \in undisturbed :
            IF q = p THEN Copying(r.name) = {} ELSE \A o \in job[q] : o.name # r.name}
  /\ pc' = [pc EXCEPT ![p] = "copy"]
  /\ UNCHANGED <<cached, job, bytes, pos, commands, opener>>

\* One chunk is read at the reader's position and written at the writer's.
CopyChunk(p) ==
  /\ pc[p] = "copy"
  /\ \E r \in job[p] :
       /\ pos[p] < Len(cached[CachePath(r)])
       /\ pinned' = [pinned EXCEPT ![r.name] =
                       WriteAt(@, pos[p] + 1, cached[CachePath(r)][pos[p] + 1])]
  /\ pos' = [pos EXCEPT ![p] = @ + 1]
  /\ UNCHANGED <<cached, pc, job, bytes, commands, history>>

\* The end of the source, wherever it is now, is the end of the copy.
Pinned(p) ==
  /\ pc[p] = "copy"
  /\ \E r \in job[p] : pos[p] >= Len(cached[CachePath(r)])
  /\ pc' = [pc EXCEPT ![p] = "pinned"]
  /\ pos' = [pos EXCEPT ![p] = 0]
  /\ UNCHANGED <<cached, pinned, job, bytes, commands, history>>

-----------------------------------------------------------------------------

\* A step fails, or the process stops: what was done stays done.
FailCommand(p) ==
  /\ pc[p] \notin Resting
  /\ pc' = [pc EXCEPT ![p] = "failed"]
  /\ job' = [job EXCEPT ![p] = {}]
  /\ bytes' = [bytes EXCEPT ![p] = {}]
  /\ pos' = [pos EXCEPT ![p] = 0]
  /\ undisturbed' = undisturbed \ {p}
  /\ UNCHANGED <<cached, pinned, commands, opener>>

Step(p) ==
  \/ \E index \in Indexes, r \in Releases : Begin(p, index, r.ver, r.platform)
  \/ \E a \in Artifacts : Download(p, a)
  \/ OpenCached(p) \/ WriteCached(p) \/ ReturnPath(p)
  \/ OpenPinned(p) \/ CopyChunk(p) \/ Pinned(p) \/ FailCommand(p)

Rest == (\A p \in Processes : pc[p] \in Resting) /\ UNCHANGED vars

Next == Rest \/ \E p \in Processes : Step(p)

Spec == Init /\ [][Next]_vars

-----------------------------------------------------------------------------
(* Properties.                                                             *)

\* What lies in the cache was verified under the hash that its path names:
\* every chunk of a cached file is a hole or the chunk at that position of the
\* artifact with the hash of the path, whichever processes write it together
\* and wherever they stop (registry.rs:226, 235; project_layout.rs:13).
CachedIsVerified ==
  \A r \in Releases : \A i \in DOMAIN cached[CachePath(r)] :
    /\ i <= Chunks[r.sha256]
    /\ cached[CachePath(r)][i] \in {Zero, Whole(r.sha256)[i]}

\* A cached file is whole when the process that truncated it last has written
\* its download, even if others are in the middle of writing the same path or
\* have died there: same path, same bytes (registry.rs:235).
CacheEndsWhole ==
  \A r \in Releases :
    opener[CachePath(r)] = "none" => cached[CachePath(r)] \in {NoFile, Whole(r.sha256)}

\* A command that has succeeded, and that nobody has disturbed in the cache path
\* and the project file it used, has left the verified artifact, and nothing
\* else, under the pinned name (registry.rs:254).
PinnedIsWhole ==
  \A p \in undisturbed : pc[p] = "pinned" =>
    \A r \in job[p] : pinned[r.name] = Whole(r.sha256)
=============================================================================
