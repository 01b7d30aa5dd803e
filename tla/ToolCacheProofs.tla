--------------------------- MODULE ToolCacheProofs ---------------------------
(***************************************************************************)
(* What holds of ToolCache for any number of processes, artifacts of any   *)
(* length and any indexes: what lies under a path that names a hash was    *)
(* verified against it, a cached file becomes whole again, and a command   *)
(* that nobody has disturbed leaves the verified artifact.                 *)
(***************************************************************************)
EXTENDS ToolCache, SequenceTheorems, TLAPS

-----------------------------------------------------------------------------
(* Files.                                                                  *)

Chunk == (Artifacts \X Nat) \cup {Zero}

\* Every chunk of f is a hole or the right one for artifact a.
Right(a, f) ==
  Len(f) <= Chunks[a] /\ \A i \in 1..Len(f) : f[i] \in {Zero, Whole(a)[i]}

\* The first n chunks of f are those of artifact a.
UpTo(a, f, n) == n <= Len(f) /\ \A i \in 1..n : f[i] = Whole(a)[i]

LEMMA ReleaseType ==
  ASSUME NEW r \in Releases
  PROVE  /\ r.sha256 \in Artifacts /\ r.name \in Names
         /\ CachePath(r) \in CachePaths /\ CachePath(r)[3] = r.sha256
<1>1. r \in Release
  BY IndexAssumption DEF Releases
<1>. QED BY <1>1 DEF Release, CachePath, CachePaths, Names

LEMMA PathType ==
  ASSUME NEW k \in CachePaths
  PROVE  k[3] \in Artifacts
BY ReleaseType DEF CachePaths

LEMMA WholeType ==
  ASSUME NEW a \in Artifacts
  PROVE  /\ Chunks[a] \in Nat /\ Chunks[a] >= 1
         /\ Whole(a) \in Files /\ Len(Whole(a)) = Chunks[a]
         /\ \A i \in 1..Chunks[a] : Whole(a)[i] = <<a, i>> /\ Whole(a)[i] \in Chunk
<1>1. Chunks[a] \in Nat /\ Chunks[a] >= 1
  BY ArtifactAssumption
<1>2. \A i \in 1..Chunks[a] : <<a, i>> \in (Artifacts \X Nat) \cup {Zero}
  BY <1>1
<1>. QED BY <1>1, <1>2 DEF Whole, Files, Chunk

LEMMA EmptyFile ==
  ASSUME NEW a \in Artifacts
  PROVE  NoFile \in Files /\ Len(NoFile) = 0 /\ Right(a, NoFile) /\ UpTo(a, NoFile, 0)
BY WholeType DEF NoFile, Files, Right, UpTo

LEMMA IsWhole ==
  ASSUME NEW a \in Artifacts, NEW f \in Files, Len(f) <= Chunks[a], UpTo(a, f, Chunks[a])
  PROVE  f = Whole(a)
<1>1. Len(f) = Len(Whole(a)) /\ Whole(a) \in Files
  BY WholeType DEF Files, UpTo
<1>2. \A i \in 1..Len(f) : f[i] = Whole(a)[i]
  BY <1>1, WholeType DEF UpTo
<1>. QED BY <1>1, <1>2, SeqEqual DEF Files

LEMMA WholeIsRight ==
  ASSUME NEW a \in Artifacts
  PROVE  Right(a, Whole(a)) /\ UpTo(a, Whole(a), Chunks[a])
BY WholeType DEF Right, UpTo

\* g is f with chunk c written at place i.
Written(f, i, c, g) ==
  /\ g \in Files
  /\ Len(g) = IF i > Len(f) THEN i ELSE Len(f)
  /\ \A k \in 1..Len(g) : g[k] = IF k = i THEN c ELSE IF k <= Len(f) THEN f[k] ELSE Zero

LEMMA WriteAtType ==
  ASSUME NEW f \in Files, NEW i \in Nat, i >= 1, NEW c \in Chunk
  PROVE  Written(f, i, c, WriteAt(f, i, c))
<1> DEFINE n == IF i > Len(f) THEN i ELSE Len(f)
<1>1. n \in Nat /\ Len(f) \in Nat
  BY DEF Files
<1>2. \A k \in 1..n : (IF k = i THEN c ELSE IF k <= Len(f) THEN f[k] ELSE Zero) \in Chunk
  BY <1>1 DEF Files, Chunk
<1> HIDE DEF n
<1>3. WriteAt(f, i, c) = [k \in 1..n |-> IF k = i THEN c ELSE IF k <= Len(f) THEN f[k] ELSE Zero]
  BY DEF WriteAt, n
<1>4. WriteAt(f, i, c) \in Seq(Chunk) /\ Len(WriteAt(f, i, c)) = n
  BY <1>1, <1>2, <1>3
<1>. QED BY <1>3, <1>4 DEF Files, Chunk, n, Written

\* Writing the right chunk at its place.
LEMMA WriteRight ==
  ASSUME NEW a \in Artifacts, NEW f \in Files, Right(a, f), NEW i \in 1..Chunks[a],
         NEW g, g = WriteAt(f, i, Whole(a)[i])
  PROVE  /\ g \in Files /\ Right(a, g)
         /\ \A n \in Nat : UpTo(a, f, n) => UpTo(a, g, n)
         /\ UpTo(a, f, i - 1) => UpTo(a, g, i)
         /\ Len(f) = i - 1 => Len(g) = i
         /\ f = Whole(a) => g = Whole(a)
<1>1. i \in Nat /\ i >= 1 /\ Chunks[a] \in Nat /\ Len(f) \in Nat /\ Whole(a)[i] \in Chunk
  BY WholeType DEF Files
<1>2. /\ g \in Files /\ Len(g) = (IF i > Len(f) THEN i ELSE Len(f))
      /\ \A k \in 1..Len(g) :
           g[k] = IF k = i THEN Whole(a)[i] ELSE IF k <= Len(f) THEN f[k] ELSE Zero
  <2>1. Written(f, i, Whole(a)[i], g)
    BY <1>1, WriteAtType
  <2>. QED BY <2>1 DEF Written
<1>3. Right(a, g)
  BY <1>1, <1>2 DEF Right
<1>4. ASSUME NEW n \in Nat, UpTo(a, f, n) PROVE UpTo(a, g, n)
  BY <1>1, <1>2, <1>4 DEF UpTo
<1>5. ASSUME UpTo(a, f, i - 1) PROVE UpTo(a, g, i)
  BY <1>1, <1>2, <1>5 DEF UpTo
<1>6. ASSUME f = Whole(a) PROVE g = Whole(a)
  BY <1>1, <1>2, <1>3, <1>4, <1>6, WholeIsRight, IsWhole DEF Right
<1>. QED BY <1>1, <1>2, <1>3, <1>4, <1>5, <1>6

-----------------------------------------------------------------------------
(* Types, and what a process holds.                                        *)

\* A process has at most one release, and bytes only until they are written,
\* with the hash of the release.
HoldsRight ==
  \A p \in Processes :
    /\ pc[p] \in {"open", "write"} \/ bytes[p] = {}
    /\ \A r, s \in job[p] : s = r
    /\ \A r \in job[p], a \in bytes[p] : a = r.sha256

\* A process writes no further than to the end of its artifact.
InBounds ==
  \A p \in Processes :
    /\ pc[p] \in {"write", "copy"} \/ pos[p] = 0
    /\ pc[p] = "write" => \A a \in bytes[p] : pos[p] <= Chunks[a]

TInv == TypeOK /\ HoldsRight /\ InBounds

LEMMA TInit == Init => TInv
<1> SUFFICES ASSUME Init PROVE TInv
  OBVIOUS
<1>1. NoFile \in Files
  BY DEF NoFile, Files
<1>. QED
  BY <1>1, CommandAssumption DEF Init, TInv, TypeOK, HoldsRight, InBounds, Steps

\* What a process reads of a cached file is a chunk.
LEMMA CachedChunk ==
  ASSUME TypeOK, NEW r \in Releases, NEW i \in 1..Len(cached[CachePath(r)])
  PROVE  cached[CachePath(r)][i] \in Chunk
<1>1. cached[CachePath(r)] \in Files
  BY ReleaseType DEF TypeOK
<1>. QED BY <1>1 DEF Files, Chunk

LEMMA BeginTypes ==
  ASSUME TInv, NEW p \in Processes, NEW index \in Indexes, NEW r \in Releases,
         Begin(p, index, r.ver, r.platform)
  PROVE  TInv'
<1>1. PICK x \in Selected(index, r.ver, r.platform) : job' = [job EXCEPT ![p] = {x}]
  BY DEF Begin
<1>2. x \in Releases
  BY <1>1 DEF Selected, Releases
<1>3. pc[p] \in Resting /\ bytes[p] = {} /\ pos[p] = 0 /\ bytes' = bytes /\ pos' = pos
  BY DEF Begin, Resting, TInv, HoldsRight, InBounds
<1>4. pc' = [pc EXCEPT ![p] = "request"] /\ pc \in [Processes -> Steps]
  BY DEF Begin, TInv, TypeOK
<1>5. job \in [Processes -> SUBSET Releases]
  BY DEF TInv, TypeOK
<1>6. TypeOK'
  <2>1. job' \in [Processes -> SUBSET Releases]
    BY <1>1, <1>2, <1>5
  <2>2. commands' \in 0..MaxCommands
    BY CommandAssumption DEF Begin, TInv, TypeOK
  <2>3. pc' \in [Processes -> Steps]
    BY <1>4 DEF Steps
  <2>. QED BY <2>1, <2>2, <2>3 DEF Begin, TInv, TypeOK
<1>7. HoldsRight'
  <2> SUFFICES ASSUME NEW q \in Processes
      PROVE  /\ pc'[q] \in {"open", "write"} \/ bytes'[q] = {}
             /\ \A y, z \in job'[q] : z = y
             /\ \A y \in job'[q], b \in bytes'[q] : b = y.sha256
    BY DEF HoldsRight
  <2>1. CASE q = p
    BY <1>1, <1>3, <1>5, <2>1
  <2>2. CASE q # p
    BY <1>1, <1>3, <1>4, <1>5, <2>2 DEF TInv, HoldsRight
  <2>. QED BY <2>1, <2>2
<1>8. InBounds'
  <2> SUFFICES ASSUME NEW q \in Processes
      PROVE  /\ pc'[q] \in {"write", "copy"} \/ pos'[q] = 0
             /\ pc'[q] = "write" => \A b \in bytes'[q] : pos'[q] <= Chunks[b]
    BY DEF InBounds
  <2>1. CASE q = p
    BY <1>3, <1>4, <2>1
  <2>2. CASE q # p
    BY <1>3, <1>4, <2>2 DEF TInv, InBounds
  <2>. QED BY <2>1, <2>2
<1>. QED BY <1>6, <1>7, <1>8 DEF TInv

LEMMA TNext == TInv /\ [Next]_vars => TInv'
<1> SUFFICES ASSUME TInv, [Next]_vars PROVE TInv'
  OBVIOUS
<1> USE CommandAssumption DEF TInv, TypeOK, HoldsRight, InBounds, Steps
<1>0. NoFile \in Files
  BY DEF NoFile, Files
<1>1. ASSUME NEW p \in Processes, NEW index \in Indexes, NEW r \in Releases,
             Begin(p, index, r.ver, r.platform)
      PROVE  TInv'
  BY <1>1, BeginTypes
<1>2. ASSUME NEW p \in Processes, NEW a \in Artifacts, Download(p, a)
      PROVE  TInv'
  BY <1>2 DEF Download, HashOk, history
<1>3. ASSUME NEW p \in Processes, OpenCached(p)
      PROVE  TInv'
  <2>1. PICK r \in job[p] :
          /\ cached' = [cached EXCEPT ![CachePath(r)] = NoFile]
          /\ opener' = [opener EXCEPT ![CachePath(r)] = p]
    BY <1>3 DEF OpenCached
  <2>2. cached' \in [CachePaths -> Files] /\ opener' \in [CachePaths -> Processes \cup {"none"}]
    BY <1>0, <2>1, ReleaseType
  <2>3. undisturbed' \subseteq Processes
    BY <1>3 DEF OpenCached
  <2>4. \A a \in Artifacts : 0 <= Chunks[a]
    BY WholeType
  <2>. QED BY <1>3, <2>2, <2>3, <2>4 DEF OpenCached
<1>4. ASSUME NEW p \in Processes, WriteCached(p)
      PROVE  TInv'
  <2>1. PICK r \in job[p], a \in bytes[p] :
          /\ pos[p] < Chunks[a]
          /\ cached' = [cached EXCEPT ![CachePath(r)] =
                          WriteAt(@, pos[p] + 1, Whole(a)[pos[p] + 1])]
    BY <1>4 DEF WriteCached
  <2>2. a \in Artifacts /\ Chunks[a] \in Nat /\ pos[p] + 1 \in 1..Chunks[a]
    BY <2>1, WholeType
  <2>3. cached' \in [CachePaths -> Files]
    BY <2>1, <2>2, ReleaseType, WholeType, WriteAtType DEF Written
  <2>4. \A b \in bytes[p] : pos[p] + 1 <= Chunks[b]
    BY <2>1, <2>2
  <2>. QED BY <1>4, <2>3, <2>4 DEF WriteCached, history
<1>5. ASSUME NEW p \in Processes, ReturnPath(p)
      PROVE  TInv'
  <2>1. opener' \in [CachePaths -> Processes \cup {"none"}]
    BY <1>5, ReleaseType DEF ReturnPath
  <2>. QED BY <1>5, <2>1 DEF ReturnPath
<1>6. ASSUME NEW p \in Processes, OpenPinned(p)
      PROVE  TInv'
  <2>1. pinned' \in [Names -> Files] /\ undisturbed' \subseteq Processes
    BY <1>0, <1>6, ReleaseType DEF OpenPinned
  <2>. QED BY <1>6, <2>1 DEF OpenPinned
<1>7. ASSUME NEW p \in Processes, CopyChunk(p)
      PROVE  TInv'
  <2>1. PICK r \in job[p] :
          /\ pos[p] < Len(cached[CachePath(r)])
          /\ pinned' = [pinned EXCEPT ![r.name] =
                          WriteAt(@, pos[p] + 1, cached[CachePath(r)][pos[p] + 1])]
    BY <1>7 DEF CopyChunk
  <2>2. Len(cached[CachePath(r)]) \in Nat
    BY ReleaseType DEF Files
  <2>3. cached[CachePath(r)][pos[p] + 1] \in Chunk
    BY <2>1, <2>2, CachedChunk
  <2> DEFINE c == cached[CachePath(r)][pos[p] + 1]
             g == WriteAt(pinned[r.name], pos[p] + 1, c)
  <2> HIDE DEF c
  <2>5. r.name \in Names /\ pinned[r.name] \in Files
    BY ReleaseType
  <2>6. pos[p] + 1 \in Nat /\ pos[p] + 1 >= 1 /\ c \in Chunk
    BY <2>3 DEF c
  <2>7. g \in Files
    BY <2>5, <2>6, WriteAtType DEF Written
  <2> HIDE DEF g
  <2>8. pinned' = [pinned EXCEPT ![r.name] = g]
    BY <2>1 DEF c, g
  <2>4. pinned' \in [Names -> Files]
    BY <2>7, <2>8
  <2>. QED BY <1>7, <2>4 DEF CopyChunk, history
<1>8. ASSUME NEW p \in Processes, Pinned(p)
      PROVE  TInv'
  BY <1>8 DEF Pinned, history
<1>10. ASSUME NEW p \in Processes, FailCommand(p)
      PROVE  TInv'
  BY <1>10 DEF FailCommand
<1>9. CASE UNCHANGED vars
  BY <1>9 DEF vars
<1>. QED
  BY <1>1, <1>2, <1>3, <1>4, <1>5, <1>6, <1>7, <1>8, <1>9, <1>10 DEF Next, Rest, Step

\* Every variable keeps its type.
THEOREM TypeCorrect == Spec => []TypeOK
<1>1. TInv => TypeOK
  BY DEF TInv
<1>. QED BY <1>1, TInit, TNext, PTL DEF Spec

-----------------------------------------------------------------------------
(* The cache.                                                              *)

\* Process p is writing the cached file at path k.
Writing(p, k) == pc[p] = "write" /\ \E r \in job[p] : CachePath(r) = k

\* Under a path lie right chunks and holes.
RightChunks == \A k \in CachePaths : Right(k[3], cached[k])

\* The last process to truncate a file is the one that makes it whole: its own
\* position is the length of the part without holes, and once it is through the
\* others write what is there already.
OpenerFills ==
  \A k \in CachePaths :
    /\ \A p \in Processes :
         opener[k] = p /\ Writing(p, k) => UpTo(k[3], cached[k], pos[p])
    /\ opener[k] = "none" =>
         \/ cached[k] = Whole(k[3])
         \/ cached[k] = NoFile /\ \A p \in Processes : ~Writing(p, k)

CInv == RightChunks /\ OpenerFills

\* What a writing process does to its file, and to no other.
LEMMA CachedStep ==
  ASSUME TInv, RightChunks, NEW p \in Processes, WriteCached(p)
  PROVE  \E r \in Releases :
           /\ job[p] = {r} /\ pc[p] = "write" /\ pc' = pc /\ job' = job
           /\ pos' = [pos EXCEPT ![p] = pos[p] + 1]
           /\ \A k \in CachePaths :
                /\ k # CachePath(r) => cached'[k] = cached[k]
                /\ cached'[k] \in Files /\ Right(k[3], cached'[k])
                /\ \A n \in Nat : UpTo(k[3], cached[k], n) => UpTo(k[3], cached'[k], n)
                /\ cached[k] = Whole(k[3]) => cached'[k] = Whole(k[3])
           /\ UpTo(r.sha256, cached[CachePath(r)], pos[p])
                => UpTo(r.sha256, cached'[CachePath(r)], pos[p] + 1)
<1>1. PICK r \in job[p], a \in bytes[p] :
        /\ pos[p] < Chunks[a]
        /\ cached' = [cached EXCEPT ![CachePath(r)] =
                        WriteAt(@, pos[p] + 1, Whole(a)[pos[p] + 1])]
  BY DEF WriteCached
<1>2. r \in Releases /\ job[p] = {r} /\ a = r.sha256
  BY DEF TInv, TypeOK, HoldsRight
<1>3. a \in Artifacts /\ CachePath(r) \in CachePaths /\ CachePath(r)[3] = a
  BY <1>2, ReleaseType
<1>4. pos[p] \in Nat /\ cached \in [CachePaths -> Files]
  BY DEF TInv, TypeOK
<1>5. pos[p] + 1 \in 1..Chunks[a] /\ (pos[p] + 1) - 1 = pos[p]
  BY <1>1, <1>3, <1>4, WholeType
<1> DEFINE f == cached[CachePath(r)]
           g == WriteAt(f, pos[p] + 1, Whole(a)[pos[p] + 1])
<1>6. f \in Files /\ Right(a, f)
  BY <1>3, <1>4 DEF RightChunks
<1> HIDE DEF f
<1>7. /\ g \in Files /\ Right(a, g)
      /\ \A n \in Nat : UpTo(a, f, n) => UpTo(a, g, n)
      /\ UpTo(a, f, (pos[p] + 1) - 1) => UpTo(a, g, pos[p] + 1)
      /\ f = Whole(a) => g = Whole(a)
  BY <1>3, <1>5, <1>6, WriteRight
<1> HIDE DEF g
<1>8. cached' = [cached EXCEPT ![CachePath(r)] = g]
  BY <1>1 DEF f, g
<1>9. cached'[CachePath(r)] = g
  BY <1>3, <1>4, <1>8
<1>10. \A k \in CachePaths : k # CachePath(r) => cached'[k] = cached[k]
  BY <1>4, <1>8
<1>11. UpTo(r.sha256, cached[CachePath(r)], pos[p])
         => UpTo(r.sha256, cached'[CachePath(r)], pos[p] + 1)
  BY <1>2, <1>5, <1>7, <1>9 DEF f
<1>12. ASSUME NEW k \in CachePaths
       PROVE  /\ k # CachePath(r) => cached'[k] = cached[k]
              /\ cached'[k] \in Files /\ Right(k[3], cached'[k])
              /\ \A n \in Nat : UpTo(k[3], cached[k], n) => UpTo(k[3], cached'[k], n)
              /\ cached[k] = Whole(k[3]) => cached'[k] = Whole(k[3])
  <2>1. CASE k = CachePath(r)
    BY <1>3, <1>7, <1>9, <2>1 DEF f
  <2>2. CASE k # CachePath(r)
    <3>1. cached'[k] = cached[k] /\ cached[k] \in Files /\ Right(k[3], cached[k])
      BY <1>4, <1>10, <2>2 DEF RightChunks
    <3>. QED BY <3>1
  <2>. QED BY <2>1, <2>2
<1>. QED BY <1>2, <1>11, <1>12 DEF WriteCached

\* What opening does: the file is empty.
LEMMA OpenStep ==
  ASSUME TInv, NEW p \in Processes, OpenCached(p)
  PROVE  \E r \in Releases :
           /\ job[p] = {r} /\ job' = job
           /\ pc' = [pc EXCEPT ![p] = "write"] /\ pos' = [pos EXCEPT ![p] = 0]
           /\ opener' = [opener EXCEPT ![CachePath(r)] = p]
           /\ cached'[CachePath(r)] = NoFile
           /\ \A k \in CachePaths : k # CachePath(r) => cached'[k] = cached[k]
           /\ undisturbed' = {q \in undisturbed \cup {p} :
                q = p \/ \A o \in job[q] : CachePath(o) # CachePath(r)}
<1>1. PICK r \in job[p] :
        /\ cached' = [cached EXCEPT ![CachePath(r)] = NoFile]
        /\ opener' = [opener EXCEPT ![CachePath(r)] = p]
        /\ undisturbed' = {q \in undisturbed \cup {p} :
             q = p \/ \A o \in job[q] : CachePath(o) # CachePath(r)}
  BY DEF OpenCached
<1>2. r \in Releases /\ job[p] = {r}
  BY DEF TInv, TypeOK, HoldsRight
<1>3. cached \in [CachePaths -> Files] /\ CachePath(r) \in CachePaths
  BY <1>2, ReleaseType DEF TInv, TypeOK
<1>4. cached'[CachePath(r)] = NoFile /\ \A k \in CachePaths : k # CachePath(r) => cached'[k] = cached[k]
  BY <1>1, <1>3
<1>. QED BY <1>1, <1>2, <1>4 DEF OpenCached

LEMMA CInit == Init => CInv
<1> SUFFICES ASSUME Init PROVE CInv
  OBVIOUS
<1> SUFFICES ASSUME NEW k \in CachePaths
    PROVE  Right(k[3], cached[k]) /\ cached[k] = NoFile /\ opener[k] = "none"
             /\ \A p \in Processes : ~Writing(p, k)
  BY ProcessAssumption DEF CInv, RightChunks, OpenerFills
<1>1. k[3] \in Artifacts
  BY PathType
<1>. QED BY <1>1, EmptyFile DEF Init, Writing

LEMMA CNext == TInv /\ CInv /\ [Next]_vars => CInv'
<1> SUFFICES ASSUME TInv, CInv, [Next]_vars PROVE CInv'
  OBVIOUS
<1>1. ASSUME NEW p \in Processes, OpenCached(p) PROVE CInv'
  <2>1. PICK r \in Releases :
           /\ job[p] = {r} /\ job' = job
           /\ pc' = [pc EXCEPT ![p] = "write"] /\ pos' = [pos EXCEPT ![p] = 0]
           /\ opener' = [opener EXCEPT ![CachePath(r)] = p]
           /\ cached'[CachePath(r)] = NoFile
           /\ \A k \in CachePaths : k # CachePath(r) => cached'[k] = cached[k]
    BY <1>1, OpenStep
  <2>2. opener \in [CachePaths -> Processes \cup {"none"}] /\ pc \in [Processes -> Steps]
        /\ pos \in [Processes -> Nat] /\ CachePath(r) \in CachePaths
    BY ReleaseType DEF TInv, TypeOK
  <2> SUFFICES ASSUME NEW k \in CachePaths
      PROVE /\ Right(k[3], cached'[k])
            /\ \A q \in Processes :
                 opener'[k] = q /\ Writing(q, k)' => UpTo(k[3], cached'[k], pos'[q])
            /\ opener'[k] = "none" =>
                 \/ cached'[k] = Whole(k[3])
                 \/ cached'[k] = NoFile /\ \A q \in Processes : ~Writing(q, k)'
    BY DEF CInv, RightChunks, OpenerFills
  <2>3. CASE k = CachePath(r)
    <3>1. opener'[k] = p /\ pos'[p] = 0 /\ cached'[k] = NoFile
      BY <2>1, <2>2, <2>3
    <3>2. Right(k[3], NoFile) /\ UpTo(k[3], NoFile, 0)
      BY PathType, EmptyFile
    <3>. QED BY <3>1, <3>2, ProcessAssumption
  <2>4. CASE k # CachePath(r)
    <3>1. opener'[k] = opener[k] /\ cached'[k] = cached[k]
      BY <2>1, <2>2, <2>4
    <3>2. \A q \in Processes : Writing(q, k)' => Writing(q, k) /\ pos'[q] = pos[q]
      BY <2>1, <2>2, <2>4 DEF Writing
    <3>. QED BY <3>1, <3>2 DEF CInv, RightChunks, OpenerFills
  <2>. QED BY <2>3, <2>4
<1>2. ASSUME NEW p \in Processes, WriteCached(p) PROVE CInv'
  <2>1. PICK r \in Releases :
           /\ job[p] = {r} /\ pc[p] = "write" /\ pc' = pc /\ job' = job
           /\ pos' = [pos EXCEPT ![p] = pos[p] + 1]
           /\ \A k \in CachePaths :
                /\ k # CachePath(r) => cached'[k] = cached[k]
                /\ Right(k[3], cached'[k])
                /\ \A n \in Nat : UpTo(k[3], cached[k], n) => UpTo(k[3], cached'[k], n)
                /\ cached[k] = Whole(k[3]) => cached'[k] = Whole(k[3])
           /\ UpTo(r.sha256, cached[CachePath(r)], pos[p])
                => UpTo(r.sha256, cached'[CachePath(r)], pos[p] + 1)
    BY <1>2, CachedStep DEF CInv
  <2>2. opener' = opener /\ pos \in [Processes -> Nat]
    BY <1>2 DEF WriteCached, history, TInv, TypeOK
  <2>3. \A q \in Processes, k \in CachePaths : Writing(q, k)' <=> Writing(q, k)
    BY <2>1 DEF Writing
  <2> SUFFICES ASSUME NEW k \in CachePaths
      PROVE /\ \A q \in Processes :
                 opener[k] = q /\ Writing(q, k) => UpTo(k[3], cached'[k], pos'[q])
            /\ opener[k] = "none" =>
                 \/ cached'[k] = Whole(k[3])
                 \/ cached'[k] = NoFile /\ \A q \in Processes : ~Writing(q, k)
    BY <2>1, <2>2, <2>3 DEF CInv, RightChunks, OpenerFills
  <2>4. ASSUME NEW q \in Processes, opener[k] = q, Writing(q, k)
        PROVE  UpTo(k[3], cached'[k], pos'[q])
    <3>1. UpTo(k[3], cached[k], pos[q])
      BY <2>4 DEF CInv, OpenerFills
    <3>2. CASE q = p
      <4>1. k = CachePath(r) /\ k[3] = r.sha256 /\ pos'[q] = pos[p] + 1
        BY <2>1, <2>2, <2>4, <3>2, ReleaseType DEF Writing
      <4>. QED BY <2>1, <3>1, <3>2, <4>1
    <3>3. CASE q # p
      BY <2>1, <2>2, <3>1, <3>3
    <3>. QED BY <3>2, <3>3
  <2>5. ASSUME opener[k] = "none"
        PROVE  \/ cached'[k] = Whole(k[3])
               \/ cached'[k] = NoFile /\ \A q \in Processes : ~Writing(q, k)
    <3>1. CASE cached[k] = Whole(k[3])
      BY <2>1, <3>1
    <3>2. CASE cached[k] = NoFile /\ \A q \in Processes : ~Writing(q, k)
      BY <2>1, <3>2 DEF Writing
    <3>. QED BY <2>5, <3>1, <3>2 DEF CInv, OpenerFills
  <2>. QED BY <2>4, <2>5
<1>3. ASSUME NEW p \in Processes, ReturnPath(p) PROVE CInv'
  <2>1. PICK r \in job[p], a \in bytes[p] :
       /\ pos[p] = Chunks[a]
       /\ opener' = [opener EXCEPT ![CachePath(r)] = IF @ = p THEN "none" ELSE @]
    BY <1>3 DEF ReturnPath
  <2>2. r \in Releases /\ job[p] = {r} /\ a = r.sha256 /\ opener \in [CachePaths -> Processes \cup {"none"}]
        /\ pc \in [Processes -> Steps] /\ pos \in [Processes -> Nat]
    BY DEF TInv, TypeOK, HoldsRight
  <2>3. /\ cached' = cached /\ job' = job /\ pc[p] = "write"
        /\ pc' = [pc EXCEPT ![p] = "pin"] /\ pos' = [pos EXCEPT ![p] = 0]
    BY <1>3 DEF ReturnPath
  <2>4. Writing(p, CachePath(r)) /\ CachePath(r)[3] = a /\ CachePath(r) \in CachePaths
    BY <2>2, <2>3, ReleaseType DEF Writing
  <2>5. \A q \in Processes, k \in CachePaths :
          Writing(q, k)' => Writing(q, k) /\ q # p /\ pos'[q] = pos[q]
    BY <2>2, <2>3 DEF Writing
  <2>6. opener[CachePath(r)] = p => cached[CachePath(r)] = Whole(a)
    <3> SUFFICES ASSUME opener[CachePath(r)] = p PROVE cached[CachePath(r)] = Whole(a)
      OBVIOUS
    <3>1. UpTo(a, cached[CachePath(r)], Chunks[a])
      BY <2>1, <2>4 DEF CInv, OpenerFills
    <3>2. Right(a, cached[CachePath(r)]) /\ cached[CachePath(r)] \in Files /\ a \in Artifacts
      BY <2>2, <2>4, ReleaseType DEF CInv, RightChunks, TInv, TypeOK
    <3>. QED BY <3>1, <3>2, IsWhole DEF Right
  <2> SUFFICES ASSUME NEW k \in CachePaths
      PROVE /\ \A q \in Processes :
                 opener'[k] = q /\ Writing(q, k)' => UpTo(k[3], cached[k], pos'[q])
            /\ opener'[k] = "none" =>
                 \/ cached[k] = Whole(k[3])
                 \/ cached[k] = NoFile /\ \A q \in Processes : ~Writing(q, k)'
    BY <2>3 DEF CInv, RightChunks, OpenerFills
  <2>7. \/ opener'[k] = opener[k]
        \/ opener'[k] = "none" /\ opener[k] = p /\ k = CachePath(r)
    BY <2>1, <2>2, <2>4
  <2>8. ASSUME NEW q \in Processes, opener'[k] = q, Writing(q, k)'
        PROVE  UpTo(k[3], cached[k], pos'[q])
    <3>1. opener[k] = q /\ Writing(q, k) /\ pos'[q] = pos[q]
      BY <2>5, <2>7, <2>8, ProcessAssumption
    <3>. QED BY <3>1 DEF CInv, OpenerFills
  <2>9. ASSUME opener'[k] = "none"
        PROVE  \/ cached[k] = Whole(k[3])
               \/ cached[k] = NoFile /\ \A q \in Processes : ~Writing(q, k)'
    <3>1. CASE opener'[k] = opener[k]
      BY <2>5, <2>9, <3>1 DEF CInv, OpenerFills
    <3>2. CASE opener[k] = p /\ k = CachePath(r)
      BY <2>4, <2>6, <3>2
    <3>. QED BY <2>7, <3>1, <3>2
  <2>. QED BY <2>8, <2>9
<1>4. ASSUME cached' = cached, opener' = opener,
             \A q \in Processes, k \in CachePaths :
               Writing(q, k)' => Writing(q, k) /\ pos'[q] = pos[q]
      PROVE  CInv'
  BY <1>4 DEF CInv, RightChunks, OpenerFills
<1>5. ASSUME NEW p \in Processes, UNCHANGED <<cached, opener>>,
             pc' = [pc EXCEPT ![p] = pc'[p]], pc'[p] # "write",
             \A q \in Processes : q # p => job'[q] = job[q] /\ pos'[q] = pos[q]
      PROVE  CInv'
  <2>1. pc \in [Processes -> Steps]
    BY DEF TInv, TypeOK
  <2>2. \A q \in Processes, k \in CachePaths :
          Writing(q, k)' => Writing(q, k) /\ pos'[q] = pos[q]
    BY <1>5, <2>1 DEF Writing
  <2>. QED BY <1>4, <1>5, <2>2
<1> DEFINE Typed == /\ pc \in [Processes -> Steps] /\ job \in [Processes -> SUBSET Releases]
                    /\ pos \in [Processes -> Nat]
<1>6. Typed
  BY DEF TInv, TypeOK
<1>7. ASSUME NEW p \in Processes, NEW index \in Indexes, NEW r \in Releases,
             Begin(p, index, r.ver, r.platform)
      PROVE  CInv'
  BY <1>5, <1>6, <1>7 DEF Begin
<1>8. ASSUME NEW p \in Processes, NEW a \in Artifacts, Download(p, a)
      PROVE  CInv'
  BY <1>5, <1>6, <1>8 DEF Download, history
<1>9. ASSUME NEW p \in Processes, OpenPinned(p)
      PROVE  CInv'
  BY <1>5, <1>6, <1>9 DEF OpenPinned
<1>10. ASSUME NEW p \in Processes, CopyChunk(p)
      PROVE  CInv'
  <2>1. pc'[p] # "write" /\ pc' = [pc EXCEPT ![p] = pc'[p]]
    BY <1>6, <1>10 DEF CopyChunk
  <2>. QED BY <1>5, <1>6, <1>10, <2>1 DEF CopyChunk, history
<1>11. ASSUME NEW p \in Processes, Pinned(p)
      PROVE  CInv'
  BY <1>5, <1>6, <1>11 DEF Pinned, history
<1>12. ASSUME NEW p \in Processes, FailCommand(p)
      PROVE  CInv'
  BY <1>5, <1>6, <1>12 DEF FailCommand
<1>13. CASE UNCHANGED vars
  BY <1>4, <1>13 DEF vars, Writing
<1>. QED
  BY <1>1, <1>2, <1>3, <1>7, <1>8, <1>9, <1>10, <1>11, <1>12, <1>13 DEF Next, Rest, Step

\* Whatever lies under a path that names a hash was verified against it, for any
\* number of processes writing at once and stopping anywhere
\* (registry.rs:226, 235; project_layout.rs:13).
THEOREM Verified == Spec => []CachedIsVerified
<1>1. TInv /\ CInv => CachedIsVerified
  <2> SUFFICES ASSUME TInv, CInv, NEW r \in Releases, NEW i \in DOMAIN cached[CachePath(r)]
      PROVE  /\ i <= Chunks[r.sha256]
             /\ cached[CachePath(r)][i] \in {Zero, Whole(r.sha256)[i]}
    BY DEF CachedIsVerified
  <2>1. CachePath(r) \in CachePaths /\ CachePath(r)[3] = r.sha256 /\ r.sha256 \in Artifacts
    BY ReleaseType
  <2>2. cached[CachePath(r)] \in Files /\ Right(r.sha256, cached[CachePath(r)])
    BY <2>1 DEF TInv, TypeOK, CInv, RightChunks
  <2>3. i \in 1..Len(cached[CachePath(r)]) /\ Len(cached[CachePath(r)]) \in Nat
    BY <2>2 DEF Files
  <2>4. Chunks[r.sha256] \in Nat
    BY <2>1, WholeType
  <2>. QED BY <2>2, <2>3, <2>4 DEF Right
<1>. QED BY <1>1, TInit, TNext, CInit, CNext, PTL DEF Spec

\* A cached file is whole whenever the last process to truncate it has written
\* its download (registry.rs:235).
THEOREM EndsWhole == Spec => []CacheEndsWhole
<1>1. TInv /\ CInv => CacheEndsWhole
  BY ReleaseType DEF CInv, OpenerFills, CacheEndsWhole
<1>. QED BY <1>1, TInit, TNext, CInit, CNext, PTL DEF Spec

-----------------------------------------------------------------------------
(* The project.                                                            *)

\* What an undisturbed process has done so far is intact, and nobody else is in
\* the middle of its file of the project.
Intact(p) ==
  /\ pc[p] \in {"write", "pin", "copy", "pinned"}
  /\ \A r \in job[p] :
       /\ pc[p] = "write" => UpTo(r.sha256, cached[CachePath(r)], pos[p])
       /\ pc[p] \in {"pin", "copy"} => cached[CachePath(r)] = Whole(r.sha256)
       /\ pc[p] = "copy" => /\ Len(pinned[r.name]) = pos[p]
                            /\ Right(r.sha256, pinned[r.name])
                            /\ UpTo(r.sha256, pinned[r.name], pos[p])
       /\ pc[p] = "pinned" => pinned[r.name] = Whole(r.sha256)
       /\ pc[p] \in {"copy", "pinned"} =>
            \A q \in Processes \ {p} : pc[q] = "copy" =>
              \A o \in job[q] : o.name # r.name

UInv == \A p \in undisturbed : Intact(p)

\* A process stays intact while the others leave its two files to it: they only
\* add right chunks to the cached one, and copy to other names.
LEMMA LeftAlone ==
  ASSUME TInv, NEW p \in Processes, Intact(p),
         pc'[p] = pc[p], job'[p] = job[p], pos'[p] = pos[p],
         \A r \in job[p] :
           /\ UpTo(r.sha256, cached[CachePath(r)], pos[p])
                => UpTo(r.sha256, cached'[CachePath(r)], pos[p])
           /\ cached[CachePath(r)] = Whole(r.sha256)
                => cached'[CachePath(r)] = Whole(r.sha256)
           /\ pc[p] \in {"copy", "pinned"} => pinned'[r.name] = pinned[r.name]
           /\ \A q \in Processes \ {p} : pc'[q] = "copy" =>
                \A o \in job'[q] : o.name # r.name \/ (pc[q] = "copy" /\ o \in job[q])
  PROVE  Intact(p)'
<1>1. ASSUME NEW r \in job[p]
      PROVE  /\ pc'[p] = "write" => UpTo(r.sha256, cached'[CachePath(r)], pos'[p])
             /\ pc'[p] \in {"pin", "copy"} => cached'[CachePath(r)] = Whole(r.sha256)
             /\ pc'[p] = "copy" => /\ Len(pinned'[r.name]) = pos'[p]
                                   /\ Right(r.sha256, pinned'[r.name])
                                   /\ UpTo(r.sha256, pinned'[r.name], pos'[p])
             /\ pc'[p] = "pinned" => pinned'[r.name] = Whole(r.sha256)
             /\ pc'[p] \in {"copy", "pinned"} =>
                  \A q \in Processes \ {p} : pc'[q] = "copy" =>
                    \A o \in job'[q] : o.name # r.name
  BY DEF Intact
<1>. QED BY <1>1 DEF Intact

LEMMA UNext == TInv /\ CInv /\ UInv /\ [Next]_vars => UInv'
<1> SUFFICES ASSUME TInv, CInv, UInv, [Next]_vars PROVE UInv'
  OBVIOUS
<1>11. undisturbed' \subseteq Processes
  BY TNext DEF TInv, TypeOK
<1> SUFFICES ASSUME NEW p \in Processes, p \in undisturbed' PROVE Intact(p)'
  BY <1>11 DEF UInv
<1>0. /\ pc \in [Processes -> Steps] /\ job \in [Processes -> SUBSET Releases]
      /\ pos \in [Processes -> Nat] /\ cached \in [CachePaths -> Files]
      /\ pinned \in [Names -> Files]
  BY DEF TInv, TypeOK
<1>1. ASSUME NEW q \in Processes, NEW index \in Indexes, NEW r \in Releases,
             Begin(q, index, r.ver, r.platform)
      PROVE  Intact(p)'
  <2>1. p # q /\ p \in undisturbed
    BY <1>1 DEF Begin
  <2>. QED BY <1>0, <1>1, <2>1, LeftAlone DEF Begin, UInv
<1>2. ASSUME NEW q \in Processes, NEW a \in Artifacts, Download(q, a)
      PROVE  Intact(p)'
  <2>1. p # q /\ p \in undisturbed
    BY <1>2 DEF Download, UInv, Intact, history
  <2>. QED BY <1>0, <1>2, <2>1, LeftAlone DEF Download, UInv
<1>3. ASSUME NEW q \in Processes, OpenCached(q)
      PROVE  Intact(p)'
  <2>1. PICK r \in Releases :
           /\ job[q] = {r} /\ job' = job
           /\ pc' = [pc EXCEPT ![q] = "write"] /\ pos' = [pos EXCEPT ![q] = 0]
           /\ cached'[CachePath(r)] = NoFile
           /\ \A k \in CachePaths : k # CachePath(r) => cached'[k] = cached[k]
           /\ undisturbed' = {x \in undisturbed \cup {q} :
                x = q \/ \A o \in job[x] : CachePath(o) # CachePath(r)}
    BY <1>3, OpenStep
  <2>2. CASE p = q
    <3>1. pc'[p] = "write" /\ job'[p] = {r} /\ pos'[p] = 0
      BY <1>0, <2>1, <2>2
    <3>2. UpTo(r.sha256, cached'[CachePath(r)], 0)
      BY <2>1, ReleaseType, EmptyFile
    <3>. QED BY <3>1, <3>2 DEF Intact
  <2>3. CASE p # q
    <3>1. p \in undisturbed /\ \A o \in job[p] : CachePath(o) # CachePath(r)
      BY <2>1, <2>3
    <3>2. \A o \in job[p] : cached'[CachePath(o)] = cached[CachePath(o)]
      BY <1>0, <2>1, <3>1, ReleaseType
    <3>3. pc'[p] = pc[p] /\ job'[p] = job[p] /\ pos'[p] = pos[p] /\ pinned' = pinned
      BY <1>0, <1>3, <2>1, <2>3 DEF OpenCached
    <3>4. \A x \in Processes : pc'[x] = "copy" => pc[x] = "copy" /\ job'[x] = job[x]
      BY <1>0, <2>1
    <3>. QED BY <3>1, <3>2, <3>3, <3>4, LeftAlone DEF UInv
  <2>. QED BY <2>2, <2>3
<1>4. ASSUME NEW q \in Processes, WriteCached(q)
      PROVE  Intact(p)'
  <2>1. PICK r \in Releases :
           /\ job[q] = {r} /\ pc[q] = "write" /\ pc' = pc /\ job' = job
           /\ pos' = [pos EXCEPT ![q] = pos[q] + 1]
           /\ \A k \in CachePaths :
                /\ \A n \in Nat : UpTo(k[3], cached[k], n) => UpTo(k[3], cached'[k], n)
                /\ cached[k] = Whole(k[3]) => cached'[k] = Whole(k[3])
           /\ UpTo(r.sha256, cached[CachePath(r)], pos[q])
                => UpTo(r.sha256, cached'[CachePath(r)], pos[q] + 1)
    BY <1>4, CachedStep DEF CInv
  <2>2. pinned' = pinned /\ p \in undisturbed /\ Intact(p)
    BY <1>4 DEF WriteCached, history, UInv
  <2>3. CASE p = q
    <3>1. pc'[p] = "write" /\ job'[p] = {r} /\ pos'[p] = pos[q] + 1
      BY <1>0, <2>1, <2>3
    <3>2. UpTo(r.sha256, cached'[CachePath(r)], pos[q] + 1)
      BY <2>1, <2>2, <2>3 DEF Intact
    <3>. QED BY <3>1, <3>2 DEF Intact
  <2>4. CASE p # q
    <3>1. \A o \in job[p] : CachePath(o) \in CachePaths /\ CachePath(o)[3] = o.sha256
      BY <1>0, ReleaseType
    <3>2. pos'[p] = pos[p] /\ pos[p] \in Nat
      BY <1>0, <2>1, <2>4
    <3>. QED BY <2>1, <2>2, <3>1, <3>2, LeftAlone
  <2>. QED BY <2>3, <2>4
<1>5. ASSUME NEW q \in Processes, ReturnPath(q)
      PROVE  Intact(p)'
  <2>1. /\ cached' = cached /\ pinned' = pinned /\ job' = job /\ pc[q] = "write"
        /\ pc' = [pc EXCEPT ![q] = "pin"] /\ pos' = [pos EXCEPT ![q] = 0]
        /\ p \in undisturbed
    BY <1>5 DEF ReturnPath
  <2>2. PICK r \in job[q], a \in bytes[q] : pos[q] = Chunks[a]
    BY <1>5 DEF ReturnPath
  <2>3. r \in Releases /\ job[q] = {r} /\ a = r.sha256
    BY <2>2 DEF TInv, TypeOK, HoldsRight
  <2>4. CASE p = q
    <3>1. pc'[p] = "pin" /\ job'[p] = {r}
      BY <1>0, <2>1, <2>3, <2>4
    <3>2. UpTo(a, cached[CachePath(r)], Chunks[a])
      BY <2>1, <2>2, <2>3, <2>4 DEF UInv, Intact
    <3>3. a \in Artifacts /\ cached[CachePath(r)] \in Files /\ Right(a, cached[CachePath(r)])
      BY <1>0, <2>3, ReleaseType DEF CInv, RightChunks
    <3>4. cached[CachePath(r)] = Whole(a)
      BY <3>2, <3>3, IsWhole DEF Right
    <3>. QED BY <2>1, <2>3, <3>1, <3>4 DEF Intact
  <2>5. CASE p # q
    <3>1. pc'[p] = pc[p] /\ pos'[p] = pos[p] /\ \A x \in Processes : pc'[x] = "copy" => pc[x] = "copy"
      BY <1>0, <2>1, <2>5
    <3>. QED BY <2>1, <3>1, LeftAlone DEF UInv
  <2>. QED BY <2>4, <2>5
<1>6. ASSUME NEW q \in Processes, OpenPinned(q)
      PROVE  Intact(p)'
  <2>1. PICK r \in job[q] :
          /\ pinned' = [pinned EXCEPT ![r.name] = NoFile]
          /\ undisturbed' = {x \in undisturbed :
               IF x = q THEN Copying(r.name) = {} ELSE \A o \in job[x] : o.name # r.name}
    BY <1>6 DEF OpenPinned
  <2>2. r \in Releases /\ job[q] = {r}
    BY DEF TInv, TypeOK, HoldsRight
  <2>3. /\ cached' = cached /\ job' = job /\ pos' = pos /\ pc[q] = "pin"
        /\ pc' = [pc EXCEPT ![q] = "copy"] /\ p \in undisturbed /\ Intact(p)
    BY <1>6, <2>1 DEF OpenPinned, UInv
  <2>4. r.sha256 \in Artifacts /\ r.name \in Names /\ \A o \in job[p] : o.name \in Names
    BY <1>0, <2>2, ReleaseType
  <2>5. CASE p = q
    <3>1. pc'[p] = "copy" /\ job'[p] = {r} /\ pinned'[r.name] = NoFile /\ pos'[p] = 0
      BY <1>0, <2>1, <2>2, <2>3, <2>4, <2>5 DEF TInv, InBounds
    <3>2. Len(NoFile) = 0 /\ Right(r.sha256, NoFile) /\ UpTo(r.sha256, NoFile, 0)
      BY <2>4, EmptyFile
    <3>3. cached'[CachePath(r)] = Whole(r.sha256)
      BY <2>2, <2>3, <2>5 DEF Intact
    <3>4. \A x \in Processes \ {p} : pc'[x] = "copy" => \A o \in job'[x] : o.name # r.name
      <4>1. Copying(r.name) = {}
        BY <2>1, <2>5
      <4>. QED BY <1>0, <2>3, <2>5, <4>1 DEF Copying
    <3>. QED BY <3>1, <3>2, <3>3, <3>4 DEF Intact
  <2>6. CASE p # q
    <3>1. \A o \in job[p] : o.name # r.name /\ pinned'[o.name] = pinned[o.name]
      BY <1>0, <2>1, <2>4, <2>6
    <3>2. pc'[p] = pc[p] /\ \A x \in Processes : pc'[x] = "copy" => x = q \/ pc[x] = "copy"
      BY <1>0, <2>3, <2>6
    <3>. QED BY <2>2, <2>3, <3>1, <3>2, LeftAlone
  <2>. QED BY <2>5, <2>6
<1>7. ASSUME NEW q \in Processes, CopyChunk(q)
      PROVE  Intact(p)'
  <2>1. PICK r \in job[q] :
          /\ pos[q] < Len(cached[CachePath(r)])
          /\ pinned' = [pinned EXCEPT ![r.name] =
                          WriteAt(@, pos[q] + 1, cached[CachePath(r)][pos[q] + 1])]
    BY <1>7 DEF CopyChunk
  <2>2. r \in Releases /\ job[q] = {r}
    BY DEF TInv, TypeOK, HoldsRight
  <2>3. /\ cached' = cached /\ job' = job /\ pc' = pc /\ pc[q] = "copy"
        /\ pos' = [pos EXCEPT ![q] = pos[q] + 1] /\ p \in undisturbed /\ Intact(p)
    BY <1>7 DEF CopyChunk, history, UInv
  <2>4. r.sha256 \in Artifacts /\ r.name \in Names /\ \A o \in job[p] : o.name \in Names
    BY <1>0, <2>2, ReleaseType
  <2>5. CASE p = q
    <3> DEFINE a == r.sha256
               f == pinned[r.name]
               g == WriteAt(f, pos[q] + 1, Whole(a)[pos[q] + 1])
    <3>1. /\ cached[CachePath(r)] = Whole(a) /\ Len(f) = pos[q] /\ Right(a, f)
          /\ UpTo(a, f, pos[q])
      BY <2>2, <2>3, <2>5 DEF Intact
    <3>2. /\ a \in Artifacts /\ f \in Files /\ pos[q] + 1 \in 1..Chunks[a]
          /\ (pos[q] + 1) - 1 = pos[q]
      BY <1>0, <2>1, <2>4, <3>1, WholeType
    <3>3. pinned' = [pinned EXCEPT ![r.name] = g]
      BY <2>1, <3>1
    <3> HIDE DEF a, f
    <3>4. Right(a, g) /\ UpTo(a, g, pos[q] + 1) /\ Len(g) = pos[q] + 1
      BY <3>1, <3>2, WriteRight
    <3> HIDE DEF g
    <3>5. pinned'[r.name] = g /\ pos'[p] = pos[q] + 1
      BY <1>0, <2>3, <2>4, <2>5, <3>3
    <3>6. /\ cached'[CachePath(r)] = Whole(a)
          /\ \A x \in Processes \ {p} : pc'[x] = "copy" => \A o \in job'[x] : o.name # r.name
      BY <2>2, <2>3, <2>5 DEF Intact, a
    <3>7. pc'[p] = "copy" /\ job'[p] = {r}
      BY <2>2, <2>3, <2>5
    <3>. QED BY <3>4, <3>5, <3>6, <3>7 DEF Intact, a
  <2>6. CASE p # q
    <3>1. pc[p] \in {"copy", "pinned"} => \A o \in job[p] : r.name # o.name
      BY <2>2, <2>3, <2>6 DEF Intact
    <3>2. pc[p] \in {"copy", "pinned"} => \A o \in job[p] : pinned'[o.name] = pinned[o.name]
      BY <1>0, <2>1, <2>4, <3>1
    <3>3. pos'[p] = pos[p]
      BY <1>0, <2>3, <2>6
    <3>. QED BY <2>3, <3>2, <3>3, LeftAlone
  <2>. QED BY <2>5, <2>6
<1>8. ASSUME NEW q \in Processes, Pinned(q)
      PROVE  Intact(p)'
  <2>1. PICK r \in job[q] : pos[q] >= Len(cached[CachePath(r)])
    BY <1>8 DEF Pinned
  <2>2. r \in Releases /\ job[q] = {r}
    BY DEF TInv, TypeOK, HoldsRight
  <2>3. /\ cached' = cached /\ pinned' = pinned /\ job' = job /\ pc[q] = "copy"
        /\ pc' = [pc EXCEPT ![q] = "pinned"] /\ pos' = [pos EXCEPT ![q] = 0]
        /\ p \in undisturbed /\ Intact(p)
    BY <1>8 DEF Pinned, history, UInv
  <2>4. \A x \in Processes : pc'[x] = "copy" => pc[x] = "copy"
    BY <1>0, <2>3
  <2>5. CASE p = q
    <3> DEFINE a == r.sha256
               f == pinned[r.name]
    <3>1. a \in Artifacts /\ f \in Files /\ Len(Whole(a)) = Chunks[a] /\ Chunks[a] \in Nat
      BY <1>0, <2>2, ReleaseType, WholeType
    <3>2. cached[CachePath(r)] = Whole(a) /\ Len(f) = pos[q] /\ Right(a, f) /\ UpTo(a, f, pos[q])
      BY <2>2, <2>3, <2>5 DEF Intact
    <3>3. pos[q] = Chunks[a]
      BY <1>0, <2>1, <3>1, <3>2 DEF Right
    <3>4. f = Whole(a)
      BY <3>1, <3>2, <3>3, IsWhole DEF Right
    <3>5. pc'[p] = "pinned" /\ job'[p] = {r}
      BY <1>0, <2>2, <2>3, <2>5
    <3>6. \A x \in Processes \ {p} : pc'[x] = "copy" => \A o \in job'[x] : o.name # r.name
      BY <2>2, <2>3, <2>4, <2>5 DEF Intact
    <3>. QED BY <2>3, <3>4, <3>5, <3>6 DEF Intact
  <2>6. CASE p # q
    <3>1. pc'[p] = pc[p] /\ pos'[p] = pos[p]
      BY <1>0, <2>3, <2>6
    <3>. QED BY <2>3, <2>4, <3>1, LeftAlone
  <2>. QED BY <2>5, <2>6
<1>9. ASSUME NEW q \in Processes, FailCommand(q)
      PROVE  Intact(p)'
  <2>1. p # q /\ p \in undisturbed
    BY <1>9 DEF FailCommand
  <2>. QED BY <1>0, <1>9, <2>1, LeftAlone DEF FailCommand, UInv
<1>10. CASE UNCHANGED vars
  <2>1. p \in undisturbed /\ Intact(p)
    BY <1>10 DEF vars, UInv
  <2>. QED BY <1>10, <2>1, LeftAlone DEF vars
<1>. QED
  BY <1>1, <1>2, <1>3, <1>4, <1>5, <1>6, <1>7, <1>8, <1>9, <1>10 DEF Next, Rest, Step

\* A command that succeeds undisturbed has left the verified artifact under the
\* pinned name, whatever the others do elsewhere in the cache and in the
\* project (registry.rs:254).
THEOREM PinnedWhole == Spec => []PinnedIsWhole
<1>1. UInv => PinnedIsWhole
  BY DEF UInv, Intact, PinnedIsWhole
<1>2. Init => UInv
  BY DEF Init, UInv
<1>. QED BY <1>1, <1>2, TInit, TNext, CInit, CNext, UNext, PTL DEF Spec
=============================================================================
