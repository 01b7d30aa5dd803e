--------------------------- MODULE PublishingProofs ---------------------------
(***************************************************************************)
(* For all manifests, keys, alias tables and task files: whatever a task   *)
(* may be dispatched to was signed by the holder of a trusted key, or is a *)
(* package that was copied over it (Signed), no revoked version is         *)
(* installed (Revoked), a package that is made well is (Packs), and a      *)
(* plugin finds under its task's id the parameters of that task (Finds).   *)
(***************************************************************************)
EXTENDS Publishing, FiniteSetTheorems, SequenceTheorems, WellFoundedInduction, TLAPS

\* A package is what Zipped makes, and its signatures have been made.
SoundPackages ==
  \A p \in packages : DOMAIN p = {"manifest", "files", "sig"} /\ p.sig \subseteq signed

\* What a file of an install directory is to a task.
FileAt(place) ==
  [plugin |-> place[1], version |-> place[2], file |-> place[3], binary |-> disk[place]]

\* A place is one in an install directory, and every file in one of a plugin that
\* was never installed in developer mode is a signed build or a copy.
SoundFiles ==
  \A place \in DOMAIN disk :
    place[1] \notin lax => IsSigned(FileAt(place)) \/ IsCopy(FileAt(place))

\* Every row has its file.
RowsHaveFiles == \A r \in rows : <<r.plugin, r.version, r.entry>> \in DOMAIN disk

SoundRows == RowsHaveFiles /\ SoundFiles

SInv == SoundPackages /\ SoundRows /\ OnlySignedRuns

-----------------------------------------------------------------------------
(* Packages.                                                               *)

LEMMA PackageShape ==
  ASSUME NEW m, NEW files, NEW key
  PROVE  DOMAIN Zipped(m, files, key) = {"manifest", "files", "sig"}
BY DEF Zipped

\* However a package arrives, it carries no signature that it was not given.
LEMMA ArrivalSigned ==
  ASSUME NEW q, DOMAIN q = {"manifest", "files", "sig"}, NEW p \in Arrivals(q)
  PROVE  p.sig \subseteq q.sig
<1>1. CASE p = q
  BY <1>1
<1>2. CASE p = [q EXCEPT !.sig = {}]
  BY <1>2
<1>3. ASSUME NEW f \in DOMAIN q.files, NEW b \in Binaries, p = [q EXCEPT !.files[f] = b]
      PROVE  p.sig = q.sig
  BY <1>3
<1>4. ASSUME NEW t \in Templates, p = [q EXCEPT !.manifest.version = t.version]
      PROVE  p.sig = q.sig
  BY <1>4
<1>5. ASSUME NEW b \in Binaries, p = Rebuilt(q, b)
      PROVE  p.sig = q.sig
  BY <1>5 DEF Rebuilt
<1>6. \/ p = q
      \/ p = [q EXCEPT !.sig = {}]
      \/ \E f \in DOMAIN q.files, b \in Binaries : p = [q EXCEPT !.files[f] = b]
      \/ \E t \in Templates : p = [q EXCEPT !.manifest.version = t.version]
      \/ \E b \in Binaries : p = Rebuilt(q, b)
  BY DEF Arrivals
<1>. QED BY <1>1, <1>2, <1>3, <1>4, <1>5, <1>6

-----------------------------------------------------------------------------
(* The steps.                                                              *)

\* A signature that exists is a signature for ever, and a file stays what it is.
LEMMA RowsStay ==
  ASSUME SoundRows, signed \subseteq signed', UNCHANGED host
  PROVE  SoundRows'
<1>1. UNCHANGED <<rows, disk, lax, copies>>
  BY DEF host
<1>2. RowsHaveFiles'
  BY <1>1 DEF SoundRows, RowsHaveFiles
<1> SUFFICES ASSUME NEW place \in DOMAIN disk, place[1] \notin lax
             PROVE  IsSigned(FileAt(place))' \/ IsCopy(FileAt(place))'
  BY <1>1, <1>2 DEF SoundRows, SoundFiles
<1>3. IsSigned(FileAt(place)) => IsSigned(FileAt(place))'
  BY <1>1 DEF IsSigned, FileAt
<1>4. IsCopy(FileAt(place)) => IsCopy(FileAt(place))'
  BY <1>1 DEF IsCopy, FileAt
<1>. QED BY <1>1, <1>3, <1>4 DEF SoundRows, SoundFiles

\* A package that is admitted outside developer mode is signed for the binary
\* that is written.
LEMMA AdmittedIsSigned ==
  ASSUME SoundPackages, NEW q \in packages, NEW p \in Arrivals(q), NEW flags, NEW row,
         Admits(p, flags, row), "dev" \notin flags,
         NEW x, x.plugin = p.manifest.plugin, x.version = p.manifest.version,
         x.binary = p.files[p.manifest.eps[Here].path]
  PROVE  IsSigned(x)
<1> DEFINE m == p.manifest
           s == Signature(Trusted[m.signing], m)
<1>1. m.signing \in DOMAIN Trusted /\ s \in p.sig
  BY DEF Admits, IsTrusted, Verifies
<1>2. s \in signed
  BY <1>1, ArrivalSigned DEF SoundPackages
<1>3. s.key = Trusted[m.signing] /\ s.of = m
  BY DEF Signature
<1>4. Here \in DOMAIN m.eps /\ m.eps[Here].digest = x.binary
  BY DEF Admits, HasBinary
<1>. QED BY <1>1, <1>2, <1>3, <1>4 DEF IsSigned

\* Of the files in the install directories an installation writes three: the
\* binary, and what is copied.
LEMMA WrittenFiles ==
  ASSUME NEW p, NEW name, disk' = Written(p, name)
  PROVE  LET binary == Place(p.manifest, EntryOf(p.manifest))
             two == {Place(p.manifest, name), Place(p.manifest, "manifest.json")}
         IN  /\ DOMAIN disk' = DOMAIN disk \cup {binary} \cup two
             /\ \A place \in two : disk'[place] \in {Archive, Text}
             /\ binary \notin two =>
                  disk'[binary] = p.files[p.manifest.eps[Here].path]
             /\ \A place \in DOMAIN disk :
                  place # binary /\ place \notin two => disk'[place] = disk[place]
<1> DEFINE m == p.manifest
           build == p.files[m.eps[Here].path]
           binary == Place(m, EntryOf(m))
           copy == Place(m, name)
           text == Place(m, "manifest.json")
           d1 == Updated(disk, binary, build)
           d2 == Updated(d1, copy, Archive)
<1>1. disk' = Updated(d2, text, Text)
  BY DEF Written
<1> HIDE DEF build, copy, text, binary
<1>3. /\ DOMAIN d1 = DOMAIN disk \cup {binary} /\ d1[binary] = build
      /\ \A place \in DOMAIN disk : place # binary => d1[place] = disk[place]
  BY DEF Updated
<1> HIDE DEF d1
<1>4. /\ DOMAIN d2 = DOMAIN d1 \cup {copy} /\ d2[copy] = Archive
      /\ \A place \in DOMAIN d1 : place # copy => d2[place] = d1[place]
  BY DEF Updated
<1> HIDE DEF d2
<1>5. /\ DOMAIN disk' = DOMAIN d2 \cup {text} /\ disk'[text] = Text
      /\ \A place \in DOMAIN d2 : place # text => disk'[place] = d2[place]
  BY <1>1 DEF Updated
<1>6. binary \notin {copy, text} => disk'[binary] = build
  BY <1>3, <1>4, <1>5
<1>7. \A place \in {copy, text} : disk'[place] \in {Archive, Text}
  BY <1>4, <1>5
<1>8. DOMAIN disk' = DOMAIN disk \cup {binary} \cup {copy, text}
  BY <1>3, <1>4, <1>5
<1>9. \A place \in DOMAIN disk :
        place # binary /\ place \notin {copy, text} => disk'[place] = disk[place]
  BY <1>3, <1>4, <1>5
<1>. QED BY <1>6, <1>7, <1>8, <1>9 DEF build, binary, copy, text

LEMMA InstallKeeps ==
  ASSUME SInv, NEW q \in packages, NEW p \in Arrivals(q), NEW flags, NEW row, NEW name,
         Install(p, flags, row, name)
  PROVE  SoundRows'
<1> DEFINE m == p.manifest
           build == p.files[m.eps[Here].path]
           binary == Place(m, EntryOf(m))
           two == {Place(m, name), Place(m, "manifest.json")}
<1>1. /\ Admits(p, flags, row)
      /\ disk' = Written(p, name)
      /\ lax' = IF "dev" \in flags THEN lax \cup {m.plugin} ELSE lax
      /\ copies' = copies \cup two
      /\ signed' = signed
  BY DEF Install
<1>2. \A r \in rows' : r \in rows \/ <<r.plugin, r.version, r.entry>> = binary
  BY DEF Install, Place
<1>3. /\ DOMAIN disk' = DOMAIN disk \cup {binary} \cup two
      /\ \A place \in two : disk'[place] \in {Archive, Text}
      /\ binary \notin two => disk'[binary] = build
      /\ \A place \in DOMAIN disk :
           place # binary /\ place \notin two => disk'[place] = disk[place]
  BY <1>1, WrittenFiles
<1>4. RowsHaveFiles'
  BY <1>2, <1>3 DEF RowsHaveFiles, SInv, SoundRows
<1> SUFFICES ASSUME NEW place \in DOMAIN disk', place[1] \notin lax'
             PROVE  IsSigned(FileAt(place)') \/ IsCopy(FileAt(place))'
  BY <1>1, <1>4 DEF SoundRows, SoundFiles, IsSigned
<1> DEFINE x == FileAt(place)'
<1>5. /\ x.plugin = place[1] /\ x.version = place[2] /\ x.file = place[3]
      /\ x.binary = disk'[place]
  BY DEF FileAt
<1>6. CASE place \in two
  <2>1. <<x.plugin, x.version, x.file>> = place
    BY <1>5, <1>6 DEF Place
  <2>2. x.binary \in {Archive, Text} /\ <<x.plugin, x.version, x.file>> \in copies'
    BY <1>1, <1>3, <1>5, <1>6, <2>1
  <2>. QED BY <2>2 DEF IsCopy, FileAt
<1>7. CASE place \notin two /\ place = binary
  <2>1. place[1] = m.plugin /\ place[2] = m.version
    BY <1>7 DEF Place
  <2>2. "dev" \notin flags
    BY <1>1, <2>1
  <2>3. x.plugin = m.plugin /\ x.version = m.version /\ x.binary = build
    BY <1>3, <1>5, <1>7, <2>1
  <2> HIDE DEF x
  <2>4. IsSigned(x)
    BY <1>1, <2>2, <2>3, AdmittedIsSigned DEF SInv
  <2>. QED BY <2>4 DEF x
<1>8. CASE place \notin two /\ place # binary
  <2>1. place \in DOMAIN disk /\ disk'[place] = disk[place] /\ place[1] \notin lax
    BY <1>1, <1>3, <1>8
  <2>2. x = FileAt(place)
    BY <2>1 DEF FileAt
  <2>3. IsSigned(x) \/ IsCopy(x)
    BY <2>1, <2>2 DEF SInv, SoundRows, SoundFiles
  <2>4. IsCopy(FileAt(place)) => IsCopy(FileAt(place))'
    BY <1>1, <2>1 DEF IsCopy, FileAt
  <2>. QED BY <2>2, <2>3, <2>4
<1>. QED BY <1>6, <1>7, <1>8

\* What a key is resolved to is what one of the rows stands for.
LEMMA ResolvedIsStored ==
  ASSUME NEW plugin, NEW version, NEW x \in Resolved(plugin, version)
  PROVE  /\ \E r \in rows : x = At(r)
         /\ x.plugin = plugin
         /\ version # <<>> => x.version \in ToSet(version)
<1>1. PICK r \in rows :
        x = At(r) /\ r.plugin = plugin /\ (version # <<>> => r.version \in ToSet(version))
  BY DEF Resolved, Current, RowsOf
<1>. QED BY <1>1 DEF At

LEMMA DependencyIsStored ==
  ASSUME NEW plugin, NEW x \in ResolvedDeps(plugin)
  PROVE  \E r \in rows : x = At(r)
<1>1. PICK d \in registry[plugin] :
        \E r \in RowsOf(d.plugin, HighestOf(VersionsOf(d.plugin) \cap d.range)) : x = At(r)
  BY DEF ResolvedDeps
<1>. QED BY <1>1 DEF RowsOf

LEMMA RunKeeps ==
  ASSUME SInv, NEW file \in Files, RunFile(file)
  PROVE  OnlySignedRuns'
<1>1. PICK tasks, reached :
        answer' = [of |-> "run", file |-> file,
                   ran |-> {Dispatch(tasks[i], tasks) : i \in reached}]
  BY DEF RunFile
<1>2. UNCHANGED <<signed, rows, disk, lax, registry, copies>>
  BY DEF RunFile, host
<1> SUFFICES ASSUME NEW d \in answer'.ran
             PROVE  /\ \A x \in d.at \cup d.deps :
                         x.plugin \notin lax => IsSigned(x) \/ IsCopy(x)
                    /\ \A x \in d.at :
                         /\ x.plugin = d.task.plugin
                         /\ d.task.version # <<>> => x.version \in ToSet(d.task.version)
  BY <1>2 DEF OnlySignedRuns, IsSigned, IsCopy
<1>3. PICK i \in reached : d = Dispatch(tasks[i], tasks)
  BY <1>1
<1> DEFINE t == tasks[i]
<1>4. /\ d.task = t /\ d.deps = ResolvedDeps(t.plugin)
      /\ d.at = Resolved(t.plugin, t.version)
  BY <1>3 DEF Dispatch
<1>5. \A x \in d.at : /\ \E r \in rows : x = At(r)
                      /\ x.plugin = d.task.plugin
                      /\ d.task.version # <<>> => x.version \in ToSet(d.task.version)
  BY <1>4, ResolvedIsStored
<1>6. ASSUME NEW x \in d.at \cup d.deps, x.plugin \notin lax
      PROVE  IsSigned(x) \/ IsCopy(x)
  <2>1. PICK r \in rows : x = At(r)
    BY <1>4, <1>5, DependencyIsStored
  <2> DEFINE place == <<r.plugin, r.version, r.entry>>
  <2>2. place \in DOMAIN disk /\ x = FileAt(place) /\ place[1] = x.plugin
    BY <2>1 DEF At, FileAt, SInv, SoundRows, RowsHaveFiles
  <2>. QED BY <1>6, <2>2 DEF SInv, SoundRows, SoundFiles
<1>. QED BY <1>5, <1>6

LEMMA SInit == Init => SInv
BY DEF Init, SInv, SoundPackages, SoundRows, RowsHaveFiles, SoundFiles, OnlySignedRuns,
   NoAnswer

LEMMA SNext == SInv /\ [Next]_vars => SInv'
<1> SUFFICES ASSUME SInv, [Next]_vars PROVE SInv'
  OBVIOUS
<1>1. ASSUME NEW t \in Templates, NEW o \in Platforms, NEW b \in Binaries,
             NEW id \in KeyIds, NEW a \in Arguments, Pack(t, o, b, id, a)
      PROVE  SInv'
  <2> DEFINE p == Packed(t, o, b, Key(id, keyFile[id]))
  <2>1. DOMAIN p = {"manifest", "files", "sig"}
    BY PackageShape DEF Packed
  <2>2. /\ UNCHANGED host /\ answer'.of # "run"
        /\ \/ UNCHANGED <<packages, signed>>
           \/ packages' = packages \cup {p} /\ signed' = signed \cup p.sig
    BY <1>1 DEF Pack, Done
  <2>3. SoundPackages' /\ signed \subseteq signed'
    BY <2>1, <2>2 DEF SInv, SoundPackages
  <2>. QED BY <2>2, <2>3, RowsStay DEF SInv, OnlySignedRuns
<1>2. ASSUME NEW t \in Templates, NEW id \in KeyIds, NEW b \in Binaries,
             SignByHand(t, id, b)
      PROVE  SInv'
  <2> DEFINE m == [t EXCEPT !.eps =
                     [o \in DOMAIN t.eps |-> [t.eps[o] EXCEPT !.digest = b]]]
             key == Key(id, keyFile[id])
             p == Zipped(m, [f \in {t.eps[o].path : o \in DOMAIN t.eps} |-> b], key)
  <2>1. DOMAIN p = {"manifest", "files", "sig"} /\ p.sig \subseteq {Signature(key, m)}
    BY DEF Zipped
  <2>2. /\ UNCHANGED host /\ answer'.of # "run"
        /\ packages' = packages \cup {p} /\ signed' = signed \cup {Signature(key, m)}
    BY <1>2 DEF SignByHand, Done
  <2>3. SoundPackages' /\ signed \subseteq signed'
    BY <2>1, <2>2 DEF SInv, SoundPackages
  <2>. QED BY <2>2, <2>3, RowsStay DEF SInv, OnlySignedRuns
<1>3. ASSUME NEW q \in packages, NEW p \in Arrivals(q), NEW flags, NEW row, NEW name,
             Install(p, flags, row, name)
      PROVE  SInv'
  <2>1. UNCHANGED <<packages, signed>> /\ answer'.of # "run"
    BY <1>3 DEF Install, Answered, Done
  <2>. QED BY <1>3, <2>1, InstallKeeps DEF SInv, SoundPackages, OnlySignedRuns
<1>4. ASSUME NEW q \in packages, NEW p \in Arrivals(q), NEW flags, NEW row,
             RefuseInstall(p, flags, row)
      PROVE  SInv'
  <2>1. UNCHANGED <<packages, signed, host>> /\ answer'.of # "run"
    BY <1>4 DEF RefuseInstall, Answered, Done
  <2>. QED BY <2>1, RowsStay DEF SInv, SoundPackages, OnlySignedRuns
<1>5. ASSUME NEW file \in Files, RunFile(file) PROVE SInv'
  <2>1. UNCHANGED <<packages, signed, host>>
    BY <1>5 DEF RunFile
  <2>. QED BY <1>5, <2>1, RunKeeps, RowsStay DEF SInv, SoundPackages
<1>6. CASE SetAliases \/ ReadAnswer \/ \E id \in KeyIds : Keygen(id)
  <2>1. UNCHANGED <<packages, signed, host>> /\ answer'.of # "run"
    BY <1>6 DEF SetAliases, ReadAnswer, Keygen, Done, NoAnswer
  <2>. QED BY <2>1, RowsStay DEF SInv, SoundPackages, OnlySignedRuns
<1>7. CASE UNCHANGED vars
  <2>1. UNCHANGED <<packages, signed, host, answer>>
    BY <1>7 DEF vars
  <2>. QED BY <2>1, RowsStay DEF SInv, SoundPackages, OnlySignedRuns, IsSigned, IsCopy, host
<1>. QED
  BY <1>1, <1>2, <1>3, <1>4, <1>5, <1>6, <1>7 DEF Next, Command

\* The holder of a trusted key has signed, for its plugin, version and
\* platform, whatever a task or one of its dependencies may be resolved to, unless
\* the plugin was ever installed in developer mode or the package or its manifest
\* was copied to the name of the binary (installer.rs:246-298, 580-669,
\* executor.rs:94-229).
THEOREM Signed == Spec => []OnlySignedRuns
<1>1. SInv => OnlySignedRuns
  BY DEF SInv
<1>. QED BY <1>1, SInit, SNext, PTL DEF Spec

-----------------------------------------------------------------------------
(* Types.                                                                  *)

\* The steps that change the keys or the packages.
LEMMA AuthorTypes ==
  ASSUME TypeOK, UNCHANGED host, aliases' \in AliasTables,
         \/ UNCHANGED keyFile
         \/ \E id \in KeyIds : Keygen(id),
         \A p \in packages' : p.sig \subseteq signed'
  PROVE  TypeOK'
<1>1. keyFile' \in [KeyIds -> 0..MaxKeys]
  <2>1. ASSUME NEW id \in KeyIds, Keygen(id) PROVE keyFile' \in [KeyIds -> 0..MaxKeys]
    BY <2>1, BoundAssumption DEF Keygen, TypeOK
  <2>. QED BY <2>1 DEF TypeOK
<1>. QED BY <1>1 DEF TypeOK, host

LEMMA InstallTypes ==
  ASSUME TypeOK, NEW p, NEW flags, NEW row, NEW name, Install(p, flags, row, name)
  PROVE  TypeOK'
<1> DEFINE m == p.manifest
           build == p.files[m.eps[Here].path]
           binary == Place(m, EntryOf(m))
           two == {Place(m, name), Place(m, "manifest.json")}
           new == [plugin |-> m.plugin, version |-> m.version, build |-> build,
                   entry |-> EntryOf(m), caps |-> CapsHash(m)]
           old == {r \in rows : <<r.plugin, r.version, r.build>>
                                 = <<new.plugin, new.version, new.build>>}
<1>1. /\ DOMAIN registry' = DOMAIN registry \cup {m.plugin}
      /\ rows' = (rows \ old) \cup {new}
      /\ lax' \subseteq lax \cup {m.plugin}
      /\ copies' = copies \cup two
      /\ UNCHANGED <<keyFile, packages, signed, aliases>>
  BY DEF Install, Updated
<1>2. DOMAIN disk' = DOMAIN disk \cup {binary} \cup two
  <2>1. disk' = Written(p, name)
    BY DEF Install
  <2>. QED BY <2>1, WrittenFiles
<1>3. \A r \in old : r.plugin = m.plugin
  OBVIOUS
<1>4. new.plugin = m.plugin /\ <<new.plugin, new.version, new.entry>> = binary
  BY DEF Place
<1> HIDE DEF m, build, binary, two, new, old
<1>5. DOMAIN registry' = {r.plugin : r \in rows'}
  BY <1>1, <1>3, <1>4 DEF TypeOK
<1>6. {<<r.plugin, r.version, r.entry>> : r \in rows'} \subseteq DOMAIN disk'
  BY <1>1, <1>2, <1>4 DEF TypeOK
<1>7. copies' \subseteq DOMAIN disk'
  BY <1>1, <1>2 DEF TypeOK
<1>. QED BY <1>1, <1>5, <1>6, <1>7 DEF TypeOK

LEMMA TypesNext == TypeOK /\ SInv /\ [Next]_vars => TypeOK'
<1> SUFFICES ASSUME TypeOK, SInv, [Next]_vars PROVE TypeOK'
  OBVIOUS
<1>1. SoundPackages'
  BY SNext DEF SInv
<1>2. ASSUME NEW p, NEW flags, NEW row, NEW name,
             Install(p, flags, row, name) PROVE TypeOK'
  BY <1>2, InstallTypes
<1>3. ASSUME UNCHANGED host, aliases' \in AliasTables,
             \/ UNCHANGED keyFile
             \/ \E id \in KeyIds : Keygen(id)
      PROVE  TypeOK'
  BY <1>1, <1>3, AuthorTypes DEF SoundPackages
<1>4. ASSUME NEW id \in KeyIds, Keygen(id) PROVE TypeOK'
  BY <1>3, <1>4 DEF Keygen, TypeOK
<1>5. ASSUME NEW t, NEW o, NEW b, NEW id, NEW a, Pack(t, o, b, id, a) PROVE TypeOK'
  BY <1>3, <1>5 DEF Pack, TypeOK
<1>6. ASSUME NEW t, NEW id, NEW b, SignByHand(t, id, b) PROVE TypeOK'
  BY <1>3, <1>6 DEF SignByHand, TypeOK
<1>7. ASSUME NEW p, NEW flags, NEW row, RefuseInstall(p, flags, row) PROVE TypeOK'
  BY <1>3, <1>7 DEF RefuseInstall, TypeOK
<1>8. ASSUME NEW file, RunFile(file) PROVE TypeOK'
  BY <1>3, <1>8 DEF RunFile, TypeOK
<1>9. ASSUME SetAliases \/ ReadAnswer PROVE TypeOK'
  BY <1>3, <1>9 DEF SetAliases, ReadAnswer, TypeOK
<1>10. CASE UNCHANGED vars
  BY <1>3, <1>10 DEF vars, TypeOK
<1>. QED
  BY <1>2, <1>4, <1>5, <1>6, <1>7, <1>8, <1>9, <1>10 DEF Next, Command

\* Every variable has its type, every signature in a package has been made, and
\* registry, rows and install directories speak of the same plugins
\* (installer.rs:315-350).
THEOREM TypeCorrect == Spec => []TypeOK
<1>1. Init => TypeOK
  BY BoundAssumption DEF Init, TypeOK
<1>. QED BY <1>1, SInit, SNext, TypesNext, PTL DEF Spec

-----------------------------------------------------------------------------
(* Revoked versions.                                                       *)

\* A set of numbers that is not empty has a least one.
LEMMA Least ==
  ASSUME NEW T, T \subseteq Nat, T # {}
  PROVE  \E n \in T : \A m \in T : n <= m
<1> DEFINE R == {p \in Nat \X Nat : p[1] < p[2]}
<1>1. IsWellFoundedOn(R, Nat)
  BY NatLessThanWellFounded DEF OpToRel
<1>2. \A x, y \in Nat : x < y => <<x, y>> \in R
  OBVIOUS
<1> HIDE DEF R
<1>3. PICK n \in T : \A m \in T : <<m, n>> \notin R
  BY <1>1, WFMin
<1>4. \A m \in T : ~(m < n)
  BY <1>2, <1>3
<1>. QED BY <1>4

\* The numbers of a version that is semantic.
LEMMA Parts ==
  ASSUME NEW v \in Versions, NEW i \in Nat \ {0}
  PROVE  /\ Part(NumbersOf(v), i) \in Nat
         /\ i > 3 => Part(NumbersOf(v), i) = 0
<1>. DEFINE s == NumbersOf(v)
<1>1. s \in Seq(Nat) /\ Len(s) <= 3
  BY VersionAssumption
<1>. HIDE DEF s
<1>2. Len(s) \in Nat /\ \A k \in 1..Len(s) : s[k] \in Nat
  BY <1>1
<1>3. Part(s, i) \in Nat /\ (i > 3 => Part(s, i) = 0)
  <2>1. CASE i <= Len(s)
    BY <1>1, <1>2, <2>1 DEF Part
  <2>2. CASE ~(i <= Len(s))
    BY <2>2 DEF Part
  <2>. QED BY <2>1, <2>2
<1>. QED BY <1>3 DEF s

\* version_le, which compares number by number, agrees with the order of the
\* versions as a whole.
LEMMA VersionOrder ==
  ASSUME NEW v \in Versions, NEW w \in Versions
  PROVE  VersionLe(v, w) <=> ~Below(w, v)
<1>. DEFINE a(i) == Part(NumbersOf(v), i)
            b(i) == Part(NumbersOf(w), i)
            n == Len(NumbersOf(v)) + Len(NumbersOf(w))
<1>1. /\ \A i \in Nat \ {0} : a(i) \in Nat /\ b(i) \in Nat
      /\ \A i \in Nat \ {0} : i > 3 => a(i) = 0 /\ b(i) = 0
  BY Parts
<1>2. \A i \in Nat \ {0} : i > n => a(i) = 0 /\ b(i) = 0
  <2>1. /\ Len(NumbersOf(v)) \in Nat /\ Len(NumbersOf(w)) \in Nat
    BY VersionAssumption
  <2>. QED BY <2>1 DEF Part
<1>3. n \in Nat
  BY VersionAssumption
<1>4. VersionLe(v, w) <=> \A i \in 1..n : a(i) <= b(i) \/ \E j \in 1..i - 1 : a(j) < b(j)
  BY DEF VersionLe
<1>5. Below(w, v) <=> \E i \in 1..3 : b(i) < a(i) /\ \A j \in 1..i - 1 : b(j) = a(j)
  BY DEF Below
<1>. HIDE DEF a, b, n
<1>6. ASSUME Below(w, v) PROVE ~VersionLe(v, w)
  <2>1. PICK i \in 1..3 : b(i) < a(i) /\ \A j \in 1..i - 1 : b(j) = a(j)
    BY <1>5, <1>6
  <2>2. i \in Nat \ {0} /\ a(i) \in Nat /\ b(i) \in Nat
    BY <1>1
  <2>3. i \in 1..n
    BY <1>2, <1>3, <2>1, <2>2
  <2>4. \A j \in 1..i - 1 : j \in Nat \ {0} /\ ~(a(j) < b(j))
    BY <1>1, <2>1, <2>2
  <2>. QED BY <1>4, <2>1, <2>2, <2>3, <2>4
<1>7. ASSUME ~VersionLe(v, w) PROVE Below(w, v)
  <2>1. PICK i \in 1..n : ~(a(i) <= b(i)) /\ \A j \in 1..i - 1 : ~(a(j) < b(j))
    BY <1>4, <1>7
  <2>2. i \in Nat \ {0}
    BY <1>3
  <2>3. b(i) < a(i)
    BY <1>1, <2>1, <2>2
  <2> DEFINE T == {k \in 1..i : b(k) < a(k)}
  <2>4. T \subseteq Nat /\ T # {}
    BY <2>2, <2>3
  <2>5. PICK k \in T : \A m \in T : k <= m
    <3> HIDE DEF T
    <3>. QED BY <2>4, Least
  <2>6. k \in 1..i /\ b(k) < a(k)
    BY <2>5
  <2>7. k \in 1..3
    BY <1>1, <2>2, <2>6
  <2>8. ASSUME NEW j \in 1..k - 1 PROVE b(j) = a(j)
    <3>1. j \in 1..i - 1 /\ j \in Nat \ {0} /\ j < k
      BY <2>2, <2>6
    <3>2. j \notin T
      <4> HIDE DEF T
      <4>. QED BY <2>5, <2>6, <3>1
    <3>3. ~(b(j) < a(j))
      BY <2>2, <3>1, <3>2
    <3>. QED BY <1>1, <2>1, <3>1, <3>3
  <2>. QED BY <1>5, <2>6, <2>7, <2>8
<1>. QED BY <1>6, <1>7

\* So the gate of the revocation list is the one that is meant.
LEMMA Revocation ==
  ASSUME NEW plugin, NEW v \in Versions
  PROVE  IsBlocked(plugin, v) <=> RankedBelow(plugin, v)
<1>1. \A b \in Blocked : \A max \in ToSet(b.max) : max \in Versions
  BY DEF Versions
<1>. QED BY <1>1, VersionOrder DEF IsBlocked, RankedBelow

\* A package is a template with its digests filled in, and its signature, if
\* any, is of its manifest.
WellMade(p) ==
  /\ DOMAIN p = {"manifest", "files", "sig"}
  /\ DOMAIN p.manifest = {"plugin", "version", "eps", "signing", "deps", "formed",
                          "fits", "risky", "caps"}
  /\ p.manifest.version \in Versions
  /\ IF p.manifest.signing = None THEN p.sig = {}
     ELSE \E key : p.sig = {Signature(key, p.manifest)}

MadeInv == \A p \in packages : WellMade(p)

LEMMA ZippedWellMade ==
  ASSUME NEW t \in Templates, NEW eps, NEW files, NEW key
  PROVE  WellMade(Zipped([t EXCEPT !.eps = eps], files, key))
<1>. DEFINE m == [t EXCEPT !.eps = eps]
<1>1. /\ DOMAIN m = {"plugin", "version", "eps", "signing", "deps", "formed",
                          "fits", "risky", "caps"}
      /\ m.version = t.version
  BY ManifestAssumption
<1>. HIDE DEF m
<1>2. WellMade(Zipped(m, files, key))
  BY <1>1 DEF Zipped, WellMade, Versions
<1>. QED BY <1>2 DEF m

LEMMA MadeNext == MadeInv /\ [Next]_vars => MadeInv'
<1>. SUFFICES ASSUME MadeInv, [Next]_vars PROVE MadeInv'
  OBVIOUS
<1>1. ASSUME NEW t \in Templates, NEW o, NEW b, NEW id, NEW a, Pack(t, o, b, id, a)
      PROVE  MadeInv'
  <2>. DEFINE p == Packed(t, o, b, Key(id, keyFile[id]))
  <2>1. WellMade(p)
    BY ZippedWellMade DEF Packed, Patched
  <2>2. packages' = packages \/ packages' = packages \cup {p}
    BY <1>1 DEF Pack
  <2>. HIDE DEF p
  <2>. QED BY <2>1, <2>2 DEF MadeInv
<1>2. ASSUME NEW t \in Templates, NEW id, NEW b, SignByHand(t, id, b)
      PROVE  MadeInv'
  BY <1>2, ZippedWellMade DEF SignByHand, MadeInv
<1>3. CASE packages' = packages
  BY <1>3 DEF MadeInv
<1>. QED
  BY <1>1, <1>2, <1>3 DEF Next, Command, Keygen, RefuseInstall, Install, RunFile,
     SetAliases, ReadAnswer, vars

LEMMA ArrivalVersion ==
  ASSUME NEW q, WellMade(q), NEW p \in Arrivals(q)
  PROVE  p.manifest.version \in Versions
<1>1. ASSUME NEW t \in Templates, p = [q EXCEPT !.manifest.version = t.version]
      PROVE  p.manifest.version \in Versions
  BY <1>1 DEF WellMade, Versions
<1>2. ASSUME NEW b \in Binaries, p = Rebuilt(q, b)
      PROVE  p.manifest.version \in Versions
  BY <1>2 DEF WellMade, Rebuilt
<1>. QED BY <1>1, <1>2 DEF Arrivals, WellMade

LEMMA RevocationNext == MadeInv /\ RevocationHolds /\ [Next]_vars => RevocationHolds'
<1>. SUFFICES ASSUME MadeInv, RevocationHolds, [Next]_vars PROVE RevocationHolds'
  OBVIOUS
<1>1. ASSUME NEW q \in packages, NEW p \in Arrivals(q), NEW flags, NEW row,
             NEW name, Install(p, flags, row, name)
      PROVE  RevocationHolds'
  <2>1. p.manifest.version \in Versions
    BY ArrivalVersion DEF MadeInv
  <2>2. ~RankedBelow(p.manifest.plugin, p.manifest.version)
    BY <1>1, <2>1, Revocation DEF Install, Admits
  <2>3. \A r \in rows' : \/ r \in rows
                         \/ r.plugin = p.manifest.plugin /\ r.version = p.manifest.version
    BY <1>1 DEF Install
  <2>. QED BY <2>2, <2>3 DEF RevocationHolds
<1>2. CASE rows' = rows
  BY <1>2 DEF RevocationHolds
<1>. QED
  BY <1>1, <1>2 DEF Next, Command, Keygen, Pack, SignByHand, RefuseInstall, RunFile,
     SetAliases, ReadAnswer, vars, host

LEMMA MadeInit == Init => MadeInv /\ RevocationHolds
BY DEF Init, MadeInv, RevocationHolds

\* No version at or below the one that is revoked is ever installed, however
\* the package arrives and whatever pre-release or build it calls itself
\* (trust.rs:117-155).
THEOREM Revoked == Spec => []RevocationHolds
BY MadeInit, MadeNext, RevocationNext, PTL DEF Spec

-----------------------------------------------------------------------------
(* Packages that are made well are installed.                              *)

\* The arguments that positional_args skips are the values of the two flags.
LEMMA TakenValue ==
  ASSUME NEW args \in Seq(STRING), NEW t \in 1..Len(args), NEW b \in 1..Len(args),
         NEW k \in 1..Len(args) - 1, NEW o \in 1..Len(args) - 1, Names(args, t, b, k, o)
  PROVE  \A i \in 0..Len(args) : Taken(args)[i] <=> i \in {k + 1, o + 1}
<1> DEFINE Step(f) ==
      [i \in 0..Len(args) |-> i > 1 /\ args[i - 1] \in ValueFlags /\ ~f[i - 1]]
<1> DEFINE F == [i \in 0..Len(args) |-> i \in {k + 1, o + 1}]
<1>1. Len(args) \in Nat
  OBVIOUS
<1>2. \A i \in 2..Len(args) : args[i - 1] \in ValueFlags <=> i \in {k + 1, o + 1}
  BY <1>1 DEF Names, ValueFlags
<1>3. \A i \in {k, o} : i \notin {k + 1, o + 1}
  BY <1>1 DEF Names
<1>4. F = Step(F)
  <2>1. ASSUME NEW i \in 0..Len(args), i > 1, args[i - 1] \in ValueFlags
        PROVE  ~F[i - 1]
    <3>1. i - 1 \in {k, o} /\ i - 1 \in 0..Len(args)
      BY <1>1, <1>2, <2>1
    <3>. QED BY <1>3, <3>1
  <2>2. ASSUME NEW i \in 0..Len(args)
        PROVE  i \in {k + 1, o + 1} <=> i > 1 /\ args[i - 1] \in ValueFlags
    BY <1>1, <1>2
  <2> HIDE DEF F
  <2>3. \A i \in 0..Len(args) :
          i \in {k + 1, o + 1} <=> i > 1 /\ args[i - 1] \in ValueFlags /\ ~F[i - 1]
    BY <2>1, <2>2
  <2>4. Step(F) = [i \in 0..Len(args) |-> i \in {k + 1, o + 1}]
    BY <2>3
  <2>. QED BY <2>4 DEF F
<1>5. Taken(args) = CHOOSE f : f = Step(f)
  BY DEF Taken
<1>6. Taken(args) = Step(Taken(args))
  <2> HIDE DEF Step, F
  <2>. QED BY <1>4, <1>5
<1> DEFINE V == Taken(args)
<1> HIDE DEF V
<1>7. \A i \in 0..Len(args) : V[i] <=> i > 1 /\ args[i - 1] \in ValueFlags /\ ~V[i - 1]
  BY <1>6 DEF V
<1>8. \A i \in {k, o} : ~V[i]
  <2>1. \A i \in {k, o} : i \in 0..Len(args) /\ (i > 1 => i \in 2..Len(args))
    BY <1>1
  <2>. QED BY <1>2, <1>3, <1>7, <2>1
<1>9. \A i \in 0..Len(args) : V[i] <=> i \in {k + 1, o + 1}
  BY <1>1, <1>2, <1>7, <1>8
<1>. QED BY <1>9 DEF V

\* In any order, pack takes each argument for what it is.
LEMMA Understands ==
  ASSUME NEW args \in Seq(STRING), IsInvocation(args)
  PROVE  Understood(args)
<1>1. PICK t, b \in 1..Len(args), k, o \in 1..Len(args) - 1 : Names(args, t, b, k, o)
  BY DEF IsInvocation
<1>2. /\ Len(args) \in Nat /\ t \in 1..Len(args) /\ b \in 1..Len(args) /\ t < b
      /\ k \in 1..Len(args) - 1 /\ o \in 1..Len(args) - 1
  BY <1>1 DEF Names
<1> DEFINE at == {i \in DOMAIN args : ~Taken(args)[i] /\ ~IsFlag(args[i])}
           nth(n) == CHOOSE i \in at : Cardinality({j \in at : j <= i}) = n
<1>3. at = {t, b}
  <2>1. \A i \in 1..Len(args) : ~Taken(args)[i] <=> i \notin {k + 1, o + 1}
    <3>1. \A i \in 0..Len(args) : Taken(args)[i] <=> i \in {k + 1, o + 1}
      BY <1>1, TakenValue
    <3>. QED BY <1>2, <3>1
  <2>2. \A i \in 1..Len(args) : i \notin {k + 1, o + 1} /\ ~IsFlag(args[i]) <=> i \in {t, b}
    BY <1>1, <1>2 DEF Names, IsFlag, ValueFlags
  <2>3. DOMAIN args = 1..Len(args)
    OBVIOUS
  <2>. QED BY <1>2, <2>1, <2>2, <2>3
<1>4. Cardinality({t, b}) = 2 /\ Cardinality({t}) = 1
  <2>1. t # b
    BY <1>2
  <2>2. IsFiniteSet({t}) /\ Cardinality({t}) = 1
    BY FS_Singleton
  <2>3. Cardinality({t} \cup {b}) = Cardinality({t}) + 1
    BY <2>1, <2>2, FS_AddElement
  <2>4. Cardinality({t} \cup {b}) = 2
    BY ONLY <2>2, <2>3
  <2>5. {t, b} = {t} \cup {b}
    OBVIOUS
  <2>6. Cardinality({t, b}) = 2
    BY ONLY <2>4, <2>5, Zenon
  <2>. QED BY <2>2, <2>6
<1>5. {j \in {t, b} : j <= t} = {t} /\ {j \in {t, b} : j <= b} = {t, b}
  BY <1>2
<1>6. nth(1) = t /\ nth(2) = b
  <2> HIDE DEF at
  <2>1. Cardinality({j \in at : j <= t}) = 1 /\ Cardinality({j \in at : j <= b}) = 2
    BY <1>3, <1>4, <1>5
  <2>. QED BY <2>1, <1>3
<1>7. Positionals(args) = [n \in 1..2 |-> args[nth(n)]]
  <2>1. Cardinality(at) = 2
    BY <1>3, <1>4
  <2>. QED BY <2>1 DEF Positionals
<1>8. /\ Len(Positionals(args)) = 2
      /\ Positionals(args)[1] = "template" /\ Positionals(args)[2] = "binary"
  <2> HIDE DEF nth
  <2>1. Positionals(args)[1] = args[t] /\ Positionals(args)[2] = args[b]
    BY <1>6, <1>7
  <2>2. Len(Positionals(args)) = 2
    BY <1>7
  <2>. QED BY <1>1, <2>1, <2>2 DEF Names
<1>9. FlagValue(args, "--key-file") = "key"
  <2>0. \A i \in 1..Len(args) : args[i] = "--key-file" <=> i = k
    BY <1>1, <1>2 DEF Names
  <2>1. {i \in 1..Len(args) - 1 : args[i] = "--key-file"} = {k}
    BY <1>2, <2>0
  <2>2. Min({k}) = k
    BY <1>2 DEF Min
  <2>. QED BY <1>1, <2>1, <2>2 DEF FlagValue, Names
<1>10. FlagValue(args, "--out") = "out"
  <2>0. \A i \in 1..Len(args) : args[i] = "--out" <=> i = o
    BY <1>1, <1>2 DEF Names
  <2>1. {i \in 1..Len(args) - 1 : args[i] = "--out"} = {o}
    BY <1>2, <2>0
  <2>2. Min({o}) = o
    BY <1>2 DEF Min
  <2>. QED BY <1>1, <2>1, <2>2 DEF FlagValue, Names
<1>. QED BY <1>8, <1>9, <1>10 DEF Understood

LEMMA CompleteAdmitted ==
  ASSUME NEW p, WellMade(p), Complete(p), NEW flags, {"risk", "ack"} \subseteq flags,
         NEW row, ~RankedBelow(p.manifest.plugin, p.manifest.version)
  PROVE  Admits(p, flags, row)
<1>1. Valid(p.manifest)
  BY NameAssumption DEF Complete, Valid
<1>2. ~IsBlocked(p.manifest.plugin, p.manifest.version)
  BY Revocation DEF WellMade
<1>3. HasBinary(p)
  BY DEF Complete, HasBinary
<1>4. p.manifest.signing # None /\ p.manifest.signing \in DOMAIN Trusted
  BY NameAssumption DEF Complete
<1>5. PICK key : p.sig = {Signature(key, p.manifest)}
  BY <1>4 DEF WellMade
<1>6. Signature(key, p.manifest).key = key
  BY DEF Signature
<1>7. key = Trusted[p.manifest.signing]
  BY <1>5, <1>6 DEF Complete
<1>8. Verifies(p)
  BY <1>5, <1>7 DEF Verifies
<1>9. Agreed(p.manifest, flags, row)
  BY DEF Agreed
<1>. QED BY <1>1, <1>2, <1>3, <1>4, <1>5, <1>8, <1>9 DEF Admits, IsTrusted

LEMMA PackedNext ==
  ASSUME MadeInv, PackedInstalls, [Next]_vars
  PROVE  PackedInstalls'
<1>1. ASSUME NEW t, NEW o, NEW b, NEW id, NEW a \in Arguments, Pack(t, o, b, id, a)
      PROVE  PackedInstalls'
  <2>1. \/ answer' = Done
        \/ answer'.of = "pack" /\ answer'.ok
    BY <1>1, ArgumentAssumption, Understands DEF Pack
  <2>. QED BY <2>1 DEF PackedInstalls, Done
<1>2. ASSUME NEW q \in packages, NEW p \in Arrivals(q), NEW flags, NEW row,
             RefuseInstall(p, flags, row)
      PROVE  PackedInstalls'
  <2>1. CASE p \in packages
    <3>1. /\ answer' = [of |-> "install", pkg |-> p, flags |-> flags, ok |-> FALSE]
          /\ ~Admits(p, flags, row)
      BY <1>2, <2>1 DEF RefuseInstall, Answered
    <3>2. ~(/\ Complete(p) /\ {"risk", "ack"} \subseteq flags
             /\ ~RankedBelow(p.manifest.plugin, p.manifest.version))
      BY <2>1, <3>1, CompleteAdmitted DEF MadeInv
    <3>. QED BY <3>1, <3>2 DEF PackedInstalls
  <2>2. CASE p \notin packages
    BY <1>2, <2>2 DEF RefuseInstall, Answered, Done, PackedInstalls
  <2>. QED BY <2>1, <2>2
<1>3. ASSUME NEW p, NEW flags, NEW row, NEW name, Install(p, flags, row, name)
      PROVE  PackedInstalls'
  BY <1>3 DEF Install, Answered, Done, PackedInstalls
<1>4. CASE answer'.of \notin {"pack", "install"}
  BY <1>4 DEF PackedInstalls
<1>5. CASE UNCHANGED vars
  BY <1>5 DEF PackedInstalls, vars
<1>. QED
  BY <1>1, <1>2, <1>3, <1>4, <1>5 DEF Next, Command, Keygen, SignByHand, RunFile,
     SetAliases, ReadAnswer, Done, NoAnswer

\* pack understands its arguments in every order, among any flags it does not
\* know, and what it makes, if it is complete for this host, is installed by
\* every host that trusts the key and does not block the version, for a user who
\* gives both consents (main.rs:96-260, 370-407, installer.rs:165-244, 580-669,
\* 781-876, trust.rs:52-155).
THEOREM Packs == Spec => []PackedInstalls
<1>1. Init => PackedInstalls
  BY DEF Init, PackedInstalls, NoAnswer
<1>2. MadeInv /\ PackedInstalls /\ [Next]_vars => PackedInstalls'
  BY PackedNext
<1>. QED BY <1>1, <1>2, MadeInit, MadeNext, PTL DEF Spec

-----------------------------------------------------------------------------
(* Sequences.                                                              *)

\* What holds of 1 and, with a number below n, of the next one, holds up to n.
LEMMA Upward ==
  ASSUME NEW n \in Nat, NEW T, 0 < n => 1 \in T,
         \A k \in 1..n : k \in T /\ k # n => k + 1 \in T
  PROVE  \A k \in 1..n : k \in T
<1> DEFINE U == {k \in 1..n : k \notin T}
<1> SUFFICES ASSUME U # {} PROVE FALSE
  OBVIOUS
<1>1. U \subseteq Nat
  OBVIOUS
<1>2. PICK k \in U : \A m \in U : k <= m
  <2> HIDE DEF U
  <2>. QED BY <1>1, Least
<1>3. k \in 1..n /\ k \notin T /\ k # 1
  BY <1>2
<1>4. k - 1 \in 1..n /\ k - 1 # n /\ (k - 1) + 1 = k
  BY <1>3
<1>5. k - 1 \notin U
  <2> HIDE DEF U
  <2>. QED BY <1>2, <1>3
<1>. QED BY <1>3, <1>4, <1>5

\* Sequences one after the other hold what they hold.
LEMMA FlattenType ==
  ASSUME NEW S, NEW seqs \in Seq(Seq(S))
  PROVE  FlattenSeq(seqs) \in Seq(S)
<1> DEFINE n == Len(seqs)
           Step(f, i) == IF i = 1 THEN seqs[i] ELSE f[i - 1] \o seqs[i]
           Flat(f, k) == f = [i \in 1..k |-> Step(f, i)]
<1>1. n \in Nat /\ \A i \in 1..n : seqs[i] \in Seq(S)
  OBVIOUS
<1>2. CASE n = 0
  <2>1. seqs = <<>>
    BY <1>2
  <2>. QED BY <1>2, <2>1 DEF FlattenSeq
<1>3. CASE n # 0
  <2>1. ASSUME NEW k \in 1..n, NEW g, Flat(g, k) PROVE \E f : Flat(f, k + 1)
    <3> DEFINE f == [i \in 1..k + 1 |-> IF i <= k THEN g[i] ELSE g[k] \o seqs[k + 1]]
    <3>1. \A i \in 1..k : g[i] = Step(g, i)
      BY <2>1
    <3>2. ASSUME NEW i \in 1..k + 1 PROVE f[i] = Step(f, i)
      <4>1. CASE i = k + 1
        BY <1>1, <4>1
      <4>2. CASE i # k + 1
        <5>1. i \in 1..k /\ f[i] = g[i] /\ (i # 1 => i - 1 \in 1..k /\ f[i - 1] = g[i - 1])
          BY <4>2
        <5>. QED BY <3>1, <5>1
      <4>. QED BY <4>1, <4>2
    <3>3. DOMAIN f = 1..k + 1 /\ f = [i \in 1..k + 1 |-> f[i]]
      OBVIOUS
    <3>4. Flat(f, k + 1)
      BY <3>2, <3>3
    <3>. QED BY <3>4
  <2>2. Flat(<<seqs[1]>>, 1)
    OBVIOUS
  <2> HIDE DEF n, Flat
  <2>3. \E f : Flat(f, n)
    <3> DEFINE T == {k \in 1..n : \E f : Flat(f, k)}
    <3>1. 1 \in T
      BY <1>1, <1>3, <2>2
    <3>2. \A k \in 1..n : k \in T /\ k # n => k + 1 \in T
      BY <1>1, <2>1
    <3> HIDE DEF T
    <3>3. \A k \in 1..n : k \in T
      BY <1>1, <3>1, <3>2, Upward
    <3>4. n \in T
      BY <1>1, <1>3, <3>3
    <3>. QED BY <3>4 DEF T
  <2> DEFINE flatten == CHOOSE f : Flat(f, n)
  <2>4. Flat(flatten, n)
    BY <2>3
  <2>5. FlattenSeq(seqs) = flatten[n]
    BY <1>3 DEF FlattenSeq, Flat, n
  <2> HIDE DEF flatten
  <2>6. \A i \in 1..n : flatten[i] = Step(flatten, i)
    BY <2>4 DEF Flat
  <2>7. flatten[n] \in Seq(S)
    <3> DEFINE T == {k \in 1..n : flatten[k] \in Seq(S)}
    <3>1. 1 \in T
      BY <1>1, <1>3, <2>6
    <3>2. ASSUME NEW k \in 1..n, k \in T, k # n PROVE k + 1 \in T
      <4>1. k + 1 \in 1..n /\ k + 1 # 1 /\ (k + 1) - 1 = k
        BY <1>1, <3>2
      <4>2. flatten[k + 1] = flatten[k] \o seqs[k + 1]
        BY <2>6, <4>1
      <4>3. flatten[k] \in Seq(S) /\ seqs[k + 1] \in Seq(S)
        BY <1>1, <3>2, <4>1
      <4> HIDE DEF T
      <4>4. flatten[k + 1] \in Seq(S)
        BY <4>2, <4>3
      <4>. QED BY <4>1, <4>4 DEF T
    <3> HIDE DEF T
    <3>3. \A k \in 1..n : k \in T
      BY <1>1, <3>1, <3>2, Upward
    <3>4. n \in T
      BY <1>1, <1>3, <3>3
    <3>. QED BY <3>4 DEF T
  <2>. QED BY <2>5, <2>7
<1>. QED BY <1>2, <1>3

-----------------------------------------------------------------------------
(* The id of a task determines its key and its item.                       *)

\* The text is b, then c at position k, then a.
Split(text, b, a, k, c) ==
  /\ text[k] = c
  /\ b \in Seq(STRING) /\ Len(b) = k - 1 /\ \A i \in 1..k - 1 : b[i] = text[i]
  /\ a \in Seq(STRING) /\ Len(a) = Len(text) - k
  /\ \A i \in 1..Len(text) - k : a[i] = text[k + i]

\* Before and After split a text where c is in it first.
LEMMA SplitAt ==
  ASSUME NEW text \in Seq(STRING), NEW c, Has(text, c)
  PROVE  \E k \in 1..Len(text) : Split(text, Before(text, c), After(text, c), k, c)
<1> DEFINE I == {i \in 1..Len(text) : text[i] = c}
<1>1. Len(text) \in Nat /\ DOMAIN text = 1..Len(text)
  OBVIOUS
<1>2. I # {} /\ I \subseteq Nat
  BY <1>1 DEF Has, ToSet
<1>3. Min(I) \in I
  <2> HIDE DEF I
  <2>1. \E n \in I : \A m \in I : n <= m
    BY <1>2, Least
  <2>. QED BY <2>1 DEF Min
<1>4. SelectInSeq(text, LAMBDA w : w = c) = Min(I)
  BY <1>2 DEF SelectInSeq
<1> DEFINE k == Min(I)
<1>5. Before(text, c) = SubSeq(text, 1, k - 1) /\ After(text, c) = SubSeq(text, k + 1, Len(text))
  BY <1>4 DEF Before, After
<1>6. k \in 1..Len(text) /\ text[k] = c
  BY <1>3
<1> HIDE DEF k
<1>7. /\ SubSeq(text, 1, k - 1) \in Seq(STRING)
      /\ Len(SubSeq(text, 1, k - 1)) = k - 1
      /\ \A i \in 1..k - 1 : SubSeq(text, 1, k - 1)[i] = text[i]
  BY <1>1, <1>6
<1>8. /\ SubSeq(text, k + 1, Len(text)) \in Seq(STRING)
      /\ Len(SubSeq(text, k + 1, Len(text))) = Len(text) - k
      /\ \A i \in 1..Len(text) - k : SubSeq(text, k + 1, Len(text))[i] = text[k + i]
  <2> DEFINE n == Len(text)
             r == SubSeq(text, k + 1, n)
  <2>1. n \in Nat /\ k \in 1..n /\ \A i \in k + 1..n : text[i] \in STRING
    BY <1>1, <1>6
  <2> HIDE DEF n
  <2>2. /\ r \in Seq(STRING)
        /\ Len(r) = IF k + 1 <= n THEN n - (k + 1) + 1 ELSE 0
        /\ \A i \in 1..n - (k + 1) + 1 : r[i] = text[(k + 1) + i - 1]
    BY <2>1, SubSeqProperties
  <2> HIDE DEF r
  <2>3. Len(r) = n - k /\ n - (k + 1) + 1 = n - k /\ \A i \in 1..n - k : (k + 1) + i - 1 = k + i
    BY <2>1, <2>2
  <2>. QED BY <2>2, <2>3 DEF n, r
<1>. QED BY <1>5, <1>6, <1>7, <1>8 DEF Split

\* A text is what is before and after the first c in it.
LEMMA SplitUnique ==
  ASSUME NEW s \in Seq(STRING), NEW t \in Seq(STRING), NEW c, Has(s, c), Has(t, c),
         Before(s, c) = Before(t, c), After(s, c) = After(t, c)
  PROVE  s = t
<1>0. Len(s) \in Nat /\ Len(t) \in Nat
  OBVIOUS
<1>1. PICK k \in 1..Len(s) : Split(s, Before(s, c), After(s, c), k, c)
  BY SplitAt
<1>2. PICK m \in 1..Len(t) : Split(t, Before(t, c), After(t, c), m, c)
  BY SplitAt
<1> DEFINE b == Before(s, c)
           a == After(s, c)
<1>3. Split(s, b, a, k, c) /\ Split(t, b, a, m, c)
  BY <1>1, <1>2
<1> HIDE DEF a, b
<1>5. k = m
  <2>1. Len(b) = k - 1 /\ Len(b) = m - 1
    BY <1>3 DEF Split
  <2>. QED BY ONLY <1>0, <2>1, k \in 1..Len(s), m \in 1..Len(t)
<1>6. Len(s) = Len(t)
  <2>1. Len(a) = Len(s) - k /\ Len(a) = Len(t) - k
    BY <1>3, <1>5 DEF Split
  <2>. QED BY ONLY <1>0, <2>1, k \in 1..Len(s)
<1>7. ASSUME NEW i \in 1..Len(s) PROVE s[i] = t[i]
  <2>1. CASE i < k
    <3>1. i \in 1..k - 1
      BY <1>0, <2>1
    <3>. QED BY <1>3, <1>5, <3>1 DEF Split
  <2>2. CASE i = k
    BY <1>3, <1>5, <2>2 DEF Split
  <2>3. CASE i > k
    <3>1. i - k \in 1..Len(s) - k /\ k + (i - k) = i
      BY <1>0, <2>3
    <3>2. s[i] = a[i - k]
      BY <1>3, <3>1 DEF Split
    <3>3. t[i] = a[i - k]
      BY <1>3, <1>5, <1>6, <3>1 DEF Split
    <3>. QED BY <3>2, <3>3
  <2>. QED BY <1>0, <2>1, <2>2, <2>3
<1>. QED BY <1>6, <1>7

\* The parts of a text are texts.
LEMMA SplitType ==
  ASSUME NEW text \in Seq(STRING), NEW c, Has(text, c)
  PROVE  Before(text, c) \in Seq(STRING) /\ After(text, c) \in Seq(STRING)
<1>. QED BY SplitAt DEF Split

HasLabel(key) == Has(LastPart(key), "|")

\* The parts of a plain key are texts.
LEMMA KeyParts ==
  ASSUME NEW key \in Seq(STRING), IsKey(key)
  PROVE  /\ AliasOf(key) \in Seq(STRING) /\ EndpointOf(key) \in Seq(STRING)
         /\ LastPart(key) \in Seq(STRING) /\ After(key, "::") \in Seq(STRING)
         /\ Pinned(key) => PinOf(key) \in Seq(STRING)
         /\ HasLabel(key) => After(LastPart(key), "|") \in Seq(STRING)
<1>1. AliasOf(key) \in Seq(STRING) /\ After(key, "::") \in Seq(STRING)
  BY SplitType DEF AliasOf, IsKey
<1>2. Pinned(key) => /\ PinOf(key) \in Seq(STRING)
                     /\ After(After(key, "::"), "::") \in Seq(STRING)
  BY <1>1, SplitType DEF Pinned, PinOf
<1>3. LastPart(key) \in Seq(STRING)
  BY <1>1, <1>2 DEF LastPart
<1>4. HasLabel(key) => /\ Before(LastPart(key), "|") \in Seq(STRING)
                       /\ After(LastPart(key), "|") \in Seq(STRING)
  BY <1>3, SplitType DEF HasLabel
<1>. QED BY <1>1, <1>2, <1>3, <1>4 DEF EndpointOf, HasLabel

\* The parts of a key determine it.
LEMMA KeyDetermined ==
  ASSUME NEW k \in Seq(STRING), NEW l \in Seq(STRING), IsKey(k), IsKey(l),
         AliasOf(k) = AliasOf(l), EndpointOf(k) = EndpointOf(l),
         Pinned(k) <=> Pinned(l), Pinned(k) => PinOf(k) = PinOf(l),
         HasLabel(k) <=> HasLabel(l),
         HasLabel(k) => After(LastPart(k), "|") = After(LastPart(l), "|")
  PROVE  k = l
<1>1. LastPart(k) = LastPart(l)
  <2>1. CASE HasLabel(k)
    <3>1. Before(LastPart(k), "|") = Before(LastPart(l), "|")
      BY <2>1 DEF EndpointOf, HasLabel
    <3>. QED BY <2>1, <3>1, KeyParts, SplitUnique DEF HasLabel
  <2>2. CASE ~HasLabel(k)
    BY <2>2 DEF EndpointOf, HasLabel
  <2>. QED BY <2>1, <2>2
<1>2. After(k, "::") = After(l, "::")
  <2>1. CASE Pinned(k)
    <3>1. After(After(k, "::"), "::") = After(After(l, "::"), "::")
      BY <1>1, <2>1 DEF LastPart
    <3>. QED BY <2>1, <3>1, KeyParts, SplitUnique DEF Pinned, PinOf
  <2>2. CASE ~Pinned(k)
    BY <1>1, <2>2 DEF LastPart
  <2>. QED BY <2>1, <2>2
<1>. QED BY <1>2, SplitUnique DEF IsKey, AliasOf

\* A word is its own label.
LEMMA WordLabel ==
  ASSUME NEW text \in Seq(STRING), IsWord(text)
  PROVE  Trimmed(text) = text
<1>1. Len(text) = 1 /\ text[1] # " "
  BY DEF IsWord, Marks
<1>0. DOMAIN text = {1}
  <2>1. DOMAIN text = 1..Len(text)
    OBVIOUS
  <2>2. 1..1 = {1}
    OBVIOUS
  <2>. QED BY <1>1, <2>1, <2>2
<1>2. {i \in DOMAIN text : text[i] # " "} = {1}
  BY <1>0, <1>1
<1>3. Min({1}) = 1 /\ Max({1}) = 1
  BY DEF Min, Max
<1>4. SubSeq(text, 1, 1) = text
  BY <1>1, SubSeqFull
<1>. QED BY <1>2, <1>3, <1>4 DEF Trimmed

\* What there is of two sequences in one after the other.
LEMMA Concat ==
  ASSUME NEW S, NEW a \in Seq(S), NEW b \in Seq(S), NEW c, c = a \o b
  PROVE  /\ c \in Seq(S) /\ Len(c) = Len(a) + Len(b)
         /\ \A i \in 1..Len(a) : c[i] = a[i]
         /\ \A i \in 1..Len(b) : c[Len(a) + i] = b[i]
OBVIOUS

\* The same of the four parts of an id.
LEMMA Joined ==
  ASSUME NEW S, NEW s, NEW t, NEW u, NEW w,
         s \in Seq(S) /\ t \in Seq(S) /\ u \in Seq(S) /\ w \in Seq(S),
         NEW x, x = s \o t \o u \o w
  PROVE  /\ x \in Seq(S) /\ Len(x) = Len(s) + Len(t) + Len(u) + Len(w)
         /\ \A i \in 1..Len(s) : x[i] = s[i]
         /\ \A i \in 1..Len(t) : x[Len(s) + i] = t[i]
         /\ \A i \in 1..Len(u) : x[Len(s) + Len(t) + i] = u[i]
         /\ \A i \in 1..Len(w) : x[Len(s) + Len(t) + Len(u) + i] = w[i]
<1>1. PICK y : y = s \o t
  OBVIOUS
<1>2. PICK z : z = y \o u
  OBVIOUS
<1>3. /\ y \in Seq(S) /\ Len(y) = Len(s) + Len(t)
      /\ \A i \in 1..Len(s) : y[i] = s[i]
      /\ \A i \in 1..Len(t) : y[Len(s) + i] = t[i]
  BY <1>1, Concat
<1>4. y \in Seq(S)
  BY <1>3
<1>5. /\ z \in Seq(S) /\ Len(z) = Len(y) + Len(u)
      /\ \A i \in 1..Len(y) : z[i] = y[i]
      /\ \A i \in 1..Len(u) : z[Len(y) + i] = u[i]
  BY <1>2, <1>4, Concat
<1>6. x = z \o w /\ z \in Seq(S)
  BY <1>1, <1>2, <1>5
<1>7. /\ x \in Seq(S) /\ Len(x) = Len(z) + Len(w)
      /\ \A i \in 1..Len(z) : x[i] = z[i]
      /\ \A i \in 1..Len(w) : x[Len(z) + i] = w[i]
  BY <1>6, Concat
<1>8. Len(s) \in Nat /\ Len(t) \in Nat /\ Len(u) \in Nat /\ Len(w) \in Nat
  OBVIOUS
<1>9. Len(y) = Len(s) + Len(t) /\ Len(z) = Len(s) + Len(t) + Len(u)
      /\ Len(x) = Len(s) + Len(t) + Len(u) + Len(w)
  BY <1>3, <1>5, <1>7, <1>8
<1>10. \A i \in 1..Len(s) : i \in 1..Len(y) /\ i \in 1..Len(z)
  BY <1>8, <1>9
<1>11. \A i \in 1..Len(t) : Len(s) + i \in 1..Len(y) /\ Len(s) + i \in 1..Len(z)
  BY <1>8, <1>9
<1>12. \A i \in 1..Len(u) : Len(y) + i \in 1..Len(z)
  BY <1>8, <1>9
<1>. QED BY <1>3, <1>5, <1>7, <1>9, <1>10, <1>11, <1>12

\* Sequences of one and of two elements, and those that are not empty.
LEMMA Single ==
  ASSUME NEW S, NEW c \in S
  PROVE  <<c>> \in Seq(S) /\ Len(<<c>>) = 1 /\ <<c>>[1] = c
OBVIOUS

LEMMA Pair ==
  ASSUME NEW S, NEW c \in S, NEW d \in S
  PROVE  <<c, d>> \in Seq(S) /\ Len(<<c, d>>) = 2 /\ <<c, d>>[2] = d
OBVIOUS

LEMMA NotEmpty ==
  ASSUME NEW s, Len(s) = 1
  PROVE  s # <<>>
<1>1. Len(<<>>) = 0
  OBVIOUS
<1>. QED BY <1>1

\* A function on 1..n is a sequence.
LEMMA IsSequence ==
  ASSUME NEW S, NEW n \in Nat, NEW s \in [1..n -> S]
  PROVE  s \in Seq(S) /\ Len(s) = n
<1>1. s \in Seq(S)
  BY SeqDef
<1>2. Len(s) \in Nat /\ 1..Len(s) = 1..n
  BY <1>1
<1>. QED BY <1>1, <1>2

\* What an id is made of: texts, marks, and the texts of numbers.
Texts == STRING \cup Marks \cup {"v"} \cup Numerals

LEMMA Literals == "_" \in Texts /\ "v" \in Texts
BY DEF Texts, Marks

\* The numbers of a version stay what they are in an id.
LEMMA TripleTexts ==
  ASSUME NEW pin \in Seq(STRING), IsTriple(pin), NEW s, s = Sanitized(Undotted(pin))
  PROVE  /\ s \in Seq(Texts) /\ Len(s) = 5
         /\ \A i \in {1, 3, 5} : s[i] = pin[i]
<1>0. DOMAIN pin = 1..Len(pin) /\ \A i \in 1..Len(pin) : pin[i] \in STRING
  OBVIOUS
<1>1. DOMAIN pin = 1..5 /\ \A i \in 1..5 : pin[i] \in Texts
  BY <1>0 DEF IsTriple, Texts
<1>2. \A i \in {1, 3, 5} : pin[i] \notin Marks
  BY NumeralAssumption DEF IsTriple
<1> DEFINE u == Undotted(pin)
<1>3. u = [i \in 1..5 |-> IF pin[i] = "." THEN "_" ELSE pin[i]]
  BY <1>1 DEF Undotted
<1>4. /\ DOMAIN u = 1..5 /\ \A i \in 1..5 : u[i] \in Texts
      /\ \A i \in 1..5 : pin[i] \notin Marks => u[i] = pin[i]
  BY <1>1, <1>3, Literals DEF Marks
<1> HIDE DEF u
<1>5. s = [i \in 1..5 |-> IF u[i] \in {" ", "::", "|", "+"} THEN "_" ELSE u[i]]
  BY <1>4 DEF Sanitized, u
<1>6. \A i \in 1..5 : u[i] \notin Marks => s[i] = u[i]
  BY <1>5 DEF Marks
<1>7. s \in [1..5 -> Texts]
  BY <1>4, <1>5, Literals
<1>8. s \in Seq(Texts) /\ Len(s) = 5
  BY <1>7, IsSequence
<1>9. \A i \in {1, 3, 5} : i \in 1..5
  OBVIOUS
<1>. QED BY <1>2, <1>4, <1>6, <1>8, <1>9

\* The first three texts of an id are alias, "_" and endpoint.
LEMMA HeadParts ==
  ASSUME NEW key \in Seq(STRING), IsKey(key), IsPlain(key),
         NEW h, h = AliasOf(key) \o <<"_">> \o EndpointOf(key)
  PROVE  /\ h \in Seq(Texts) /\ Len(h) = 3
         /\ h[1] = AliasOf(key)[1] /\ h[3] = EndpointOf(key)[1]
<1> DEFINE a == AliasOf(key)
           e == EndpointOf(key)
           m == <<"_">>
<1>0. STRING \subseteq Texts
  BY DEF Texts
<1>1. a \in Seq(Texts) /\ e \in Seq(Texts)
  BY <1>0, KeyParts, SeqMonotonic
<1>2. m \in Seq(Texts)
  BY Literals, Single, Zenon
<1>3. Len(a) = 1 /\ Len(e) = 1 /\ Len(m) = 1
  BY Literals, Single, Zenon DEF IsPlain, IsWord
<1>4. PICK g : g = a \o m
  OBVIOUS
<1>5. h = g \o e
  BY <1>4
<1> HIDE DEF a, e, m
<1>6. g \in Seq(Texts) /\ Len(g) = Len(a) + Len(m) /\ \A i \in 1..Len(a) : g[i] = a[i]
  BY ONLY <1>1, <1>2, <1>4, Concat
<1>7. g \in Seq(Texts)
  BY ONLY <1>6
<1>8. /\ h \in Seq(Texts) /\ Len(h) = Len(g) + Len(e)
      /\ \A i \in 1..Len(g) : h[i] = g[i]
      /\ \A i \in 1..Len(e) : h[Len(g) + i] = e[i]
  BY ONLY <1>1, <1>5, <1>7, Concat
<1>9. Len(h) = 3 /\ h[1] = a[1] /\ h[3] = e[1]
  <2>1. Len(g) = 2 /\ 1 \in 1..Len(a) /\ 1 \in 1..Len(g) /\ 1 \in 1..Len(e)
    BY ONLY <1>3, <1>6
  <2>. QED BY ONLY <1>3, <1>6, <1>8, <2>1
<1>. QED BY <1>8, <1>9 DEF a, e

\* The pin of a key adds seven texts to its ids.
LEMMA VersionParts ==
  ASSUME NEW key \in Seq(STRING), IsKey(key), IsPlain(key), NEW v, v = VersionSuffix(key)
  PROVE  /\ v \in Seq(Texts) /\ Len(v) = IF Pinned(key) THEN 7 ELSE 0
         /\ Pinned(key) => \A j \in {1, 3, 5} : v[2 + j] = PinOf(key)[j]
<1>1. CASE Pinned(key)
  <2> DEFINE pin == Sanitized(Undotted(PinOf(key)))
             m == <<"_", "v">>
  <2>1. /\ pin \in Seq(Texts) /\ Len(pin) = 5
        /\ \A j \in {1, 3, 5} : pin[j] = PinOf(key)[j]
    BY <1>1, KeyParts, TripleTexts DEF IsPlain
  <2>2. v = m \o pin
    BY <1>1 DEF VersionSuffix
  <2>3. m \in Seq(Texts)
    BY Literals, Pair, Zenon
  <2>4. Len(m) = 2
    BY Literals, Pair, Zenon
  <2>5. pin \in Seq(Texts)
    BY <2>1
  <2>6. Len(pin) = 5
    BY <2>1
  <2> HIDE DEF pin, m
  <2>7. /\ v \in Seq(Texts) /\ Len(v) = Len(m) + Len(pin)
        /\ \A j \in 1..Len(pin) : v[Len(m) + j] = pin[j]
    BY ONLY <2>2, <2>3, <2>5, Concat
  <2>8. Len(v) = 7 /\ \A j \in 1..5 : v[2 + j] = pin[j]
    BY ONLY <2>4, <2>6, <2>7
  <2>9. ASSUME NEW j \in {1, 3, 5} PROVE v[2 + j] = PinOf(key)[j]
    <3>1. j \in 1..5
      OBVIOUS
    <3>2. v[2 + j] = pin[j] /\ pin[j] = PinOf(key)[j]
      BY <2>1, <2>8, <3>1
    <3>. QED BY ONLY <3>2
  <2>. QED BY <1>1, <2>7, <2>8, <2>9
<1>2. CASE ~Pinned(key)
  BY <1>2 DEF VersionSuffix
<1>. QED BY <1>1, <1>2

\* The label of a key adds two texts to its ids.
LEMMA LabelParts ==
  ASSUME NEW key \in Seq(STRING), IsKey(key), IsPlain(key), NEW l, l = LabelSuffix(key)
  PROVE  /\ l \in Seq(Texts) /\ Len(l) = IF HasLabel(key) THEN 2 ELSE 0
         /\ HasLabel(key) => l[2] = After(LastPart(key), "|")[1]
<1>1. CASE HasLabel(key)
  <2> DEFINE label == After(LastPart(key), "|")
             m == <<"_">>
  <2>0. STRING \subseteq Texts
    BY DEF Texts
  <2>1. /\ label \in Seq(STRING) /\ label \in Seq(Texts)
        /\ Len(label) = 1 /\ label[1] \notin Marks
    BY <1>1, <2>0, KeyParts, SeqMonotonic DEF IsPlain, IsWord, HasLabel
  <2>2. LabelOf(key) = label
    BY <1>1, <2>1, WordLabel DEF LabelOf, HasLabel, IsPlain
  <2>3. m \in Seq(Texts)
    BY Literals, Single, Zenon
  <2>4. Len(m) = 1
    BY Literals, Single, Zenon
  <2>5. l = m \o Sanitized(label)
    BY <2>1, <2>2, NotEmpty DEF LabelSuffix
  <2> HIDE DEF label, m
  <2>6. Sanitized(label) = label
    <3>1. DOMAIN label = 1..Len(label) /\ label = [k \in 1..Len(label) |-> label[k]]
      BY <2>1
    <3>2. DOMAIN label = 1..1 /\ label = [k \in 1..1 |-> label[k]]
      BY <2>1, <3>1
    <3>3. \A k \in 1..1 : label[k] \notin Marks
      BY <2>1
    <3>4. Sanitized(label) = [k \in 1..1 |-> label[k]]
      BY <3>2, <3>3 DEF Sanitized, Marks
    <3>. QED BY <3>2, <3>4
  <2>7. l = m \o label /\ label \in Seq(Texts)
    BY <2>1, <2>5, <2>6
  <2>8. /\ l \in Seq(Texts) /\ Len(l) = Len(m) + Len(label)
        /\ \A j \in 1..Len(label) : l[Len(m) + j] = label[j]
    BY ONLY <2>3, <2>7, Concat
  <2>9. Len(label) = 1
    BY <2>1
  <2>10. Len(l) = 2 /\ l[2] = label[1]
    BY ONLY <2>4, <2>8, <2>9
  <2>. QED BY <1>1, <2>8, <2>10 DEF label
<1>2. CASE ~HasLabel(key)
  BY <1>2 DEF LabelSuffix, LabelOf, HasLabel
<1>. QED BY <1>1, <1>2

\* The index of an item adds two texts, where there are several items.
LEMMA IndexParts ==
  ASSUME NEW items, NEW i, Len(items) > 1 => ToString(i) \in Numerals,
         NEW n, n = IndexSuffix(items, i)
  PROVE  /\ n \in Seq(Texts) /\ Len(n) = IF Len(items) > 1 THEN 2 ELSE 0
         /\ Len(items) > 1 => n[2] = ToString(i)
<1>1. CASE Len(items) > 1
  <2>1. n = <<"_", ToString(i)>>
    BY <1>1 DEF IndexSuffix
  <2>2. ToString(i) \in Texts
    BY <1>1, Zenon DEF Texts
  <2>3. PICK text \in Texts : text = ToString(i)
    BY <2>2, Zenon
  <2>4. <<"_", text>> \in Seq(Texts) /\ Len(<<"_", text>>) = 2 /\ <<"_", text>>[2] = text
    BY Literals, Pair, Zenon
  <2>. QED BY <1>1, <2>1, <2>3, <2>4, Zenon
<1>2. CASE ~(Len(items) > 1)
  BY <1>2 DEF IndexSuffix
<1>. QED BY <1>1, <1>2

\* Where the label and the index are in an id, if the key has them.
LabelAt(key) == IF Pinned(key) THEN 12 ELSE 5
IndexAt(key) == IF HasLabel(key) THEN LabelAt(key) + 2 ELSE LabelAt(key)

\* What is where in the id of an item of a plain key.
LEMMA PlainId ==
  ASSUME NEW key \in Seq(STRING), IsKey(key), IsPlain(key),
         NEW b, b.key = key, NEW i, Len(b.items) > 1 => ToString(i) \in Numerals,
         NEW x, x = TaskId(b, i)
  PROVE  /\ Len(x) = IF Len(b.items) > 1 THEN IndexAt(key) ELSE IndexAt(key) - 2
         /\ x[1] = AliasOf(key)[1] /\ x[3] = EndpointOf(key)[1]
         /\ Pinned(key) => \A j \in {1, 3, 5} : x[5 + j] = PinOf(key)[j]
         /\ HasLabel(key) => x[LabelAt(key)] = After(LastPart(key), "|")[1]
         /\ Len(b.items) > 1 => x[IndexAt(key)] = ToString(i)
<1> DEFINE h == AliasOf(key) \o <<"_">> \o EndpointOf(key)
           v == VersionSuffix(key)
           l == LabelSuffix(key)
           n == IndexSuffix(b.items, i)
<1>2. /\ h \in Seq(Texts) /\ Len(h) = 3
      /\ h[1] = AliasOf(key)[1] /\ h[3] = EndpointOf(key)[1]
  BY HeadParts
<1>3. /\ v \in Seq(Texts) /\ Len(v) = IF Pinned(key) THEN 7 ELSE 0
      /\ Pinned(key) => \A j \in {1, 3, 5} : v[2 + j] = PinOf(key)[j]
  BY VersionParts
<1>4. /\ l \in Seq(Texts) /\ Len(l) = IF HasLabel(key) THEN 2 ELSE 0
      /\ HasLabel(key) => l[2] = After(LastPart(key), "|")[1]
  BY LabelParts
<1>5. /\ n \in Seq(Texts) /\ Len(n) = IF Len(b.items) > 1 THEN 2 ELSE 0
      /\ Len(b.items) > 1 => n[2] = ToString(i)
  BY IndexParts
<1>6. x = h \o v \o l \o n
  BY DEF TaskId
<1> HIDE DEF h, v, l, n
<1>7. /\ Len(x) = Len(h) + Len(v) + Len(l) + Len(n)
      /\ \A j \in 1..Len(h) : x[j] = h[j]
      /\ \A j \in 1..Len(v) : x[Len(h) + j] = v[j]
      /\ \A j \in 1..Len(l) : x[Len(h) + Len(v) + j] = l[j]
      /\ \A j \in 1..Len(n) : x[Len(h) + Len(v) + Len(l) + j] = n[j]
  <2>1. h \in Seq(Texts) /\ v \in Seq(Texts) /\ l \in Seq(Texts) /\ n \in Seq(Texts)
    BY <1>2, <1>3, <1>4, <1>5
  <2>. QED BY ONLY <1>6, <2>1, Joined
<1>8. /\ Len(h) + Len(v) + 2 = LabelAt(key)
      /\ Len(h) + Len(v) + Len(l) + 2 = IndexAt(key)
      /\ LabelAt(key) \in Nat /\ IndexAt(key) \in Nat
  BY <1>2, <1>3, <1>4 DEF LabelAt, IndexAt
<1>9. Len(x) = IF Len(b.items) > 1 THEN IndexAt(key) ELSE IndexAt(key) - 2
  BY <1>2, <1>3, <1>4, <1>5, <1>7, <1>8 DEF LabelAt, IndexAt
<1>10. x[1] = AliasOf(key)[1] /\ x[3] = EndpointOf(key)[1]
  BY <1>2, <1>7
<1>11. ASSUME Pinned(key), NEW j \in {1, 3, 5} PROVE x[5 + j] = PinOf(key)[j]
  <2>1. 2 + j \in 1..7 /\ 3 + (2 + j) = 5 + j
    OBVIOUS
  <2>. QED BY <1>2, <1>3, <1>7, <1>11, <2>1
<1>12. HasLabel(key) => x[LabelAt(key)] = After(LastPart(key), "|")[1]
  BY <1>4, <1>7, <1>8
<1>13. ASSUME Len(b.items) > 1 PROVE x[IndexAt(key)] = ToString(i)
  <2>1. Len(h) + Len(v) + Len(l) + 2 = IndexAt(key) /\ 2 \in 1..Len(n)
    BY <1>5, <1>8, <1>13
  <2>2. x[IndexAt(key)] = n[2]
    BY <1>7, <2>1
  <2>. QED BY <1>5, <1>13, <2>2
<1>. QED BY <1>9, <1>10, <1>11, <1>12, <1>13

\* Words that agree in their text are the same, and so are triples that agree
\* in their numbers.
LEMMA WordOf ==
  ASSUME NEW s \in Seq(STRING), NEW t \in Seq(STRING), Len(s) = 1, Len(t) = 1, s[1] = t[1]
  PROVE  s = t
OBVIOUS

LEMMA TripleOf ==
  ASSUME NEW s \in Seq(STRING), NEW t \in Seq(STRING), IsTriple(s), IsTriple(t),
         \A j \in {1, 3, 5} : s[j] = t[j]
  PROVE  s = t
<1>1. Len(s) = 5 /\ Len(t) = 5 /\ \A j \in 1..5 : s[j] = t[j]
  <2>1. \A j \in 1..5 : j \in {1, 3, 5} \/ j = 2 \/ j = 4
    OBVIOUS
  <2>. QED BY <2>1 DEF IsTriple
<1>. QED BY <1>1

\* Blocks of one file and their items: same id, same key and same item.
LEMMA SameKey ==
  ASSUME NEW b, NEW c, NEW i \in DOMAIN b.items, NEW j \in DOMAIN c.items,
         b.key \in Seq(STRING), c.key \in Seq(STRING), IsKey(b.key), IsKey(c.key),
         IsPlain(b.key), IsPlain(c.key),
         ToString(i) \in Numerals, ToString(j) \in Numerals,
         TaskId(b, i) = TaskId(c, j)
  PROVE  b.key = c.key /\ (Len(b.items) > 1 /\ Len(c.items) > 1 => ToString(i) = ToString(j))
<1> DEFINE k == b.key
           l == c.key
           many == Len(b.items) > 1
           more == Len(c.items) > 1
<1>1. PICK x : x = TaskId(b, i)
  OBVIOUS
<1>2. /\ Len(x) = IF many THEN IndexAt(k) ELSE IndexAt(k) - 2
      /\ x[1] = AliasOf(k)[1] /\ x[3] = EndpointOf(k)[1]
      /\ Pinned(k) => \A n \in {1, 3, 5} : x[5 + n] = PinOf(k)[n]
      /\ HasLabel(k) => x[LabelAt(k)] = After(LastPart(k), "|")[1]
      /\ many => x[IndexAt(k)] = ToString(i)
  BY <1>1, PlainId
<1>3. /\ Len(x) = IF more THEN IndexAt(l) ELSE IndexAt(l) - 2
      /\ x[1] = AliasOf(l)[1] /\ x[3] = EndpointOf(l)[1]
      /\ Pinned(l) => \A n \in {1, 3, 5} : x[5 + n] = PinOf(l)[n]
      /\ HasLabel(l) => x[LabelAt(l)] = After(LastPart(l), "|")[1]
      /\ more => x[IndexAt(l)] = ToString(j)
  BY <1>1, PlainId
<1>4. /\ b.key = k /\ c.key = l /\ k \in Seq(STRING) /\ l \in Seq(STRING)
      /\ IsKey(k) /\ IsKey(l) /\ IsPlain(k) /\ IsPlain(l)
  OBVIOUS
<1> HIDE DEF many, more, k, l
<1>5. Pinned(k) <=> Pinned(l)
  BY ONLY <1>2, <1>3 DEF IndexAt, LabelAt
<1>6. LabelAt(k) = LabelAt(l) /\ LabelAt(k) \in Nat
  BY ONLY <1>5 DEF LabelAt
<1>7. /\ HasLabel(k) => After(LastPart(k), "|")[1] \notin Numerals
      /\ HasLabel(l) => After(LastPart(l), "|")[1] \notin Numerals
  BY <1>4 DEF IsPlain, IsWord, HasLabel
<1>8. HasLabel(k) <=> HasLabel(l)
  <2>1. ASSUME HasLabel(k), ~HasLabel(l) PROVE FALSE
    <3>1. Len(x) >= LabelAt(k) /\ (~more => Len(x) < LabelAt(k))
      BY <1>2, <1>3, <1>6, <2>1 DEF IndexAt
    <3>2. more /\ IndexAt(l) = LabelAt(k)
      BY <1>2, <1>3, <1>6, <2>1, <3>1 DEF IndexAt
    <3>3. x[LabelAt(k)] = ToString(j) /\ x[LabelAt(k)] = After(LastPart(k), "|")[1]
      BY <1>2, <1>3, <2>1, <3>2
    <3>. QED BY <1>7, <2>1, <3>3
  <2>2. ASSUME HasLabel(l), ~HasLabel(k) PROVE FALSE
    <3>1. Len(x) >= LabelAt(l) /\ (~many => Len(x) < LabelAt(l))
      BY <1>2, <1>3, <1>6, <2>2 DEF IndexAt
    <3>2. many /\ IndexAt(k) = LabelAt(l)
      BY <1>2, <1>3, <1>6, <2>2, <3>1 DEF IndexAt
    <3>3. x[LabelAt(l)] = ToString(i) /\ x[LabelAt(l)] = After(LastPart(l), "|")[1]
      BY <1>2, <1>3, <2>2, <3>2
    <3>. QED BY <1>7, <2>2, <3>3
  <2>. QED BY <2>1, <2>2
<1>9. IndexAt(k) = IndexAt(l)
  BY <1>6, <1>8 DEF IndexAt
<1>10. many /\ more => ToString(i) = ToString(j)
  BY <1>2, <1>3, <1>9
<1>11. AliasOf(k) = AliasOf(l) /\ EndpointOf(k) = EndpointOf(l)
  <2>1. /\ AliasOf(k) \in Seq(STRING) /\ AliasOf(l) \in Seq(STRING)
        /\ EndpointOf(k) \in Seq(STRING) /\ EndpointOf(l) \in Seq(STRING)
    BY <1>4, KeyParts
  <2>2. /\ Len(AliasOf(k)) = 1 /\ Len(AliasOf(l)) = 1
        /\ Len(EndpointOf(k)) = 1 /\ Len(EndpointOf(l)) = 1
    BY <1>4 DEF IsPlain, IsWord
  <2>3. AliasOf(k)[1] = AliasOf(l)[1] /\ EndpointOf(k)[1] = EndpointOf(l)[1]
    BY <1>2, <1>3
  <2>. QED BY ONLY <2>1, <2>2, <2>3, WordOf
<1>12. Pinned(k) => PinOf(k) = PinOf(l)
  <2> SUFFICES ASSUME Pinned(k) PROVE PinOf(k) = PinOf(l)
    OBVIOUS
  <2>1. /\ PinOf(k) \in Seq(STRING) /\ PinOf(l) \in Seq(STRING)
        /\ IsTriple(PinOf(k)) /\ IsTriple(PinOf(l))
    BY <1>4, <1>5, KeyParts DEF IsPlain
  <2>2. \A n \in {1, 3, 5} : PinOf(k)[n] = PinOf(l)[n]
    BY <1>2, <1>3, <1>5
  <2>. QED BY ONLY <2>1, <2>2, TripleOf
<1>13. HasLabel(k) => After(LastPart(k), "|") = After(LastPart(l), "|")
  <2> SUFFICES ASSUME HasLabel(k) PROVE After(LastPart(k), "|") = After(LastPart(l), "|")
    OBVIOUS
  <2>1. After(LastPart(k), "|") \in Seq(STRING) /\ After(LastPart(l), "|") \in Seq(STRING)
    BY <1>4, <1>8, KeyParts
  <2>2. Len(After(LastPart(k), "|")) = 1 /\ Len(After(LastPart(l), "|")) = 1
    BY <1>4, <1>8 DEF IsPlain, IsWord, HasLabel
  <2>3. After(LastPart(k), "|")[1] = After(LastPart(l), "|")[1]
    BY <1>2, <1>3, <1>6, <1>8
  <2>. QED BY ONLY <2>1, <2>2, <2>3, WordOf
<1>14. k = l
  BY <1>4, <1>5, <1>8, <1>11, <1>12, <1>13, KeyDetermined
<1>. QED BY <1>10, <1>14 DEF many, more, k, l

\* In a file of plain keys every task has an id of its own.
LEMMA OwnId ==
  ASSUME NEW file \in Files, NEW p \in DOMAIN file, NEW q \in DOMAIN file,
         IsKey(file[p].key), IsKey(file[q].key), IsPlain(file[p].key), IsPlain(file[q].key),
         NEW i \in DOMAIN file[p].items, NEW j \in DOMAIN file[q].items,
         TaskId(file[p], i) = TaskId(file[q], j)
  PROVE  p = q /\ i = j
<1>1. file[p] \in ToSet(file) /\ file[q] \in ToSet(file)
  BY DEF ToSet
<1>2. /\ file[p].key \in Seq(STRING) /\ file[p].items \in Seq(ToSet(file[p].items))
      /\ ToString(i) \in Numerals /\ NumberOf[ToString(i)] = i
  BY <1>1, FileAssumption
<1>3. /\ file[q].key \in Seq(STRING)
      /\ ToString(j) \in Numerals /\ NumberOf[ToString(j)] = j
  BY <1>1, FileAssumption
<1>4. /\ file[p].key = file[q].key
      /\ Len(file[p].items) > 1 /\ Len(file[q].items) > 1 => ToString(i) = ToString(j)
  BY <1>2, <1>3, SameKey
<1>5. p = q
  BY <1>4, FileAssumption
<1>6. CASE Len(file[p].items) > 1
  BY <1>2, <1>3, <1>4, <1>5, <1>6
<1>7. CASE ~(Len(file[p].items) > 1)
  <2>1. DOMAIN file[p].items = 1..Len(file[p].items) /\ Len(file[p].items) \in Nat
    BY <1>2
  <2>. QED BY <1>5, <1>7, <2>1
<1>. QED BY <1>5, <1>6, <1>7

-----------------------------------------------------------------------------
(* The tasks of a run.                                                     *)

\* The tasks of a file are those of its blocks.
LEMMA TaskOrigin ==
  ASSUME NEW file \in Files, NEW map, NEW x \in DOMAIN Tasks(file, map)
  PROVE  \E p \in DOMAIN file : \E i \in DOMAIN file[p].items :
           Tasks(file, map)[x] = Task(file[p], i, map)
<1> DEFINE S == UNION {{Task(file[p], i, map) : i \in DOMAIN file[p].items} : p \in DOMAIN file}
           block(p) == [i \in DOMAIN file[p].items |-> Task(file[p], i, map)]
           blocks == [p \in DOMAIN file |-> block(p)]
<1>1. DOMAIN file = 1..Len(file) /\ Len(file) \in Nat
  BY FileAssumption
<1>2. ASSUME NEW p \in DOMAIN file PROVE block(p) \in Seq(S)
  <2>1. file[p] \in ToSet(file)
    BY DEF ToSet
  <2>2. /\ DOMAIN file[p].items = 1..Len(file[p].items)
        /\ Len(file[p].items) \in Nat
    BY <2>1, FileAssumption
  <2>3. \A i \in DOMAIN file[p].items : Task(file[p], i, map) \in S
    OBVIOUS
  <2> HIDE DEF S
  <2>4. block(p) \in [1..Len(file[p].items) -> S]
    BY <2>2, <2>3
  <2>. QED BY <2>2, <2>4, IsSequence
<1>3. blocks \in Seq(Seq(S))
  <2> HIDE DEF S, block
  <2>1. blocks \in [1..Len(file) -> Seq(S)]
    BY <1>1, <1>2
  <2>. QED BY <1>1, <2>1, IsSequence
<1>4. Tasks(file, map) = FlattenSeq(blocks)
  BY DEF Tasks
<1>5. Tasks(file, map) \in Seq(S)
  <2> HIDE DEF S, blocks
  <2>. QED BY <1>3, <1>4, FlattenType
<1>6. Tasks(file, map)[x] \in S
  <2> HIDE DEF S
  <2>. QED BY <1>5
<1>. QED BY <1>6

\* A plugin finds under the id of a task its parameters alone.
LEMMA FindsOwn ==
  ASSUME NEW file \in Files, NEW map, Accepted(file, map),
         \A b \in ToSet(file) : IsPlain(b.key),
         NEW x \in DOMAIN Tasks(file, map)
  PROVE  {e.params : e \in FoundById(Snapshot(Tasks(file, map)), Tasks(file, map)[x].id)}
           = {Tasks(file, map)[x].params}
<1> DEFINE tasks == Tasks(file, map)
<1>1. ASSUME NEW y \in DOMAIN tasks, tasks[y].id = tasks[x].id
      PROVE  tasks[y] = tasks[x]
  <2>1. PICK p \in DOMAIN file : \E i \in DOMAIN file[p].items : tasks[x] = Task(file[p], i, map)
    BY TaskOrigin
  <2>2. PICK i \in DOMAIN file[p].items : tasks[x] = Task(file[p], i, map)
    BY <2>1
  <2>3. PICK q \in DOMAIN file : \E j \in DOMAIN file[q].items : tasks[y] = Task(file[q], j, map)
    BY TaskOrigin
  <2>4. PICK j \in DOMAIN file[q].items : tasks[y] = Task(file[q], j, map)
    BY <2>3
  <2>5. TaskId(file[p], i) = TaskId(file[q], j)
    BY <1>1, <2>2, <2>4 DEF Task
  <2>6. file[p] \in ToSet(file) /\ file[q] \in ToSet(file)
    BY DEF ToSet
  <2>7. IsKey(file[p].key) /\ IsKey(file[q].key) /\ IsPlain(file[p].key) /\ IsPlain(file[q].key)
    BY <2>6 DEF Accepted, Resolvable
  <2>8. p = q /\ i = j
    BY <2>5, <2>7, OwnId
  <2>. QED BY <2>2, <2>4, <2>8
<1> HIDE DEF tasks
<1>2. x \in DOMAIN tasks
  BY DEF tasks
<1> DEFINE entry(y) ==
         [id |-> tasks[y].id, command |-> tasks[y].command, params |-> tasks[y].params]
<1>3. Snapshot(tasks) = [y \in DOMAIN tasks |-> entry(y)]
  BY DEF Snapshot
<1>4. FoundById(Snapshot(tasks), tasks[x].id) = {entry(x)}
  <2>1. ASSUME NEW e \in FoundById(Snapshot(tasks), tasks[x].id) PROVE e = entry(x)
    <3>1. PICK y \in DOMAIN tasks : e = entry(y) /\ entry(y).id = tasks[x].id
      BY <1>3, <2>1 DEF FoundById, ToSet
    <3>2. tasks[y] = tasks[x]
      BY <1>1, <3>1
    <3>. QED BY <3>1, <3>2
  <2>2. entry(x) \in FoundById(Snapshot(tasks), tasks[x].id)
    BY <1>2, <1>3 DEF FoundById, ToSet
  <2>. QED BY <2>1, <2>2
<1>5. entry(x).params = tasks[x].params
  OBVIOUS
<1> HIDE DEF entry
<1>. QED BY <1>4, <1>5 DEF tasks

\* Only a run changes what is remembered of one.
LEMMA FindsNext == OwnParams /\ [Next]_vars => OwnParams'
<1> SUFFICES ASSUME OwnParams, [Next]_vars PROVE OwnParams'
  OBVIOUS
<1>1. ASSUME NEW file \in Files, RunFile(file) PROVE OwnParams'
  <2>1. PICK map \in AliasMaps :
          LET tasks == IF Accepted(file, map) THEN Tasks(file, map) ELSE <<>>
          IN  \E reached \in SUBSET DOMAIN tasks :
                answer' = [of |-> "run", file |-> file,
                           ran |-> {Dispatch(tasks[i], tasks) : i \in reached}]
    BY <1>1 DEF RunFile
  <2> SUFFICES ASSUME \A b \in ToSet(file) : IsPlain(b.key), NEW d \in answer'.ran
               PROVE  d.found = {d.task.params}
    BY <2>1 DEF OwnParams
  <2> DEFINE tasks == Tasks(file, map)
  <2>2. PICK i \in DOMAIN tasks : d = Dispatch(tasks[i], tasks) /\ Accepted(file, map)
    BY <2>1
  <2>3. {e.params : e \in FoundById(Snapshot(tasks), tasks[i].id)} = {tasks[i].params}
    BY <2>2, FindsOwn
  <2> HIDE DEF tasks
  <2>4. /\ d.task = tasks[i]
        /\ d.found = {e.params : e \in FoundById(Snapshot(tasks), tasks[i].id)}
    BY <2>2 DEF Dispatch
  <2>. QED BY <2>3, <2>4
<1>2. CASE answer'.of # "run"
  BY <1>2 DEF OwnParams
<1>3. CASE UNCHANGED vars
  BY <1>3 DEF OwnParams, vars
<1>4. ASSUME NEW t, NEW o, NEW b, NEW id, NEW a, Pack(t, o, b, id, a)
      PROVE  answer'.of # "run"
  BY <1>4 DEF Pack, Done
<1>5. ASSUME NEW p, NEW flags, NEW row,
             \/ RefuseInstall(p, flags, row)
             \/ \E name : Install(p, flags, row, name)
      PROVE  answer'.of # "run"
  BY <1>5 DEF RefuseInstall, Install, Answered, Done
<1>6. ASSUME \/ SetAliases \/ ReadAnswer \/ \E id \in KeyIds : Keygen(id)
             \/ \E t, id, b : SignByHand(t, id, b)
      PROVE  answer'.of # "run"
  BY <1>6 DEF SetAliases, ReadAnswer, Keygen, SignByHand, Done, NoAnswer
<1>. QED BY <1>1, <1>2, <1>3, <1>4, <1>5, <1>6 DEF Next, Command

\* In a run of a file whose keys are words with versions of three numbers, every
\* plugin finds under its task's id the parameters of that task and of no other,
\* however long the file is and whatever aliases, labels, versions and repeated
\* tables it has (parse.rs:101-125, 197-209, dispatch.rs:115).
THEOREM Finds == Spec => []OwnParams
<1>1. Init => OwnParams
  BY DEF Init, OwnParams, NoAnswer
<1>. QED BY <1>1, FindsNext, PTL DEF Spec
=============================================================================
