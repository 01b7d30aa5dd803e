------------------------------ MODULE Publishing ------------------------------
(***************************************************************************)
(* The way of a plugin from its author to a task: `oc-sign keygen`, `pack` *)
(* and `sign`, a package that may arrive altered, the gates of             *)
(* install_package that look at the manifest, and a task file whose keys   *)
(* are resolved to a binary, its dependencies and its parameters.          *)
(*                                                                         *)
(* A digest is represented by the binary it is the digest of, a signature  *)
(* by the key and the manifest.  How an installation stops half-way and    *)
(* how commands interleave is the business of module PluginStore; here     *)
(* every command is one step.                                              *)
(***************************************************************************)
EXTENDS TaskKeys

CONSTANTS
  Templates,   \* manifests as authors write them
  Binaries,    \* builds
  TooBig,      \* those of more than 200 MB
  KeyIds,      \* key ids an author has a key file for
  Arguments,   \* orders of the arguments of `oc-sign pack`
  FileNames,   \* file names under which packages arrive
  Consents,    \* flags of `plugin install`, of "dev", "risk" and "ack"
  Trusted,     \* trusted_keys.json: from key ids to keys
  Blocked,     \* blocked_plugins.json: [plugin, max], max <<>> or <<version>>
  AliasTables, \* what the table plugin_aliases may hold
  Files,       \* task files
  NumberOf,    \* from the texts that parse as a number to the number
  Platforms,
  Here,        \* the platform of the host
  MaxKeys,     \* bound: key pairs generated per key id
  MaxPackages, \* bound: packages
  MaxInstalls  \* bound: installations

ASSUME HereAssumption == Here \in Platforms
ASSUME BoundAssumption == MaxKeys \in Nat

\* An empty optional, and a digest that is not 64 hex digits.
None == "none"
Placeholder == "placeholder"

\* What a file in an install directory holds when it is not a build: the package
\* or its manifest.
Archive == "archive"
Text == "text"

ASSUME NameAssumption == None \notin DOMAIN Trusted /\ Placeholder \notin Binaries

\* Of a manifest: whether it is one for install_package, whether it has at most
\* 4 MB, its risk profile and capabilities, and per platform of its entrypoints
\* the path, a sequence of names, and the digest.
ASSUME ManifestAssumption ==
  \A t \in Templates :
    DOMAIN t = {"plugin", "version", "eps", "signing", "deps", "formed", "fits",
                "risky", "caps"}

\* The texts that are numbers, and those that separate the parts of a text.
Numerals == DOMAIN NumberOf
Marks == {" ", "::", "|", "_", "-", ".", "+"}
ASSUME NumeralAssumption ==
  NumberOf \in [Numerals -> Nat] /\ Numerals \cap Marks = {}

\* A file is a TOML table, in which no key is twice, and the texts of the indices
\* of its items are those of their numbers (parse.rs:112, TOML arrays of tables).
ASSUME FileAssumption ==
  \A file \in Files :
    /\ file \in Seq(ToSet(file))
    /\ \A i, j \in DOMAIN file : file[i].key = file[j].key => i = j
    /\ \A b \in ToSet(file) :
         /\ b.key \in Seq(STRING) /\ b.items \in Seq(ToSet(b.items))
         /\ b.array \in BOOLEAN
         /\ \A i \in DOMAIN b.items :
              ToString(i) \in Numerals /\ NumberOf[ToString(i)] = i

VARIABLES
  keyFile,   \* per key id, how many keys keygen has made: the file holds the last
  packages,  \* the packages that exist
  signed,    \* every signature ever made
  registry,  \* plugin_registry: from plugin ids to the dependencies
  rows,      \* plugin_installations
  disk,      \* from plugin, version and file name to what the file holds
  aliases,   \* plugin_aliases
  answer,    \* what the last command was asked and has done, until it is read
  installs,  \* number of installations
  lax,       \* history: plugins installed in developer mode
  copies     \* history: the files to which a package or manifest was copied

\* What only Install changes.
host == <<registry, rows, disk, installs, lax, copies>>
vars == <<keyFile, packages, signed, host, aliases, answer>>

NoAnswer == [of |-> "nothing"]
Done == [of |-> "done"]

Init ==
  /\ keyFile = [k \in KeyIds |-> 0]
  /\ packages = {} /\ signed = {}
  /\ registry = <<>> /\ rows = {} /\ disk = <<>>
  /\ aliases \in AliasTables
  /\ answer = NoAnswer /\ installs = 0 /\ lax = {} /\ copies = {}

-----------------------------------------------------------------------------
(* Versions.                                                               *)

\* normalize_version: without build metadata and pre-release.
Normalized(v) ==
  LET w == IF Has(v, "+") THEN Before(v, "+") ELSE v
  IN  IF Has(w, "-") THEN Before(w, "-") ELSE w

\* The parts between the dots that parse as numbers; the others are dropped.
NumbersOf(v) ==
  LET parts == SelectSeq(Normalized(v), LAMBDA w : w \in Numerals)
  IN  [i \in DOMAIN parts |-> NumberOf[parts[i]]]

Part(s, i) == IF i <= Len(s) THEN s[i] ELSE 0

\* Mutant of VersionLe: every part is compared on its own.
VersionLeByParts(v, max) ==
  LET a == NumbersOf(v)
      b == NumbersOf(max)
  IN  \A i \in 1..Len(a) + Len(b) : Part(a, i) <= Part(b, i)

VersionLe(v, max) ==
  LET a == NumbersOf(v)
      b == NumbersOf(max)
  IN  \A i \in 1..Len(a) + Len(b) :
        Part(a, i) <= Part(b, i) \/ \E j \in 1..i - 1 : Part(a, j) < Part(b, j)

\* The order of semantic versions: of their three numbers, the first one that
\* differs, and a version above its pre-releases.
Below(v, w) ==
  LET a == NumbersOf(v)
      b == NumbersOf(w)
  IN  \E i \in 1..3 : Part(a, i) < Part(b, i) /\ \A j \in 1..i - 1 : Part(a, j) = Part(b, j)
Precedes(v, w) ==
  Below(v, w) \/ (~Below(w, v) /\ Has(v, "-") /\ ~Has(w, "-"))

\* Manifests and the revocation list hold semantic versions (manifest.rs:35),
\* which have three numbers.
Versions == {t.version : t \in Templates} \cup UNION {ToSet(b.max) : b \in Blocked}
ASSUME VersionAssumption ==
  \A v \in Versions : NumbersOf(v) \in Seq(Nat) /\ Len(NumbersOf(v)) <= 3

\* RevocationList::check.
IsBlocked(plugin, v) ==
  \E b \in Blocked :
    b.plugin = plugin /\ \A max \in ToSet(b.max) : VersionLe(v, max)

-----------------------------------------------------------------------------
(* oc-sign.                                                                *)

Keygen(id) ==
  /\ keyFile[id] < MaxKeys
  /\ keyFile' = [keyFile EXCEPT ![id] = @ + 1]
  /\ answer' = Done
  /\ UNCHANGED <<packages, signed, host, aliases>>

ValueFlags == {"--key-file", "--out"}
IsFlag(a) == a \in ValueFlags \cup {"--unknown"}

\* positional_args: a flag that takes a value takes the argument after it.
Taken(args) ==
  LET value[i \in 0..Len(args)] ==
        i > 1 /\ args[i - 1] \in ValueFlags /\ ~value[i - 1]
  IN  value
Positionals(args) ==
  LET taken == Taken(args)
      at == {i \in DOMAIN args : ~taken[i] /\ ~IsFlag(args[i])}
  IN  [n \in 1..Cardinality(at) |->
         args[CHOOSE i \in at : Cardinality({j \in at : j <= i}) = n]]

\* flag_value: the argument after the first occurrence.
FlagValue(args, flag) ==
  LET at == {i \in 1..Len(args) - 1 : args[i] = flag}
  IN  IF at = {} THEN None ELSE args[Min(at) + 1]

\* The arguments name the files the author means.
Understood(args) ==
  /\ Len(Positionals(args)) >= 2
  /\ Positionals(args)[1] = "template" /\ Positionals(args)[2] = "binary"
  /\ FlagValue(args, "--key-file") = "key" /\ FlagValue(args, "--out") = "out"

\* Authors name both files and give each flag once with its value, in any order
\* and among flags that pack does not know (main.rs:174-187).
Names(args, t, b, k, o) ==
  /\ t < b /\ args[t] = "template" /\ args[b] = "binary"
  /\ args[k] = "--key-file" /\ args[k + 1] = "key"
  /\ args[o] = "--out" /\ args[o + 1] = "out"
  /\ \A i \in 1..Len(args) \ {t, b, k, k + 1, o, o + 1} : args[i] = "--unknown"
IsInvocation(args) ==
  \E t, b \in 1..Len(args), k, o \in 1..Len(args) - 1 : Names(args, t, b, k, o)
ASSUME ArgumentAssumption ==
  \A a \in Arguments : a \in Seq(STRING) /\ IsInvocation(a)

Key(id, n) == [id |-> id, number |-> n]
Signature(key, m) == [key |-> key, of |-> m]
Patched(t, platform, b) == [t EXCEPT !.eps[platform].digest = b]

\* The package, with the signature if the manifest says where it goes.
Zipped(m, files, key) ==
  [manifest |-> m, files |-> files,
   sig |-> IF m.signing = None THEN {} ELSE {Signature(key, m)}]

\* Mutant of Packed: the template is signed before the digest is set.
PackedUnpatched(t, platform, b, key) ==
  LET m == Patched(t, platform, b)
  IN  [Zipped(m, t.eps[platform].path :> b, key) EXCEPT !.sig = {Signature(key, t)}]

Packed(t, platform, b, key) ==
  Zipped(Patched(t, platform, b), t.eps[platform].path :> b, key)

\* cmd_pack on an author's platform, with the key file of id.
Pack(t, platform, b, id, args) ==
  LET refused == ~Understood(args) \/ platform \notin DOMAIN t.eps \/ keyFile[id] = 0
      p == Packed(t, platform, b, Key(id, keyFile[id]))
  IN  /\ Cardinality(packages) < MaxPackages
      /\ answer' = IF platform \in DOMAIN t.eps /\ keyFile[id] # 0
                   THEN [of |-> "pack", ok |-> ~refused] ELSE Done
      /\ IF refused THEN UNCHANGED <<packages, signed>>
         ELSE packages' = packages \cup {p} /\ signed' = signed \cup p.sig
      /\ UNCHANGED <<keyFile, host, aliases>>

\* cmd_sign on a manifest whose digests the author has filled in for every
\* platform, and a package zipped by hand (docs/src/guide/packaging.md:116).
SignByHand(t, id, b) ==
  LET m == [t EXCEPT !.eps = [o \in DOMAIN t.eps |-> [t.eps[o] EXCEPT !.digest = b]]]
      key == Key(id, keyFile[id])
      p == Zipped(m, [f \in {t.eps[o].path : o \in DOMAIN t.eps} |-> b], key)
  IN  /\ Cardinality(packages) < MaxPackages /\ keyFile[id] # 0
      /\ packages' = packages \cup {p}
      /\ signed' = signed \cup {Signature(key, m)}
      /\ answer' = Done
      /\ UNCHANGED <<keyFile, host, aliases>>

-----------------------------------------------------------------------------
(* install_package.                                                        *)

\* How a package may arrive: as it is, without the signature, with another
\* file at a path, with another version in the manifest, or with another
\* binary and its digest in the manifest.
Rebuilt(p, b) ==
  [p EXCEPT !.manifest.eps[Here].digest = b, !.files = [f \in DOMAIN @ |-> b]]
Arrivals(p) ==
  {p, [p EXCEPT !.sig = {}]}
  \cup {[p EXCEPT !.files[f] = b] : f \in DOMAIN p.files, b \in Binaries}
  \cup {[p EXCEPT !.manifest.version = t.version] : t \in Templates}
  \cup (IF Here \in DOMAIN p.manifest.eps THEN {Rebuilt(p, b) : b \in Binaries} ELSE {})

\* validate_manifest: the fields that must be there, of plugin id and version
\* the characters, the runtime type, and the digest of every entrypoint, also of
\* those for other platforms; before it, the manifest has been read and parsed.
Valid(m) ==
  m.formed /\ m.fits /\ \A o \in DOMAIN m.eps : m.eps[o].digest # Placeholder

\* The file of the entrypoint for this platform, small enough, and its digest.
HasBinary(p) ==
  /\ Here \in DOMAIN p.manifest.eps
  /\ p.manifest.eps[Here].path \in DOMAIN p.files
  /\ p.files[p.manifest.eps[Here].path] = p.manifest.eps[Here].digest
  /\ p.files[p.manifest.eps[Here].path] \notin TooBig

\* TrustedKeyStore::verify.
Verifies(p) ==
  Signature(Trusted[p.manifest.signing], p.manifest) \in p.sig

\* Mutant of IsTrusted: the signature is by the key, whatever it signs.
IsTrustedByKey(p, dev) ==
  IF p.manifest.signing = None \/ p.sig = {} \/ p.manifest.signing \notin DOMAIN Trusted
  THEN dev
  ELSE \E s \in p.sig : s.key = Trusted[p.manifest.signing]

\* evaluate_trust: without a signature or with an unknown key only in
\* developer mode, with a signature that does not verify never.
IsTrusted(p, dev) ==
  IF p.manifest.signing = None \/ p.sig = {} \/ p.manifest.signing \notin DOMAIN Trusted
  THEN dev
  ELSE Verifies(p)

\* The hash covers the capabilities and the risk profile.
CapsHash(m) == <<m.caps, m.risky>>

VersionsOf(plugin) == {r.version : r \in {q \in rows : q.plugin = plugin}}

\* The highest of a set of versions: none, or one.
HighestOf(versions) == {v \in versions : \A w \in versions : ~Precedes(v, w)}

RowsOf(plugin, versions) == {r \in rows : r.plugin = plugin /\ r.version \in versions}

\* get_current: a row of the highest version, any where it has several.
Current(plugin) == RowsOf(plugin, HighestOf(VersionsOf(plugin)))

\* The gates of consent pass: the risk is acknowledged, and so is a change of
\* the capabilities from those of the row, where there is one.
Agreed(m, flags, row) ==
  /\ m.risky => "risk" \in flags
  /\ \A r \in row : r.caps # CapsHash(m) => "ack" \in flags

Admits(p, flags, row) ==
  /\ Valid(p.manifest)
  /\ ~IsBlocked(p.manifest.plugin, p.manifest.version)
  /\ Agreed(p.manifest, flags, row)
  /\ HasBinary(p)
  /\ IsTrusted(p, "dev" \in flags)

\* What is remembered of the answer, of packages that have arrived as made.
Answered(p, flags, ok) ==
  answer' = IF p \in packages
            THEN [of |-> "install", pkg |-> p, flags |-> flags, ok |-> ok] ELSE Done

RefuseInstall(p, flags, row) ==
  /\ ~Admits(p, flags, row)
  /\ Answered(p, flags, FALSE)
  /\ UNCHANGED <<keyFile, packages, signed, host, aliases>>

\* Function f with value y at x, which is added to its domain if need be.
Updated(f, x, y) == [z \in DOMAIN f \cup {x} |-> IF z = x THEN y ELSE f[z]]

\* A file in the install directory, which is that of the plugin and version.
Place(m, name) == <<m.plugin, m.version, name>>
EntryOf(m) == Last(m.eps[Here].path)

\* The binary is written under the last name of its path, then the package is
\* copied there under the name it arrived by, then manifest.json is written.
Written(p, name) ==
  LET m == p.manifest
      binary == Updated(disk, Place(m, EntryOf(m)), p.files[m.eps[Here].path])
  IN  Updated(Updated(binary, Place(m, name), Archive), Place(m, "manifest.json"), Text)

\* A row is identified by its plugin, version and digest; the registry row holds
\* the dependencies of the manifest installed last.
Install(p, flags, row, name) ==
  LET m == p.manifest
      new == [plugin |-> m.plugin, version |-> m.version,
              build |-> p.files[m.eps[Here].path], entry |-> EntryOf(m), caps |-> CapsHash(m)]
      Same(r) == <<r.plugin, r.version, r.build>> = <<new.plugin, new.version, new.build>>
  IN  /\ installs < MaxInstalls
      /\ Admits(p, flags, row)
      /\ disk' = Written(p, name)
      /\ rows' = {r \in rows : ~Same(r)} \cup {new}
      /\ registry' = Updated(registry, m.plugin, m.deps)
      /\ lax' = IF "dev" \in flags THEN lax \cup {m.plugin} ELSE lax
      /\ copies' = copies \cup {Place(m, name), Place(m, "manifest.json")}
      /\ installs' = installs + 1
      /\ Answered(p, flags, TRUE)
      /\ UNCHANGED <<keyFile, packages, signed, aliases>>

\* The row that get_current returns, if any.
CurrentRow(plugin) ==
  IF Current(plugin) = {} THEN {{}} ELSE {{r} : r \in Current(plugin)}

-----------------------------------------------------------------------------
(* Aliases and plugins of a run.                                           *)

ShortOf(plugin) ==
  SubSeq(plugin, SelectLastInSeq(plugin, LAMBDA w : w = ".") + 1, Len(plugin))

\* load_alias_map: the last segment of every registered plugin, of the first
\* row where there are several, in no stated order; then what the table says.
AliasMaps ==
  LET shorts == {ShortOf(p) : p \in DOMAIN registry}
      first == {f \in [shorts -> DOMAIN registry] : \A s \in shorts : ShortOf(f[s]) = s}
  IN  {aliases @@ [s \in shorts |-> [plugin |-> f[s], version |-> <<>>]] : f \in first}

At(r) ==
  [plugin |-> r.plugin, version |-> r.version, file |-> r.entry,
   binary |-> disk[<<r.plugin, r.version, r.entry>>]]

\* PluginRunInfo::resolve in the map of load_plugin_map: a row of the highest or
\* of the pinned version.  Which one of several is not stated.
Resolved(plugin, version) ==
  {At(r) : r \in IF version = <<>> THEN Current(plugin)
                 ELSE RowsOf(plugin, ToSet(version))}

\* resolve_plugin_deps: the highest version in the range of each dependency.
ResolvedDeps(plugin) ==
  UNION {{At(r) : r \in RowsOf(d.plugin, HighestOf(VersionsOf(d.plugin) \cap d.range))} :
         d \in registry[plugin]}

\* What a task may be dispatched to and be told of, and what it finds.
Dispatch(t, tasks) ==
  [task |-> t, at |-> Resolved(t.plugin, t.version), deps |-> ResolvedDeps(t.plugin),
   found |-> {e.params : e \in FoundById(Snapshot(tasks), t.id)}]

\* The tasks one after the other, up to the first that cannot be resolved;
\* none if a key cannot be.
RunFile(file) ==
  \E map \in AliasMaps :
  \E tasks \in {IF Accepted(file, map) THEN Tasks(file, map) ELSE <<>>} :
    LET lost == {i \in DOMAIN tasks : Resolved(tasks[i].plugin, tasks[i].version) = {}}
        reached == {i \in DOMAIN tasks : lost \cap 1..i = {}}
    IN  /\ answer' = [of |-> "run", file |-> file,
                      ran |-> {Dispatch(tasks[i], tasks) : i \in reached}]
        /\ UNCHANGED <<keyFile, packages, signed, host, aliases>>

\* The host application edits plugin_aliases.
SetAliases ==
  /\ aliases' \in AliasTables
  /\ answer' = Done
  /\ UNCHANGED <<keyFile, packages, signed, host>>

\* Whoever gave the command sees what it did.
ReadAnswer ==
  /\ answer # NoAnswer
  /\ answer' = NoAnswer
  /\ UNCHANGED <<keyFile, packages, signed, host, aliases>>

Command ==
  \/ \E id \in KeyIds : Keygen(id)
  \/ \E t \in Templates, o \in Platforms, b \in Binaries, id \in KeyIds, a \in Arguments :
       Pack(t, o, b, id, a)
  \/ \E t \in Templates, id \in KeyIds, b \in Binaries : SignByHand(t, id, b)
  \/ \E p \in UNION {Arrivals(q) : q \in packages}, flags \in Consents :
       \E row \in CurrentRow(p.manifest.plugin) :
         \/ RefuseInstall(p, flags, row)
         \/ \E name \in FileNames : Install(p, flags, row, name)
  \/ \E file \in Files : RunFile(file)
  \/ SetAliases

Next == (answer = NoAnswer /\ Command) \/ ReadAnswer

Spec == Init /\ [][Next]_vars

-----------------------------------------------------------------------------
(* Properties.                                                             *)

TypeOK ==
  /\ keyFile \in [KeyIds -> 0..MaxKeys]
  /\ \A p \in packages : p.sig \subseteq signed
  /\ DOMAIN registry = {r.plugin : r \in rows}
  /\ copies \cup {<<r.plugin, r.version, r.entry>> : r \in rows} \subseteq DOMAIN disk
  /\ lax \subseteq DOMAIN registry
  /\ aliases \in AliasTables

\* The build a trusted key has signed for this plugin, version and platform.
IsSigned(x) ==
  \E s \in signed :
    /\ s.of.signing \in DOMAIN Trusted /\ s.key = Trusted[s.of.signing]
    /\ s.of.plugin = x.plugin /\ s.of.version = x.version
    /\ Here \in DOMAIN s.of.eps /\ s.of.eps[Here].digest = x.binary

\* The bytes of a package or a manifest, where the name it was copied to is that
\* of the binary.
IsCopy(x) ==
  x.binary \in {Archive, Text} /\ <<x.plugin, x.version, x.file>> \in copies

\* Whatever arrives, and whatever the aliases say: what a task may be dispatched
\* to, and what it is told of its dependencies, is a build that the holder of
\* a trusted key has signed for that plugin and version, and the version
\* its key asks for, unless the plugin was ever installed in developer mode
\* (docs/src/guide/packaging.md:86-91, manifest.md:204), or the package or its
\* manifest was copied over the build because it has the name of its file.
OnlySignedRuns ==
  answer.of = "run" => \A d \in answer.ran :
    /\ \A x \in d.at \cup d.deps : x.plugin \notin lax => IsSigned(x) \/ IsCopy(x)
    /\ \A x \in d.at :
         /\ x.plugin = d.task.plugin
         /\ d.task.version # <<>> => x.version \in ToSet(d.task.version)

\* A package that is complete for this host: a manifest that is one, every digest
\* filled in, this platform's file in it, both of a size that is read, signed
\* with the key the host trusts under its id.
Complete(p) ==
  /\ p.manifest.formed /\ p.manifest.fits
  /\ \A o \in DOMAIN p.manifest.eps : p.manifest.eps[o].digest \in Binaries
  /\ Here \in DOMAIN p.manifest.eps /\ p.manifest.eps[Here].path \in DOMAIN p.files
  /\ p.files[p.manifest.eps[Here].path] = p.manifest.eps[Here].digest
  /\ p.manifest.eps[Here].digest \notin TooBig
  /\ p.manifest.signing \in DOMAIN Trusted
  /\ \A s \in p.sig : s.key = Trusted[p.manifest.signing]

RankedBelow(plugin, v) ==
  \E b \in Blocked :
    b.plugin = plugin
    /\ \A max \in ToSet(b.max) : ~Below(max, v)

\* `oc-sign pack` understands its arguments in any order, and what it makes,
\* when it is complete, every host that trusts the key and does not block the
\* version installs for a user who gives both consents: no step of signing,
\* packing and verifying disagrees.  What pack lets through, a manifest that is
\* none for install_package or files of more than it reads, is not complete.
PackedInstalls ==
  /\ answer.of = "pack" => answer.ok
  /\ answer.of = "install" /\ Complete(answer.pkg) /\ {"risk", "ack"} \subseteq answer.flags
     /\ ~RankedBelow(answer.pkg.manifest.plugin, answer.pkg.manifest.version)
     => answer.ok

\* trust.rs:107: no version at or below max_version, in the order of semantic
\* versions, is ever installed, pre-releases and builds of it included.
RevocationHolds == \A r \in rows : ~RankedBelow(r.plugin, r.version)

\* Keys whose texts are words: no separators, and versions of three numbers.
IsWord(text) == Len(text) = 1 /\ text[1] \notin Numerals \cup Marks
IsTriple(v) ==
  Len(v) = 5 /\ v[2] = "." /\ v[4] = "." /\ {v[1], v[3], v[5]} \subseteq Numerals
IsPlain(key) ==
  /\ IsWord(AliasOf(key)) /\ IsWord(EndpointOf(key))
  /\ Pinned(key) => IsTriple(PinOf(key))
  /\ Has(LastPart(key), "|") => IsWord(After(LastPart(key), "|"))

\* parse.rs:117: in a file of such keys every plugin finds under its task's id
\* the parameters of that task, however often, under whatever labels and for
\* whichever versions an endpoint is listed.
OwnParams ==
  answer.of = "run" /\ (\A b \in ToSet(answer.file) : IsPlain(b.key)) =>
    \A d \in answer.ran : d.found = {d.task.params}
=============================================================================
