# A TLA+ model of the Open Choice Protocol SDK

This directory holds TLA+ modules for the Rust workspace under `src/`: the
programs that run a plugin process, the stores they share, the path of a plugin
from its author to a task, and the format of the lines they exchange. TLC
checks the modules on small instances; TLAPS proves the most important
properties for every value of the constants. `PROJECT.json` maps every
definition to the lines it models, and lists the runs, the mutants that show
that each property can fail, the findings, the hazards and the theorems.

Paths below are relative to `src/crates/` unless they begin with `docs/`.

## 1. The system

A *plugin* is an executable that talks a line protocol over stdin, stdout and
stderr. Its author packs it with a manifest, and perhaps a signature, into a
package (`.ocplugin`). `oc install` puts a package into the store; `oc run`
executes a task file (`.oce`), which may include other task files and whose
tasks name plugins by alias and, optionally, version. Commands pass a license
gate before they do anything.

```
 author: oc-sign ──> package ──> oc-runner: installer ──> files + SQLite
                                     │  trust, revocation     ^   (shared with
                                     │                        │   other processes)
 oc-cli ──> license gate ──> oc-runner: executor ── plugin map, aliases
             (state file,        │  includes in threads; temporary task files
              keyring, HTTP)     └──> ocp-host: runner ──> plugin (pipes, deadline)
 host programs ──> ocp-host: protocol client ──> plugin (one command, one answer)
               └─> ocp-host: registry client ──> tool cache ──> project
 all of them exchange lines of ocp-types-v1
```

### Components

| component | state | operations | modelled by |
|---|---|---|---|
| Tool runner, `ocp-host/src/runner.rs` | child process, pipes, two reader threads, two bounded channels, deadline, retained stderr | `run_tool_task` | `ToolRunner`, `RunContract`, `ToolRunnerContract` |
| Plugin store, `oc-runner/src/installer.rs`, `repository/` | rows of `plugin_installations` and `plugin_registry`, files of the install directories | `install_package`, `uninstall_plugin`, `verify_installed` | `PluginStore` |
| Trust store and revocation list, `oc-runner/src/trust.rs` | none while a command runs | `verify`, `check`, `version_le` | `Publishing`; facts of a package in `PluginStore` |
| Plugin map, `oc-runner/src/executor.rs` | read once per pipeline | `load_plugin_map`, `load_alias_map`, dispatch, dependencies | `Publishing`; one plugin under quarantine and stops in `PluginStore` |
| Pipeline executor, `oc-runner/src/executor.rs` | call frames and threads, temporary task files | `run_oce_file`, `run_oc_file_impl` | `Pipeline` |
| Task file parser, `oc-core/src/parse.rs` | none | `parse_str`, keys, task ids, includes | `TaskKeys`; `[config]` and include paths in `Pipeline` |
| Protocol client, `ocp-host/src/tool_protocol.rs` | child, two capped readers, a 30 s deadline | `validate_value`, `self_test`, `run_raw` | `ToolProtocol` |
| Registry client and tool cache, `ocp-host/src/registry.rs` | files of the cache and of projects | select, download, verify, cache, pin | `ToolCache` |
| License gate, `openchoice-license/src/{gate,state,salt}.rs` | a state file, its temporary name, a salt in the keyring, the clock | `check`, `commit_bypass` | `LicenseGate` |
| Heartbeat fetch, bypass codes, `openchoice-license` | none | one HTTP request, key derivation | choices of `LicenseGate` |
| Wire types, `ocp-types-v1` | none | deserialise, serialise | `WireTypes`, `Relay`, except the kind grammar and capability implications |
| Signing tool, `oc-sign` | key files, packages | `keygen`, `sign`, `pack` | `Publishing` |
| Command line, `oc-cli` | none | argument parsing, printing | exit code and path of `oc run` in `Pipeline` |
| Conformance corpus, read-only queries, snippets, content cache, events | | file I/O, SELECTs, single statements | not modelled (section 7) |

### How they interact

* The *executor* calls the *tool runner* once per task and takes one of its
  answers: a summary with exit code 0, a summary with another code, or an
  error. `Pipeline`'s `Ends` are these answers, which `RunContract` promises.
* The *executor* and the *installer* share only files and the database: the
  executor reads the plugin map once, and spawns whatever is at the entrypoint
  path when the task starts.
* *Installer* processes share the store with each other and with the desktop
  host. SQLite serialises single statements; no transaction spans two.
* *Pipelines* of one tree of includes share the directory of temporary files
  and the `on_event` callback. With parallel stages they run in threads.
* `oc-sign` and the *installer* never meet: what one signs, the other verifies
  from the bytes of the archive, with a key both know under an id.
* *Task files* meet the store through aliases: an alias gives the plugin id,
  the key of a task perhaps a version, and the plugin finds the parameters of
  its task by the id that the parser has built from the key.
* *License commands* of several processes share one state file, one temporary
  name and one salt, without a lock.

### What is hard, and what would be correct

* **Tool runner.** Two threads produce into one channel, channels and pipes
  block, helpers of the plugin inherit the pipes, the deadline may pass at any
  point, and each of five returns leaves a different remainder. Correct: no
  line is lost, duplicated or disordered on a clean close; no process or
  thread is left behind; the deadline ends the call; the summary is a prefix.
* **Plugin store.** A command is a sequence of file operations and statements,
  any of which may be the last, and files are written in place. Correct: nothing
  of a refused package is in a file that runs, and no mix of two builds after an
  install that had the file to itself; a successful install repairs anything
  earlier commands left; uninstall clears every row; a condemned installation
  does not run; verification condemns only with a cause; capabilities do not
  widen unacknowledged.
* **Pipeline executor.** Recursion, threads, an inherited flag that turns
  threads into a sequence, many early returns, paths resolved by two programs.
  Correct: includes come first; after a failure nothing starts under
  `stop_on_error`; the answer agrees with what happened at every depth; each
  plugin opens its own snapshot; an include is the file its text means.
* **Protocol client.** A poll loop, a deadline and two readers that stop at a
  limit, against a plugin that may do anything. Correct: an answer is all of
  the output; the limit decides before the status; the call returns and leaves
  nothing.
* **License gate.** Load, decide, fetch and save are separate, the file is
  replaced through one temporary name, the clock may be set. Correct: no grace
  period without a cause; what was saved is found again; the newest time seen
  does not go back; a command inside the week does not need the network.
* **Tool cache.** Downloads are written in place by processes that do not know
  of each other. Correct: what lies under a path that names a hash was verified
  against it; a pinned tool is whole.
* **From author to task.** Two programs, several orders of arguments, packages
  that arrive altered, installs of other packages in between. Correct: a task
  runs what a trusted key has signed; complete packages install; a blocked version
  does not, whatever its spelling; a task gets its own parameters.
* **Wire types.** A line passes through programs of different releases. Correct:
  what one of them does not know it hands on; one hop is as good as many, but
  for the digits of floats.

## 2. Modules

| module | extends | content |
|---|---|---|
| `ToolRunner` | | `run_tool_task`, its processes and threads |
| `RunContract` | | what `run_tool_task` promises: three feeds and five returns, without threads |
| `ToolRunnerContract` | `ToolRunner` | refinement mapping to `RunContract` |
| `MCToolRunner` | `ToolRunnerContract` | instances |
| `ToolRunnerProofs` | `ToolRunnerContract` | seven theorems, one of them the refinement |
| `PluginStore` | | the store, one step per statement or file operation |
| `MCPluginStore` | `PluginStore` | packages and consents of the runs |
| `PluginStoreProofs` | `PluginStore` | eight theorems |
| `Pipeline` | | the tree of calls, include paths, temporary files, tasks |
| `MCPipeline` | `Pipeline` | include trees and task ends of the runs |
| `PipelineProofs` | `Pipeline` | nine theorems |
| `LicenseGate` | | the gate, one step per access to what processes share |
| `MCLicenseGate` | `LicenseGate` | symmetry of processes |
| `LicenseGateProofs` | `LicenseGate` | five theorems |
| `ToolProtocol` | | one protocol command |
| `MCToolProtocol` | `ToolProtocol` | the instance |
| `ToolProtocolProofs` | `ToolProtocol` | four theorems |
| `ToolCache` | | fetch, cache and pin, chunk by chunk |
| `MCToolCache` | `ToolCache` | releases and indexes of the run |
| `ToolCacheProofs` | `ToolCache` | four theorems |
| `TaskKeys` | | keys, labels, task ids, the snapshot |
| `Publishing` | `TaskKeys` | `oc-sign`, the installer's gates, aliases, dispatch, dependencies |
| `MCPublishing` | `Publishing` | manifests, arguments, task files of the run |
| `PublishingProofs` | `Publishing` | five theorems |
| `Relay` | | a line that is read by tables of types and written again, hop after hop |
| `RelayProofs` | `Relay` | three theorems |
| `WireTypes` | | the tables of `ocp-types-v1` |
| `MCWireTypes` | `Relay`, `WireTypes` | all the types, with a full line of each |

### ToolRunner and the code

`main` is the program counter of the calling thread: `top` is the head of the
loop (`check_deadline!`, runner.rs:236-249), `recv` the `recv_timeout` (255),
`drain*` the three `try_recv` loops (the ordinary one, the one after the plugin
was seen dead, and the one after the channel was disconnected), `wait` the
`child.wait()` after the loop, `join*` the joins before each return. `reader`
is where each thread is: reading a line, in `send` on the event channel, in
`send` on the stderr channel, or ended. `events` and `lines` are the channels
as logs, with read positions `received` and `drained`, so a channel holds
`Len(events) - received` messages. `written` and `consumed` are the pipes.
`alive` and `writers` are the processes and the write ends they hold; a pipe
is at end of file when nobody holds it, which is why helpers matter.

A line is known by its stream, its position and its kind. Kinds are what the
readers branch on: `event` (an envelope, or text that `synthesize_log_event`
wraps: the host treats them alike), `blank`, `bad` (over-long on stdout, or a
read error), `line`, `long` (an over-long stderr line: counted and shown as
text, but not as an event). The `match` arms and early returns are kept;
the bytes and the decoding are not.

### PluginStore and the code

`rows` is `plugin_installations` for one plugin id, `registry` its row of
`plugin_registry`, `disk` the file at each entrypoint path, a file name in the
directory of a version. `pc`, `job`, `found`, `removing` and `result` are the
locals of each process, `part`, `handle` and `pos` the file it writes, the path
it has open and its position there. A package is the record of the facts the
gates of `install_package` look at: version, build, capabilities, signature,
whether its manifest and sizes are valid, whether the hash in the manifest
matches, whether it is revoked, whether its risk needs consent; and the names of
its binary and of its own file. The gates write nothing and are one step
(`BeginInstall`, `RefuseInstall`); from then on each file operation and statement
is a step, and `Fail` may end the command before it.

The binary, the copy of the package and `manifest.json` go to one directory, each
under its own name, so the two later ones may replace the binary; those whose name
is no entrypoint's nobody reads, and they are not kept. `OpenFile` truncates
(`fs::write`, `fs::copy`), `WriteFile` writes the next chunk at the writer's own
position, `CloseFile` goes on to the next file. Two writers of one file can leave a
mix of both, and a removed file is written to nobody. `Damage` changes a file from
outside. `touched`, `sole`, `vouched` and `condemned` are history: nothing depends
on them but properties. `vouched` has, for a path that nothing has opened, removed
or damaged since, the installation whose install has returned Ok and had the path
to itself. `Highest` lets the database return any of two rows that tie: the
comparator orders by version only.

### Pipeline and the code

A call of `run_oc_file_impl` is known by its place in the tree; `calls` maps
places to frames. A frame goes from `load` through `stages` (`waiting` for a
call in the same thread, `joining` threads) and `name` (the temporary path) to
`tasks` and `running`. `temp` is the directory of temporary files. A task that
runs is three steps (the snapshot is written and the plugin started, the plugin
may open it, the plugin ends), because threads may write the same path in
between. `failures` and `alarm` are history; `alarm` is what `oc run` looks at
for its exit code.

A path is a sequence of names; an absolute one begins with `"/"`. Both
resolutions are modelled: `ParsedInclude` is what `parse_include` makes of the
text, `ResolveInclude` what the executor makes of that, so the file a call
opens is the result of both.

### LicenseGate and the code

Each process is one command: `check`, or `commit_bypass` followed by `check`.
`pc` is its next access to something shared; `goal` tells from where `load` or
`save` was called (`check`, `renew` in `run_online`, `bypass`; `keep` and
`commit` save). `get`/`set` are the two halves of `load_or_create` of the salt,
`read` the file, `create`/`write`/`rename` the three system calls of `save_to`.
A file under the temporary name may be renamed while another process has it
open: `handle` follows it. What a process writes over another one's bytes may
be broken, which a MAC detects. `covered`, `alone`, `blind` and `saved` are
history. `Rest` is a state in which no command runs.

### ToolProtocol and the code

`main` is the poll loop (`poll` is `try_wait`, `late` the look at the
deadline) and the three joins, one before each kind of return. A reader is
`take(limit + 1).read_to_end`: it ends at end of file, which needs that no
process holds the pipe, or one byte past the limit, and then drops the pipe.
`Judge` is the order in which the results are told apart. Bytes are counted;
`Answers` are the texts that `run_response` can meet.

### ToolCache and the code

A file is a sequence of chunks; `fs::write` truncates and then writes chunk by
chunk, `fs::copy` reads and writes chunk by chunk, and a writer keeps its own
position, so a file truncated under a writer has holes. `opener` and
`undisturbed` are history. The hash of a download is represented by the
artifact.

### TaskKeys, Publishing and the code

A text is a sequence of words and of the characters the code branches on;
`TaskKeys` translates the splits, trims and replacements of `parse_str` on such
sequences. `Publishing` takes every command as one step: `Keygen`, `Pack`
(with `Positionals` and `FlagValue` of the argument parser), `SignByHand`,
`Install` or `RefuseInstall` of a package in one of its `Arrivals`, `RunFile`.
Digests are represented by the binary, a signature by key and manifest. `Valid`,
`HasBinary`, `Agreed` and `IsTrusted` are the gates in the code's terms: of the
manifest whether `validate_manifest` takes it (`formed`) and it is small enough
(`fits`), of the binary whether it is (`TooBig`), of both consents whether they are
given. `rows` are identified by plugin, version and build, `disk` is by plugin,
version and file name: `Written` is the binary, then the package under the name it
arrived by, then `manifest.json`, each replacing what has its name. `registry` keeps
the dependencies of the manifest installed last; `lax` and `copies` are history.
Where several rows are of one version, `Resolved` has them all.
`AliasMaps` is every map that
`load_alias_map` may return, since its SELECT states no order. A run is put
into `answer`, which properties read.

### Relay, WireTypes and the code

In `WireTypes` every struct of `ocp-types-v1` is a table from member to how serde
may leave it out (`must`, `opt`, `vec`, `map`, `zero`) and its type. These tables
are constants of `Relay`, whose `Relayed` reads a JSON value by them and writes it
again: `Read` is one reading, given what was read of the parts (`PartsBy`),
`RelayedMembers` an object, with what is refused, not written (`Omitted`,
`MayLack`) or kept though unknown (`Unknown`), and `RelayedObject` the tagged enum
besides. Numbers that are read as `f64`, or in free values, are one value, `Number`:
that they arrive is followed, their digits are not. A line is relayed to five levels, `Relayed1` to `Relayed`; the types of the
crate need no more, or a full line would come back as `Refused`, against
`LineAssumption`. `Edit` leaves members out or makes them null, empty or wrong;
`AddNews` puts one thing of a later release anywhere into the line; `Relay` is
one hop.

## 3. Runs

| run | asks | instance | distinct states |
|---|---|---|---|
| `ToolRunner_safety` | safety, with helpers | every kind of line, one helper, channels and pipes of one slot, 2 lines per stream, cap 2 | 956,325 |
| `ToolRunner_roomy` | liveness and the refinement | no helper, channels that hold what 2 lines per stream produce | 240,542 |
| `PluginStore_sequential` | commands that do not overlap, with failures and damage | one process, two versions, two builds of the first, the second one's package named like its binary | 2,413,540 |
| `PluginStore_concurrent` | two processes, with failures | two accepted builds of one version, of two chunks, and a package per reason to refuse | 210,350 |
| `Pipeline` | order, stops, results, paths, what is left, termination | nested and flat trees of four files, 20 combinations of `stop_on_error`, every way to fail | 208,392 |
| `LicenseGate` | causes, persistence, time | two processes, three commands, three days, the clock set once | 3,346,405 |
| `ToolProtocol` | answers, verdicts, remains, return | limit 2, pipe 2, 4 bytes per stream, one helper | 36,024 |
| `ToolCache` | what lies in the cache and in projects | two processes, four commands, builds of one and two chunks with one name | 45,586 |
| `Publishing` | whose build, whose parameters | two plugins, five manifests, three builds, two keys, two packages, two installs | 139,516 |
| `WireTypes` | what a hop keeps | all 44 types, two edits, two hops | 295,490 |
| `ToolRunner_chatty`, `Pipeline_relative` | a claim the code does not keep | section 6 | |

**What they show.** `ToolRunner_safety`: with channels so small that every
send can block, a close loses no line (`CompleteOnClose`), two threads on one
channel keep each stream's order (`EventsInOrder`), the returns that join
leave nothing behind (`NothingLeftBehind`), and the capped summary is a prefix
(`SummaryKeepsPrefix`). `ToolRunner_roomy`: once the processes have ended the
call returns and its threads end; a deadline seen at the head of the loop ends
in `Timeout`; and every behaviour is one `RunContract` allows.
`PluginStore_sequential`: whatever a command that stopped half-way left, an
install that succeeds repairs and an uninstall clears; one set of
capabilities; a condemned installation is not dispatched; verification has a
cause.
`PluginStore_concurrent`: whatever commands interleave, what runs has chunks of
acceptable packages only, it is a whole build after an install that had the file
to itself, and rows keep their foreign key. `Pipeline`: includes
come first, the answer is honest and nothing starts after a failure under
`stop_on_error`, at every depth and in every thread; the exit code tells;
each plugin reads its own snapshot unless two calls are on files of one stem;
from an absolute path every include is found; nothing is left over; the call
ends. `LicenseGate`: no command passes offline outside a week that a check or
bypass opened, also when a process dies in the middle of a save or two save at
once; a lone save is found again; time seen does not go back; offline works
through the week. `ToolProtocol`: an answer is whole, the limit wins over the
status, nothing is left, and the call returns unless a helper keeps a pipe.
`ToolCache`: no path ever holds bytes that were not verified under its hash;
it is whole again once the last to truncate it has finished; an undisturbed pin
is the verified artifact. `Publishing`: a task runs what a trusted key signed, unless the package was copied
over it; complete packages install in every order of arguments; versions at or
below a blocked one do not, with suffixes in either too; plain keys find their own
parameters. `WireTypes`: open structs and maps carry news through every hop; a
written line is read and written alike, but for the digits of floats.

**Bounds.** `EventCap`, `StderrCap` and `PipeCap` of 1 make every blocking
happen that a larger one can. `MaxLines` 2 reaches the retention cap `RetainMax`
2 (the code: 1000), and puts two lines of one stream behind each other.
`ToolRunner_roomy` takes the event channel as large as the four messages it can
hold, because smaller channels really hang (section 6). In `PluginStore` two
versions are enough for every comparison the code makes (current or not, same
or not). `Refusable` has one package per gate and two that are accepted, builds
of one version, so that two processes write one file. `Length` is two chunks for a
binary there, the least that can mix, and one for the rest; in the sequential run,
where nobody else writes, it is one, and a stop between opening and writing leaves
an empty file. `Commands` leaves `verify` out of the concurrent run: its properties
are about what is written and dispatched. In `Pipeline`, `Nested` has a parallel stage inside a
parallel stage and a file that is included twice, once by a relative and once
by an absolute path; `Flat` has a sequence before a group and a file with two
tasks; `Ticks = {1}` makes all temporary paths fall into one millisecond, the
worst case. In `LicenseGate`, `Week = 1`, `WarnAge = 0` and three days reach
every comparison with an age below, at and above both limits; three commands
let two overlap after a first one has saved; the third can meet what both left.
The clock, set once, goes forward or back by any amount. In `ToolProtocol`
`Limit = 2` with 4 bytes lets a stream stay below, meet and exceed the limit,
with both a full and a non-full pipe behind it. In `ToolCache` the longer
build is truncated under its writer, and two builds share the file name, the
path of the project. In `Publishing`, the key id `k1` has two generations of
keys and only the first is trusted, `k2` is a key id that nobody
trusts and that no key is made for; the versions order
differently as numbers and as texts (1.0.1, 1.10.0 around the block at 1.2.0-rc.1, and 2.0.0-rc);
two plugins share a last segment. One manifest is not formed, one build is too
big, one manifest is risky and one changes capabilities. `FileNames` is the one
name `calc`, which the binaries of some manifests have and those of others have not;
`Consents` are both acknowledgements without developer mode, and developer mode
without them. `MaxEdits` 2 combines two omissions, nulls or
wrong values with one thing of a later release. The bounds of counters are
`MaxLines`, `MaxBytes`, `MaxCommands`, `MaxTurns`, `MaxKeys`, `MaxPackages`,
`MaxInstalls`, `MaxEdits` and `MaxHops`.

**Symmetry** is used for the processes of `PluginStore_concurrent` and
`LicenseGate`; both check invariants and action properties only, no liveness.

**Deadlock** is checked everywhere except in `ToolRunner_safety` and
`ToolRunner_chatty`: with small channels the timeout path really stops for
ever, which is the finding of `ToolRunner_chatty`. Programs that have
returned, or commands none of which runs, stutter in a disjunct that says so
(`Finished`, `Rest`, `Arrived`). A helper that never closes a pipe is not a
deadlock of `ToolProtocol`, as it may still close it.

**Fairness.** `ToolRunner`: weak fairness of the calling thread and of each
reader thread, since the operating system schedules threads that can run.
`ToolProtocol`: the same, `WF_vars(Host)` and `WF_vars(Reader(s))`. In both
nothing is assumed of the plugin, of helpers, or of when the deadline passes;
the liveness properties say what the host does when these have happened.
`Pipeline`: weak fairness of the calls as a whole; it includes that
`run_tool_task` returns, so `Terminates` is relative to that. The others state
no liveness.

**Assumptions of the models.**
* `PluginStore`: one plugin id; versions that parse as semver; every package
  declares a capability or a sandbox entry; permissions are set in one step with
  closing the binary; the chunks of a file are written in order, a file that nobody
  runs or hashes is not kept, and a package is not installed from within the install
  directory; `enabled_flag` is never cleared, as no code in the workspace clears it.
* `ToolRunner`: `try_wait` does not fail. `ToolProtocol`: reading a pipe and
  killing the plugin do not fail.
* `Pipeline`: the parser has rejected empty parallel groups (parse.rs:199-205);
  paths have no `.` or `..`.
* `LicenseGate`: signature, key derivation and MAC are ideal; a process may
  stop, the machine does not (no lost writes after `rename`); a bypass code
  that is refused changes nothing and is not a step.
* `ToolCache`: the chunks of a file are written in order; a hash identifies an
  artifact.
* `Publishing`: signatures are ideal; a version range is the set of versions
  it admits; nothing is uninstalled (that is `PluginStore`'s).
* `Relay`: JSON objects have no duplicate keys, structs are not given as arrays,
  and numbers are of a size that an `f64` has.

## 4. Proofs

TLAPS proves, for every value of the constants that satisfies the named
assumptions, 45 theorems. The type invariants are proved rather than
run (`Relay` states none). All safety properties of the runs are proved. None of
them is inductive as it stands; the invariants they are read off are named below.

**`ToolRunnerProofs`**, from `CapacityAssumption`, `ProcessAssumption`,
`KindAssumption`, `DeadlineAssumption`. The invariant `IInv` is `TypeOK` and
* `Positions`: no read position is ahead of its log;
* `InHand`: a thread in a `send` has just taken a line of the kind that leads there;
* `Control`: what each point of the calling thread and each outcome implies
  about threads, the plugin and the drained lines;
* `BeforeSpawn`: nothing has happened yet;
* `EventsTaken`, `LogInOrder`: a message stands for a line that its thread has
  taken, and messages of one stream ascend;
* `EventsCover`, `LinesCover`: every line taken is a message, or in the
  thread's hand (the argument that nothing is lost);
* `ThreadEnded`: a thread has ended at end of file, or at a bad line;
* `NoErrorTaken`, `ClosedPath`: after the channel is found disconnected,
  everything was received, and no message was an error;
* `SummaryKeepsPrefix`, inductive with `Positions`.

Completeness is then: on the closed path both threads have ended, so by
`ThreadEnded` all lines were taken, by the covers all are in the logs, and by
`ClosedPath` all logs were received. Theorems: `TypeCorrect`, `Completeness`
(`CompleteOnClose`), `Order` (`EventsInOrder`), `CleanReturn`
(`NothingLeftBehind`), `Summary` (`SummaryKeepsPrefix`).

The last theorem is `Implements` (`ImplementsContract`), that every step of
`ToolRunner` is one of `RunContract` or a stutter under the mapping of
`ToolRunnerContract`. The contract counts what was written and what was shown on
three feeds, so the proof counts: the lines of a message map the messages of a
stream one to one into the lines that were written (`GivenWritten`), whence no
feed is ahead of its pipe, and after a clean close onto all of them
(`TakenReadable`, `AllShown`). Besides `IInv` this needs `LineInv`: the kinds of
line on stdout, and that the stderr thread takes nothing after a read error.
`ProcessMapped`, `ReaderMapped` and `MainMapped` go through the steps: those of
plugin and helpers write, those of the readers stutter, those of the calling
thread show and return, where `Control` supplies what each `Return` promises.

**`PluginStoreProofs`**, from `PackageAssumption`, `ConsentAssumption`,
`FaultAssumption` and `LengthAssumption` (files have any number of chunks). For any
number of processes: `JobInv` says that a process past the gates holds one package,
an acceptable one. `FileInv` goes through the writes chunk by chunk: every chunk on
the disk is what an acceptable package writes at that position of that path
(`DiskHeld`), since a writer is in a file at a path of its own package
(`HandleInv`); a path in `sole` is as far written as its only writer is
(`SoleFiles`, `SoleFile`; `Late` says which files that writer has still to come
to); and a path that somebody vouches for has his whole build (`VouchedFiles`). It
gives `SafeRuns` (`OnlyAcceptableRuns`). `RegisterInv` gives `Registered`
(`RowsAreRegistered`), and `TypeCorrect` is a theorem of its own.

For a single process (`Processes = {self}`), with any number of builds of one
version: `RepairInv` follows the install from file to file and statement to
statement (`PartAtRest`, `OwnBinary`, `WrittenSoFar`, `ResultAtRest`) and gives
`Repairs` (`InstalledIsWhole`); `OwnBinary` needs that neither the package nor
`manifest.json` has the name of the binary. `ForgetInv` follows the uninstall
likewise (files gone, then no rows, then the status) and gives `Forgets`
(`UninstallForgets`). `CapsKept` says that the package being installed declares
what the live rows declare, since gate 4c compared it with one of them; it gives
`CapabilitiesAgree` (`OneCapabilitySet`). `CondemnInv` says that no live row has a
condemned id, nor will have by what is being inserted or quarantined, because the
row is deleted before it is inserted; it gives `CondemnedStays`
(`CondemnedNeverRuns`). `CauseInv` says that a row whose installation is vouched
for has its whole build in its file (`RowsAgree`), and the same of what a
verification in progress has found (`CauseKept`); it gives `NoFalseAlarm` (`FalseHasACause`). With two
overlapping commands all five properties are false, even when nothing fails and
nothing is damaged: no lock and no transaction spans the statements of a command,
so another one comes in between (a second install between the capability gate and
the insert of the first, an install between the deletes of an uninstall).

**`PipelineProofs`**, from `FileAssumption`, `EndAssumption`, `ModeAssumption`
and `ConfigAssumption`, for any files, however deep they include each other.
`TypeInv` is `TypeOK` and `FrameOK`, what the point of a frame says of its
fields. `TreeInv` ties the frames of the tree together: `Below` says what the
record of a call implies for a call below it, by the first turn on the way
there (what has been consumed has returned, and has passed as long as the flag
says so), so it relates calls at any distance and is stable when one frame
moves; `Own` says which members have been called, and that a bad result has a
failure to blame (`Blame`). They give `Includes` (`IncludesComeFirst`), `Quiet`
(`QuietAfterReturn`) and `Honest` (`ResultIsHonest`). `StopInv` is the argument for
`Stops` (`StopHalts`): the flag is inherited (`StopInherited`), under it one
call is active at a time and those above wait for it (`OneAtATime`), and after
a failure only those are active that wait for where it happened (`Halted`);
a call that goes on has just been told `true`, which by `Honest` is not what a
member with a failure returns. The lemma `Shapes` reduces the eleven actions to
two shapes, a frame that moves and a frame that calls. `TempInv` says that between
writing and reading the temporary file holds the own file unless another call is
on a file of that stem (`Snapshots`), and that every temporary file has a call to
remove it (`Owned`); it gives `OwnSnapshot` (`OwnSnapshotOfOwnStem`) and `CleansUp`
(`NoTempLeft`). `Told` says that every failure has raised the alarm, or has ended its
call in an error, or is a silent crash; errors travel up the tree by `TreeInv`,
which gives `ExitTells` (`ExitTellsFailure`). `IncludeInv` says of each call which
include it is for, and that calls from an absolute path are all on absolute paths;
it gives `FindsFiles` (`IncludeFindsItsFile`), under `Rooted`: the first path is
absolute, or all relative ones are of files in the working directory. Otherwise
the property is false (`Pipeline_relative`).

**`LicenseGateProofs`**, from `SaltAssumption` and `TimeAssumption`, for any
number of processes and commands. `CauseInv`: every state in a file, loaded or
about to be saved is `Sound`, that is, covers only days that a completed check
or bypass has covered, whatever name it lies under and whoever overwrites it;
it gives `Cause` (`GraceHasACause`). `KeptInv`: while one command is active
alone, its save follows `LoneAt` step by step, so that `saved` is under the
name `state` and loads under the salt of the keyring; it gives `Kept`
(`SavedIsLoaded`). `RememberInv` adds that one state at most is the saved one
(`OneSaved`), and that a lone command, unless a fault kept it from loading, decides
on it and will save no earlier time (`Remembers`); it gives the action properties
`NeverBack` (`MaxNeverDecreases`) and `Offline` (`OfflineKeepsWorking`).

**`ToolProtocolProofs`**, from `LimitAssumption`: `Counted` (bytes taken and
written, and when a reader has ended), `Released` (a plugin that has ended
holds no pipe), `Control` and `Judged` give `Whole` (`AnswerIsWhole`), `Limits`
(`LimitDecides`) and `CleanReturn` (`NothingLeft`).

**`ToolCacheProofs`**, from `ProcessAssumption`, `ArtifactAssumption`,
`IndexAssumption` and `CommandAssumption`, for any number of processes and
artifacts of any length. `TInv` is `TypeOK`, `HoldsRight` (what a process has
downloaded has the hash of its release) and `InBounds`. `RightChunks` says that
a file under a path holds right chunks and holes; it gives `Verified`
(`CachedIsVerified`). `OpenerFills` says that the position of the process that
truncated a file last is the length of its part without holes, and that after
that process every writer writes what is there already; it gives `EndsWhole`
(`CacheEndsWhole`). `Intact` follows an undisturbed process through the write
and the copy, and keeps others from copying to its name; it gives `PinnedWhole`
(`PinnedIsWhole`). The lemma `WriteRight` is what writing one right chunk does
to a file.

**`PublishingProofs`**, from `BoundAssumption`, `NameAssumption`,
`ManifestAssumption`, `VersionAssumption`, `ArgumentAssumption`,
`NumeralAssumption` (no mark is a number) and `FileAssumption` (no key is twice
in a TOML table, and the text of an index is that of its number):
`SoundPackages` (a signature that verifies was made by
whoever holds the key, for this manifest) and `SoundRows` (every row has its file,
and every file is a signed build of its plugin and version, or a copied package or
manifest, or the plugin was installed in developer mode: `SoundFiles`)
give `Signed` (`OnlySignedRuns`). What an install does to the files is the lemma
`WrittenFiles`: one is replaced by the build, two by copies, the others stay.
`TypeCorrect` rests on both: every signature in a package is one that was made, and
every row's file is there. The lemma
`VersionOrder` says that `version_le`, which compares part by part, is the order of
semantic versions; it needs that versions have three numbers, as semantic
versions do (`VersionAssumption`), of any size, and gives `Revoked`
(`RevocationHolds`). `MadeInv`
says that a package is its template with the digests filled in, and that its
signature is of its manifest; with the lemma `Understands` (whatever the order of
the arguments, the values of flags are skipped and nothing else is) it gives
`Packs` (`PackedInstalls`), for complete packages and users who give both consents. `Taken`, a recursive function, is determined by the two
flags alone there, so no induction is needed.

`Finds` (`OwnParams`) needs no invariant, but what `parse_str` makes of texts of
any length. `SplitAt` and `SplitUnique` say that a text is what is before and
after the first separator, `KeyDetermined` that alias, pin, endpoint and label
determine a key; `PlainId` says what is where in an id, and `SameKey` that two
equal ids are of one key and one item: a pinned id is longer than any other, and
an index is a number, which no label is. `TaskOrigin` says that `FlattenSeq`
gives only what it is given. It is an induction over the length of the file; the
library's rules, which take an operator, cannot be instantiated here, so
`Least` and `Upward` state the rule for a set of numbers instead of a formula.

**`RelayProofs`**, from `TableAssumption` (a name stands for one type, no member is
called as the new one is) and `LineAssumption` (this release reads what it writes,
and writes it again). TLC evaluates both for the tables of the crate; for those, and
any others that satisfy them, with any lines, edits and hops, hold
* `Way`: the invariant `OnItsWay`, that `base` is a line of this release after
  some edits, that `sent` is `base` or has one piece of its news, and that `line`
  is `sent` before the first hop and `Relayed(type, sent)` after it;
* `Steady` (`Stable`), since `Relayed` is idempotent on lines whose free numbers and
  floats are represented as such. `Level1` to `Level5` show it
  level by level: a member that is written again is read as before, for what
  is not written may be missing (`MayLack` holds wherever `Omitted` may), and the
  unknown members are the same ones again;
* `Survives` (`NewsSurvives`). `News1Reads` to `News5Reads` say that a line with
  something new in it is refused at no level, a class apart, when the line without it is
  not; by `NewsArrive` what is read of the top member with the news in it, and of
  every other, is what was sent, since lines of this release come back as they were
  (`BaseArrives`).
The levels are five because the types are nested that deep; one fact about all
depths would be an induction over data.

**Only model-checked.** Out of the prover's reach, and left to TLC, are liveness
under fairness and `ENABLED`: `ReturnsOnceProcessesEnd` and `DeadlineReported` of
`ToolRunner`, `Terminates` of `Pipeline` and `Returns` of `ToolProtocol`. Every other
property of the runs is a theorem.

## 5. What could follow

1. What two overlapping commands of `PluginStore` still keep when only one of them
   installs.
2. `Terminates` of `Pipeline` along a measure on the tree of calls, as an action
   property: every step of a call takes the measure down.
3. The kind grammar, the capability implications and `read_line_bounded` as
   functions against reference definitions. They are pure functions over texts.

## 6. What the code does not keep

Two findings are runs whose counterexample is a behaviour of the code;
`PROJECT.json` quotes the claim.

1. `ToolRunner_chatty`: after the deadline the calling thread joins readers
   that are blocked on a channel nobody drains (runner.rs:242).
2. `Pipeline_relative`: the include path is joined with the directory of its
   file by the parser (parse.rs:197, 216) and again by the executor
   (executor.rs:249-255). From a relative path, an include of a file in a
   directory below is looked for in the wrong place, against
   docs/src/formats/oce-1.md:43.

Met while modelling; the properties say so where they have to, but no run is
about it:

*Tool runner and protocol client*
* stderr lines, and events too, that are sent between the last drain and the
  join after a silent 50 ms with a dead plugin are dropped (runner.rs:259-273).
* A helper that inherited the pipes keeps the join after the deadline waiting
  (runner.rs:242; tool_protocol.rs:213), and a plugin that closed its pipes
  keeps the last wait, which has no deadline (288).
* A UTF-8 character that straddles two chunks of an over-long line is replaced
  (runner.rs:386).

*Plugin store and trust*
* Uninstall with `remove_files` leaves the directories of other versions
  (installer.rs:491), while oc-cli main.rs:116 and 338 speak of all files.
* Reinstalling one version with another build leaves the row of the old build, of
  the same file (installer.rs:300-335). `verify_installed`, which may pick it,
  condemns a sound file (519-520), and tasks are dispatched to the file through
  whichever row is live, also after the other was condemned; hence
  `CondemnedNeverRuns` and `FalseHasACause` speak of installations, by version and
  build. Verifying while a reinstall writes condemns a sound file too (546).
* Two overlapping installs of two builds of one version write one file from their
  own positions (269) and may leave a mix of both, which no row's hash matches;
  tasks run it, since dispatch does not look at the hash.
* The package is copied into the install directory under its own name, after the
  binary, and then `manifest.json` is written (284-298): a package named like the
  file of the entrypoint, or an entrypoint named `manifest.json`, replaces the binary
  whose digest was verified. Hence `OwnName` in `InstalledIsWhole` and `IsCopy` in
  `OnlySignedRuns`.
* `trust_status` is one per plugin, and the last install sets it
  (installer.rs:324).
* `oc-sign pack` packs and signs what the installer refuses: digests for other
  platforms that are still placeholders, manifests that `validate_manifest` does not
  take (installer.rs:781-816), manifests of more than 4 MB and binaries of more than
  200 MB (839-876); hence `Complete` in `PackedInstalls`. `pack` does not add
  `static/` as packaging.md:60 says; digests of `bundled_components` are not
  verified (manifest.md:224).
* `version_le` drops parts that are not numbers, or beyond `u64`
  (trust.rs:145), and `install_package` does not refuse such versions. A comment
  promises an order by `installed_at` where the code orders by version
  (plugin_installation.rs:125-126, executor.rs:115).
* `oc-sign` and the installer write `{"algorithm": "sha256", "value": ...}` (as
  docs/src/guide/manifest.md:103 has it), `ContentDigest` of `ocp-types-v1`
  reads `algo` and `digest`; its `Manifest` therefore refuses every packed
  manifest, although oc-sign main.rs:211 says they match.

*Pipeline and task files*
* Two files of one stem, or one file twice, in a parallel stage share a temporary
  path in one millisecond (executor.rs:241, against oce-1.md:47); hence
  `OwnSnapshotOfOwnStem`.
* A plugin that exits non-zero without a terminal event leaves the exit code of
  `oc run` at 0 (executor.rs:492, against kinds-1.md:63); hence the exception in
  `ExitTellsFailure`.
* A missing plugin or version leaves the temporary file of an earlier task
  (executor.rs:335); an error in one thread returns while the others run (312).
* A task that reports its failure and exits with 0 does not stop the pipeline
  (383), hence the exception for `reported` in `StopHalts`.
* Task ids collide: labels `a b` and `a_b`, `x` and ` x`, versions `1.2` and
  `1_2`, the second item of `calc::1.0::add` and `calc::1.0.1::add`; aliases and
  endpoints are not sanitised. The comments at parse.rs:98-102 and 117
  contradict each other; hence `IsPlain` in `OwnParams`.
* Which of two plugins with one last segment gets the implied alias is not
  stated by the SELECT, and rows of uninstalled plugins still give aliases.

*License gate and tool cache*
* `heartbeat_valid_until` is stored and never read by the gate. A clock that
  was ahead once forces online checks until it has caught up.
* Two first launches may make two salts (salt.rs:42); a state saved between is
  unreadable, which the gate treats as missing.
* The cache is never consulted before a download, and a later download of the
  same release truncates a whole file that others may be copying. The path uses
  the hash as given, the comparison lowercases it. No program of the workspace
  calls this library yet.

*Wire types*
* wire-format-1.md:77 wants floats to round-trip. They are written by their shortest
  text, but read by `serde_json = "1"` without its feature `float_roundtrip`
  (Cargo.toml:22), which may be off in the last digit, so a relayed float may change
  from hop to hop; integers beyond `u64` in free values become floats. Hence
  `Number`, and the reservation in `NewsSurvives` and `Stable`.
* Unknown tags of `PathRef.kind`, `Severity`, `StageOutcome` and
  `SelfTestStatus` are written as `other`, although envelope-1.md:364 and
  common.rs:33-36 say they are kept; an unknown class is a parse error
  (envelope-1.md:362); closed structs drop members they do not know
  (wire-format-1.md:112); `null` for a list is refused. `NewsSurvives`
  distinguishes these places.

## 7. Not modelled

* *Conformance corpus* (`ocp-conformance`) and *read-only queries*
  (`oc-runner/src/query.rs`): they change no state.
* *Snippets, content cache, event log, endpoint index* (`oc-runner/src/repository`):
  single statements, whose failure `install_package` only logs; nothing reads
  them back to decide anything.
* *Cryptography* (Ed25519, HMAC, HKDF), *TOML, JSON and ZIP syntax*, *HTTP*: ideal,
  or a choice of what arrives.
* *The bypass table and `try_bypass`*: a choice of `LicenseGate`.
* *The kind grammar and the capability implications* (`ocp-types-v1/src/kind.rs`,
  `capabilities.rs`): functions over texts without state.
* *Argument parsing and printing of `oc-cli`*, examples, assets and the docs.
