----------------------------- MODULE LicenseGate -----------------------------
(***************************************************************************)
(* The gate every command passes before it runs: check and commit_bypass   *)
(* of crates/openchoice-license/src/gate.rs, the state file (state.rs) and *)
(* the salt in the keyring that its MAC depends on (salt.rs, derive.rs).   *)
(*                                                                         *)
(* Each command is a process.  The processes share the keyring, the file   *)
(* state.json, its temporary name, and a clock that may be set either way. *)
(* Every access to one of them is a step; a step may fail and a process    *)
(* may stop between two.  Signatures, key derivation and MAC are ideal: a  *)
(* file loads exactly under the salt it was saved with.                    *)
(***************************************************************************)
EXTENDS Integers

CONSTANTS
  Processes,   \* the processes that run commands
  NoSalt,      \* the keyring before the first launch
  Week,        \* days a check or a bypass lasts: 7
  WarnAge,     \* age in days from which the gate warns: 6
  LastDay,     \* the clock shows a day in 0..LastDay
  MaxCommands, \* bound: commands that are ever started
  MaxTurns     \* bound: how often the clock changes

ASSUME SaltAssumption == NoSalt \notin Processes
ASSUME TimeAssumption ==
  /\ Week \in Nat /\ WarnAge \in Nat /\ LastDay \in Nat /\ MaxCommands \in Nat
  /\ MaxTurns \in Nat
  /\ WarnAge <= Week

\* emergency_bypass_until = None: before every day the clock can show.
NoBypass == -1

Days == 0..LastDay
LicenseState == [last : Int, max : Int, until : Int]
Options(S) == {{}} \cup {{x} : x \in S}

VARIABLES
  clock,     \* what Utc::now() returns
  keyring,   \* the salt; a salt is known by the process that made it
  file,      \* what is under the names "state" and "tmp"
  pc,        \* per process, its next step
  goal,      \* per process, what load or save is called for
  salt,      \* per process, the salt its key is derived from
  at,        \* per process, the time it has read and goes on using
  cur,       \* per process, the loaded state, if any
  new,       \* per process, the state to be saved
  handle,    \* per process, the name of the file it has open for writing now
  commands,  \* number of commands started
  turns,     \* number of times the clock has changed
  covered,   \* history: days within a week of some check or bypass
  alone,     \* history: nobody ran beside the command started last
  blind,     \* history: that command could not load for a fault
  saved      \* history: what a command that ran alone has saved, unless
             \* commands have overlapped since

shared == <<clock, turns, keyring, file>>
locals == <<salt, at, cur, new, handle>>
history == <<covered, alone, blind, saved>>
vars == <<clock, keyring, file, pc, goal, salt, at, cur, new, handle,
          commands, turns, covered, alone, blind, saved>>

Nothing == [last |-> 0, max |-> 0, until |-> NoBypass]
Plain(k) == [kind |-> k, st |-> Nothing, salt |-> NoSalt]
Signed(s, k) == [kind |-> "signed", st |-> s, salt |-> k]
Contents ==
  [kind : {"absent", "empty", "broken", "signed"}, st : LicenseState,
   salt : Processes \cup {NoSalt}]

\* load is called by check, run_online and commit_bypass; save by check and
\* commit_bypass.
Goals == {"check", "renew", "bypass", "keep", "commit"}
Saves == {"keep", "commit"}
\* How a command ends: let through, let through with a warning, refused, or
\* stopped half-way (and before the first one).
Ended == {"passed", "warned", "refused", "idle"}
Steps == Ended \cup {"get", "set", "read", "decide", "fetch", "apply", "create",
                    "write", "rename"}

TypeOK ==
  /\ clock \in Days
  /\ keyring \in Processes \cup {NoSalt}
  /\ file \in [{"state", "tmp"} -> Contents]
  /\ pc \in [Processes -> Steps] /\ goal \in [Processes -> Goals]
  /\ salt \in [Processes -> Processes \cup {NoSalt}]
  /\ at \in [Processes -> Int]
  /\ cur \in [Processes -> SUBSET LicenseState]
  /\ new \in [Processes -> LicenseState]
  /\ handle \in [Processes -> {"none", "tmp", "state", "gone"}]
  /\ commands \in 0..MaxCommands /\ turns \in 0..MaxTurns
  /\ covered \subseteq Int /\ alone \in BOOLEAN /\ blind \in BOOLEAN
  /\ saved \subseteq LicenseState

Init ==
  /\ clock \in Days
  /\ keyring = NoSalt
  /\ file = [n \in {"state", "tmp"} |-> Plain("absent")]
  /\ pc = [p \in Processes |-> "idle"]
  /\ goal = [p \in Processes |-> "check"]
  /\ salt = [p \in Processes |-> NoSalt]
  /\ at = [p \in Processes |-> 0]
  /\ cur = [p \in Processes |-> {}]
  /\ new = [p \in Processes |-> Nothing]
  /\ handle = [p \in Processes |-> "none"]
  /\ commands = 0 /\ turns = 0
  /\ covered = {} /\ alone = TRUE /\ blind = FALSE /\ saved = {}

Later(a, b) == IF a > b THEN a ELSE b

-----------------------------------------------------------------------------
(* Control: a command starts, calls load or save, and ends.                *)

\* A process keeps nothing once its command has ended.
Forget(p) ==
  /\ goal' = [goal EXCEPT ![p] = "check"]
  /\ salt' = [salt EXCEPT ![p] = NoSalt]
  /\ at' = [at EXCEPT ![p] = 0]
  /\ cur' = [cur EXCEPT ![p] = {}]
  /\ new' = [new EXCEPT ![p] = Nothing]
  /\ handle' = [handle EXCEPT ![p] = "none"]

End(p, how) ==
  /\ pc' = [pc EXCEPT ![p] = how]
  /\ Forget(p)

\* Load and save both begin with derive(): the salt.
Call(p, g) ==
  /\ pc' = [pc EXCEPT ![p] = "get"]
  /\ goal' = [goal EXCEPT ![p] = g]

Goto(p, step) == pc' = [pc EXCEPT ![p] = step]

\* `oc ...` begins with check(), or with --emergency-bypass: try_bypass has
\* accepted the code and returned `until`, a week from now.
Begin(p) ==
  /\ pc[p] \in Ended /\ commands < MaxCommands
  /\ \/ /\ Call(p, "check")
        /\ UNCHANGED at
     \/ /\ Call(p, "bypass")
        /\ at' = [at EXCEPT ![p] = clock + Week]
  /\ commands' = commands + 1
  /\ alone' = (\A q \in Processes \ {p} : pc[q] \in Ended)
  /\ blind' = FALSE
  /\ saved' = IF alone' THEN saved ELSE {}
  /\ UNCHANGED <<shared, salt, cur, new, handle, covered>>

\* load_or_create: the keyring has a salt, or NoEntry.
GetSalt(p) ==
  /\ pc[p] = "get"
  /\ IF keyring = NoSalt
       THEN Goto(p, "set") /\ UNCHANGED salt
       ELSE /\ Goto(p, IF goal[p] \in Saves THEN "create" ELSE "read")
            /\ salt' = [salt EXCEPT ![p] = keyring]
  /\ UNCHANGED <<shared, goal, at, cur, new, handle, commands, history>>

\* Mutant of SetSalt: the new salt is used and not stored.
SaltNotStored(p) ==
  /\ pc[p] = "set"
  /\ salt' = [salt EXCEPT ![p] = p]
  /\ Goto(p, IF goal[p] \in Saves THEN "create" ELSE "read")
  /\ UNCHANGED <<shared, goal, at, cur, new, handle, commands, history>>

SetSalt(p) ==
  /\ pc[p] = "set"
  /\ keyring' = p
  /\ salt' = [salt EXCEPT ![p] = p]
  /\ Goto(p, IF goal[p] \in Saves THEN "create" ELSE "read")
  /\ UNCHANGED <<clock, turns, file, goal, at, cur, new, handle, commands, history>>

\* load_from: whatever does not verify under the key is as good as missing.
Loaded(p) ==
  IF file["state"].kind = "signed" /\ file["state"].salt = salt[p]
    THEN {file["state"].st} ELSE {}

\* Mutant of Rolled: the newest time seen is forgotten.
RolledAnew(p, prev) == [last |-> at[p], max |-> at[p], until |-> NoBypass]

\* The state run_online returns when load gives `prev`.
Rolled(p, prev) ==
  [last |-> at[p],
   max |-> IF prev = {} THEN at[p] ELSE Later((CHOOSE s \in prev : TRUE).max, at[p]),
   until |-> NoBypass]

\* What the callers of load go on with.  gate and apply_bypass read the clock
\* first; run_online has read it before and has only the new state to compute.
Resume(p, got) ==
  /\ salt' = [salt EXCEPT ![p] = NoSalt]
  /\ \/ /\ goal[p] = "renew"
        /\ Call(p, "keep")
        /\ new' = [new EXCEPT ![p] = Rolled(p, got)]
        /\ at' = [at EXCEPT ![p] = 0]
        /\ UNCHANGED cur
     \/ /\ goal[p] \in {"check", "bypass"}
        /\ Goto(p, IF goal[p] = "check" THEN "decide" ELSE "apply")
        /\ cur' = [cur EXCEPT ![p] = got]
        /\ UNCHANGED <<goal, new, at>>
  /\ UNCHANGED <<shared, handle, commands, covered, alone, saved>>

Load(p) ==
  /\ pc[p] = "read"
  /\ blind' = FALSE
  /\ Resume(p, Loaded(p))

\* The registry, the keyring or the file cannot be read, or the new salt not
\* stored: all callers turn Err into None.
LoadFails(p) ==
  /\ pc[p] \in {"get", "set", "read"} /\ goal[p] \notin Saves
  /\ blind' = TRUE
  /\ Resume(p, {})

-----------------------------------------------------------------------------
(* The gate.                                                               *)

Age(s) == clock - s.last
InBypass(s) == clock < s.until
Regressed(s) == clock < s.max

\* Mutants of GoOnline: a clock that went back is not noticed; a bypass does not
\* come first.
GoOnlineByAge(s) == ~InBypass(s) /\ Age(s) > Week
GoOnlineInBypass(s) == Regressed(s) \/ Age(s) > Week

GoOnline(s) == Regressed(s) \/ (~InBypass(s) /\ Age(s) > Week)

\* gate: without a usable state, after the clock went back, or when the last
\* check is too old, go online.  A bypass in force comes before the age.
Decide(p) ==
  /\ pc[p] = "decide"
  /\ \/ /\ \A s \in cur[p] : GoOnline(s)
        /\ Goto(p, "fetch")
        /\ cur' = [cur EXCEPT ![p] = {}]
        /\ UNCHANGED <<goal, salt, at, new, handle>>
     \/ \E s \in cur[p] :
          /\ ~GoOnline(s)
          /\ End(p, IF ~InBypass(s) /\ Age(s) > WarnAge THEN "warned" ELSE "passed")
  /\ UNCHANGED <<shared, commands, history>>

\* run_online: the heartbeat was fetched, verifies and is not expired; then
\* the state is loaded once more for its max_timestamp_ever_seen.
Fetched(p) ==
  /\ pc[p] = "fetch"
  /\ at' = [at EXCEPT ![p] = clock]
  /\ covered' = covered \cup clock..(clock + Week)
  /\ Call(p, "renew")
  /\ UNCHANGED <<shared, salt, cur, new, handle, commands, alone, blind, saved>>

FetchFails(p) ==
  /\ pc[p] = "fetch"
  /\ End(p, "refused")
  /\ UNCHANGED <<shared, commands, history>>

\* apply_bypass: keeps the last check, or pretends one that is too old.
Bypassed(p) ==
  IF cur[p] = {}
    THEN [last |-> clock - (Week + 1), max |-> clock, until |-> at[p]]
    ELSE LET s == CHOOSE s \in cur[p] : TRUE
         IN  [s EXCEPT !.max = Later(s.max, clock), !.until = at[p]]

ApplyBypass(p) ==
  /\ pc[p] = "apply"
  /\ new' = [new EXCEPT ![p] = Bypassed(p)]
  /\ covered' = covered \cup clock..(at[p] - 1)
  /\ cur' = [cur EXCEPT ![p] = {}]
  /\ at' = [at EXCEPT ![p] = 0]
  /\ Call(p, "commit")
  /\ UNCHANGED <<shared, salt, handle, commands, alone, blind, saved>>

-----------------------------------------------------------------------------
(* save_to: create the temporary file, fill it, rename it.  All processes  *)
(* use one temporary name, so a handle may outlive the name it was opened  *)
(* under; `handle` is the name its file has now.                           *)

Create(p) ==
  /\ pc[p] = "create"
  /\ file' = [file EXCEPT !["tmp"] = Plain("empty")]
  /\ handle' = [handle EXCEPT ![p] = "tmp"]
  /\ Goto(p, "write")
  /\ UNCHANGED <<clock, turns, keyring, goal, salt, at, cur, new, commands, history>>

\* Writing over what another process has put there may leave its tail.
Write(p) ==
  /\ pc[p] = "write"
  /\ \/ handle[p] = "gone" /\ UNCHANGED file
     \/ /\ handle[p] # "gone"
        /\ \E c \in {Signed(new[p], salt[p]), Plain("broken")} :
             /\ file[handle[p]].kind = "empty" => c.kind = "signed"
             /\ file' = [file EXCEPT ![handle[p]] = c]
  /\ handle' = [handle EXCEPT ![p] = "none"]
  /\ Goto(p, "rename")
  /\ UNCHANGED <<clock, turns, keyring, goal, salt, at, cur, new, commands, history>>

\* Handles follow their file through a rename.
Follow(h) == CASE h = "tmp" -> "state" [] h = "state" -> "gone" [] OTHER -> h

\* The state is saved: check returns Ok, and after commit_bypass the command
\* goes on to check.
Rename(p) ==
  /\ pc[p] = "rename" /\ file["tmp"].kind # "absent"
  /\ file' = [file EXCEPT !["state"] = file["tmp"], !["tmp"] = Plain("absent")]
  /\ handle' = [q \in Processes |-> Follow(handle[q])]
  /\ new' = [new EXCEPT ![p] = Nothing]
  /\ salt' = [salt EXCEPT ![p] = NoSalt]
  /\ goal' = [goal EXCEPT ![p] = "check"]
  /\ Goto(p, IF goal[p] = "commit" THEN "get" ELSE "passed")
  /\ saved' = IF alone THEN {new[p]} ELSE {}
  /\ UNCHANGED <<clock, turns, keyring, at, cur, commands, covered, alone, blind>>

\* Any step of save fails.  check ignores it; commit_bypass returns the error
\* and the command exits with 1.
SaveFails(p) ==
  /\ goal[p] \in Saves
  /\ pc[p] \in {"get", "set", "create", "write", "rename"}
  /\ End(p, IF goal[p] = "commit" THEN "refused" ELSE "passed")
  /\ UNCHANGED <<shared, commands, history>>

-----------------------------------------------------------------------------
(* The environment.                                                        *)

Crash(p) ==
  /\ pc[p] \notin Ended
  /\ End(p, "idle")
  /\ UNCHANGED <<shared, commands, history>>

SetClock ==
  /\ turns < MaxTurns
  /\ clock' \in Days \ {clock}
  /\ turns' = turns + 1
  /\ UNCHANGED <<keyring, file, pc, goal, locals, commands, history>>

Step(p) ==
  \/ Begin(p) \/ GetSalt(p) \/ SetSalt(p) \/ Load(p) \/ LoadFails(p)
  \/ Decide(p) \/ Fetched(p) \/ FetchFails(p) \/ ApplyBypass(p)
  \/ Create(p) \/ Write(p) \/ Rename(p) \/ SaveFails(p) \/ Crash(p)

\* No command runs, and perhaps none ever will again.
Rest == (\A p \in Processes : pc[p] \in Ended) /\ UNCHANGED vars

Next == SetClock \/ Rest \/ \E p \in Processes : Step(p)

Spec == Init /\ [][Next]_vars

-----------------------------------------------------------------------------
(* Properties.                                                             *)

\* The gate lets a command through without going online only within a week of
\* an online check or a bypass that some process completed (gate.rs:49-67),
\* whatever was interleaved, lost or half written, and wherever the clock was
\* set in between.
GraceHasACause ==
  [][\A p \in Processes :
       pc[p] = "decide" /\ pc'[p] \in {"passed", "warned"} => clock \in covered]_vars

\* What a command that ran alone has saved is what the next one loads: a stop
\* or a failure at any later step leaves it in place, and whatever overlapping
\* commands left before is repaired (state.rs:117-124, salt.rs:30-50).
SavedIsLoaded ==
  saved # {} => \E s \in saved : file["state"] = Signed(s, keyring)

\* The newest time ever seen does not go back from one saved state to the
\* next, even when the clock does, unless the command could not load the one
\* before (gate.rs:85-92, 109-113).
MaxNeverDecreases ==
  [][\A s \in saved, t \in saved' : t.max >= s.max \/ blind]_vars

\* A command that runs alone, after a saved check or bypass that still covers
\* the present day, does not depend on the network (gate.rs:28-68).
OfflineKeepsWorking ==
  [][\A p \in Processes, s \in saved :
       pc[p] = "decide" /\ pc'[p] = "fetch" /\ ~blind
         => clock < s.max \/ (clock >= s.until /\ clock > s.last + Week)]_vars
=============================================================================
