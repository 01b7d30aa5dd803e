-------------------------- MODULE LicenseGateProofs --------------------------
(***************************************************************************)
(* Proofs about LicenseGate, for any number of processes and commands and  *)
(* any lengths of time: what passes offline has a cause (Cause); what a    *)
(* command that ran alone has saved is what loads (Kept), knows of no      *)
(* earlier time than the state before it (NeverBack) and, while it covers  *)
(* the day, spares the next one the network (Offline).                     *)
(***************************************************************************)
EXTENDS LicenseGate, TLAPS

USE DEF Forget, End, Call, Goto, shared, locals, history

(***************************************************************************)
(* The types.                                                              *)
(***************************************************************************)

LEMMA NothingTyped == Nothing \in LicenseState
BY DEF Nothing, LicenseState, NoBypass

LEMMA ContentTyped ==
  ASSUME NEW s \in LicenseState, NEW k \in Processes \cup {NoSalt}
  PROVE  /\ Signed(s, k) \in Contents
         /\ \A x \in {"absent", "empty", "broken"} : Plain(x) \in Contents
BY NothingTyped DEF Signed, Plain, Contents

LEMMA RolledTyped ==
  ASSUME TypeOK, NEW p \in Processes, NEW prev \in SUBSET LicenseState
  PROVE  Rolled(p, prev) \in LicenseState
<1>1. at[p] \in Int
  BY DEF TypeOK
<1>2. prev # {} => (CHOOSE s \in prev : TRUE).max \in Int
  BY DEF LicenseState
<1>. QED BY <1>1, <1>2 DEF Rolled, LicenseState, NoBypass, Later

LEMMA BypassedTyped ==
  ASSUME TypeOK, NEW p \in Processes
  PROVE  Bypassed(p) \in LicenseState
<1>1. clock \in Int /\ at[p] \in Int /\ Week \in Int
  BY TimeAssumption DEF TypeOK, Days
<1>2. CASE cur[p] = {}
  BY <1>1, <1>2 DEF Bypassed, LicenseState
<1>3. CASE cur[p] # {}
  <2>1. (CHOOSE s \in cur[p] : TRUE) \in LicenseState
    BY <1>3 DEF TypeOK
  <2>. QED BY <1>1, <1>3, <2>1 DEF Bypassed, LicenseState, Later
<1>. QED BY <1>2, <1>3

LEMMA ResumeTyped ==
  ASSUME TypeOK, NEW p \in Processes, NEW got \in SUBSET LicenseState,
         Resume(p, got), blind' \in BOOLEAN
  PROVE  TypeOK'
BY RolledTyped DEF Resume, TypeOK, Steps, Goals

LEMMA TypeStep ==
  ASSUME TypeOK, NEW p \in Processes, Step(p)
  PROVE  TypeOK'
<1> USE DEF TypeOK, Steps, Ended, Goals, Saves
<1>1. clock \in Int /\ Week \in Int /\ Days \subseteq Int /\ Nothing \in LicenseState
  BY TimeAssumption, NothingTyped DEF Days
<1>2. CASE Begin(p)
  <2>1. alone' \in BOOLEAN
    <3>1. (\A q \in Processes \ {p} : pc[q] \in Ended) \in BOOLEAN
      OBVIOUS
    <3>. QED BY ONLY <1>2, <3>1 DEF Begin
  <2>2. commands' \in 0..MaxCommands
    BY <1>2, TimeAssumption DEF Begin
  <2>3. saved' \subseteq LicenseState
    BY <1>2 DEF Begin
  <2>4. at' \in [Processes -> Int]
    <3>1. clock + Week \in Int
      BY <1>1
    <3>2. CASE UNCHANGED at
      BY <3>2
    <3>3. CASE at' = [at EXCEPT ![p] = clock + Week]
      BY <3>1, <3>3
    <3>. QED BY <1>2, <3>2, <3>3 DEF Begin
  <2>5. pc' \in [Processes -> Steps] /\ goal' \in [Processes -> Goals]
    BY <1>2 DEF Begin
  <2>. QED BY ONLY TypeOK, <1>2, <2>1, <2>2, <2>3, <2>4, <2>5 DEF Begin
<1>3. CASE GetSalt(p)
  BY <1>3 DEF GetSalt
<1>4. CASE SetSalt(p)
  BY <1>4 DEF SetSalt
<1>5. CASE Load(p)
  <2>1. Loaded(p) \in SUBSET LicenseState
    BY DEF Loaded, Contents
  <2>. QED BY <1>5, <2>1, ResumeTyped DEF Load
<1>6. CASE LoadFails(p)
  BY <1>6, ResumeTyped DEF LoadFails
<1>7. CASE Decide(p)
  BY <1>1, <1>7 DEF Decide
<1>8. CASE Fetched(p)
  BY <1>1, <1>8 DEF Fetched
<1>9. CASE FetchFails(p)
  BY <1>1, <1>9 DEF FetchFails
<1>10. CASE ApplyBypass(p)
  <2>1. new' \in [Processes -> LicenseState]
    BY <1>10, BypassedTyped DEF ApplyBypass
  <2>2. covered' \subseteq Int
    <3>1. covered' = covered \cup clock..(at[p] - 1)
      BY <1>10 DEF ApplyBypass
    <3>2. \A a, b : a..b \subseteq Int
      OBVIOUS
    <3>. QED BY ONLY TypeOK, <3>1, <3>2
  <2>3. at' \in [Processes -> Int]
    BY <1>10 DEF ApplyBypass
  <2>. QED BY <1>10, <2>1, <2>2, <2>3 DEF ApplyBypass
<1>11. CASE Create(p)
  BY <1>1, <1>11, ContentTyped DEF Create
<1>12. CASE Write(p)
  <2>1. /\ Signed(new[p], salt[p]) \in Contents
        /\ Plain("broken") \in Contents
    BY ContentTyped
  <2>. QED BY <1>12, <2>1 DEF Write
<1>13. CASE Rename(p)
  <2>1. Plain("absent") \in Contents
    BY <1>1, ContentTyped
  <2>2. \A q \in Processes : Follow(handle[q]) \in {"none", "tmp", "state", "gone"}
    BY DEF Follow
  <2>. QED BY <1>1, <1>13, <2>1, <2>2 DEF Rename
<1>14. CASE SaveFails(p)
  BY <1>1, <1>14 DEF SaveFails
<1>15. CASE Crash(p)
  BY <1>1, <1>15 DEF Crash
<1>. QED BY <1>2, <1>3, <1>4, <1>5, <1>6, <1>7, <1>8, <1>9, <1>10, <1>11, <1>12,
            <1>13, <1>14, <1>15 DEF Step

LEMMA TypeInit == Init => TypeOK
<1>1. Plain("absent") \in Contents /\ Nothing \in LicenseState
  BY NothingTyped, ContentTyped
<1>2. SUFFICES ASSUME Init PROVE TypeOK
  OBVIOUS
<1>3. /\ commands \in 0..MaxCommands /\ turns \in 0..MaxTurns
      /\ covered \subseteq Int /\ saved \subseteq LicenseState
  BY <1>2, TimeAssumption DEF Init
<1>4. alone \in BOOLEAN /\ blind \in BOOLEAN
  BY <1>2 DEF Init
<1>. QED BY <1>1, <1>2, <1>3, <1>4 DEF Init, TypeOK, Steps, Ended, Goals

LEMMA TypeNext == TypeOK /\ [Next]_vars => TypeOK'
<1> SUFFICES ASSUME TypeOK, [Next]_vars PROVE TypeOK'
  OBVIOUS
<1>1. CASE SetClock
  BY <1>1, TimeAssumption DEF SetClock, TypeOK
<1>2. CASE Rest \/ UNCHANGED vars
  BY <1>2 DEF Rest, vars, TypeOK
<1>3. CASE \E p \in Processes : Step(p)
  BY <1>3, TypeStep
<1>. QED BY <1>1, <1>2, <1>3 DEF Next

\* Every variable has its type in every reachable state.
THEOREM TypeCorrect == Spec => []TypeOK
BY TypeInit, TypeNext, PTL DEF Spec

(***************************************************************************)
(* Nothing passes offline without a cause.                                 *)
(***************************************************************************)

\* A state lets nothing pass on a day that is not in `days`.
Sound(s, days) ==
  \A d \in Days : (s.max <= d /\ (d < s.until \/ d <= s.last + Week)) => d \in days

FilesSound ==
  \A n \in {"state", "tmp"} : file[n].kind = "signed" => Sound(file[n].st, covered)
LoadedSound == \A p \in Processes : \A s \in cur[p] : Sound(s, covered)
NewSound == \A p \in Processes : goal[p] \in Saves => Sound(new[p], covered)
ChecksCovered ==
  \A p \in Processes : goal[p] = "renew" =>
    \A d \in Days : at[p] <= d /\ d <= at[p] + Week => d \in covered

\* Only save creates, writes and renames.
InSave ==
  \A p \in Processes : pc[p] \in {"create", "write", "rename"} => goal[p] \in Saves

CauseInv == FilesSound /\ LoadedSound /\ NewSound /\ ChecksCovered /\ InSave

\* More days covered, still sound.
LEMMA SoundGrows ==
  ASSUME NEW s, NEW A, NEW B, A \subseteq B, Sound(s, A)
  PROVE  Sound(s, B)
BY DEF Sound

\* The state after an online check covers a week from the check on.
LEMMA RolledSound ==
  ASSUME TypeOK, ChecksCovered, NEW p \in Processes, goal[p] = "renew",
         NEW prev \in SUBSET LicenseState
  PROVE  Sound(Rolled(p, prev), covered)
<1>1. Rolled(p, prev) \in LicenseState /\ at[p] \in Int /\ Week \in Int
  BY RolledTyped, TimeAssumption DEF TypeOK
<1>2. /\ Rolled(p, prev).last = at[p]
      /\ Rolled(p, prev).until = -1
  BY DEF Rolled, NoBypass
<1>3. Rolled(p, prev).max >= at[p]
  <2>1. CASE prev = {}
    BY <1>1, <2>1 DEF Rolled
  <2>2. CASE prev # {}
    <3>1. (CHOOSE s \in prev : TRUE).max \in Int
      BY <2>2 DEF LicenseState
    <3>. QED BY <1>1, <2>2, <3>1 DEF Rolled, Later
  <2>. QED BY <2>1, <2>2
<1>4. \A d \in Days : d \in Int /\ d >= 0
  BY TimeAssumption DEF Days
<1>5. Rolled(p, prev).max \in Int
  BY <1>1 DEF LicenseState
<1>. QED BY <1>1, <1>2, <1>3, <1>4, <1>5 DEF Sound, ChecksCovered

\* So does the state after a bypass, from now to the time the bypass sets.
LEMMA BypassedSound ==
  ASSUME TypeOK, LoadedSound, NEW p \in Processes,
         NEW days, covered \subseteq days, clock..(at[p] - 1) \subseteq days
  PROVE  Sound(Bypassed(p), days)
<1>1. clock \in Int /\ at[p] \in Int /\ Week \in Int
  BY TimeAssumption DEF TypeOK, Days
<1>2. \A d \in Days : d \in Int
  BY DEF Days
<1>3. CASE cur[p] = {}
  BY <1>1, <1>2, <1>3 DEF Bypassed, Sound
<1>4. CASE cur[p] # {}
  <2>. DEFINE s == CHOOSE s \in cur[p] : TRUE
  <2>1. s \in cur[p]
    BY <1>4
  <2>2. s \in LicenseState /\ Sound(s, days)
    BY <2>1, SoundGrows DEF TypeOK, LoadedSound
  <2>3. Bypassed(p) = [s EXCEPT !.max = Later(s.max, clock), !.until = at[p]]
    BY <1>4 DEF Bypassed
  <2>. HIDE DEF s
  <2>4. /\ s.max \in Int /\ s.last \in Int
        /\ Bypassed(p).last = s.last /\ Bypassed(p).until = at[p]
        /\ Bypassed(p).max \in Int
        /\ Bypassed(p).max >= s.max /\ Bypassed(p).max >= clock
    BY <1>1, <2>2, <2>3 DEF LicenseState, Later
  <2>. QED BY <1>1, <1>2, <2>2, <2>4 DEF Sound
<1>. QED BY <1>3, <1>4

\* A call of load hands on sound states.
LEMMA ResumeSound ==
  ASSUME TypeOK, CauseInv, NEW p \in Processes, NEW got \in SUBSET LicenseState,
         \A s \in got : Sound(s, covered), Resume(p, got)
  PROVE  CauseInv'
<1> USE DEF CauseInv
<1>1. UNCHANGED <<file, covered>>
  BY DEF Resume
<1>2. CASE goal[p] = "renew"
  <2>1. Sound(Rolled(p, got), covered)
    BY <1>2, RolledSound
  <2>2. /\ goal' = [goal EXCEPT ![p] = "keep"]
        /\ new' = [new EXCEPT ![p] = Rolled(p, got)]
        /\ at' = [at EXCEPT ![p] = 0]
        /\ cur' = cur
    BY <1>2 DEF Resume
  <2>3. FilesSound' /\ LoadedSound'
    BY <1>1, <2>2 DEF FilesSound, LoadedSound
  <2>6. InSave'
    BY <1>2, <2>2 DEF InSave, Resume, TypeOK, Saves
  <2>4. NewSound'
    BY <1>1, <2>1, <2>2 DEF NewSound, TypeOK, Saves
  <2>5. ChecksCovered'
    BY <1>1, <2>2 DEF ChecksCovered, TypeOK
  <2>. QED BY <2>3, <2>4, <2>5, <2>6
<1>3. CASE goal[p] # "renew"
  <2>1. /\ UNCHANGED <<goal, new, at>>
        /\ cur' = [cur EXCEPT ![p] = got]
    BY <1>3 DEF Resume
  <2>2. FilesSound' /\ NewSound' /\ ChecksCovered'
    BY <1>1, <2>1 DEF FilesSound, NewSound, ChecksCovered
  <2>3. LoadedSound'
    BY <1>1, <2>1 DEF LoadedSound, TypeOK
  <2>4. InSave'
    BY <1>3, <2>1 DEF InSave, Resume, TypeOK
  <2>. QED BY <2>2, <2>3, <2>4
<1>. QED BY <1>2, <1>3

\* A command that ends takes its states along.
LEMMA EndSound ==
  ASSUME TypeOK, CauseInv, NEW p \in Processes, NEW how \in Ended, End(p, how),
         UNCHANGED <<file, covered>>
  PROVE  CauseInv'
<1> USE DEF CauseInv
<1>1. FilesSound' /\ LoadedSound'
  BY DEF FilesSound, LoadedSound, TypeOK
<1>2. NewSound' /\ ChecksCovered'
  BY DEF NewSound, ChecksCovered, TypeOK, Saves
<1>3. InSave'
  BY DEF InSave, TypeOK, Saves, Ended
<1>. QED BY <1>1, <1>2, <1>3

LEMMA CauseStep ==
  ASSUME TypeOK, CauseInv, NEW p \in Processes, Step(p)
  PROVE  CauseInv'
<1> USE DEF CauseInv, FilesSound, LoadedSound, NewSound, ChecksCovered, InSave
<1>1. CASE Begin(p)
  <2>1. UNCHANGED <<file, cur, new, covered>>
    BY <1>1 DEF Begin
  <2>2. \E g \in {"check", "bypass"} : goal' = [goal EXCEPT ![p] = g]
    BY <1>1 DEF Begin
  <2>3. \A q \in Processes \ {p} : at'[q] = at[q]
    BY <1>1 DEF Begin, TypeOK
  <2>4. pc' = [pc EXCEPT ![p] = "get"]
    BY <1>1 DEF Begin
  <2>5. FilesSound' /\ LoadedSound'
    BY <2>1
  <2>6. NewSound' /\ InSave'
    BY <2>1, <2>2, <2>4 DEF TypeOK, Saves
  <2>7. ChecksCovered'
    BY <2>1, <2>2, <2>3 DEF TypeOK
  <2>. QED BY <2>5, <2>6, <2>7
<1>2. CASE GetSalt(p)
  BY <1>2 DEF GetSalt, TypeOK
<1>3. CASE SetSalt(p)
  BY <1>3 DEF SetSalt, TypeOK
<1>4. CASE Load(p)
  <2>1. Loaded(p) \in SUBSET LicenseState /\ \A s \in Loaded(p) : Sound(s, covered)
    BY DEF Loaded, TypeOK, Contents
  <2>. HIDE DEF CauseInv, FilesSound, LoadedSound, NewSound, ChecksCovered, InSave
  <2>. QED BY <1>4, <2>1, ResumeSound DEF Load
<1>5. CASE LoadFails(p)
  <2>. HIDE DEF CauseInv, FilesSound, LoadedSound, NewSound, ChecksCovered, InSave
  <2>. QED BY <1>5, ResumeSound DEF LoadFails
<1>6. CASE Decide(p)
  <2>1. CASE Goto(p, "fetch") /\ cur' = [cur EXCEPT ![p] = {}] /\ UNCHANGED <<goal, at, new>>
    BY <1>6, <2>1 DEF Decide, TypeOK
  <2>2. CASE \E how \in Ended : End(p, how)
    <3>. HIDE DEF CauseInv, FilesSound, LoadedSound, NewSound, ChecksCovered, InSave
    <3>. QED BY <1>6, <2>2, EndSound DEF Decide
  <2>. QED BY <1>6, <2>1, <2>2 DEF Decide, Ended
<1>7. CASE Fetched(p)
  <2>1. /\ covered \subseteq covered'
        /\ UNCHANGED <<file, cur, new>>
        /\ goal' = [goal EXCEPT ![p] = "renew"]
        /\ at' = [at EXCEPT ![p] = clock]
    BY <1>7 DEF Fetched
  <2>2. FilesSound' /\ LoadedSound'
    BY <2>1, SoundGrows
  <2>3. NewSound'
    BY <2>1, SoundGrows DEF TypeOK, Saves
  <2>4. \A d \in Days : clock <= d /\ d <= clock + Week => d \in covered'
    BY <1>7, TimeAssumption DEF Fetched, Days, TypeOK
  <2>5. ChecksCovered'
    BY <2>1, <2>4 DEF TypeOK
  <2>6. InSave'
    BY <1>7 DEF Fetched, TypeOK
  <2>. QED BY <2>2, <2>3, <2>5, <2>6
<1>8. CASE FetchFails(p)
  <2>. HIDE DEF CauseInv, FilesSound, LoadedSound, NewSound, ChecksCovered, InSave
  <2>. QED BY <1>8, EndSound DEF FetchFails, Ended
<1>9. CASE ApplyBypass(p)
  <2>1. /\ covered \subseteq covered' /\ clock..(at[p] - 1) \subseteq covered'
        /\ UNCHANGED file
        /\ cur' = [cur EXCEPT ![p] = {}]
        /\ new' = [new EXCEPT ![p] = Bypassed(p)]
        /\ goal' = [goal EXCEPT ![p] = "commit"]
        /\ at' = [at EXCEPT ![p] = 0]
    BY <1>9 DEF ApplyBypass
  <2>2. Sound(Bypassed(p), covered')
    BY <2>1, BypassedSound
  <2>3. FilesSound' /\ LoadedSound'
    <3>1. FilesSound'
      BY <2>1, SoundGrows
    <3>2. LoadedSound'
      BY <2>1, SoundGrows DEF TypeOK
    <3>. QED BY <3>1, <3>2
  <2>4. NewSound'
    BY <2>1, <2>2, SoundGrows DEF TypeOK, Saves
  <2>5. ChecksCovered'
    BY <2>1 DEF TypeOK
  <2>6. InSave'
    BY <1>9 DEF ApplyBypass, TypeOK
  <2>. QED BY <2>3, <2>4, <2>5, <2>6
<1>10. CASE Create(p)
  <2>1. /\ UNCHANGED <<cur, new, goal, at, covered>>
        /\ pc[p] = "create" /\ pc' = [pc EXCEPT ![p] = "write"]
        /\ file' = [file EXCEPT !["tmp"] = Plain("empty")]
    BY <1>10 DEF Create
  <2>. QED BY <2>1 DEF TypeOK, Plain
<1>11. CASE Write(p)
  <2>1. /\ UNCHANGED <<cur, new, goal, at, covered>>
        /\ pc[p] = "write" /\ pc' = [pc EXCEPT ![p] = "rename"]
    BY <1>11 DEF Write
  <2>4. InSave' /\ Sound(new[p], covered)
    BY <2>1 DEF TypeOK
  <2>2. CASE UNCHANGED file
    BY <2>1, <2>2, <2>4
  <2>3. ASSUME NEW c \in {Signed(new[p], salt[p]), Plain("broken")}, NEW n,
               file' = [file EXCEPT ![n] = c]
        PROVE  CauseInv'
    <3>1. c.kind = "signed" => Sound(c.st, covered)
      BY <2>3, <2>4 DEF Signed, Plain
    <3>2. FilesSound'
      BY <2>1, <2>3, <3>1 DEF TypeOK
    <3>. QED BY <2>1, <2>4, <3>2
  <2>. QED BY <1>11, <2>2, <2>3 DEF Write
<1>12. CASE Rename(p)
  <2>1. /\ UNCHANGED <<cur, at, covered>>
        /\ goal' = [goal EXCEPT ![p] = "check"]
        /\ new' = [new EXCEPT ![p] = Nothing]
        /\ file' = [file EXCEPT !["state"] = file["tmp"], !["tmp"] = Plain("absent")]
    BY <1>12 DEF Rename
  <2>2. InSave'
    BY <1>12 DEF Rename, TypeOK
  <2>3. FilesSound'
    BY <2>1 DEF TypeOK, Plain
  <2>. QED BY <2>1, <2>2, <2>3 DEF TypeOK, Saves
<1>13. CASE SaveFails(p)
  <2>. HIDE DEF CauseInv, FilesSound, LoadedSound, NewSound, ChecksCovered, InSave
  <2>. QED BY <1>13, EndSound DEF SaveFails, Ended
<1>14. CASE Crash(p)
  <2>. HIDE DEF CauseInv, FilesSound, LoadedSound, NewSound, ChecksCovered, InSave
  <2>. QED BY <1>14, EndSound DEF Crash, Ended
<1>. QED BY <1>1, <1>2, <1>3, <1>4, <1>5, <1>6, <1>7, <1>8, <1>9, <1>10, <1>11,
            <1>12, <1>13, <1>14 DEF Step

LEMMA CauseInit == Init => CauseInv
BY DEF Init, CauseInv, FilesSound, LoadedSound, NewSound, ChecksCovered, InSave, Plain,
       Saves

LEMMA CauseNext == TypeOK /\ CauseInv /\ [Next]_vars => CauseInv'
<1> SUFFICES ASSUME TypeOK, CauseInv, [Next]_vars PROVE CauseInv'
  OBVIOUS
<1>1. CASE SetClock \/ Rest \/ UNCHANGED vars
  BY <1>1 DEF SetClock, Rest, vars, CauseInv, FilesSound, LoadedSound, NewSound,
              ChecksCovered, InSave
<1>2. CASE \E p \in Processes : Step(p)
  BY <1>2, CauseStep
<1>. QED BY <1>1, <1>2 DEF Next

\* Only Decide takes a process from "decide" to its end without a crash, and it
\* does so on the grounds of a sound state.
LEMMA CauseAct ==
  ASSUME TypeOK, CauseInv, [Next]_vars, NEW p \in Processes,
         pc[p] = "decide", pc'[p] \in {"passed", "warned"}
  PROVE  clock \in covered
<1>1. PICK q \in Processes : Step(q)
  BY DEF Next, SetClock, Rest, vars
<1>2. q = p
  BY <1>1 DEF Step, Begin, GetSalt, SetSalt, Load, LoadFails, Resume, Decide, Fetched,
              FetchFails, ApplyBypass, Create, Write, Rename, SaveFails, Crash, TypeOK
<1>3. Decide(p)
  BY <1>1, <1>2 DEF Step, Begin, GetSalt, SetSalt, Load, LoadFails, Resume, Fetched,
              FetchFails, ApplyBypass, Create, Write, Rename, SaveFails, Crash, TypeOK, Ended
<1>4. PICK s \in cur[p] : ~GoOnline(s)
  BY <1>3 DEF Decide, TypeOK
<1>5. /\ s.last \in Int /\ s.max \in Int /\ s.until \in Int
      /\ clock \in Int /\ clock \in Days /\ Week \in Int
  BY <1>4, TimeAssumption DEF TypeOK, LicenseState, Days
<1>6. s.max <= clock /\ (clock < s.until \/ clock <= s.last + Week)
  BY <1>4, <1>5 DEF GoOnline, Regressed, InBypass, Age
<1>. QED BY <1>4, <1>5, <1>6 DEF CauseInv, LoadedSound, Sound

\* The gate lets nothing through offline but within a week of a check or a
\* bypass that some process completed, whatever commands overlap, fail or stop,
\* and however the clock is set (gate.rs:39-68).
THEOREM Cause == Spec => GraceHasACause
<1> DEFINE Act == \A p \in Processes :
             pc[p] = "decide" /\ pc'[p] \in {"passed", "warned"} => clock \in covered
<1>1. TypeOK /\ CauseInv /\ [Next]_vars => [Act]_vars
  BY CauseAct
<1>. QED BY <1>1, TypeInit, TypeNext, CauseInit, CauseNext, PTL DEF Spec, GraceHasACause

(***************************************************************************)
(* What a lone command has saved is what loads.                            *)
(***************************************************************************)

Active(p) == pc[p] \notin Ended

OneActive == alone => \A p, q \in Processes : Active(p) /\ Active(q) => p = q
SavedAlone == ~alone => saved = {}
SaltThere == saved # {} => keyring # NoSalt

\* A lone command finds the keyring and the temporary file as it left them.
LoneAt(p) ==
  /\ pc[p] = "set" => keyring = NoSalt
  /\ pc[p] \in {"create", "write", "rename"} => salt[p] = keyring /\ keyring # NoSalt
  /\ pc[p] = "write" => handle[p] = "tmp" /\ file["tmp"] = Plain("empty")
  /\ pc[p] = "rename" => file["tmp"] = Signed(new[p], salt[p])
LoneSave == alone => \A p \in Processes : LoneAt(p)

KeptInv == OneActive /\ SavedAlone /\ SaltThere /\ LoneSave /\ SavedIsLoaded

\* A step of the one active process has nobody else's place to keep.
LEMMA LoneStep ==
  ASSUME TypeOK, KeptInv, NEW p \in Processes, alone, alone' = alone, Active(p),
         NEW step \in Steps, pc' = [pc EXCEPT ![p] = step], LoneAt(p)'
  PROVE  OneActive' /\ LoneSave'
<1>1. \A q \in Processes : q # p => pc[q] \in Ended /\ pc'[q] = pc[q]
  BY DEF KeptInv, OneActive, Active, TypeOK
<1>2. OneActive'
  BY <1>1 DEF OneActive, Active
<1>3. \A q \in Processes : q # p => LoneAt(q)'
  BY <1>1 DEF LoneAt, Ended
<1>. QED BY <1>2, <1>3 DEF LoneSave

\* When commands have overlapped, nothing is promised.
LEMMA Crowded ==
  ASSUME ~alone', saved' = {}
  PROVE  KeptInv'
BY DEF KeptInv, OneActive, SavedAlone, SaltThere, LoneSave, SavedIsLoaded

\* A step that leaves the shared files and the keyring alone.
LEMMA QuietStep ==
  ASSUME TypeOK, KeptInv, NEW p \in Processes, Active(p),
         NEW step \in Steps, pc' = [pc EXCEPT ![p] = step],
         alone => LoneAt(p)', UNCHANGED <<keyring, file, alone, saved>>
  PROVE  KeptInv'
<1>1. CASE ~alone
  BY <1>1, Crowded DEF KeptInv, SavedAlone
<1>2. CASE alone
  <2>1. OneActive' /\ LoneSave'
    BY <1>2, LoneStep
  <2>2. SavedAlone' /\ SaltThere' /\ SavedIsLoaded'
    BY DEF KeptInv, SavedAlone, SaltThere, SavedIsLoaded
  <2>. QED BY <2>1, <2>2 DEF KeptInv
<1>. QED BY <1>1, <1>2

LEMMA KeptStep ==
  ASSUME TypeOK, KeptInv, NEW p \in Processes, Step(p)
  PROVE  KeptInv'
<1>0. ASSUME ~Begin(p)
      PROVE  Active(p) /\ (alone => LoneAt(p))
  BY <1>0 DEF Step, GetSalt, SetSalt, Load, LoadFails, Decide, Fetched, FetchFails,
              ApplyBypass, Create, Write, Rename, SaveFails, Crash, Active, Ended, KeptInv,
              LoneSave
<1>1. CASE Begin(p)
  <2>1. CASE ~alone'
    BY <1>1, <2>1, Crowded DEF Begin
  <2>2. CASE alone'
    <3>1. \A q \in Processes : q # p => pc[q] \in Ended /\ pc'[q] = pc[q]
      <4>1. alone' = (\A q \in Processes \ {p} : pc[q] \in Ended)
        BY <1>1, Zenon DEF Begin
      <4>2. \A q \in Processes \ {p} : pc[q] \in Ended
        BY ONLY <2>2, <4>1, Zenon
      <4>3. pc' = [pc EXCEPT ![p] = "get"]
        BY <1>1 DEF Begin
      <4>. QED BY <4>2, <4>3 DEF TypeOK
    <3>2. pc'[p] = "get" /\ UNCHANGED <<keyring, file>> /\ saved' = saved
      BY <1>1, <2>2 DEF Begin, TypeOK
    <3>3. OneActive'
      BY <3>1 DEF OneActive, Active
    <3>4. \A q \in Processes : LoneAt(q)'
      BY <3>1, <3>2 DEF LoneAt, Ended
    <3>5. SavedAlone' /\ SaltThere' /\ SavedIsLoaded'
      BY <2>2, <3>2 DEF KeptInv, SavedAlone, SaltThere, SavedIsLoaded
    <3>. QED BY <3>3, <3>4, <3>5 DEF KeptInv, LoneSave
  <2>. QED BY <2>1, <2>2
<1>2. CASE GetSalt(p)
  <2>1. \E step \in Steps : pc' = [pc EXCEPT ![p] = step]
    BY <1>2 DEF GetSalt, Steps
  <2>2. LoneAt(p)'
    BY <1>2 DEF GetSalt, LoneAt, TypeOK
  <2>. QED BY <1>0, <1>2, <2>1, <2>2, QuietStep DEF GetSalt, Begin, Ended
<1>3. CASE SetSalt(p)
  <2>1. PICK step \in {"create", "read"} : pc' = [pc EXCEPT ![p] = step]
    BY <1>3 DEF SetSalt
  <2>2. /\ keyring' = p /\ UNCHANGED <<file, alone, saved>> /\ Active(p)
        /\ salt' = [salt EXCEPT ![p] = p]
        /\ alone => keyring = NoSalt
    BY <1>0, <1>3 DEF SetSalt, Begin, Ended, LoneAt
  <2>3. CASE ~alone
    BY <2>2, <2>3, Crowded DEF KeptInv, SavedAlone
  <2>4. CASE alone
    <3>1. LoneAt(p)'
      BY <2>1, <2>2, SaltAssumption DEF LoneAt, TypeOK
    <3>2. OneActive' /\ LoneSave'
      BY <2>1, <2>2, <2>4, <3>1, LoneStep DEF Steps
    <3>3. saved = {}
      BY <2>2, <2>4 DEF KeptInv, SaltThere
    <3>. QED BY <2>2, <3>2, <3>3 DEF KeptInv, SavedAlone, SaltThere, SavedIsLoaded
  <2>. QED BY <2>3, <2>4
<1>4. CASE Load(p) \/ LoadFails(p)
  <2>1. PICK step \in {"get", "decide", "apply"} : pc' = [pc EXCEPT ![p] = step]
    BY <1>4 DEF Load, LoadFails, Resume
  <2>2. UNCHANGED <<keyring, file, alone, saved>> /\ Active(p)
    BY <1>4 DEF Load, LoadFails, Resume, Active, Ended
  <2>3. LoneAt(p)'
    BY <2>1 DEF LoneAt, TypeOK
  <2>. QED BY <2>1, <2>2, <2>3, QuietStep DEF Steps
<1>5. CASE Decide(p) \/ Fetched(p) \/ FetchFails(p) \/ ApplyBypass(p) \/ SaveFails(p) \/ Crash(p)
  <2>1. PICK step \in Ended \cup {"get", "fetch"} : pc' = [pc EXCEPT ![p] = step]
    BY <1>5 DEF Decide, Fetched, FetchFails, ApplyBypass, SaveFails, Crash, Ended
  <2>2. UNCHANGED <<keyring, file, alone, saved>> /\ Active(p)
    BY <1>5 DEF Decide, Fetched, FetchFails, ApplyBypass, SaveFails, Crash, Active, Ended
  <2>3. LoneAt(p)'
    BY <2>1 DEF LoneAt, TypeOK, Ended
  <2>. QED BY <2>1, <2>2, <2>3, QuietStep DEF Steps
<1>6. CASE Create(p)
  <2>1. /\ UNCHANGED <<keyring, alone, saved, salt>> /\ Active(p)
        /\ file' = [file EXCEPT !["tmp"] = Plain("empty")]
        /\ handle' = [handle EXCEPT ![p] = "tmp"]
        /\ pc[p] = "create" /\ pc' = [pc EXCEPT ![p] = "write"]
    BY <1>6 DEF Create, Active, Ended
  <2>2. CASE ~alone
    BY <2>1, <2>2, Crowded DEF KeptInv, SavedAlone
  <2>3. CASE alone
    <3>1. LoneAt(p)
      BY <2>3 DEF KeptInv, LoneSave
    <3>2. LoneAt(p)'
      BY <2>1, <3>1 DEF LoneAt, TypeOK
    <3>3. OneActive' /\ LoneSave'
      BY <2>1, <2>3, <3>2, LoneStep DEF Steps
    <3>4. file'["state"] = file["state"]
      BY <2>1 DEF TypeOK
    <3>. QED BY <2>1, <3>3, <3>4 DEF KeptInv, SavedAlone, SaltThere, SavedIsLoaded
  <2>. QED BY <2>2, <2>3
<1>7. CASE Write(p)
  <2>1. /\ UNCHANGED <<keyring, alone, saved, salt, new>> /\ Active(p)
        /\ pc[p] = "write" /\ pc' = [pc EXCEPT ![p] = "rename"]
    BY <1>7 DEF Write, Active, Ended
  <2>2. CASE ~alone
    BY <2>1, <2>2, Crowded DEF KeptInv, SavedAlone
  <2>3. CASE alone
    <3>1. LoneAt(p)
      BY <2>3 DEF KeptInv, LoneSave
    <3>2. handle[p] = "tmp" /\ file["tmp"].kind = "empty"
      BY <2>1, <3>1 DEF LoneAt, Plain
    <3>3. file' = [file EXCEPT !["tmp"] = Signed(new[p], salt[p])]
      BY <1>7, <3>2 DEF Write, Plain
    <3>4. LoneAt(p)' /\ file'["state"] = file["state"]
      BY <2>1, <3>1, <3>3 DEF LoneAt, TypeOK
    <3>5. OneActive' /\ LoneSave'
      BY <2>1, <2>3, <3>4, LoneStep DEF Steps
    <3>. QED BY <2>1, <3>4, <3>5 DEF KeptInv, SavedAlone, SaltThere, SavedIsLoaded
  <2>. QED BY <2>2, <2>3
<1>8. CASE Rename(p)
  <2>1. PICK step \in {"get", "passed"} : pc' = [pc EXCEPT ![p] = step]
    BY <1>8 DEF Rename
  <2>2. /\ UNCHANGED <<keyring, alone>> /\ Active(p) /\ pc[p] = "rename"
        /\ file' = [file EXCEPT !["state"] = file["tmp"], !["tmp"] = Plain("absent")]
        /\ saved' = IF alone THEN {new[p]} ELSE {}
    BY <1>8 DEF Rename, Active, Ended
  <2>3. CASE ~alone
    BY <2>2, <2>3, Crowded
  <2>4. CASE alone
    <3>1. LoneAt(p)
      BY <2>4 DEF KeptInv, LoneSave
    <3>2. LoneAt(p)'
      BY <2>1 DEF LoneAt, TypeOK
    <3>3. OneActive' /\ LoneSave'
      BY <2>1, <2>2, <2>4, <3>2, LoneStep DEF Steps, Ended
    <3>4. file'["state"] = Signed(new[p], keyring) /\ keyring # NoSalt
      BY <2>2, <3>1 DEF LoneAt, TypeOK
    <3>. QED BY <2>2, <2>4, <3>3, <3>4 DEF KeptInv, SavedAlone, SaltThere, SavedIsLoaded
  <2>. QED BY <2>3, <2>4
<1>. QED BY <1>1, <1>2, <1>3, <1>4, <1>5, <1>6, <1>7, <1>8 DEF Step

LEMMA KeptInit == Init => KeptInv
BY DEF Init, KeptInv, OneActive, SavedAlone, SaltThere, LoneSave, LoneAt, SavedIsLoaded,
       Active, Ended

LEMMA KeptNext == TypeOK /\ KeptInv /\ [Next]_vars => KeptInv'
<1> SUFFICES ASSUME TypeOK, KeptInv, [Next]_vars PROVE KeptInv'
  OBVIOUS
<1>1. CASE SetClock \/ Rest \/ UNCHANGED vars
  BY <1>1 DEF SetClock, Rest, vars, KeptInv, OneActive, SavedAlone, SaltThere, LoneSave,
              LoneAt, SavedIsLoaded, Active
<1>2. CASE \E p \in Processes : Step(p)
  BY <1>2, KeptStep
<1>. QED BY <1>1, <1>2 DEF Next

\* The state that a command without company has saved loads under the salt in
\* the keyring, whatever steps of later lone commands fail or are not reached
\* (state.rs:105-126, salt.rs:30-50).
THEOREM Kept == Spec => []SavedIsLoaded
<1>1. KeptInv => SavedIsLoaded
  BY DEF KeptInv
<1>. QED BY <1>1, TypeInit, TypeNext, KeptInit, KeptNext, PTL DEF Spec

(***************************************************************************)
(* A lone command goes by what was saved before it.                        *)
(***************************************************************************)

OneSaved == \A s, t \in saved : s = t

\* A lone command derives its key from the salt in the keyring.  Unless it
\* could not load for a fault, it decides on the saved state, and what it will
\* save knows of no earlier time than the saved state does.
Remembers(p) ==
  /\ pc[p] = "read" => salt[p] = keyring
  /\ ~blind /\ saved # {} =>
       /\ pc[p] \in {"decide", "apply"} => cur[p] = saved
       /\ goal[p] \in Saves => \A s \in saved : new[p].max >= s.max

RememberInv == OneSaved /\ (alone => \A p \in Processes : Active(p) => Remembers(p))

\* The one active process moves: only what it remembers is left to show.
LEMMA RememberOne ==
  ASSUME TypeOK, KeptInv, RememberInv, NEW p \in Processes, Active(p),
         NEW step \in Steps, pc' = [pc EXCEPT ![p] = step], alone' = alone,
         OneSaved', alone => Remembers(p)'
  PROVE  RememberInv'
<1>1. ASSUME alone, NEW q \in Processes, Active(q)' PROVE Remembers(q)'
  <2>1. q = p
    BY <1>1 DEF KeptInv, OneActive, Active, TypeOK
  <2>. QED BY <1>1, <2>1
<1>. QED BY <1>1 DEF RememberInv

\* What a lone command loads is what was saved last.
LEMMA LoadsSaved ==
  ASSUME KeptInv, RememberInv, saved # {}, NEW p \in Processes, salt[p] = keyring
  PROVE  Loaded(p) = saved
<1>1. PICK s \in saved : file["state"] = Signed(s, keyring)
  BY DEF KeptInv, SavedIsLoaded
<1>2. saved = {s}
  BY <1>1 DEF RememberInv, OneSaved
<1>3. Loaded(p) = {s}
  BY <1>1 DEF Loaded, Signed
<1>. QED BY <1>2, <1>3

\* Neither a check nor a bypass takes the newest time back.
LEMMA RolledUp ==
  ASSUME TypeOK, RememberInv, NEW p \in Processes, NEW s \in saved
  PROVE  Rolled(p, saved).max >= s.max
<1>1. saved = {s}
  BY DEF RememberInv, OneSaved
<1>2. (CHOOSE x \in {s} : TRUE) = s
  OBVIOUS
<1>3. s.max \in Int /\ at[p] \in Int
  BY DEF TypeOK, LicenseState
<1>. QED BY <1>1, <1>2, <1>3 DEF Rolled, Later

LEMMA BypassedUp ==
  ASSUME TypeOK, RememberInv, NEW p \in Processes, NEW s \in saved, cur[p] = saved
  PROVE  Bypassed(p).max >= s.max
<1>1. cur[p] = {s} /\ cur[p] # {}
  BY DEF RememberInv, OneSaved
<1>2. (CHOOSE x \in cur[p] : TRUE) = s
  BY <1>1
<1>3. s \in LicenseState /\ s.max \in Int /\ clock \in Int
  BY DEF TypeOK, LicenseState, Days
<1>4. Bypassed(p) = [s EXCEPT !.max = Later(s.max, clock), !.until = at[p]]
  BY <1>1, <1>2 DEF Bypassed
<1>5. Bypassed(p).max = Later(s.max, clock)
  BY <1>3, <1>4 DEF LicenseState
<1>. QED BY <1>3, <1>5 DEF Later

LEMMA RememberStep ==
  ASSUME TypeOK, KeptInv, RememberInv, NEW p \in Processes, Step(p)
  PROVE  RememberInv'
<1>0. ASSUME ~Begin(p)
      PROVE  Active(p) /\ (alone => Remembers(p))
  BY <1>0 DEF Step, GetSalt, SetSalt, Load, LoadFails, Decide, Fetched, FetchFails,
              ApplyBypass, Create, Write, Rename, SaveFails, Crash, Active, Ended, RememberInv
<1>1. CASE Begin(p)
  <2>1. OneSaved'
    BY <1>1 DEF Begin, RememberInv, OneSaved
  <2>2. ASSUME alone', NEW q \in Processes, Active(q)' PROVE Remembers(q)'
    <3>1. alone' = (\A r \in Processes \ {p} : pc[r] \in Ended)
      BY <1>1, Zenon DEF Begin
    <3>2. \A r \in Processes \ {p} : pc[r] \in Ended
      BY ONLY <2>2, <3>1, Zenon
    <3>3. pc' = [pc EXCEPT ![p] = "get"]
      BY <1>1 DEF Begin
    <3>4. q = p
      BY <2>2, <3>2, <3>3 DEF TypeOK, Active
    <3>5. pc'[p] = "get" /\ goal'[p] \in {"check", "bypass"}
      BY <1>1 DEF Begin, TypeOK
    <3>. QED BY <3>4, <3>5 DEF Remembers, Saves
  <2>. QED BY <2>1, <2>2 DEF RememberInv
<1>2. CASE GetSalt(p)
  <2>1. PICK step \in {"set", "create", "read"} : pc' = [pc EXCEPT ![p] = step]
    BY <1>2 DEF GetSalt
  <2>2. UNCHANGED <<goal, new, keyring, alone, blind, saved>> /\ Active(p)
    BY <1>2 DEF GetSalt, Active, Ended
  <2>3. step = "read" => salt'[p] = keyring
    BY <1>2, <2>1 DEF GetSalt, TypeOK
  <2>4. alone => Remembers(p)'
    BY <1>0, <1>2, <2>1, <2>2, <2>3 DEF GetSalt, Begin, Ended, Remembers, TypeOK
  <2>. QED BY <2>1, <2>2, <2>4, RememberOne DEF Steps, RememberInv, OneSaved
<1>3. CASE SetSalt(p)
  <2>1. PICK step \in {"create", "read"} : pc' = [pc EXCEPT ![p] = step]
    BY <1>3 DEF SetSalt
  <2>2. UNCHANGED <<goal, new, alone, blind, saved>> /\ Active(p)
    BY <1>3 DEF SetSalt, Active, Ended
  <2>3. keyring' = p /\ salt'[p] = p
    BY <1>3 DEF SetSalt, TypeOK
  <2>4. alone => Remembers(p)'
    BY <1>0, <1>3, <2>1, <2>2, <2>3 DEF SetSalt, Begin, Ended, Remembers, TypeOK
  <2>. QED BY <2>1, <2>2, <2>4, RememberOne DEF Steps, RememberInv, OneSaved
<1>4. CASE Load(p)
  <2>1. PICK step \in {"get", "decide", "apply"} : pc' = [pc EXCEPT ![p] = step]
    BY <1>4 DEF Load, Resume
  <2>2. UNCHANGED <<keyring, alone, saved>> /\ Active(p) /\ pc[p] = "read"
    BY <1>4 DEF Load, Resume, Active, Ended
  <2>3. alone /\ saved # {} => Loaded(p) = saved
    BY <1>0, <1>4, <2>2, LoadsSaved DEF Begin, Ended, Remembers
  <2>4. CASE goal[p] = "renew"
    <3>1. step = "get" /\ new'[p] = Rolled(p, Loaded(p))
      BY <1>4, <2>1, <2>4 DEF Load, Resume, TypeOK
    <3>2. alone => Remembers(p)'
      BY <2>1, <2>2, <2>3, <3>1, RolledUp DEF Remembers, TypeOK
    <3>. QED BY <2>1, <2>2, <3>2, RememberOne DEF Steps, RememberInv, OneSaved
  <2>5. CASE goal[p] # "renew"
    <3>1. cur'[p] = Loaded(p) /\ goal'[p] \notin Saves
      BY <1>4, <2>5 DEF Load, Resume, TypeOK, Saves
    <3>2. alone => Remembers(p)'
      BY <2>1, <2>2, <2>3, <3>1 DEF Remembers, TypeOK
    <3>. QED BY <2>1, <2>2, <3>2, RememberOne DEF Steps, RememberInv, OneSaved
  <2>. QED BY <2>4, <2>5
<1>5. CASE LoadFails(p)
  <2>1. PICK step \in {"get", "decide", "apply"} : pc' = [pc EXCEPT ![p] = step]
    BY <1>5 DEF LoadFails, Resume
  <2>2. UNCHANGED <<alone, saved>> /\ Active(p) /\ blind'
    BY <1>5 DEF LoadFails, Resume, Active, Ended
  <2>3. Remembers(p)'
    BY <2>1, <2>2 DEF Remembers, TypeOK
  <2>. QED BY <2>1, <2>2, <2>3, RememberOne DEF Steps, RememberInv, OneSaved
<1>6. CASE FetchFails(p) \/ SaveFails(p) \/ Crash(p) \/ (\E how \in Ended : Decide(p) /\ End(p, how))
  <2>1. PICK step \in Ended : pc' = [pc EXCEPT ![p] = step]
    BY <1>6 DEF FetchFails, SaveFails, Crash, Ended
  <2>2. UNCHANGED <<alone, saved>> /\ Active(p) /\ goal'[p] = "check"
    BY <1>6 DEF FetchFails, SaveFails, Crash, Decide, Active, Ended, TypeOK
  <2>3. Remembers(p)'
    BY <2>1, <2>2 DEF Remembers, TypeOK, Ended, Saves
  <2>. QED BY <2>1, <2>2, <2>3, RememberOne DEF Steps, RememberInv, OneSaved
<1>7. CASE Decide(p) /\ Goto(p, "fetch") /\ UNCHANGED <<goal, new>>
  <2>1. /\ UNCHANGED <<goal, new, keyring, alone, blind, saved>> /\ Active(p)
        /\ pc' = [pc EXCEPT ![p] = "fetch"]
    BY <1>7 DEF Decide, Active, Ended
  <2>2. alone => Remembers(p)'
    BY <1>0, <1>7, <2>1 DEF Decide, Begin, Ended, Remembers, TypeOK
  <2>. QED BY <2>1, <2>2, RememberOne DEF Steps, RememberInv, OneSaved
<1>8. CASE Fetched(p)
  <2>1. /\ UNCHANGED <<alone, saved>> /\ Active(p)
        /\ pc' = [pc EXCEPT ![p] = "get"] /\ goal'[p] = "renew"
    BY <1>8 DEF Fetched, Active, Ended, TypeOK
  <2>2. Remembers(p)'
    BY <2>1 DEF Remembers, TypeOK, Saves
  <2>. QED BY <2>1, <2>2, RememberOne DEF Steps, RememberInv, OneSaved
<1>9. CASE ApplyBypass(p)
  <2>1. /\ UNCHANGED <<alone, blind, saved>> /\ Active(p) /\ pc[p] = "apply"
        /\ pc' = [pc EXCEPT ![p] = "get"] /\ new'[p] = Bypassed(p)
    BY <1>9 DEF ApplyBypass, Active, Ended, TypeOK
  <2>2. alone /\ ~blind /\ saved # {} => cur[p] = saved
    BY <1>0, <1>9, <2>1 DEF Begin, Ended, Remembers
  <2>3. alone => Remembers(p)'
    BY <2>1, <2>2, BypassedUp DEF Remembers, TypeOK
  <2>. QED BY <2>1, <2>3, RememberOne DEF Steps, RememberInv, OneSaved
<1>10. CASE Create(p) \/ Write(p)
  <2>1. PICK step \in {"write", "rename"} : pc' = [pc EXCEPT ![p] = step]
    BY <1>10 DEF Create, Write
  <2>2. UNCHANGED <<goal, new, alone, blind, saved>> /\ Active(p) /\ ~Begin(p)
    BY <1>10 DEF Create, Write, Active, Ended, Begin
  <2>3. alone => Remembers(p)'
    BY <1>0, <2>1, <2>2 DEF Remembers, TypeOK
  <2>. QED BY <2>1, <2>2, <2>3, RememberOne DEF Steps, RememberInv, OneSaved
<1>11. CASE Rename(p)
  <2>1. PICK step \in {"get", "passed"} : pc' = [pc EXCEPT ![p] = step]
    BY <1>11 DEF Rename
  <2>2. /\ alone' = alone /\ Active(p) /\ goal'[p] = "check"
        /\ saved' = IF alone THEN {new[p]} ELSE {}
    BY <1>11 DEF Rename, Active, Ended, TypeOK
  <2>3. Remembers(p)'
    BY <2>1, <2>2 DEF Remembers, TypeOK, Saves
  <2>4. OneSaved'
    BY <2>2 DEF OneSaved
  <2>. QED BY <2>1, <2>2, <2>3, <2>4, RememberOne DEF Steps, Ended
<1>12. CASE Decide(p)
  BY <1>6, <1>7, <1>12 DEF Decide, Ended
<1>. QED BY <1>1, <1>2, <1>3, <1>4, <1>5, <1>6, <1>8, <1>9, <1>10, <1>11, <1>12 DEF Step

LEMMA RememberInit == Init => RememberInv
BY DEF Init, RememberInv, OneSaved, Active, Ended

LEMMA RememberNext == TypeOK /\ KeptInv /\ RememberInv /\ [Next]_vars => RememberInv'
<1> SUFFICES ASSUME TypeOK, KeptInv, RememberInv, [Next]_vars PROVE RememberInv'
  OBVIOUS
<1>1. CASE SetClock \/ Rest \/ UNCHANGED vars
  BY <1>1 DEF SetClock, Rest, vars, RememberInv, OneSaved, Remembers, Active
<1>2. CASE \E p \in Processes : Step(p)
  BY <1>2, RememberStep
<1>. QED BY <1>1, <1>2 DEF Next

\* Only Rename and a command that begins change what is saved.
LEMMA MaxAct ==
  ASSUME TypeOK, InSave, KeptInv, RememberInv, [Next]_vars, ~blind,
         NEW s \in saved, NEW t \in saved'
  PROVE  t.max >= s.max
<1>0. s.max \in Int
  BY DEF TypeOK, LicenseState
<1>1. CASE saved' \subseteq saved
  BY <1>0, <1>1 DEF RememberInv, OneSaved
<1>2. CASE ~(saved' \subseteq saved)
  <2>1. PICK p \in Processes : Step(p)
    BY <1>2 DEF Next, SetClock, Rest, vars
  <2>2. Rename(p)
    BY <1>2, <2>1 DEF Step, Begin, GetSalt, SetSalt, Load, LoadFails, Resume, Decide, Fetched,
                FetchFails, ApplyBypass, Create, Write, SaveFails, Crash
  <2>3. t = new[p] /\ alone /\ pc[p] = "rename"
    BY <2>2 DEF Rename
  <2>4. Remembers(p) /\ goal[p] \in Saves
    BY <2>3 DEF InSave, RememberInv, Active, Ended
  <2>. QED BY <2>3, <2>4 DEF Remembers
<1>. QED BY <1>1, <1>2

\* The newest time ever seen does not go back from one saved state to the
\* next, however the clock is set, unless a fault kept the command from loading
\* the state before (gate.rs:85-92, 109-113).
THEOREM NeverBack == Spec => MaxNeverDecreases
<1> DEFINE Act == \A s \in saved, t \in saved' : t.max >= s.max \/ blind
<1>1. TypeOK /\ CauseInv /\ KeptInv /\ RememberInv /\ [Next]_vars => [Act]_vars
  BY MaxAct DEF CauseInv
<1>. QED BY <1>1, TypeInit, TypeNext, CauseInit, CauseNext, KeptInit, KeptNext,
            RememberInit, RememberNext, PTL DEF Spec, MaxNeverDecreases

\* A process goes from "decide" to "fetch" by Decide, on the saved state.
LEMMA OfflineAct ==
  ASSUME TypeOK, KeptInv, RememberInv, [Next]_vars, NEW p \in Processes, NEW s \in saved,
         pc[p] = "decide", pc'[p] = "fetch", ~blind
  PROVE  clock < s.max \/ (clock >= s.until /\ clock > s.last + Week)
<1>1. PICK q \in Processes : Step(q)
  BY DEF Next, SetClock, Rest, vars
<1>2. q = p
  BY <1>1 DEF Step, Begin, GetSalt, SetSalt, Load, LoadFails, Resume, Decide, Fetched,
              FetchFails, ApplyBypass, Create, Write, Rename, SaveFails, Crash, TypeOK
<1>3. Decide(p) /\ pc'[p] \notin Ended
  BY <1>1, <1>2 DEF Step, Begin, GetSalt, SetSalt, Load, LoadFails, Resume, Fetched,
              FetchFails, ApplyBypass, Create, Write, Rename, SaveFails, Crash, TypeOK, Ended
<1>4. cur[p] = saved
  BY DEF KeptInv, SavedAlone, RememberInv, Active, Ended, Remembers
<1>5. GoOnline(s)
  BY <1>3, <1>4 DEF Decide, TypeOK, Ended
<1>6. /\ s.last \in Int /\ s.max \in Int /\ s.until \in Int
      /\ clock \in Int /\ Week \in Int
  BY TimeAssumption DEF TypeOK, LicenseState, Days
<1>. QED BY <1>5, <1>6 DEF GoOnline, Regressed, InBypass, Age

\* A command that runs alone and loads the saved state asks the network only
\* when the clock has gone back or neither the check nor the bypass covers the
\* present day (gate.rs:28-68).
THEOREM Offline == Spec => OfflineKeepsWorking
<1> DEFINE Act == \A p \in Processes, s \in saved :
             pc[p] = "decide" /\ pc'[p] = "fetch" /\ ~blind
               => clock < s.max \/ (clock >= s.until /\ clock > s.last + Week)
<1>1. TypeOK /\ KeptInv /\ RememberInv /\ [Next]_vars => [Act]_vars
  BY OfflineAct
<1>. QED BY <1>1, TypeInit, TypeNext, KeptInit, KeptNext, RememberInit, RememberNext, PTL
         DEF Spec, OfflineKeepsWorking
=============================================================================
