--------------------------------- MODULE Relay ---------------------------------
(***************************************************************************)
(* What a program that forwards lines of JSON does to them: each line is   *)
(* read into a type and written again, at every hop.  A wrapper plugin or  *)
(* a host that relays envelopes does just this.  What is refused, what is  *)
(* dropped and what is kept follows from the serde attributes of the       *)
(* members; module WireTypes has those of the frozen types.                *)
(*                                                                         *)
(* A value of a Rust type is represented by the JSON it is written as.  Of *)
(* a number that is read as an f64, or as a free value, that it is one is  *)
(* represented and not its digits: serde_json without its feature          *)
(* float_roundtrip (Cargo.toml:22) may read another last digit than is     *)
(* written, at every hop, and reads an integer beyond u64 as an f64.  What *)
(* is said below of such numbers is that they are still there.             *)
(***************************************************************************)
EXTENDS Naturals, Sequences

CONSTANTS
  Structs,  \* from structs to their members, [mode, ty] each
  Closed,   \* the structs that have no flattened member `other`
  Variants, \* of the enum PathRef, by their `kind`, the members
  Folding,  \* from enums with a unit variant for every other tag to their tags
  Strict,   \* from enums without one to their tags
  Lines,    \* what this release writes: [type, json]
  MaxEdits, \* bound: what a producer leaves out, nulls or gets wrong
  MaxHops   \* bound: how often the line is read and written

-----------------------------------------------------------------------------
(* JSON.  Booleans, and the numbers of integer types, are texts; Number is *)
(* any other number, of a size that an f64 has; Wrong is any value of      *)
(* another JSON type than the reader wants.                                *)

Text(s) == [text |-> s]
List(s) == [list |-> s]
Object(f) == [object |-> f]
Number == [number |-> TRUE]
Null == [null |-> TRUE]
Wrong == [wrong |-> TRUE]
IsText(j) == DOMAIN j = {"text"}
IsList(j) == DOMAIN j = {"list"}
IsObject(j) == DOMAIN j = {"object"}

\* The reader refuses the line.
Refused == [refused |-> TRUE]

-----------------------------------------------------------------------------
(* Members.  How one may be given:                                         *)
(*   must   required                                                       *)
(*   opt    Option: absent and null are None, which is not written         *)
(*   vec    Vec with #[serde(default)]: absent is empty, which is not      *)
(*          written; null is refused                                       *)
(*   map    the same for a map of free values                              *)
(*   zero   an integer with #[serde(default)], not written when it is zero *)

Modes == {"must", "opt", "vec", "map", "zero"}

StructTypes == DOMAIN Structs
OpenTypes == StructTypes \ Closed
Tagged == DOMAIN Variants
Leaves == {"Any", "Text", "Tag", "Float"}

\* A name stands for one type.  No member and no variant has the name that a
\* later release gives to a new one, and no variant that of the unit variant.
ASSUME TableAssumption ==
  /\ Leaves \cap (StructTypes \cup DOMAIN Folding \cup DOMAIN Strict) = {}
  /\ StructTypes \cap (DOMAIN Folding \cup DOMAIN Strict) = {}
  /\ DOMAIN Folding \cap DOMAIN Strict = {}
  /\ "PathRef" \notin StructTypes \cup DOMAIN Folding \cup DOMAIN Strict
  /\ \A table \in {Structs[ty] : ty \in StructTypes} \cup {Variants[k] : k \in Tagged} :
       /\ "later" \notin DOMAIN table
       /\ \A f \in DOMAIN table :
            /\ table[f].mode \in Modes
            /\ table[f].mode = "map" => table[f].ty = "Any"
            /\ table[f].mode = "zero" => table[f].ty = "Text"
  /\ {"other", "later"} \cap Tagged = {}
  /\ \A k \in Tagged :
       "kind" \in DOMAIN Variants[k] /\ Variants[k]["kind"] = [mode |-> "must", ty |-> "Text"]

\* Mutant of MayLack: a list that is not written must be given.
MayLackNoList(d) == d.mode \notin {"must", "vec"}

MayLack(d) == d.mode # "must"

\* Not written: skip_serializing_if.
Omitted(d, j) ==
  \/ d.mode = "opt" /\ j = Null
  \/ d.mode = "vec" /\ IsList(j) /\ DOMAIN j.list = {}
  \/ d.mode = "map" /\ j = Object(<<>>)
  \/ d.mode = "zero" /\ j = Text("0")

\* The values of the type of the member that are in its value, and back.
Parts(d, j) == IF d.mode # "vec" THEN <<j>> ELSE IF IsList(j) THEN j.list ELSE <<>>
Whole(d, s) == IF d.mode = "vec" THEN List(s) ELSE s[1]

\* parts is what its parts have been read as.
Refuses(d, j, parts) ==
  \/ d.mode = "vec" /\ ~IsList(j)
  \/ d.mode = "map" /\ ~IsObject(j)
  \/ \E i \in DOMAIN parts : parts[i] = Refused

-----------------------------------------------------------------------------
(* Reading into a type and writing it again.                               *)

HasKind(o) == "kind" \in DOMAIN o /\ IsText(o["kind"])

\* The members that type ty has for object o: those of the variant, for the
\* tagged enum.
Table(ty, o) ==
  IF ty \in StructTypes THEN Structs[ty]
  ELSE IF ty = "PathRef" /\ HasKind(o) /\ o["kind"].text \in Tagged
  THEN Variants[o["kind"].text]
  ELSE <<>>

\* The members of j that type ty has, and what is read of each.
Known(ty, j) == IF IsObject(j) THEN DOMAIN Table(ty, j.object) \cap DOMAIN j.object ELSE {}

\* The values in its member f, and the members that are written again.
Given(ty, j, f) == Parts(Table(ty, j.object)[f], j.object[f])
Kept(ty, j) ==
  LET table == Table(ty, j.object)
  IN  {f \in Known(ty, j) : ~Omitted(table[f], j.object[f])}

\* Mutant of Unknown: the member `other` is not flattened into the struct.
UnknownDropped(ty, o) == {}

\* #[serde(flatten)] other: an open struct keeps the members it does not know.
Unknown(ty, o) ==
  IF ty \in OpenTypes THEN DOMAIN o \ DOMAIN Table(ty, o) ELSE {}

\* An object read by a table; parts has what is read of its known members.
RelayedMembers(ty, j, parts) ==
  LET o == j.object
      table == Table(ty, o)
      kept == Kept(ty, j)
  IN  IF \/ \E f \in DOMAIN table \ DOMAIN o : ~MayLack(table[f])
         \/ \E f \in kept : Refuses(table[f], o[f], parts[f])
      THEN Refused
      ELSE Object([f \in kept \cup Unknown(ty, o) |->
                     IF f \in kept THEN Whole(table[f], parts[f]) ELSE o[f]])

\* Of the tagged enum a known kind drops what its variant does not have, an
\* unknown one drops everything.
RelayedObject(ty, j, parts) ==
  IF ty \in StructTypes THEN RelayedMembers(ty, j, parts)
  ELSE IF ty # "PathRef" \/ ~HasKind(j.object) THEN Refused
  ELSE IF j.object["kind"].text \in Tagged THEN RelayedMembers(ty, j, parts)
  ELSE Object([kind |-> Text("other")])

Read(ty, j, parts) ==
  CASE ty = "Any" -> j
    [] ty = "Float" -> IF j = Number THEN j ELSE Refused
    [] ty \in Leaves \ {"Any", "Float"} -> IF IsText(j) THEN j ELSE Refused
    [] ty \in DOMAIN Strict -> IF IsText(j) /\ j.text \in Strict[ty] THEN j ELSE Refused
    [] ty \in DOMAIN Folding ->
         IF ~IsText(j) THEN Refused
         ELSE IF j.text \in Folding[ty] THEN j ELSE Text("other")
    [] OTHER -> IF IsObject(j) THEN RelayedObject(ty, j, parts) ELSE Refused

\* What R reads of the parts of the known members.
PartsBy(R(_, _), ty, j) ==
  [f \in Known(ty, j) |->
     LET given == Given(ty, j, f)
         d == Table(ty, j.object)[f]
     IN  [i \in DOMAIN given |-> R(d.ty, given[i])]]

RelayedBy(R(_, _), ty, j) == Read(ty, j, PartsBy(R, ty, j))

\* The types are nested five deep.
Relayed0(ty, j) == Refused
Relayed1(ty, j) == RelayedBy(Relayed0, ty, j)
Relayed2(ty, j) == RelayedBy(Relayed1, ty, j)
Relayed3(ty, j) == RelayedBy(Relayed2, ty, j)
Relayed4(ty, j) == RelayedBy(Relayed3, ty, j)
Relayed(ty, j) == RelayedBy(Relayed4, ty, j)

\* This release reads what it writes, and writes it again.
ASSUME LineAssumption ==
  \A l \in Lines : IsObject(l.json) /\ Relayed(l.type, l.json) = l.json

-----------------------------------------------------------------------------
(* The lines a producer writes.                                            *)

\* Any unknown tag, and any unknown member's value.
Later == Text("later")

With(o, f, j) == [g \in DOMAIN o \cup {f} |-> IF g = f THEN j ELSE o[g]]
Without(o, f) == [g \in DOMAIN o \ {f} |-> o[g]]

\* One member left out, null, empty, zero or of the wrong type.
Blanks(ty, j, f) ==
  {Null, Wrong, List(<<>>), Object(<<>>)}
  \cup {v \in {Text("0")} : f \in Known(ty, j) /\ Table(ty, j.object)[f].mode = "zero"}
Edits(ty, j) ==
  UNION {{Object(Without(j.object, f))}
         \cup {Object(With(j.object, f, v)) : v \in Blanks(ty, j, f)} : f \in DOMAIN j.object}

\* What a later release may have put into a line, and where.
New(kind, j) == [kind |-> kind, json |-> j]
NewMember(kind, o) == {New(kind, Object(With(o, "later", v))) : v \in {Later, Null}}

\* A new tag of an enum, and a new member of an object.
NewsAt(ty, j) ==
  CASE ty = "Tag" -> {New("tag", Later)}
    [] ty \in DOMAIN Strict -> {New("class", Later)}
    [] ty \in DOMAIN Folding -> {New("folded tag", Later)}
    [] OTHER ->
         CASE ~IsObject(j) -> {}
           [] IsObject(j) /\ ty = "PathRef" ->
                {New("folded tag", Object(With(j.object, "kind", Later)))}
                \cup NewMember("closed member", j.object)
           [] IsObject(j) /\ ty # "PathRef" ->
                NewMember(IF ty \in Closed THEN "closed member" ELSE "member", j.object)

\* The object j with x for part i of its member f.
Replaced(ty, j, f, i, x) ==
  Object(With(j.object, f,
              Whole(Table(ty, j.object)[f], [Given(ty, j, f) EXCEPT ![i] = x])))

\* The parts of the members have the news of N.
NewsBy(N(_, _), ty, j) ==
  NewsAt(ty, j) \cup
  UNION {LET given == Given(ty, j, f)
         IN  UNION {{New(n.kind, Replaced(ty, j, f, i, n.json)) :
                     n \in N(Table(ty, j.object)[f].ty, given[i])} :
                    i \in DOMAIN given} : f \in Known(ty, j)}

News0(ty, j) == {}
News1(ty, j) == NewsBy(News0, ty, j)
News2(ty, j) == NewsBy(News1, ty, j)
News3(ty, j) == NewsBy(News2, ty, j)
News4(ty, j) == NewsBy(News3, ty, j)
News(ty, j) == NewsBy(News4, ty, j)

-----------------------------------------------------------------------------
(* A line on its way.                                                      *)

VARIABLES
  type,  \* the type it is read into
  base,  \* the line without the news
  sent,  \* the line with the news
  news,  \* what is new: "none" or the kind of place
  edits, \* number of edits
  line,  \* the line as the last hop has written it, or Refused
  hops   \* number of hops

vars == <<type, base, sent, news, edits, line, hops>>

Init ==
  /\ \E l \in Lines : type = l.type /\ base = l.json
  /\ sent = base /\ line = base
  /\ news = "none" /\ edits = 0 /\ hops = 0

Edit ==
  /\ hops = 0 /\ news = "none" /\ edits < MaxEdits
  /\ base' \in Edits(type, base)
  /\ sent' = base' /\ line' = base'
  /\ edits' = edits + 1
  /\ UNCHANGED <<type, news, hops>>

AddNews ==
  /\ hops = 0 /\ news = "none"
  /\ \E n \in News(type, base) : sent' = n.json /\ news' = n.kind
  /\ line' = sent'
  /\ UNCHANGED <<type, base, edits, hops>>

Relay ==
  /\ hops < MaxHops /\ line # Refused
  /\ line' = Relayed(type, line)
  /\ hops' = hops + 1
  /\ UNCHANGED <<type, base, sent, news, edits>>

Arrived == (hops = MaxHops \/ line = Refused) /\ UNCHANGED vars

Next == Edit \/ AddNews \/ Relay \/ Arrived

Spec == Init /\ [][Next]_vars

-----------------------------------------------------------------------------
(* Properties.                                                             *)

\* Every member of a is in b as it is; what stands for nothing need not be.
Keeps(a, b) ==
  /\ IsObject(b)
  /\ \A f \in DOMAIN a.object :
       \/ a.object[f] \in {Null, Text("0"), List(<<>>), Object(<<>>)}
       \/ f \in DOMAIN b.object /\ b.object[f] = a.object[f]

Accepted == hops > 0 /\ Relayed(type, base) # Refused

\* What is new has arrived, with the rest of the line.
Delivered ==
  /\ news # "class" => line # Refused
  /\ news \in {"none", "member", "tag"} => Keeps(sent, line)

\* envelope-1.md:360-366, wire-format-1.md:112: what a later release adds to a
\* line that this release reads, anywhere in it, makes no hop refuse the line,
\* a class apart; a new member of an open struct or of a map, and a new tag of
\* an identifier or a digest, arrive with everything else after every hop, but
\* for the digits of floats.
NewsSurvives == Delivered \/ ~Accepted

\* What one hop has written, the next one reads and writes the same, but for the
\* digits of floats: no member of a line is dropped or turned into another, and
\* no line refused, further on the way (every #[serde(default)] has its
\* skip_serializing_if and the other way round).
Stable == [][hops > 0 /\ hops' # hops => line' = line]_vars
=============================================================================
