------------------------------ MODULE RelayProofs ------------------------------
(***************************************************************************)
(* Theorems about Relay, for every table of structs, variants and enums,   *)
(* every set of lines and any number of edits and hops.                    *)
(*                                                                         *)
(* The types are nested, so each fact about what is read is proved level   *)
(* by level: what a level writes it reads the same again (Level1 to        *)
(* Level5), and a line with news in one part of it is read as the line     *)
(* without, but for that part (News1 to News5).  What a line is on its way *)
(* follows: it is always what one reading of the line sent has left.       *)
(***************************************************************************)
EXTENDS Relay, TLAPS

(***************************************************************************)
(* JSON.                                                                   *)
(***************************************************************************)

LEMMA Kinds ==
  ASSUME NEW s
  PROVE  /\ IsText(Text(s)) /\ ~IsList(Text(s)) /\ ~IsObject(Text(s))
         /\ ~IsText(List(s)) /\ IsList(List(s)) /\ ~IsObject(List(s))
         /\ ~IsText(Object(s)) /\ ~IsList(Object(s)) /\ IsObject(Object(s))
         /\ Text(s).text = s /\ List(s).list = s /\ Object(s).object = s
BY DEF Text, List, Object, IsText, IsList, IsObject

LEMMA Others ==
  /\ ~IsText(Null) /\ ~IsList(Null) /\ ~IsObject(Null)
  /\ ~IsText(Wrong) /\ ~IsList(Wrong) /\ ~IsObject(Wrong)
  /\ ~IsText(Refused) /\ ~IsList(Refused) /\ ~IsObject(Refused)
  /\ ~IsText(Number) /\ ~IsList(Number) /\ ~IsObject(Number) /\ Number # Refused
  /\ Null # Refused /\ Wrong # Refused /\ Null # Wrong
BY DEF Null, Wrong, Refused, Number, IsText, IsList, IsObject

LEMMA Exclusive ==
  ASSUME NEW j
  PROVE  /\ IsText(j) => ~IsList(j) /\ ~IsObject(j)
         /\ IsList(j) => ~IsObject(j)
BY DEF IsText, IsList, IsObject

LEMMA Alone ==
  ASSUME NEW s, s = [i \in {1} |-> s[i]]
  PROVE  s = <<s[1]>>
OBVIOUS

(***************************************************************************)
(* Tables.                                                                 *)
(***************************************************************************)

\* Type ty has a table for object o.
Listed(ty, o) ==
  \/ ty \in StructTypes
  \/ ty \notin StructTypes /\ ty = "PathRef" /\ HasKind(o) /\ o["kind"].text \in Tagged

LEMMA Tables ==
  ASSUME NEW ty, NEW o, NEW f \in DOMAIN Table(ty, o)
  PROVE  LET d == Table(ty, o)[f]
         IN  /\ f # "later"
             /\ d.mode \in Modes
             /\ d.mode = "map" => d.ty = "Any"
             /\ d.mode = "zero" => d.ty = "Text"
             /\ Listed(ty, o)
BY TableAssumption DEF Table, Listed

LEMMA KindMember ==
  ASSUME NEW o, HasKind(o), o["kind"].text \in Tagged
  PROVE  /\ "kind" \in DOMAIN Table("PathRef", o)
         /\ Table("PathRef", o)["kind"] = [mode |-> "must", ty |-> "Text"]
BY TableAssumption DEF Table

LEMMA PartsFacts ==
  ASSUME NEW d, NEW j, NEW s
  PROVE  /\ d.mode # "vec" =>
              /\ Parts(d, j) = <<j>> /\ DOMAIN Parts(d, j) = {1} /\ Parts(d, j)[1] = j
              /\ Whole(d, s) = s[1]
         /\ d.mode = "vec" /\ IsList(j) => Parts(d, j) = j.list
         /\ d.mode = "vec" /\ ~IsList(j) => Parts(d, j) = <<>> /\ DOMAIN Parts(d, j) = {}
         /\ d.mode = "vec" => Whole(d, s) = List(s)
BY DEF Parts, Whole

LEMMA PartsOfWhole ==
  ASSUME NEW d, NEW s, d.mode = "vec" \/ s = [i \in {1} |-> s[i]]
  PROVE  Parts(d, Whole(d, s)) = s
<1>1. CASE d.mode = "vec"
  BY <1>1, Kinds, PartsFacts
<1>2. CASE d.mode # "vec" /\ s = [i \in {1} |-> s[i]]
  <2>1. s = <<s[1]>>  BY <1>2, Alone
  <2>2. Whole(d, s) = s[1]  BY <1>2, PartsFacts
  <2>3. Parts(d, s[1]) = <<s[1]>>  BY <1>2, PartsFacts
  <2>4. QED  BY <2>1, <2>2, <2>3
<1>3. QED  BY <1>1, <1>2

(***************************************************************************)
(* Reading.                                                                *)
(***************************************************************************)

LEMMA Reading ==
  ASSUME NEW ty, NEW j, NEW a
  PROVE  /\ ty = "Any" => Read(ty, j, a) = j
         /\ ty = "Float" => Read(ty, j, a) = IF j = Number THEN j ELSE Refused
         /\ ty \in {"Text", "Tag"} => Read(ty, j, a) = IF IsText(j) THEN j ELSE Refused
         /\ ty \in DOMAIN Strict =>
              Read(ty, j, a) = IF IsText(j) /\ j.text \in Strict[ty] THEN j ELSE Refused
         /\ ty \in DOMAIN Folding =>
              Read(ty, j, a) = IF ~IsText(j) THEN Refused
                               ELSE IF j.text \in Folding[ty] THEN j ELSE Text("other")
         /\ ty \notin Leaves \cup DOMAIN Strict \cup DOMAIN Folding =>
              Read(ty, j, a) = IF IsObject(j) THEN RelayedObject(ty, j, a) ELSE Refused
<1>1. /\ Leaves \cap (StructTypes \cup DOMAIN Folding \cup DOMAIN Strict) = {}
      /\ DOMAIN Folding \cap DOMAIN Strict = {}
  BY TableAssumption
<1>2. ty = "Any" => ty \in Leaves  BY DEF Leaves
<1>3. /\ ty \in {"Text", "Tag"} <=> ty \in Leaves \ {"Any", "Float"}
      /\ ty = "Float" => ty \in Leaves
  BY DEF Leaves
<1>4. QED  BY <1>1, <1>2, <1>3 DEF Read

\* What is read of an object.
LEMMA ReadObject ==
  ASSUME NEW ty, NEW j, NEW a, IsObject(j), ty # "Any", Read(ty, j, a) # Refused
  PROVE  \/ /\ Listed(ty, j.object)
            /\ Read(ty, j, a) = RelayedMembers(ty, j, a)
         \/ /\ ty = "PathRef" /\ ty \notin StructTypes
            /\ HasKind(j.object) /\ j.object["kind"].text \notin Tagged
            /\ Read(ty, j, a) = Object([kind |-> Text("other")])
<1>1. ~IsText(j)  BY Exclusive
<1>2. ty \notin Leaves \cup DOMAIN Strict \cup DOMAIN Folding
  <2>1. j # Number  BY Others
  <2>2. QED  BY <1>1, <2>1, Reading DEF Leaves
<1>3. Read(ty, j, a) = RelayedObject(ty, j, a)
  BY <1>2, Reading
<1>4. QED
  BY <1>3 DEF RelayedObject, Listed

LEMMA ReadMembers ==
  ASSUME NEW ty, NEW j, NEW a, RelayedMembers(ty, j, a) # Refused
  PROVE  /\ \A f \in DOMAIN Table(ty, j.object) \ DOMAIN j.object :
              MayLack(Table(ty, j.object)[f])
         /\ \A f \in Kept(ty, j) : ~Refuses(Table(ty, j.object)[f], j.object[f], a[f])
         /\ RelayedMembers(ty, j, a) =
              Object([f \in Kept(ty, j) \cup Unknown(ty, j.object) |->
                        IF f \in Kept(ty, j) THEN Whole(Table(ty, j.object)[f], a[f])
                        ELSE j.object[f]])
BY DEF RelayedMembers

LEMMA ReadMembersBack ==
  ASSUME NEW ty, NEW j, NEW a,
         \A f \in DOMAIN Table(ty, j.object) \ DOMAIN j.object : MayLack(Table(ty, j.object)[f]),
         \A f \in Kept(ty, j) : ~Refuses(Table(ty, j.object)[f], j.object[f], a[f])
  PROVE  /\ RelayedMembers(ty, j, a) =
              Object([f \in Kept(ty, j) \cup Unknown(ty, j.object) |->
                        IF f \in Kept(ty, j) THEN Whole(Table(ty, j.object)[f], a[f])
                        ELSE j.object[f]])
         /\ RelayedMembers(ty, j, a) # Refused
<1>1. RelayedMembers(ty, j, a) =
              Object([f \in Kept(ty, j) \cup Unknown(ty, j.object) |->
                        IF f \in Kept(ty, j) THEN Whole(Table(ty, j.object)[f], a[f])
                        ELSE j.object[f]])
  BY DEF RelayedMembers
<1>2. IsObject(RelayedMembers(ty, j, a))  BY <1>1, Kinds
<1>3. QED  BY <1>1, <1>2, Others

\* What a reader makes of a value of type ty.
Shape(ty, j, out) ==
  \/ out = j /\ (ty = "Text" => IsText(j))
  \/ /\ ty \notin {"Any", "Text"}
     /\ \/ IsText(j) /\ out = Text("other")
        \/ IsObject(j) /\ IsObject(out)

\* a has what some reader makes of the values in the known members.
Readings(ty, j, a) ==
  \A f \in Known(ty, j) :
    /\ a[f] = [i \in DOMAIN Given(ty, j, f) |-> a[f][i]]
    /\ \A i \in DOMAIN Given(ty, j, f) :
         \/ a[f][i] = Refused
         \/ Shape(Table(ty, j.object)[f].ty, Given(ty, j, f)[i], a[f][i])

LEMMA ReadShape ==
  ASSUME NEW ty, NEW j, NEW a, Read(ty, j, a) # Refused
  PROVE  Shape(ty, j, Read(ty, j, a))
<1>1. CASE ty \in Leaves \cup DOMAIN Strict \cup DOMAIN Folding
  <2>1. "Text" \notin DOMAIN Folding /\ "Any" \notin DOMAIN Folding /\ "Text" \notin DOMAIN Strict
    BY TableAssumption DEF Leaves
  <2>2. QED  BY <1>1, <2>1, Reading DEF Shape, Leaves
<1>2. CASE ty \notin Leaves \cup DOMAIN Strict \cup DOMAIN Folding
  <2>1. IsObject(j)  BY <1>2, Reading
  <2>2. ty # "Any" /\ ty # "Text"  BY <1>2 DEF Leaves
  <2>3. IsObject(Read(ty, j, a))
    <3>1. CASE Read(ty, j, a) = RelayedMembers(ty, j, a)
      <4>1. RelayedMembers(ty, j, a) # Refused  BY <3>1
      <4>2. PICK F : RelayedMembers(ty, j, a) = Object(F)  BY <4>1, ReadMembers
      <4>3. IsObject(Object(F))  BY Kinds
      <4>4. QED  BY <3>1, <4>2, <4>3
    <3>2. CASE Read(ty, j, a) = Object([kind |-> Text("other")])
      BY <3>2, Kinds
    <3>3. QED  BY <2>1, <2>2, <3>1, <3>2, ReadObject
  <2>4. QED  BY <2>1, <2>2, <2>3 DEF Shape
<1>3. QED  BY <1>1, <1>2

\* What is not left out is not left out of what is written.
LEMMA StaysKept ==
  ASSUME NEW ty, NEW j, NEW a, NEW f \in Kept(ty, j), Readings(ty, j, a),
         ~Refuses(Table(ty, j.object)[f], j.object[f], a[f])
  PROVE  /\ ~Omitted(Table(ty, j.object)[f], Whole(Table(ty, j.object)[f], a[f]))
         /\ Parts(Table(ty, j.object)[f], Whole(Table(ty, j.object)[f], a[f])) = a[f]
         /\ ~Refuses(Table(ty, j.object)[f], Whole(Table(ty, j.object)[f], a[f]), a[f])
<1> DEFINE d == Table(ty, j.object)[f]
           v == j.object[f]
           w == Whole(d, a[f])
<1>1. f \in Known(ty, j) /\ ~Omitted(d, v)  BY DEF Kept
<1>2. IsObject(j) /\ f \in DOMAIN Table(ty, j.object) /\ f \in DOMAIN j.object
  BY <1>1 DEF Known
<1>3. d.mode \in Modes /\ (d.mode = "map" => d.ty = "Any") /\ (d.mode = "zero" => d.ty = "Text")
  BY <1>2, Tables
<1>4. /\ a[f] = [i \in DOMAIN Parts(d, v) |-> a[f][i]]
      /\ \A i \in DOMAIN Parts(d, v) : a[f][i] = Refused \/ Shape(d.ty, Parts(d, v)[i], a[f][i])
  BY <1>1 DEF Readings, Given
<1>5. \A i \in DOMAIN a[f] : a[f][i] # Refused
  BY DEF Refuses
<1>6. CASE d.mode = "vec"
  <2>1. IsList(v)  BY <1>6 DEF Refuses
  <2>2. DOMAIN v.list # {}  BY <1>1, <1>6, <2>1 DEF Omitted
  <2>3. DOMAIN a[f] = DOMAIN v.list  BY <1>4, <1>6, <2>1, PartsFacts
  <2>4. w = List(a[f])  BY <1>6, PartsFacts
  <2>5. IsList(w) /\ w.list = a[f]  BY <2>4, Kinds
  <2>6. Parts(d, w) = a[f]  BY <1>6, <2>5, PartsFacts
  <2>7. ~Omitted(d, w)  BY <1>6, <2>2, <2>3, <2>5 DEF Omitted
  <2>8. ~Refuses(d, w, a[f])  BY <1>5, <1>6, <2>5 DEF Refuses
  <2>9. QED  BY <2>6, <2>7, <2>8
<1>7. CASE d.mode # "vec"
  <2>1. DOMAIN Parts(d, v) = {1} /\ Parts(d, v)[1] = v  BY <1>7, PartsFacts
  <2>2. a[f] = [i \in {1} |-> a[f][i]]  BY <1>4, <2>1
  <2>3. Parts(d, w) = a[f]  BY <2>2, PartsOfWhole
  <2>4. w = a[f][1]  BY <1>7, PartsFacts
  <2>5. 1 \in DOMAIN a[f]  BY <2>2
  <2>6. w # Refused  BY <1>5, <2>4, <2>5
  <2>7. Shape(d.ty, v, w)  BY <1>4, <2>1, <2>4, <2>6
  <2>8. d.mode \in {"map", "zero"} => w = v  BY <1>3, <2>7 DEF Shape
  <2>9. d.mode = "map" => IsObject(w)  BY <2>8 DEF Refuses
  <2>10. w = Null => v = Null  BY <2>7, Kinds, Others DEF Shape
  <2>11. ~Omitted(d, w)  BY <1>1, <1>7, <2>8, <2>10 DEF Omitted
  <2>12. ~Refuses(d, w, a[f])  BY <1>5, <1>7, <2>9 DEF Refuses
  <2>13. QED  BY <2>3, <2>11, <2>12
<1>8. QED  BY <1>6, <1>7

\* The members of what is written, by the table it was read by.
LEMMA WrittenMembers ==
  ASSUME NEW ty, NEW j, NEW a, IsObject(j), Readings(ty, j, a), Listed(ty, j.object),
         RelayedMembers(ty, j, a) # Refused
  PROVE  LET o == j.object
             out == RelayedMembers(ty, j, a)
         IN  /\ IsObject(out)
             /\ DOMAIN out.object = Kept(ty, j) \cup Unknown(ty, o)
             /\ Kept(ty, j) \cap Unknown(ty, o) = {}
             /\ \A f \in Kept(ty, j) : out.object[f] = Whole(Table(ty, o)[f], a[f])
             /\ \A f \in Unknown(ty, o) : out.object[f] = o[f]
             /\ Table(ty, out.object) = Table(ty, o)
             /\ ty \notin StructTypes => HasKind(out.object) /\ out.object["kind"] = o["kind"]
<1> DEFINE o == j.object
           out == RelayedMembers(ty, j, a)
           F == [f \in Kept(ty, j) \cup Unknown(ty, o) |->
                        IF f \in Kept(ty, j) THEN Whole(Table(ty, o)[f], a[f]) ELSE o[f]]
<1>1. out = Object(F)  BY ReadMembers
<1>2. IsObject(out) /\ out.object = F  BY <1>1, Kinds
<1>3. Kept(ty, j) \cap Unknown(ty, o) = {}  BY DEF Kept, Known, Unknown
<1>4. /\ DOMAIN out.object = Kept(ty, j) \cup Unknown(ty, o)
      /\ \A f \in Kept(ty, j) : out.object[f] = Whole(Table(ty, o)[f], a[f])
      /\ \A f \in Unknown(ty, o) : out.object[f] = o[f]
  BY <1>2, <1>3
<1>5. CASE ty \in StructTypes
  <2>1. Table(ty, out.object) = Table(ty, o)  BY <1>5 DEF Table
  <2>2. QED  BY <1>2, <1>3, <1>4, <1>5, <2>1
<1>6. CASE ty \notin StructTypes
  <2>1. ty = "PathRef" /\ HasKind(o) /\ o["kind"].text \in Tagged  BY <1>6 DEF Listed
  <2>2. /\ "kind" \in DOMAIN Table(ty, o)
        /\ Table(ty, o)["kind"] = [mode |-> "must", ty |-> "Text"]
    BY <2>1, KindMember
  <2>3. "kind" \in Known(ty, j)  BY <2>1, <2>2 DEF Known, HasKind
  <2>4. "kind" \in Kept(ty, j)  BY <2>2, <2>3 DEF Kept, Omitted
  <2>5. ~Refuses(Table(ty, o)["kind"], o["kind"], a["kind"])  BY <2>4, ReadMembers
  <2>6. Given(ty, j, "kind") = <<o["kind"]>>  BY <2>2 DEF Given, Parts
  <2>14. 1 \in DOMAIN Given(ty, j, "kind") /\ Given(ty, j, "kind")[1] = o["kind"]
    BY <2>6
  <2>7. 1 \in DOMAIN a["kind"]  BY <2>3, <2>14 DEF Readings
  <2>8. a["kind"][1] # Refused  BY <2>5, <2>7 DEF Refuses
  <2>15. Table(ty, o)["kind"].ty = "Text"  BY <2>2
  <2>16. Shape(Table(ty, o)["kind"].ty, Given(ty, j, "kind")[1], a["kind"][1])
    BY <2>3, <2>8, <2>14 DEF Readings
  <2>9. a["kind"][1] = o["kind"]  BY <2>14, <2>15, <2>16 DEF Shape
  <2>10. out.object["kind"] = o["kind"]  BY <1>4, <2>2, <2>4, <2>9 DEF Whole
  <2>11. HasKind(out.object)  BY <1>4, <2>1, <2>4, <2>10 DEF HasKind
  <2>12. Table(ty, out.object) = Table(ty, o)  BY <1>6, <2>1, <2>10, <2>11 DEF Table
  <2>13. QED  BY <1>2, <1>3, <1>4, <2>10, <2>11, <2>12
<1>7. QED  BY <1>5, <1>6

\* Reading what was written.
LEMMA Reread ==
  ASSUME NEW ty, NEW j, NEW a, IsObject(j), Readings(ty, j, a), Listed(ty, j.object),
         RelayedMembers(ty, j, a) # Refused
  PROVE  LET out == RelayedMembers(ty, j, a)
         IN  /\ Known(ty, out) = Kept(ty, j)
             /\ \A f \in Kept(ty, j) :
                  /\ Table(ty, out.object)[f] = Table(ty, j.object)[f]
                  /\ Given(ty, out, f) = a[f]
                  /\ \A i \in DOMAIN a[f] : a[f][i] # Refused
             /\ \A b : (\A f \in Kept(ty, j) : b[f] = a[f]) => RelayedMembers(ty, out, b) = out
<1> DEFINE o == j.object
           out == RelayedMembers(ty, j, a)
<1>1. /\ IsObject(out)
      /\ DOMAIN out.object = Kept(ty, j) \cup Unknown(ty, o)
      /\ Kept(ty, j) \cap Unknown(ty, o) = {}
      /\ \A f \in Kept(ty, j) : out.object[f] = Whole(Table(ty, o)[f], a[f])
      /\ \A f \in Unknown(ty, o) : out.object[f] = o[f]
      /\ Table(ty, out.object) = Table(ty, o)
  BY WrittenMembers
<1>2. /\ \A f \in DOMAIN Table(ty, o) \ DOMAIN o : MayLack(Table(ty, o)[f])
      /\ \A f \in Kept(ty, j) : ~Refuses(Table(ty, o)[f], o[f], a[f])
      /\ out = Object([f \in Kept(ty, j) \cup Unknown(ty, o) |->
                        IF f \in Kept(ty, j) THEN Whole(Table(ty, o)[f], a[f]) ELSE o[f]])
  BY ReadMembers
<1> HIDE DEF out
<1>3. ASSUME NEW f \in Kept(ty, j)
      PROVE  /\ ~Omitted(Table(ty, o)[f], out.object[f])
             /\ Parts(Table(ty, o)[f], out.object[f]) = a[f]
             /\ ~Refuses(Table(ty, o)[f], out.object[f], a[f])
  <2>1. out.object[f] = Whole(Table(ty, o)[f], a[f])  BY <1>1
  <2>2. ~Refuses(Table(ty, o)[f], o[f], a[f])  BY <1>2
  <2>3. QED  BY <2>1, <2>2, StaysKept
<1>4. Kept(ty, j) \subseteq DOMAIN Table(ty, o)  BY DEF Kept, Known
<1>5. Unknown(ty, o) \cap DOMAIN Table(ty, o) = {}  BY DEF Unknown
<1>6. Known(ty, out) = Kept(ty, j)
  BY <1>1, <1>4, <1>5 DEF Known
<1>7. Kept(ty, out) = Kept(ty, j)
  BY <1>1, <1>3, <1>6 DEF Kept
<1>8. Unknown(ty, out.object) = Unknown(ty, o)
  BY <1>1, <1>4, <1>5 DEF Unknown
<1>9. ASSUME NEW f \in Kept(ty, j)
      PROVE  /\ Table(ty, out.object)[f] = Table(ty, o)[f]
             /\ Given(ty, out, f) = a[f]
             /\ \A i \in DOMAIN a[f] : a[f][i] # Refused
  BY <1>1, <1>2, <1>3 DEF Given, Refuses
<1>10. ASSUME NEW f \in DOMAIN Table(ty, out.object) \ DOMAIN out.object
       PROVE  MayLack(Table(ty, out.object)[f])
  <2>1. f \in DOMAIN Table(ty, o) /\ f \notin Kept(ty, j)  BY <1>1
  <2>2. CASE f \notin DOMAIN o  BY <1>1, <1>2, <2>1, <2>2
  <2>3. CASE f \in DOMAIN o
    <3>1. f \in Known(ty, j)  BY <2>1, <2>3 DEF Known
    <3>2. Omitted(Table(ty, o)[f], o[f])  BY <2>1, <3>1 DEF Kept
    <3>3. Table(ty, o)[f].mode # "must"  BY <3>2 DEF Omitted
    <3>4. QED  BY <1>1, <3>3 DEF MayLack
  <2>4. QED  BY <2>2, <2>3
<1>11. ASSUME NEW b, \A f \in Kept(ty, j) : b[f] = a[f]
       PROVE  RelayedMembers(ty, out, b) = out
  <2>1. \A f \in Kept(ty, out) : ~Refuses(Table(ty, out.object)[f], out.object[f], b[f])
    BY <1>1, <1>3, <1>7, <1>11
  <2>2. RelayedMembers(ty, out, b) =
          Object([f \in Kept(ty, out) \cup Unknown(ty, out.object) |->
                    IF f \in Kept(ty, out) THEN Whole(Table(ty, out.object)[f], b[f])
                    ELSE out.object[f]])
    BY <1>10, <2>1, ReadMembersBack
  <2>3. [f \in Kept(ty, out) \cup Unknown(ty, out.object) |->
                    IF f \in Kept(ty, out) THEN Whole(Table(ty, out.object)[f], b[f])
                    ELSE out.object[f]]
        = [f \in Kept(ty, j) \cup Unknown(ty, o) |->
                        IF f \in Kept(ty, j) THEN Whole(Table(ty, o)[f], a[f]) ELSE o[f]]
    BY <1>1, <1>7, <1>8, <1>11
  <2>4. QED  BY <1>2, <2>2, <2>3
<1>12. QED
  BY <1>6, <1>9, <1>11 DEF out

\* Only an object of a struct, or of a variant, has members a reader knows.
LEMMA KnownOnly ==
  ASSUME NEW ty, NEW j, NEW f \in Known(ty, j)
  PROVE  /\ IsObject(j)
         /\ Listed(ty, j.object)
         /\ ty \notin Leaves \cup DOMAIN Strict \cup DOMAIN Folding
<1>1. IsObject(j) /\ f \in DOMAIN Table(ty, j.object)  BY DEF Known
<1>2. Listed(ty, j.object)
  BY <1>1, Tables
<1>3. QED  BY <1>1, <1>2, TableAssumption DEF Leaves, Listed

LEMMA ReadKnown ==
  ASSUME NEW ty, NEW j, NEW a, Listed(ty, j.object), IsObject(j)
  PROVE  Read(ty, j, a) = RelayedMembers(ty, j, a)
<1>1. ty \notin Leaves \cup DOMAIN Strict \cup DOMAIN Folding
  BY TableAssumption DEF Leaves, Listed
<1>2. Read(ty, j, a) = RelayedObject(ty, j, a)  BY <1>1, Reading
<1>3. QED  BY <1>2 DEF RelayedObject, Listed

LEMMA WrittenParts ==
  ASSUME NEW ty, NEW j, NEW a, Readings(ty, j, a), Read(ty, j, a) # Refused,
         NEW f \in Known(ty, Read(ty, j, a))
  PROVE  /\ f \in Known(ty, j)
         /\ Table(ty, Read(ty, j, a).object)[f] = Table(ty, j.object)[f]
         /\ Given(ty, Read(ty, j, a), f) = a[f]
         /\ \A i \in DOMAIN a[f] : a[f][i] # Refused
<1> DEFINE out == Read(ty, j, a)
<1>1. IsObject(out) /\ ty \notin Leaves \cup DOMAIN Strict \cup DOMAIN Folding
  BY KnownOnly
<1>2. IsObject(j)  BY <1>1, Reading
<1>3. ty # "Any"  BY <1>1 DEF Leaves
<1>4. CASE /\ Listed(ty, j.object)
           /\ out = RelayedMembers(ty, j, a)
  <2>1. RelayedMembers(ty, j, a) # Refused  BY <1>4
  <2>2. f \in Known(ty, RelayedMembers(ty, j, a))  BY <1>4
  <2>3. f \in Kept(ty, j)  BY <1>2, <1>4, <2>1, <2>2, Reread
  <2>4. f \in Known(ty, j)  BY <2>3 DEF Kept
  <2>5. QED  BY <1>2, <1>4, <2>1, <2>3, <2>4, Reread
<1>5. CASE ty = "PathRef" /\ ty \notin StructTypes /\ out = Object([kind |-> Text("other")])
  <2>1. out.object["kind"] = Text("other")  BY <1>5, Kinds
  <2>2. out.object["kind"].text = "other"  BY <2>1, Kinds
  <2>3. Table(ty, out.object) = <<>>  BY <1>5, <2>2, TableAssumption DEF Table
  <2>4. QED  BY <2>3 DEF Known
<1>6. QED  BY <1>2, <1>3, <1>4, <1>5, ReadObject

\* What was written is read and written the same, if its parts are.
LEMMA ReadTwice ==
  ASSUME NEW ty, NEW j, NEW a, Readings(ty, j, a), Read(ty, j, a) # Refused,
         NEW b, \A f \in Known(ty, Read(ty, j, a)) : b[f] = a[f]
  PROVE  Read(ty, Read(ty, j, a), b) = Read(ty, j, a)
<1> DEFINE out == Read(ty, j, a)
<1>1. CASE ty \in Leaves \cup DOMAIN Strict \cup DOMAIN Folding
  BY <1>1, Reading, Kinds DEF Leaves
<1>2. CASE ty \notin Leaves \cup DOMAIN Strict \cup DOMAIN Folding
  <2>1. IsObject(j) /\ ty # "Any"  BY <1>2, Reading DEF Leaves
  <2>2. CASE /\ Listed(ty, j.object)
             /\ out = RelayedMembers(ty, j, a)
    <3>1. RelayedMembers(ty, j, a) # Refused  BY <2>2
    <3>2. \A f \in Kept(ty, j) : b[f] = a[f]  BY <2>1, <2>2, <3>1, Reread
    <3>3. RelayedMembers(ty, out, b) = out  BY <2>1, <2>2, <3>1, <3>2, Reread
    <3>4. /\ IsObject(out)
          /\ ty \notin StructTypes => HasKind(out.object) /\ out.object["kind"] = j.object["kind"]
      BY <2>1, <2>2, <3>1, WrittenMembers
    <3> HIDE DEF out
    <3>5. Listed(ty, out.object)  BY <2>2, <3>4 DEF Listed
    <3>8. IsObject(out)  BY <3>4
    <3>7. Read(ty, out, b) = RelayedMembers(ty, out, b)
      BY <3>5, <3>8, ReadKnown
    <3>6. QED  BY <3>3, <3>7 DEF out
  <2>3. CASE /\ ty = "PathRef" /\ ty \notin StructTypes
             /\ out = Object([kind |-> Text("other")])
    <3>1. IsObject(out) /\ out.object = [kind |-> Text("other")]  BY <2>3, Kinds
    <3>2. HasKind(out.object) /\ out.object["kind"].text = "other"
      BY <3>1, Kinds DEF HasKind
    <3>3. Read(ty, out, b) = RelayedObject(ty, out, b)  BY <1>2, <3>1, Reading
    <3>4. QED  BY <2>3, <3>2, <3>3, TableAssumption DEF RelayedObject
  <2>4. QED  BY <2>1, <2>2, <2>3, ReadObject
<1>3. QED  BY <1>1, <1>2

(***************************************************************************)
(* What is written is read and written the same: level by level.           *)
(***************************************************************************)

\* What is read of the known members, at each level.
Values0(ty, j) == PartsBy(Relayed0, ty, j)
Values1(ty, j) == PartsBy(Relayed1, ty, j)
Values2(ty, j) == PartsBy(Relayed2, ty, j)
Values3(ty, j) == PartsBy(Relayed3, ty, j)
Values4(ty, j) == PartsBy(Relayed4, ty, j)

LEMMA Level1Is ==
  ASSUME NEW ty, NEW j
  PROVE  /\ Relayed1(ty, j) = Read(ty, j, Values0(ty, j))
         /\ \A f \in Known(ty, j) :
              Values0(ty, j)[f] =
                [i \in DOMAIN Given(ty, j, f) |->
                   Refused]
<1>1. Relayed1(ty, j) = Read(ty, j, Values0(ty, j))
  BY DEF Relayed1, RelayedBy, Values0
<1>2. ASSUME NEW f \in Known(ty, j)
      PROVE  Values0(ty, j)[f] =
               [i \in DOMAIN Given(ty, j, f) |->
                  Refused]
  BY DEF Values0, PartsBy, Relayed0
<1>3. QED  BY <1>1, <1>2

LEMMA Level1 ==
  ASSUME NEW ty, NEW j
  PROVE  /\ Readings(ty, j, Values0(ty, j))
         /\ Relayed1(ty, j) # Refused =>
              /\ Shape(ty, j, Relayed1(ty, j))
              /\ Relayed1(ty, Relayed1(ty, j)) = Relayed1(ty, j)
<1> DEFINE a == Values0(ty, j)
           out == Relayed1(ty, j)
           b == Values0(ty, out)
<1>1. Readings(ty, j, a)
  <2>1. ASSUME NEW f \in Known(ty, j)
        PROVE  /\ a[f] = [i \in DOMAIN Given(ty, j, f) |-> a[f][i]]
               /\ \A i \in DOMAIN Given(ty, j, f) :
                    \/ a[f][i] = Refused
                    \/ Shape(Table(ty, j.object)[f].ty, Given(ty, j, f)[i], a[f][i])
    <3>1. a[f] = [i \in DOMAIN Given(ty, j, f) |->
                   Refused]
      BY Level1Is
    <3>2. QED  BY <3>1
  <2>2. QED  BY <2>1 DEF Readings
<1>2. ASSUME out # Refused
      PROVE  Shape(ty, j, out) /\ Relayed1(ty, out) = out
  <2>1. out = Read(ty, j, a)  BY Level1Is
  <2>2. Shape(ty, j, out)  BY <1>2, <2>1, ReadShape
  <2>3. ASSUME NEW f \in Known(ty, out)
        PROVE  b[f] = a[f]
    <3>1. /\ f \in Known(ty, j)
          /\ Table(ty, out.object)[f] = Table(ty, j.object)[f]
          /\ Given(ty, out, f) = a[f]
          /\ \A i \in DOMAIN a[f] : a[f][i] # Refused
      BY <1>1, <1>2, <2>1, <2>3, WrittenParts
    <3>2. a[f] = [i \in DOMAIN Given(ty, j, f) |-> Refused]
      BY <3>1, Level1Is
    <3>3. b[f] = [i \in DOMAIN Given(ty, out, f) |-> Refused]
      BY Level1Is
    <3>4. QED  BY <3>1, <3>2, <3>3
  <2>4. Read(ty, out, b) = out  BY <1>1, <1>2, <2>1, <2>3, ReadTwice
  <2>5. QED  BY <2>2, <2>4, Level1Is
<1>3. QED  BY <1>1, <1>2

LEMMA Level2Is ==
  ASSUME NEW ty, NEW j
  PROVE  /\ Relayed2(ty, j) = Read(ty, j, Values1(ty, j))
         /\ \A f \in Known(ty, j) :
              Values1(ty, j)[f] =
                [i \in DOMAIN Given(ty, j, f) |->
                   Relayed1(Table(ty, j.object)[f].ty, Given(ty, j, f)[i])]
<1>1. Relayed2(ty, j) = Read(ty, j, Values1(ty, j))
  BY DEF Relayed2, RelayedBy, Values1
<1>2. ASSUME NEW f \in Known(ty, j)
      PROVE  Values1(ty, j)[f] =
               [i \in DOMAIN Given(ty, j, f) |->
                  Relayed1(Table(ty, j.object)[f].ty, Given(ty, j, f)[i])]
  BY DEF Values1, PartsBy
<1>3. QED  BY <1>1, <1>2

LEMMA Level2 ==
  ASSUME NEW ty, NEW j
  PROVE  /\ Readings(ty, j, Values1(ty, j))
         /\ Relayed2(ty, j) # Refused =>
              /\ Shape(ty, j, Relayed2(ty, j))
              /\ Relayed2(ty, Relayed2(ty, j)) = Relayed2(ty, j)
<1> DEFINE a == Values1(ty, j)
           out == Relayed2(ty, j)
           b == Values1(ty, out)
<1>1. Readings(ty, j, a)
  <2>1. ASSUME NEW f \in Known(ty, j)
        PROVE  /\ a[f] = [i \in DOMAIN Given(ty, j, f) |-> a[f][i]]
               /\ \A i \in DOMAIN Given(ty, j, f) :
                    \/ a[f][i] = Refused
                    \/ Shape(Table(ty, j.object)[f].ty, Given(ty, j, f)[i], a[f][i])
    <3>1. a[f] = [i \in DOMAIN Given(ty, j, f) |->
                   Relayed1(Table(ty, j.object)[f].ty, Given(ty, j, f)[i])]
      BY Level2Is
    <3>2. QED  BY <3>1, Level1
  <2>2. QED  BY <2>1 DEF Readings
<1>2. ASSUME out # Refused
      PROVE  Shape(ty, j, out) /\ Relayed2(ty, out) = out
  <2>1. out = Read(ty, j, a)  BY Level2Is
  <2>2. Shape(ty, j, out)  BY <1>2, <2>1, ReadShape
  <2>3. ASSUME NEW f \in Known(ty, out)
        PROVE  b[f] = a[f]
    <3>1. /\ f \in Known(ty, j)
          /\ Table(ty, out.object)[f] = Table(ty, j.object)[f]
          /\ Given(ty, out, f) = a[f]
          /\ \A i \in DOMAIN a[f] : a[f][i] # Refused
      BY <1>1, <1>2, <2>1, <2>3, WrittenParts
    <3>2. a[f] = [i \in DOMAIN Given(ty, j, f) |->
                    Relayed1(Table(ty, j.object)[f].ty, Given(ty, j, f)[i])]
      BY <3>1, Level2Is
    <3>3. b[f] = [i \in DOMAIN Given(ty, out, f) |->
                    Relayed1(Table(ty, out.object)[f].ty, Given(ty, out, f)[i])]
      BY Level2Is
    <3>4. \A i \in DOMAIN a[f] : Relayed1(Table(ty, j.object)[f].ty, a[f][i]) = a[f][i]
      BY <3>1, <3>2, Level1
    <3> HIDE DEF a, b, out
    <3>5. QED  BY <3>1, <3>2, <3>3, <3>4
  <2>4. Read(ty, out, b) = out  BY <1>1, <1>2, <2>1, <2>3, ReadTwice
  <2>5. QED  BY <2>2, <2>4, Level2Is
<1>3. QED  BY <1>1, <1>2

LEMMA Level3Is ==
  ASSUME NEW ty, NEW j
  PROVE  /\ Relayed3(ty, j) = Read(ty, j, Values2(ty, j))
         /\ \A f \in Known(ty, j) :
              Values2(ty, j)[f] =
                [i \in DOMAIN Given(ty, j, f) |->
                   Relayed2(Table(ty, j.object)[f].ty, Given(ty, j, f)[i])]
<1>1. Relayed3(ty, j) = Read(ty, j, Values2(ty, j))
  BY DEF Relayed3, RelayedBy, Values2
<1>2. ASSUME NEW f \in Known(ty, j)
      PROVE  Values2(ty, j)[f] =
               [i \in DOMAIN Given(ty, j, f) |->
                  Relayed2(Table(ty, j.object)[f].ty, Given(ty, j, f)[i])]
  BY DEF Values2, PartsBy
<1>3. QED  BY <1>1, <1>2

LEMMA Level3 ==
  ASSUME NEW ty, NEW j
  PROVE  /\ Readings(ty, j, Values2(ty, j))
         /\ Relayed3(ty, j) # Refused =>
              /\ Shape(ty, j, Relayed3(ty, j))
              /\ Relayed3(ty, Relayed3(ty, j)) = Relayed3(ty, j)
<1> DEFINE a == Values2(ty, j)
           out == Relayed3(ty, j)
           b == Values2(ty, out)
<1>1. Readings(ty, j, a)
  <2>1. ASSUME NEW f \in Known(ty, j)
        PROVE  /\ a[f] = [i \in DOMAIN Given(ty, j, f) |-> a[f][i]]
               /\ \A i \in DOMAIN Given(ty, j, f) :
                    \/ a[f][i] = Refused
                    \/ Shape(Table(ty, j.object)[f].ty, Given(ty, j, f)[i], a[f][i])
    <3>1. a[f] = [i \in DOMAIN Given(ty, j, f) |->
                   Relayed2(Table(ty, j.object)[f].ty, Given(ty, j, f)[i])]
      BY Level3Is
    <3>2. QED  BY <3>1, Level2
  <2>2. QED  BY <2>1 DEF Readings
<1>2. ASSUME out # Refused
      PROVE  Shape(ty, j, out) /\ Relayed3(ty, out) = out
  <2>1. out = Read(ty, j, a)  BY Level3Is
  <2>2. Shape(ty, j, out)  BY <1>2, <2>1, ReadShape
  <2>3. ASSUME NEW f \in Known(ty, out)
        PROVE  b[f] = a[f]
    <3>1. /\ f \in Known(ty, j)
          /\ Table(ty, out.object)[f] = Table(ty, j.object)[f]
          /\ Given(ty, out, f) = a[f]
          /\ \A i \in DOMAIN a[f] : a[f][i] # Refused
      BY <1>1, <1>2, <2>1, <2>3, WrittenParts
    <3>2. a[f] = [i \in DOMAIN Given(ty, j, f) |->
                    Relayed2(Table(ty, j.object)[f].ty, Given(ty, j, f)[i])]
      BY <3>1, Level3Is
    <3>3. b[f] = [i \in DOMAIN Given(ty, out, f) |->
                    Relayed2(Table(ty, out.object)[f].ty, Given(ty, out, f)[i])]
      BY Level3Is
    <3>4. \A i \in DOMAIN a[f] : Relayed2(Table(ty, j.object)[f].ty, a[f][i]) = a[f][i]
      BY <3>1, <3>2, Level2
    <3> HIDE DEF a, b, out
    <3>5. QED  BY <3>1, <3>2, <3>3, <3>4
  <2>4. Read(ty, out, b) = out  BY <1>1, <1>2, <2>1, <2>3, ReadTwice
  <2>5. QED  BY <2>2, <2>4, Level3Is
<1>3. QED  BY <1>1, <1>2

LEMMA Level4Is ==
  ASSUME NEW ty, NEW j
  PROVE  /\ Relayed4(ty, j) = Read(ty, j, Values3(ty, j))
         /\ \A f \in Known(ty, j) :
              Values3(ty, j)[f] =
                [i \in DOMAIN Given(ty, j, f) |->
                   Relayed3(Table(ty, j.object)[f].ty, Given(ty, j, f)[i])]
<1>1. Relayed4(ty, j) = Read(ty, j, Values3(ty, j))
  BY DEF Relayed4, RelayedBy, Values3
<1>2. ASSUME NEW f \in Known(ty, j)
      PROVE  Values3(ty, j)[f] =
               [i \in DOMAIN Given(ty, j, f) |->
                  Relayed3(Table(ty, j.object)[f].ty, Given(ty, j, f)[i])]
  BY DEF Values3, PartsBy
<1>3. QED  BY <1>1, <1>2

LEMMA Level4 ==
  ASSUME NEW ty, NEW j
  PROVE  /\ Readings(ty, j, Values3(ty, j))
         /\ Relayed4(ty, j) # Refused =>
              /\ Shape(ty, j, Relayed4(ty, j))
              /\ Relayed4(ty, Relayed4(ty, j)) = Relayed4(ty, j)
<1> DEFINE a == Values3(ty, j)
           out == Relayed4(ty, j)
           b == Values3(ty, out)
<1>1. Readings(ty, j, a)
  <2>1. ASSUME NEW f \in Known(ty, j)
        PROVE  /\ a[f] = [i \in DOMAIN Given(ty, j, f) |-> a[f][i]]
               /\ \A i \in DOMAIN Given(ty, j, f) :
                    \/ a[f][i] = Refused
                    \/ Shape(Table(ty, j.object)[f].ty, Given(ty, j, f)[i], a[f][i])
    <3>1. a[f] = [i \in DOMAIN Given(ty, j, f) |->
                   Relayed3(Table(ty, j.object)[f].ty, Given(ty, j, f)[i])]
      BY Level4Is
    <3>2. QED  BY <3>1, Level3
  <2>2. QED  BY <2>1 DEF Readings
<1>2. ASSUME out # Refused
      PROVE  Shape(ty, j, out) /\ Relayed4(ty, out) = out
  <2>1. out = Read(ty, j, a)  BY Level4Is
  <2>2. Shape(ty, j, out)  BY <1>2, <2>1, ReadShape
  <2>3. ASSUME NEW f \in Known(ty, out)
        PROVE  b[f] = a[f]
    <3>1. /\ f \in Known(ty, j)
          /\ Table(ty, out.object)[f] = Table(ty, j.object)[f]
          /\ Given(ty, out, f) = a[f]
          /\ \A i \in DOMAIN a[f] : a[f][i] # Refused
      BY <1>1, <1>2, <2>1, <2>3, WrittenParts
    <3>2. a[f] = [i \in DOMAIN Given(ty, j, f) |->
                    Relayed3(Table(ty, j.object)[f].ty, Given(ty, j, f)[i])]
      BY <3>1, Level4Is
    <3>3. b[f] = [i \in DOMAIN Given(ty, out, f) |->
                    Relayed3(Table(ty, out.object)[f].ty, Given(ty, out, f)[i])]
      BY Level4Is
    <3>4. \A i \in DOMAIN a[f] : Relayed3(Table(ty, j.object)[f].ty, a[f][i]) = a[f][i]
      BY <3>1, <3>2, Level3
    <3> HIDE DEF a, b, out
    <3>5. QED  BY <3>1, <3>2, <3>3, <3>4
  <2>4. Read(ty, out, b) = out  BY <1>1, <1>2, <2>1, <2>3, ReadTwice
  <2>5. QED  BY <2>2, <2>4, Level4Is
<1>3. QED  BY <1>1, <1>2

LEMMA Level5Is ==
  ASSUME NEW ty, NEW j
  PROVE  /\ Relayed(ty, j) = Read(ty, j, Values4(ty, j))
         /\ \A f \in Known(ty, j) :
              Values4(ty, j)[f] =
                [i \in DOMAIN Given(ty, j, f) |->
                   Relayed4(Table(ty, j.object)[f].ty, Given(ty, j, f)[i])]
<1>1. Relayed(ty, j) = Read(ty, j, Values4(ty, j))
  BY DEF Relayed, RelayedBy, Values4
<1>2. ASSUME NEW f \in Known(ty, j)
      PROVE  Values4(ty, j)[f] =
               [i \in DOMAIN Given(ty, j, f) |->
                  Relayed4(Table(ty, j.object)[f].ty, Given(ty, j, f)[i])]
  BY DEF Values4, PartsBy
<1>3. QED  BY <1>1, <1>2

LEMMA Level5 ==
  ASSUME NEW ty, NEW j
  PROVE  /\ Readings(ty, j, Values4(ty, j))
         /\ Relayed(ty, j) # Refused =>
              /\ Shape(ty, j, Relayed(ty, j))
              /\ Relayed(ty, Relayed(ty, j)) = Relayed(ty, j)
<1> DEFINE a == Values4(ty, j)
           out == Relayed(ty, j)
           b == Values4(ty, out)
<1>1. Readings(ty, j, a)
  <2>1. ASSUME NEW f \in Known(ty, j)
        PROVE  /\ a[f] = [i \in DOMAIN Given(ty, j, f) |-> a[f][i]]
               /\ \A i \in DOMAIN Given(ty, j, f) :
                    \/ a[f][i] = Refused
                    \/ Shape(Table(ty, j.object)[f].ty, Given(ty, j, f)[i], a[f][i])
    <3>1. a[f] = [i \in DOMAIN Given(ty, j, f) |->
                   Relayed4(Table(ty, j.object)[f].ty, Given(ty, j, f)[i])]
      BY Level5Is
    <3>2. QED  BY <3>1, Level4
  <2>2. QED  BY <2>1 DEF Readings
<1>2. ASSUME out # Refused
      PROVE  Shape(ty, j, out) /\ Relayed(ty, out) = out
  <2>1. out = Read(ty, j, a)  BY Level5Is
  <2>2. Shape(ty, j, out)  BY <1>2, <2>1, ReadShape
  <2>3. ASSUME NEW f \in Known(ty, out)
        PROVE  b[f] = a[f]
    <3>1. /\ f \in Known(ty, j)
          /\ Table(ty, out.object)[f] = Table(ty, j.object)[f]
          /\ Given(ty, out, f) = a[f]
          /\ \A i \in DOMAIN a[f] : a[f][i] # Refused
      BY <1>1, <1>2, <2>1, <2>3, WrittenParts
    <3>2. a[f] = [i \in DOMAIN Given(ty, j, f) |->
                    Relayed4(Table(ty, j.object)[f].ty, Given(ty, j, f)[i])]
      BY <3>1, Level5Is
    <3>3. b[f] = [i \in DOMAIN Given(ty, out, f) |->
                    Relayed4(Table(ty, out.object)[f].ty, Given(ty, out, f)[i])]
      BY Level5Is
    <3>4. \A i \in DOMAIN a[f] : Relayed4(Table(ty, j.object)[f].ty, a[f][i]) = a[f][i]
      BY <3>1, <3>2, Level4
    <3> HIDE DEF a, b, out
    <3>5. QED  BY <3>1, <3>2, <3>3, <3>4
  <2>4. Read(ty, out, b) = out  BY <1>1, <1>2, <2>1, <2>3, ReadTwice
  <2>5. QED  BY <2>2, <2>4, Level5Is
<1>3. QED  BY <1>1, <1>2

(***************************************************************************)
(* News.                                                                   *)
(***************************************************************************)

LEMMA NewFields ==
  ASSUME NEW kind, NEW j
  PROVE  New(kind, j).kind = kind /\ New(kind, j).json = j
BY DEF New

LEMMA WithDomain ==
  ASSUME NEW o, NEW f, NEW v
  PROVE  DOMAIN With(o, f, v) = DOMAIN o \cup {f}
BY DEF With

LEMMA WithNew ==
  ASSUME NEW o, NEW f, NEW v
  PROVE  f \in DOMAIN With(o, f, v) /\ With(o, f, v)[f] = v
BY DEF With

LEMMA WithOld ==
  ASSUME NEW o, NEW f, NEW v, NEW g \in DOMAIN o, g # f
  PROVE  With(o, f, v)[g] = o[g]
BY DEF With

LEMMA WithFunction ==
  ASSUME NEW o, NEW f, NEW v
  PROVE  With(o, f, v) = [g \in DOMAIN With(o, f, v) |-> With(o, f, v)[g]]
BY DEF With

\* A new member, and what is new in place.
LEMMA NewsAtIs ==
  ASSUME NEW ty, NEW j, NEW n \in NewsAt(ty, j)
  PROVE  \/ ty = "Tag" /\ n.kind = "tag" /\ n.json = Later
         \/ ty \in DOMAIN Strict /\ n.kind = "class" /\ n.json = Later
         \/ ty \in DOMAIN Folding /\ n.kind = "folded tag" /\ n.json = Later
         \/ /\ ty = "PathRef" /\ IsObject(j) /\ n.kind = "folded tag"
            /\ n.json = Object(With(j.object, "kind", Later))
         \/ /\ ty \notin {"Tag"} \cup DOMAIN Strict \cup DOMAIN Folding
            /\ IsObject(j) /\ n.json = Object(With(j.object, "later", Later))
            /\ n.kind = IF ty \in Closed \/ ty = "PathRef" THEN "closed member" ELSE "member"
         \/ /\ ty \notin {"Tag"} \cup DOMAIN Strict \cup DOMAIN Folding
            /\ IsObject(j) /\ n.json = Object(With(j.object, "later", Null))
            /\ n.kind = IF ty \in Closed \/ ty = "PathRef" THEN "closed member" ELSE "member"
<1>1. /\ "Tag" \notin DOMAIN Strict \cup DOMAIN Folding
      /\ DOMAIN Strict \cap DOMAIN Folding = {}
  BY TableAssumption DEF Leaves
<1>2. CASE ty = "Tag"
  <2>1. n = New("tag", Later)  BY <1>1, <1>2 DEF NewsAt
  <2>2. n.kind = "tag" /\ n.json = Later  BY <2>1, NewFields
  <2>3. QED  BY <1>2, <2>2
<1>3. CASE ty \in DOMAIN Strict
  <2>1. n = New("class", Later)  BY <1>1, <1>3 DEF NewsAt
  <2>2. n.kind = "class" /\ n.json = Later  BY <2>1, NewFields
  <2>3. QED  BY <1>3, <2>2
<1>4. CASE ty \in DOMAIN Folding
  <2>1. n = New("folded tag", Later)  BY <1>1, <1>4 DEF NewsAt
  <2>2. n.kind = "folded tag" /\ n.json = Later  BY <2>1, NewFields
  <2>3. QED  BY <1>4, <2>2
<1>5. CASE ty \notin {"Tag"} \cup DOMAIN Strict \cup DOMAIN Folding
  <2>1. IsObject(j)  BY <1>5 DEF NewsAt
  <2>2. CASE ty = "PathRef"
    <3>1. n \in {New("folded tag", Object(With(j.object, "kind", Later)))}
                \cup NewMember("closed member", j.object)
      BY <1>5, <2>1, <2>2 DEF NewsAt
    <3>2. \/ n = New("folded tag", Object(With(j.object, "kind", Later)))
          \/ n = New("closed member", Object(With(j.object, "later", Later)))
          \/ n = New("closed member", Object(With(j.object, "later", Null)))
      BY <3>1 DEF NewMember
    <3>3. \/ n.kind = "folded tag" /\ n.json = Object(With(j.object, "kind", Later))
          \/ n.kind = "closed member" /\ n.json = Object(With(j.object, "later", Later))
          \/ n.kind = "closed member" /\ n.json = Object(With(j.object, "later", Null))
      <4>1. CASE n = New("folded tag", Object(With(j.object, "kind", Later)))
        BY <4>1, NewFields
      <4>2. CASE n = New("closed member", Object(With(j.object, "later", Later)))
        BY <4>2, NewFields
      <4>3. CASE n = New("closed member", Object(With(j.object, "later", Null)))
        BY <4>3, NewFields
      <4>4. QED  BY <3>2, <4>1, <4>2, <4>3
    <3>4. QED  BY <1>5, <2>1, <2>2, <3>3
  <2>3. CASE ty # "PathRef"
    <3> DEFINE kind == IF ty \in Closed THEN "closed member" ELSE "member"
    <3>1. n \in NewMember(kind, j.object)
      BY <1>5, <2>1, <2>3 DEF NewsAt
    <3> HIDE DEF kind
    <3>2. \/ n = New(kind, Object(With(j.object, "later", Later)))
          \/ n = New(kind, Object(With(j.object, "later", Null)))
      BY <3>1 DEF NewMember
    <3>3. /\ n.kind = kind
          /\ \/ n.json = Object(With(j.object, "later", Later))
             \/ n.json = Object(With(j.object, "later", Null))
      BY <3>2, NewFields
    <3>4. QED  BY <1>5, <2>1, <2>3, <3>3 DEF kind
  <2>4. QED  BY <2>2, <2>3
<1>6. QED  BY <1>2, <1>3, <1>4, <1>5

\* An object of which the members S have changed, and members that are not
\* in the table have been added.
Changed(ty, j, a, k, b, S) ==
  /\ IsObject(j) /\ IsObject(k)
  /\ Table(ty, k.object) = Table(ty, j.object)
  /\ DOMAIN j.object \subseteq DOMAIN k.object
  /\ DOMAIN k.object \cap DOMAIN Table(ty, j.object) \subseteq DOMAIN j.object
  /\ S \subseteq Known(ty, j)
  /\ \A f \in Known(ty, j) \ S : k.object[f] = j.object[f] /\ b[f] = a[f]
  /\ \A f \in S : ~Refuses(Table(ty, j.object)[f], k.object[f], b[f])

LEMMA ChangedReads ==
  ASSUME NEW ty, NEW j, NEW a, NEW k, NEW b, NEW S, Changed(ty, j, a, k, b, S),
         RelayedMembers(ty, j, a) # Refused
  PROVE  /\ Known(ty, k) = Known(ty, j)
         /\ Kept(ty, k) \ S = Kept(ty, j) \ S
         /\ RelayedMembers(ty, k, b) # Refused
<1>1. Known(ty, k) = Known(ty, j)  BY DEF Known, Changed
<1>2. Kept(ty, k) \ S = Kept(ty, j) \ S  BY <1>1 DEF Kept, Changed
<1>3. \A f \in DOMAIN Table(ty, k.object) \ DOMAIN k.object : MayLack(Table(ty, k.object)[f])
  BY ReadMembers DEF Changed
<1>4. ASSUME NEW f \in Kept(ty, k)
      PROVE  ~Refuses(Table(ty, k.object)[f], k.object[f], b[f])
  <2>1. f \in Known(ty, j)  BY <1>1 DEF Kept
  <2>2. CASE f \in S  BY <2>2 DEF Changed
  <2>3. CASE f \notin S
    <3>1. f \in Kept(ty, j)  BY <1>2, <2>3
    <3>2. ~Refuses(Table(ty, j.object)[f], j.object[f], a[f])  BY <3>1, ReadMembers
    <3>3. QED  BY <2>1, <2>3, <3>2 DEF Changed
  <2>4. QED  BY <2>2, <2>3
<1>5. QED  BY <1>1, <1>2, <1>3, <1>4, ReadMembersBack

\* What an object is like that is written as it was read.
LEMMA Settled ==
  ASSUME NEW ty, NEW j, NEW a, IsObject(j), RelayedMembers(ty, j, a) = j
  PROVE  /\ DOMAIN j.object = Kept(ty, j) \cup Unknown(ty, j.object)
         /\ Known(ty, j) = Kept(ty, j)
         /\ \A f \in Kept(ty, j) : j.object[f] = Whole(Table(ty, j.object)[f], a[f])
<1>1. RelayedMembers(ty, j, a) # Refused  BY Others
<1>2. j = Object([f \in Kept(ty, j) \cup Unknown(ty, j.object) |->
                        IF f \in Kept(ty, j) THEN Whole(Table(ty, j.object)[f], a[f])
                        ELSE j.object[f]])
  BY <1>1, ReadMembers
<1> DEFINE F == [f \in Kept(ty, j) \cup Unknown(ty, j.object) |->
                        IF f \in Kept(ty, j) THEN Whole(Table(ty, j.object)[f], a[f])
                        ELSE j.object[f]]
<1>3. j.object = F
  <2>1. Object(F).object = F  BY Kinds
  <2>2. QED  BY <1>2, <2>1
<1>4. Known(ty, j) \cap Unknown(ty, j.object) = {}  BY DEF Known, Unknown
<1>5. Known(ty, j) \subseteq DOMAIN j.object /\ Kept(ty, j) \subseteq Known(ty, j)
  BY DEF Known, Kept
<1>6. QED  BY <1>3, <1>4, <1>5

LEMMA ChangedStays ==
  ASSUME NEW ty, NEW j, NEW a, NEW k, NEW b, NEW S, Changed(ty, j, a, k, b, S),
         RelayedMembers(ty, j, a) = j,
         NEW F, F = [f \in DOMAIN F |-> F[f]], k = Object(F),
         ty \in OpenTypes \/ DOMAIN k.object = DOMAIN j.object,
         \A f \in S : /\ ~Omitted(Table(ty, j.object)[f], k.object[f])
                      /\ Whole(Table(ty, j.object)[f], b[f]) = k.object[f]
  PROVE  RelayedMembers(ty, k, b) = k
<1>1. IsObject(j)  BY DEF Changed
<1>2. RelayedMembers(ty, j, a) # Refused  BY <1>1, Others
<1>3. /\ DOMAIN j.object = Kept(ty, j) \cup Unknown(ty, j.object)
      /\ Known(ty, j) = Kept(ty, j)
      /\ \A f \in Kept(ty, j) : j.object[f] = Whole(Table(ty, j.object)[f], a[f])
  BY <1>1, Settled
<1>4. /\ Known(ty, k) = Known(ty, j)
      /\ Kept(ty, k) \ S = Kept(ty, j) \ S
      /\ RelayedMembers(ty, k, b) =
              Object([f \in Kept(ty, k) \cup Unknown(ty, k.object) |->
                        IF f \in Kept(ty, k) THEN Whole(Table(ty, k.object)[f], b[f])
                        ELSE k.object[f]])
  <2>1. Changed(ty, j, a, k, b, S)  OBVIOUS
  <2>2. Known(ty, k) = Known(ty, j)  BY ONLY <1>2, <2>1, ChangedReads
  <2>3. Kept(ty, k) \ S = Kept(ty, j) \ S  BY ONLY <1>2, <2>1, ChangedReads
  <2>4. RelayedMembers(ty, k, b) # Refused  BY ONLY <1>2, <2>1, ChangedReads
  <2>5. RelayedMembers(ty, k, b) =
              Object([f \in Kept(ty, k) \cup Unknown(ty, k.object) |->
                        IF f \in Kept(ty, k) THEN Whole(Table(ty, k.object)[f], b[f])
                        ELSE k.object[f]])
    BY ONLY <2>4, ReadMembers
  <2>6. QED  BY <2>2, <2>3, <2>5
<1>5. S \subseteq Kept(ty, k)  BY <1>4 DEF Changed, Kept
<1>6. Kept(ty, k) = Kept(ty, j)
  BY <1>3, <1>4, <1>5 DEF Changed
<1>7. \A f \in Kept(ty, k) : Whole(Table(ty, k.object)[f], b[f]) = k.object[f]
  BY <1>3, <1>6 DEF Changed
<1>8. k.object = F  BY Kinds
<1>9. Kept(ty, k) \cup Unknown(ty, k.object) = DOMAIN F
  <2>1. CASE ty \in OpenTypes
    <3>1. Unknown(ty, k.object) = DOMAIN k.object \ DOMAIN Table(ty, k.object)
      BY <2>1 DEF Unknown
    <3>2. Known(ty, k) = DOMAIN Table(ty, k.object) \cap DOMAIN k.object
      BY DEF Known, Changed
    <3>3. QED  BY <1>3, <1>4, <1>6, <1>8, <3>1, <3>2
  <2>2. CASE ty \notin OpenTypes
    <3>1. Unknown(ty, k.object) = {} /\ Unknown(ty, j.object) = {}  BY <2>2 DEF Unknown
    <3>2. QED  BY <1>3, <1>6, <1>8, <2>2, <3>1
  <2>3. QED  BY <2>1, <2>2
<1>10. [f \in Kept(ty, k) \cup Unknown(ty, k.object) |->
                        IF f \in Kept(ty, k) THEN Whole(Table(ty, k.object)[f], b[f])
                        ELSE k.object[f]] = F
  BY <1>7, <1>8, <1>9
<1>11. QED  BY <1>4, <1>10

\* b has of what j and k have in common what a has.
Alike(ty, j, a, k, b) ==
  \A f \in Known(ty, j) \cap Known(ty, k) :
    /\ Table(ty, k.object)[f] = Table(ty, j.object)[f]
    /\ k.object[f] = j.object[f]
    => b[f] = a[f]

LEMMA NewMemberReads ==
  ASSUME NEW ty, NEW j, NEW a, NEW k, NEW b, NEW v, IsObject(j),
         k = Object(With(j.object, "later", v)), Read(ty, j, a) # Refused,
         Alike(ty, j, a, k, b)
  PROVE  /\ Read(ty, k, b) # Refused
         /\ Read(ty, j, a) = j /\ ty \notin Closed /\ ty # "PathRef" => Read(ty, k, b) = k
<1> DEFINE F == With(j.object, "later", v)
<1>1. IsObject(k) /\ k.object = F  BY Kinds
<1>2. /\ DOMAIN F = DOMAIN j.object \cup {"later"}
      /\ \A g \in DOMAIN j.object : g # "later" => F[g] = j.object[g]
  <2>1. DOMAIN F = DOMAIN j.object \cup {"later"}  BY WithDomain
  <2>2. \A g \in DOMAIN j.object : g # "later" => F[g] = j.object[g]  BY WithOld
  <2>3. QED  BY <2>1, <2>2
<1>7. F = [g \in DOMAIN F |-> F[g]]  BY WithFunction
<1> HIDE DEF F
<1>3. CASE ty = "Any"  BY <1>1, <1>3, Reading, Others
<1>4. CASE ty # "Any" /\ Listed(ty, j.object) /\ Read(ty, j, a) = RelayedMembers(ty, j, a)
  <2>1. ty \notin StructTypes => HasKind(k.object) /\ k.object["kind"] = j.object["kind"]
    BY <1>1, <1>2, <1>4 DEF Listed, HasKind
  <2>2. Table(ty, k.object) = Table(ty, j.object)
    BY <1>4, <2>1 DEF Table, Listed
  <2>3. Listed(ty, k.object)  BY <1>4, <2>1 DEF Listed
  <2>4. \A f \in DOMAIN Table(ty, j.object) : f # "later"  BY Tables
  <2>5. Known(ty, k) = Known(ty, j)
    BY <1>1, <1>2, <2>2, <2>4 DEF Known
  <2>6. \A f \in Known(ty, j) : f \in DOMAIN j.object /\ f # "later"
    BY <2>4 DEF Known
  <2>7. \A f \in Known(ty, j) : k.object[f] = j.object[f] /\ b[f] = a[f]
    BY <1>1, <1>2, <2>2, <2>5, <2>6 DEF Alike
  <2>8. Changed(ty, j, a, k, b, {})
    BY <1>1, <1>2, <2>2, <2>4, <2>7 DEF Changed
  <2>9. RelayedMembers(ty, j, a) # Refused  BY <1>4
  <2>10. Read(ty, k, b) = RelayedMembers(ty, k, b)  BY <1>1, <2>3, ReadKnown
  <2>11. RelayedMembers(ty, k, b) # Refused  BY <2>8, <2>9, ChangedReads
  <2>12. ASSUME Read(ty, j, a) = j, ty \notin Closed, ty # "PathRef"
         PROVE  RelayedMembers(ty, k, b) = k
    <3>1. ty \in OpenTypes  BY <1>4, <2>12 DEF Listed, OpenTypes
    <3>2. RelayedMembers(ty, j, a) = j  BY <1>4, <2>12
    <3>3. k = Object(F)  BY DEF F
    <3>4. QED  BY <1>7, <2>8, <3>1, <3>2, <3>3, ChangedStays
  <2>13. QED  BY <2>10, <2>11, <2>12
<1>5. CASE /\ ty # "Any" /\ ty = "PathRef" /\ ty \notin StructTypes
           /\ HasKind(j.object) /\ j.object["kind"].text \notin Tagged
  <2>1. HasKind(k.object) /\ k.object["kind"].text \notin Tagged
    BY <1>1, <1>2, <1>5 DEF HasKind
  <2>2. ty \notin Leaves \cup DOMAIN Strict \cup DOMAIN Folding
    BY <1>5, TableAssumption DEF Leaves
  <2>3. Read(ty, k, b) = RelayedObject(ty, k, b)  BY <1>1, <2>2, Reading
  <2>4. Read(ty, k, b) = Object([kind |-> Text("other")])
    BY <1>5, <2>1, <2>3 DEF RelayedObject
  <2>5. Object([kind |-> Text("other")]) # Refused  BY Kinds, Others
  <2>6. QED  BY <1>5, <2>4, <2>5
<1>6. QED  BY <1>3, <1>4, <1>5, ReadObject

LEMMA NewKindReads ==
  ASSUME NEW o, NEW b
  PROVE  Read("PathRef", Object(With(o, "kind", Later)), b) # Refused
<1> DEFINE k == Object(With(o, "kind", Later))
<1>1. IsObject(k) /\ k.object = With(o, "kind", Later)  BY Kinds
<1>2. HasKind(k.object) /\ k.object["kind"].text = "later"
  <2>1. "kind" \in DOMAIN k.object /\ k.object["kind"] = Later  BY <1>1, WithNew
  <2>2. QED  BY <2>1, Kinds DEF HasKind, Later
<1>3. "PathRef" \notin Leaves \cup DOMAIN Strict \cup DOMAIN Folding \cup StructTypes
  BY TableAssumption DEF Leaves
<1>4. "later" \notin Tagged  BY TableAssumption
<1> HIDE DEF k
<1>5. Read("PathRef", k, b) = RelayedObject("PathRef", k, b)  BY <1>1, <1>3, Reading
<1>6. Read("PathRef", k, b) = Object([kind |-> Text("other")])
  BY <1>2, <1>3, <1>4, <1>5 DEF RelayedObject
<1>7. Object([kind |-> Text("other")]) # Refused  BY Kinds, Others
<1>8. QED  BY <1>6, <1>7 DEF k

LEMMA NewsAtReads ==
  ASSUME NEW ty, NEW j, NEW n \in NewsAt(ty, j), NEW a, NEW b,
         IsObject(j) => Read(ty, j, a) # Refused, Alike(ty, j, a, n.json, b)
  PROVE  /\ n.kind # "class" => Read(ty, n.json, b) # Refused
         /\ n.kind \in {"member", "tag"} /\ (IsObject(j) => Read(ty, j, a) = j) =>
              Read(ty, n.json, b) = n.json
<1>1. IsText(Later) /\ Later # Refused  BY Kinds, Others DEF Later
<1>2. CASE ty = "Tag" /\ n.kind = "tag" /\ n.json = Later
  BY <1>1, <1>2, Reading
<1>3. CASE ty \in DOMAIN Strict /\ n.kind = "class" /\ n.json = Later
  BY <1>3
<1>4. CASE ty \in DOMAIN Folding /\ n.kind = "folded tag" /\ n.json = Later
  <2>1. Text("other") # Refused  BY Kinds, Others
  <2>2. ty \in DOMAIN Folding  BY <1>4
  <2>3. Read(ty, Later, b) = IF ~IsText(Later) THEN Refused
                             ELSE IF Later.text \in Folding[ty] THEN Later ELSE Text("other")
    BY <2>2, Reading
  <2>4. Read(ty, Later, b) \in {Later, Text("other")}  BY <1>1, <2>3
  <2>5. QED  BY <1>1, <1>4, <2>1, <2>4
<1>5. CASE /\ ty = "PathRef" /\ n.kind = "folded tag"
           /\ n.json = Object(With(j.object, "kind", Later))
  BY <1>5, NewKindReads
<1>6. ASSUME NEW v, IsObject(j), n.json = Object(With(j.object, "later", v)),
             n.kind = IF ty \in Closed \/ ty = "PathRef" THEN "closed member" ELSE "member"
      PROVE  /\ n.kind # "class" => Read(ty, n.json, b) # Refused
             /\ n.kind \in {"member", "tag"} /\ (IsObject(j) => Read(ty, j, a) = j) =>
                  Read(ty, n.json, b) = n.json
  <2>1. Read(ty, j, a) # Refused  BY <1>6
  <2>2. n.kind \in {"member", "tag"} => ty \notin Closed /\ ty # "PathRef"  BY <1>6
  <2>3. /\ Read(ty, n.json, b) # Refused
        /\ Read(ty, j, a) = j /\ ty \notin Closed /\ ty # "PathRef" => Read(ty, n.json, b) = n.json
    BY <1>6, <2>1, NewMemberReads
  <2>4. QED  BY <1>6, <2>2, <2>3
<1>7. \/ ty = "Tag" /\ n.kind = "tag" /\ n.json = Later
      \/ ty \in DOMAIN Strict /\ n.kind = "class" /\ n.json = Later
      \/ ty \in DOMAIN Folding /\ n.kind = "folded tag" /\ n.json = Later
      \/ /\ ty = "PathRef" /\ n.kind = "folded tag"
         /\ n.json = Object(With(j.object, "kind", Later))
      \/ \E v \in {Later, Null} :
            /\ IsObject(j) /\ n.json = Object(With(j.object, "later", v))
            /\ n.kind = IF ty \in Closed \/ ty = "PathRef" THEN "closed member" ELSE "member"
  BY NewsAtIs
<1>8. QED  BY <1>2, <1>3, <1>4, <1>5, <1>6, <1>7

(***************************************************************************)
(* News of a member's value.                                               *)
(***************************************************************************)

\* What the news of value j of type ty are like.
Fresh(ty, j, x) ==
  /\ x # Later => IsObject(x) /\ DOMAIN x.object # {}
  /\ ty = "Any" => IsObject(x)
  /\ ty = "Text" => IsObject(j)

LEMMA NewsAtForm ==
  ASSUME NEW ty, NEW j, NEW n \in NewsAt(ty, j)
  PROVE  Fresh(ty, j, n.json) /\ n.kind # "none"
<1>1. {"Any", "Text"} \cap ({"Tag", "PathRef"} \cup DOMAIN Strict \cup DOMAIN Folding) = {}
  BY TableAssumption DEF Leaves
<1>2. \A o, f, v : IsObject(Object(With(o, f, v))) /\ DOMAIN Object(With(o, f, v)).object # {}
  <2>1. \A o, f, v : DOMAIN With(o, f, v) # {}  BY WithNew
  <2>2. QED  BY <2>1, Kinds
<1>3. \/ n.json = Later /\ ty \in {"Tag"} \cup DOMAIN Strict \cup DOMAIN Folding
      \/ n.json = Object(With(j.object, "kind", Later)) /\ ty = "PathRef"
      \/ IsObject(j) /\ n.json = Object(With(j.object, "later", Later))
      \/ IsObject(j) /\ n.json = Object(With(j.object, "later", Null))
  BY NewsAtIs
<1>7. n.kind # "none"  BY NewsAtIs
<1>4. CASE n.json = Later /\ ty \in {"Tag"} \cup DOMAIN Strict \cup DOMAIN Folding
  BY <1>1, <1>4, <1>7 DEF Fresh
<1>5. CASE n.json = Object(With(j.object, "kind", Later)) /\ ty = "PathRef"
  <2>1. IsObject(n.json) /\ DOMAIN n.json.object # {}  BY <1>2, <1>5
  <2>2. QED  BY <1>1, <1>5, <1>7, <2>1 DEF Fresh
<1>6. ASSUME NEW v, IsObject(j), n.json = Object(With(j.object, "later", v))
      PROVE  Fresh(ty, j, n.json)
  <2>1. IsObject(n.json) /\ DOMAIN n.json.object # {}  BY <1>2, <1>6
  <2>2. QED  BY <1>6, <2>1 DEF Fresh
<1>8. QED  BY <1>3, <1>4, <1>5, <1>6, <1>7

LEMMA ReplacedForm ==
  ASSUME NEW ty, NEW j, NEW f \in Known(ty, j), NEW i, NEW x
  PROVE  Fresh(ty, j, Replaced(ty, j, f, i, x))
<1>1. ty \notin {"Any", "Text"}  BY KnownOnly DEF Leaves
<1>2. \A o, g, v : IsObject(Object(With(o, g, v))) /\ DOMAIN Object(With(o, g, v)).object # {}
  <2>1. \A o, g, v : DOMAIN With(o, g, v) # {}  BY WithNew
  <2>2. QED  BY <2>1, Kinds
<1>3. QED  BY <1>1, <1>2 DEF Fresh, Replaced

LEMMA LeftOut ==
  ASSUME NEW ty, NEW j, NEW f \in Known(ty, j), f \notin Kept(ty, j),
         NEW i \in DOMAIN Given(ty, j, f)
  PROVE  /\ Table(ty, j.object)[f].mode # "vec"
         /\ \/ Table(ty, j.object)[f].ty = "Any" /\ Table(ty, j.object)[f].mode = "map"
            \/ ~IsObject(Given(ty, j, f)[i])
<1> DEFINE d == Table(ty, j.object)[f]
           v == j.object[f]
<1>1. Omitted(d, v)  BY DEF Kept
<1>2. f \in DOMAIN Table(ty, j.object)  BY DEF Known
<1>3. d.mode = "map" => d.ty = "Any"  BY <1>2, Tables
<1>4. i \in DOMAIN Parts(d, v)  BY DEF Given
<1>5. d.mode # "vec"  BY <1>1, <1>4, PartsFacts DEF Omitted
<1>6. Given(ty, j, f)[i] = v  BY <1>4, <1>5, PartsFacts DEF Given
<1>7. ~IsObject(Null) /\ ~IsObject(Text("0"))  BY Others, Kinds
<1>8. QED  BY <1>1, <1>3, <1>5, <1>6, <1>7 DEF Omitted

LEMMA ListedRead ==
  ASSUME NEW ty, NEW j, NEW a, NEW f \in Known(ty, j), Read(ty, j, a) # Refused
  PROVE  /\ IsObject(j) /\ Listed(ty, j.object)
         /\ Read(ty, j, a) = RelayedMembers(ty, j, a)
         /\ RelayedMembers(ty, j, a) # Refused
<1>1. IsObject(j) /\ Listed(ty, j.object)  BY KnownOnly
<1>2. Read(ty, j, a) = RelayedMembers(ty, j, a)  BY <1>1, ReadKnown
<1>3. QED  BY <1>1, <1>2

LEMMA PartAccepted ==
  ASSUME NEW ty, NEW j, NEW a, NEW f \in Known(ty, j), NEW i \in DOMAIN Given(ty, j, f),
         Readings(ty, j, a), Read(ty, j, a) # Refused,
         IsObject(Given(ty, j, f)[i]), Table(ty, j.object)[f].ty # "Any"
  PROVE  a[f][i] # Refused /\ Table(ty, j.object)[f].ty # "Text"
<1>1. f \in Kept(ty, j)  BY LeftOut
<1>2. RelayedMembers(ty, j, a) # Refused  BY ListedRead
<1>3. ~Refuses(Table(ty, j.object)[f], j.object[f], a[f])  BY <1>1, <1>2, ReadMembers
<1>4. a[f] = [p \in DOMAIN Given(ty, j, f) |-> a[f][p]]  BY DEF Readings
<1>5. i \in DOMAIN a[f]  BY <1>4
<1>6. a[f][i] # Refused  BY <1>3, <1>5 DEF Refuses
<1>7. Shape(Table(ty, j.object)[f].ty, Given(ty, j, f)[i], a[f][i])
  BY <1>6 DEF Readings
<1>8. Table(ty, j.object)[f].ty # "Text"  BY <1>7, Exclusive DEF Shape
<1>9. QED  BY <1>6, <1>8

LEMMA PartStays ==
  ASSUME NEW ty, NEW j, NEW a, NEW f \in Known(ty, j),
         Readings(ty, j, a), Read(ty, j, a) = j
  PROVE  /\ a[f] = Given(ty, j, f)
         /\ Whole(Table(ty, j.object)[f], a[f]) = j.object[f]
         /\ f \in Kept(ty, j)
<1>1. IsObject(j)  BY KnownOnly
<1>2. Read(ty, j, a) # Refused  BY <1>1, Others
<1>3. RelayedMembers(ty, j, a) = j /\ RelayedMembers(ty, j, a) # Refused
  BY <1>2, ListedRead
<1>4. f \in Kept(ty, j) /\ j.object[f] = Whole(Table(ty, j.object)[f], a[f])
  BY <1>1, <1>3, Settled
<1>5. ~Refuses(Table(ty, j.object)[f], j.object[f], a[f])  BY <1>3, <1>4, ReadMembers
<1>6. Parts(Table(ty, j.object)[f], Whole(Table(ty, j.object)[f], a[f])) = a[f]
  BY <1>4, <1>5, StaysKept
<1>7. QED  BY <1>4, <1>6 DEF Given

\* The news of a value that is read are not those of a text.
LEMMA NotText ==
  ASSUME NEW ty, NEW j, NEW a, NEW f \in Known(ty, j), NEW i \in DOMAIN Given(ty, j, f), NEW x,
         Readings(ty, j, a), Read(ty, j, a) # Refused,
         Fresh(Table(ty, j.object)[f].ty, Given(ty, j, f)[i], x)
  PROVE  /\ Table(ty, j.object)[f].ty # "Text"
         /\ ty \in StructTypes \/ f # "kind"
<1>1. Table(ty, j.object)[f].ty # "Text"
  <2>1. SUFFICES ASSUME Table(ty, j.object)[f].ty = "Text" PROVE FALSE
    OBVIOUS
  <2>2. IsObject(Given(ty, j, f)[i])  BY <2>1 DEF Fresh
  <2>3. QED  BY <2>1, <2>2, PartAccepted
<1>2. ty \in StructTypes \/ f # "kind"
  <2>1. SUFFICES ASSUME ty \notin StructTypes, f = "kind" PROVE FALSE
    OBVIOUS
  <2>2. ty = "PathRef" /\ HasKind(j.object) /\ j.object["kind"].text \in Tagged
    BY <2>1, KnownOnly DEF Listed
  <2>3. Table(ty, j.object)["kind"] = [mode |-> "must", ty |-> "Text"]
    BY <2>2, KindMember
  <2>4. QED  BY <1>1, <2>1, <2>3
<1>3. QED  BY <1>1, <1>2

LEMMA ReplacedIs ==
  ASSUME NEW ty, NEW j, NEW f \in Known(ty, j), NEW i \in DOMAIN Given(ty, j, f), NEW x,
         ty \in StructTypes \/ f # "kind"
  PROVE  LET k == Replaced(ty, j, f, i, x)
             s == [Given(ty, j, f) EXCEPT ![i] = x]
         IN  /\ IsObject(k) /\ Listed(ty, k.object)
             /\ k = Object(With(j.object, f, Whole(Table(ty, j.object)[f], s)))
             /\ k.object = With(j.object, f, Whole(Table(ty, j.object)[f], s))
             /\ DOMAIN k.object = DOMAIN j.object
             /\ \A g \in DOMAIN j.object : g # f => k.object[g] = j.object[g]
             /\ k.object[f] = Whole(Table(ty, j.object)[f], s)
             /\ Table(ty, k.object) = Table(ty, j.object)
             /\ Known(ty, k) = Known(ty, j)
             /\ Given(ty, k, f) = s
<1> DEFINE k == Replaced(ty, j, f, i, x)
           s == [Given(ty, j, f) EXCEPT ![i] = x]
           d == Table(ty, j.object)[f]
<1>1. k = Object(With(j.object, f, Whole(d, s)))  BY DEF Replaced
<1>2. IsObject(k) /\ k.object = With(j.object, f, Whole(d, s))  BY <1>1, Kinds
<1>3. f \in DOMAIN j.object /\ f \in DOMAIN Table(ty, j.object)  BY DEF Known
<1>4. DOMAIN k.object = DOMAIN j.object
  <2>1. DOMAIN k.object = DOMAIN j.object \cup {f}  BY <1>2, WithDomain
  <2>2. QED  BY <1>3, <2>1
<1>5. ASSUME NEW g \in DOMAIN j.object, g # f
      PROVE  k.object[g] = j.object[g]
  BY <1>2, <1>5, WithOld
<1>6. k.object[f] = Whole(d, s)  BY <1>2, WithNew
<1>7. IsObject(j) /\ Listed(ty, j.object)  BY KnownOnly
<1> HIDE DEF k
<1>8. ty \notin StructTypes => HasKind(k.object) /\ k.object["kind"] = j.object["kind"]
  BY <1>4, <1>5, <1>7 DEF Listed, HasKind
<1>9. Table(ty, k.object) = Table(ty, j.object) /\ Listed(ty, k.object)
  BY <1>7, <1>8 DEF Table, Listed
<1>10. Known(ty, k) = Known(ty, j)  BY <1>2, <1>4, <1>7, <1>9 DEF Known
<1>11. Given(ty, k, f) = Parts(d, Whole(d, s))  BY <1>6, <1>9 DEF Given
<1>12. d.mode # "vec" => s = [p \in {1} |-> s[p]]
  BY PartsFacts DEF Given
<1>13. Given(ty, k, f) = s  BY <1>11, <1>12, PartsOfWhole
<1>14. QED
  BY <1>1, <1>2, <1>4, <1>5, <1>6, <1>9, <1>10, <1>13 DEF k

\* The sequence s with x for its part i.
Put(s, i, x) == [s EXCEPT ![i] = x]

\* A value with news is not left out.
LEMMA ReplacedKept ==
  ASSUME NEW ty, NEW j, NEW a, NEW f \in Known(ty, j), NEW i \in DOMAIN Given(ty, j, f), NEW x,
         Readings(ty, j, a), Read(ty, j, a) # Refused,
         Fresh(Table(ty, j.object)[f].ty, Given(ty, j, f)[i], x)
  PROVE  ~Omitted(Table(ty, j.object)[f], Replaced(ty, j, f, i, x).object[f])
<1> DEFINE k == Replaced(ty, j, f, i, x)
           s == [Given(ty, j, f) EXCEPT ![i] = x]
           d == Table(ty, j.object)[f]
<1>1. d.ty # "Text" /\ (ty \in StructTypes \/ f # "kind")  BY NotText
<1>2. k.object[f] = Whole(d, s)  BY <1>1, ReplacedIs
<1> HIDE DEF k
<1>3. f \in DOMAIN Table(ty, j.object)  BY DEF Known
<1>4. d.mode = "map" => d.ty = "Any"  BY <1>3, Tables
<1>5. d.mode # "vec" => Whole(d, s) = x
  <2>1. ASSUME d.mode # "vec" PROVE DOMAIN Given(ty, j, f) = {1}
    BY <2>1, PartsFacts DEF Given
  <2>2. ASSUME d.mode # "vec" PROVE Whole(d, s) = s[1]
    BY <2>2, PartsFacts
  <2>3. s[i] = x  OBVIOUS
  <2>4. QED  BY <2>1, <2>2, <2>3
<1>6. x # Null /\ (x = Later \/ IsObject(x))
  BY Kinds, Others DEF Fresh, Later
<1>7. d.mode = "opt" => ~Omitted(d, k.object[f])
  BY <1>2, <1>5, <1>6 DEF Omitted
<1>8. d.mode = "vec" => ~Omitted(d, k.object[f])
  <2>1. SUFFICES ASSUME d.mode = "vec" PROVE ~Omitted(d, k.object[f])
    OBVIOUS
  <2>2. k.object[f] = List(s)  BY <1>2, <2>1, PartsFacts
  <2>3. k.object[f].list = s  BY <2>2, Kinds
  <2>4. i \in DOMAIN s  OBVIOUS
  <2>5. QED  BY <2>1, <2>3, <2>4 DEF Omitted
<1>9. d.mode = "map" => ~Omitted(d, k.object[f])
  <2>1. SUFFICES ASSUME d.mode = "map" PROVE x # Object(<<>>)
    BY <1>2, <1>5 DEF Omitted
  <2>2. x # Later  BY <1>4, <2>1, Kinds DEF Fresh, Later
  <2>3. DOMAIN x.object # {}  BY <2>2 DEF Fresh
  <2>4. Object(<<>>).object = <<>>  BY Kinds
  <2>5. QED  BY <2>3, <2>4
<1>10. d.mode # "zero"  BY <1>1, <1>3, Tables
<1>11. ~Omitted(d, k.object[f])  BY <1>7, <1>8, <1>9, <1>10 DEF Omitted
<1>12. QED  BY <1>11 DEF k

LEMMA ReplacedReads ==
  ASSUME NEW ty, NEW j, NEW a, NEW f \in Known(ty, j), NEW i \in DOMAIN Given(ty, j, f),
         NEW x, NEW b,
         Readings(ty, j, a), Read(ty, j, a) # Refused,
         Fresh(Table(ty, j.object)[f].ty, Given(ty, j, f)[i], x),
         Alike(ty, j, a, Replaced(ty, j, f, i, x), b),
         b[f] = Put(a[f], i, b[f][i]), b[f][i] # Refused
  PROVE  /\ Read(ty, Replaced(ty, j, f, i, x), b) # Refused
         /\ Read(ty, j, a) = j /\ b[f][i] = x =>
              Read(ty, Replaced(ty, j, f, i, x), b) = Replaced(ty, j, f, i, x)
<1> DEFINE k == Replaced(ty, j, f, i, x)
           s == [Given(ty, j, f) EXCEPT ![i] = x]
           d == Table(ty, j.object)[f]
           F == With(j.object, f, Whole(d, s))
<1>1. d.ty # "Text" /\ (ty \in StructTypes \/ f # "kind")  BY NotText
<1>2. /\ IsObject(k) /\ Listed(ty, k.object)
      /\ k = Object(F)
      /\ DOMAIN k.object = DOMAIN j.object
      /\ \A g \in DOMAIN j.object : g # f => k.object[g] = j.object[g]
      /\ k.object[f] = Whole(d, s)
      /\ Table(ty, k.object) = Table(ty, j.object)
      /\ Known(ty, k) = Known(ty, j)
  BY <1>1, ReplacedIs
<1>3. F = [g \in DOMAIN F |-> F[g]]  BY DEF With
<1>4. /\ IsObject(j) /\ Listed(ty, j.object)
      /\ Read(ty, j, a) = RelayedMembers(ty, j, a)
      /\ RelayedMembers(ty, j, a) # Refused
  BY ListedRead
<1>5. Alike(ty, j, a, k, b)  OBVIOUS
<1> HIDE DEF k, F
<1>6. Read(ty, k, b) = RelayedMembers(ty, k, b)  BY <1>2, ReadKnown
<1>7. f \in DOMAIN Table(ty, j.object)  BY DEF Known
<1>8. d.mode = "map" => d.ty = "Any"  BY <1>7, Tables
<1>9. /\ a[f] = [p \in DOMAIN Given(ty, j, f) |-> a[f][p]]
      /\ b[f] = [a[f] EXCEPT ![i] = b[f][i]]
  BY DEF Readings, Put
<1>10. d.mode # "vec" => DOMAIN Given(ty, j, f) = {1} /\ i = 1 /\ Whole(d, s) = x
  <2>1. ASSUME d.mode # "vec" PROVE DOMAIN Given(ty, j, f) = {1}
    BY <2>1, PartsFacts DEF Given
  <2>2. ASSUME d.mode # "vec" PROVE Whole(d, s) = s[1]
    BY <2>2, PartsFacts
  <2>3. s[i] = x  OBVIOUS
  <2>4. QED  BY <2>1, <2>2, <2>3
<1>11. ~Refuses(d, k.object[f], b[f])
  <2>1. ASSUME d.mode = "vec" PROVE IsList(k.object[f])
    <3>1. k.object[f] = List(s)  BY <1>2, <2>1 DEF Whole
    <3>2. QED  BY <3>1, Kinds
  <2>2. d.mode = "map" => IsObject(k.object[f])  BY <1>2, <1>8, <1>10 DEF Fresh
  <2>3. ASSUME NEW p \in DOMAIN b[f] PROVE b[f][p] # Refused
    <3>1. CASE p = i  BY <1>9, <3>1
    <3>2. CASE p # i
      <4>1. p \in DOMAIN Given(ty, j, f) /\ p \in DOMAIN a[f] /\ b[f][p] = a[f][p]
        BY <1>9, <3>2
      <4>2. d.mode = "vec"  BY <1>10, <3>2, <4>1
      <4>3. f \in Kept(ty, j)  BY <4>2, LeftOut
      <4>4. ~Refuses(d, j.object[f], a[f])  BY <1>4, <4>3, ReadMembers
      <4>5. QED  BY <4>1, <4>4 DEF Refuses
    <3>3. QED  BY <3>1, <3>2
  <2>4. QED  BY <2>1, <2>2, <2>3 DEF Refuses
<1>12. ASSUME NEW g \in Known(ty, j), g # f
       PROVE  k.object[g] = j.object[g] /\ b[g] = a[g]
  <2>1. g \in DOMAIN j.object  BY DEF Known
  <2>2. k.object[g] = j.object[g]  BY <1>2, <1>12, <2>1
  <2>3. QED  BY <1>2, <1>5, <2>2 DEF Alike
<1>13. Changed(ty, j, a, k, b, {f})
  BY <1>2, <1>4, <1>11, <1>12 DEF Changed
<1>14. RelayedMembers(ty, k, b) # Refused  BY <1>4, <1>13, ChangedReads
<1>15. ASSUME Read(ty, j, a) = j, b[f][i] = x
       PROVE  RelayedMembers(ty, k, b) = k
  <2>1. a[f] = Given(ty, j, f)  BY <1>15, PartStays
  <2>2. Whole(d, b[f]) = k.object[f]  BY <1>2, <1>9, <1>15, <2>1
  <2>3. ~Omitted(d, k.object[f])  BY ReplacedKept DEF k
  <2>9. RelayedMembers(ty, j, a) = j  BY <1>4, <1>15
  <2>10. \A g \in {f} : /\ ~Omitted(Table(ty, j.object)[g], k.object[g])
                        /\ Whole(Table(ty, j.object)[g], b[g]) = k.object[g]
    BY <2>2, <2>3
  <2>11. QED  BY <1>2, <1>3, <1>13, <2>9, <2>10, ChangedStays
<1>16. QED  BY <1>6, <1>14, <1>15 DEF k

(***************************************************************************)
(* News, level by level.                                                   *)
(***************************************************************************)

LEMMA News1Is ==
  ASSUME NEW ty, NEW j, NEW n \in News1(ty, j)
  PROVE  \/ n \in NewsAt(ty, j)
         \/ \E f \in Known(ty, j) : \E i \in DOMAIN Given(ty, j, f) :
              \E m \in News0(Table(ty, j.object)[f].ty, Given(ty, j, f)[i]) :
                n = New(m.kind, Replaced(ty, j, f, i, m.json))
BY DEF News1, NewsBy

LEMMA News1Form ==
  ASSUME NEW ty, NEW j, NEW n \in News1(ty, j)
  PROVE  Fresh(ty, j, n.json) /\ n.kind # "none"
<1>1. CASE n \in NewsAt(ty, j)  BY <1>1, NewsAtForm
<1>2. ASSUME NEW f \in Known(ty, j), NEW i \in DOMAIN Given(ty, j, f),
             NEW m \in News0(Table(ty, j.object)[f].ty, Given(ty, j, f)[i]),
             n = New(m.kind, Replaced(ty, j, f, i, m.json))
      PROVE  Fresh(ty, j, n.json) /\ n.kind # "none"
  <2>1. n.kind = m.kind /\ n.json = Replaced(ty, j, f, i, m.json)  BY <1>2, NewFields
  <2>2. Fresh(ty, j, n.json)  BY <2>1, ReplacedForm
  <2>3. m.kind # "none"  BY DEF News0
  <2>4. QED  BY <2>1, <2>2, <2>3
<1>3. QED  BY <1>1, <1>2, News1Is

LEMMA Alike1 ==
  ASSUME NEW ty, NEW j, NEW k
  PROVE  Alike(ty, j, Values0(ty, j), k, Values0(ty, k))
<1>1. ASSUME NEW f \in Known(ty, j) \cap Known(ty, k),
             Table(ty, k.object)[f] = Table(ty, j.object)[f], k.object[f] = j.object[f]
      PROVE  Values0(ty, k)[f] = Values0(ty, j)[f]
  <2>1. Given(ty, k, f) = Given(ty, j, f)  BY <1>1 DEF Given
  <2>2. Values0(ty, j)[f] = [p \in DOMAIN Given(ty, j, f) |-> Refused]
    BY Level1Is
  <2>3. Values0(ty, k)[f] = [p \in DOMAIN Given(ty, k, f) |-> Refused]
    BY Level1Is
  <2>4. QED  BY <1>1, <2>1, <2>2, <2>3
<1>2. QED  BY <1>1 DEF Alike

LEMMA News1Reads ==
  ASSUME NEW ty, NEW j, NEW n \in News1(ty, j), IsObject(j) => Relayed1(ty, j) # Refused
  PROVE  /\ n.kind # "class" => Relayed1(ty, n.json) # Refused
         /\ n.kind \in {"member", "tag"} /\ (IsObject(j) => Relayed1(ty, j) = j) =>
              Relayed1(ty, n.json) = n.json
<1> DEFINE a == Values0(ty, j)
           b == Values0(ty, n.json)
<1>1. Relayed1(ty, j) = Read(ty, j, a) /\ Relayed1(ty, n.json) = Read(ty, n.json, b)
  BY Level1Is
<1>2. Alike(ty, j, a, n.json, b)  BY Alike1
<1>3. CASE n \in NewsAt(ty, j)
  <2> HIDE DEF a, b
  <2>1. QED  BY <1>1, <1>2, <1>3, NewsAtReads
<1>4. QED  BY <1>3, News1Is DEF News0

LEMMA News2Is ==
  ASSUME NEW ty, NEW j, NEW n \in News2(ty, j)
  PROVE  \/ n \in NewsAt(ty, j)
         \/ \E f \in Known(ty, j) : \E i \in DOMAIN Given(ty, j, f) :
              \E m \in News1(Table(ty, j.object)[f].ty, Given(ty, j, f)[i]) :
                n = New(m.kind, Replaced(ty, j, f, i, m.json))
BY DEF News2, NewsBy

LEMMA News2Form ==
  ASSUME NEW ty, NEW j, NEW n \in News2(ty, j)
  PROVE  Fresh(ty, j, n.json) /\ n.kind # "none"
<1>1. CASE n \in NewsAt(ty, j)  BY <1>1, NewsAtForm
<1>2. ASSUME NEW f \in Known(ty, j), NEW i \in DOMAIN Given(ty, j, f),
             NEW m \in News1(Table(ty, j.object)[f].ty, Given(ty, j, f)[i]),
             n = New(m.kind, Replaced(ty, j, f, i, m.json))
      PROVE  Fresh(ty, j, n.json) /\ n.kind # "none"
  <2>1. n.kind = m.kind /\ n.json = Replaced(ty, j, f, i, m.json)  BY <1>2, NewFields
  <2>2. Fresh(ty, j, n.json)  BY <2>1, ReplacedForm
  <2>3. m.kind # "none"  BY News1Form
  <2>4. QED  BY <2>1, <2>2, <2>3
<1>3. QED  BY <1>1, <1>2, News2Is

LEMMA Alike2 ==
  ASSUME NEW ty, NEW j, NEW k
  PROVE  Alike(ty, j, Values1(ty, j), k, Values1(ty, k))
<1>1. ASSUME NEW f \in Known(ty, j) \cap Known(ty, k),
             Table(ty, k.object)[f] = Table(ty, j.object)[f], k.object[f] = j.object[f]
      PROVE  Values1(ty, k)[f] = Values1(ty, j)[f]
  <2>1. Given(ty, k, f) = Given(ty, j, f)  BY <1>1 DEF Given
  <2>2. Values1(ty, j)[f] = [p \in DOMAIN Given(ty, j, f) |-> Relayed1(Table(ty, j.object)[f].ty, Given(ty, j, f)[p])]
    BY Level2Is
  <2>3. Values1(ty, k)[f] = [p \in DOMAIN Given(ty, k, f) |-> Relayed1(Table(ty, k.object)[f].ty, Given(ty, k, f)[p])]
    BY Level2Is
  <2>4. QED  BY <1>1, <2>1, <2>2, <2>3
<1>2. QED  BY <1>1 DEF Alike

LEMMA News2Reads ==
  ASSUME NEW ty, NEW j, NEW n \in News2(ty, j), IsObject(j) => Relayed2(ty, j) # Refused
  PROVE  /\ n.kind # "class" => Relayed2(ty, n.json) # Refused
         /\ n.kind \in {"member", "tag"} /\ (IsObject(j) => Relayed2(ty, j) = j) =>
              Relayed2(ty, n.json) = n.json
<1> DEFINE a == Values1(ty, j)
           b == Values1(ty, n.json)
<1>1. Relayed2(ty, j) = Read(ty, j, a) /\ Relayed2(ty, n.json) = Read(ty, n.json, b)
  BY Level2Is
<1>2. Alike(ty, j, a, n.json, b)  BY Alike2
<1>3. CASE n \in NewsAt(ty, j)
  <2> HIDE DEF a, b
  <2>1. QED  BY <1>1, <1>2, <1>3, NewsAtReads
<1>4. ASSUME NEW f \in Known(ty, j), NEW i \in DOMAIN Given(ty, j, f),
             NEW m \in News1(Table(ty, j.object)[f].ty, Given(ty, j, f)[i]),
             n = New(m.kind, Replaced(ty, j, f, i, m.json)), n.kind # "class"
      PROVE  /\ Relayed2(ty, n.json) # Refused
             /\ n.kind \in {"member", "tag"} /\ Relayed2(ty, j) = j => Relayed2(ty, n.json) = n.json
  <2> DEFINE t == Table(ty, j.object)[f].ty
             g == Given(ty, j, f)[i]
             y == Relayed1(t, m.json)
  <2>1. n.kind = m.kind /\ n.json = Replaced(ty, j, f, i, m.json)  BY <1>4, NewFields
  <2>2. Fresh(t, g, m.json)  BY News1Form
  <2>3. Readings(ty, j, a)  BY Level2
  <2>4. IsObject(j) /\ Read(ty, j, a) # Refused  BY <1>1, KnownOnly
  <2>5. a[f] = [p \in DOMAIN Given(ty, j, f) |-> Relayed1(t, Given(ty, j, f)[p])]
    BY Level2Is
  <2>6. ASSUME IsObject(g) PROVE Relayed1(t, g) # Refused
    <3>1. CASE t = "Any"
      <4>1. Relayed1(t, g) = g  BY <3>1, Level1Is, Reading
      <4>2. QED  BY <2>6, <4>1, Others
    <3>2. CASE t # "Any"
      <4>1. a[f][i] # Refused  BY <2>3, <2>4, <2>6, <3>2, PartAccepted
      <4>2. QED  BY <2>5, <4>1
    <3>3. QED  BY <3>1, <3>2
  <2>7. /\ y # Refused
        /\ m.kind \in {"member", "tag"} /\ (IsObject(g) => Relayed1(t, g) = g) => y = m.json
    <3> HIDE DEF t, g
    <3>1. m.kind # "class" /\ m \in News1(t, g)  BY <1>4, <2>1 DEF t, g
    <3>2. QED  BY <2>6, <3>1, News1Reads
  <2>8. ty \in StructTypes \/ f # "kind"  BY <2>2, <2>3, <2>4, NotText
  <2>9. /\ Known(ty, n.json) = Known(ty, j)
        /\ Table(ty, n.json.object) = Table(ty, j.object)
        /\ Given(ty, n.json, f) = [Given(ty, j, f) EXCEPT ![i] = m.json]
    BY <2>1, <2>8, ReplacedIs
  <2>10. b[f] = [p \in DOMAIN Given(ty, n.json, f) |-> Relayed1(t, Given(ty, n.json, f)[p])]
    BY <2>9, Level2Is
  <2>11. b[f] = Put(a[f], i, b[f][i]) /\ b[f][i] = y
    <3> HIDE DEF a, b, t
    <3>1. /\ DOMAIN Given(ty, n.json, f) = DOMAIN Given(ty, j, f)
          /\ \A p \in DOMAIN Given(ty, j, f) :
               Given(ty, n.json, f)[p] = IF p = i THEN m.json ELSE Given(ty, j, f)[p]
      BY <2>9
    <3>2. b[f] = [p \in DOMAIN a[f] |-> IF p = i THEN y ELSE a[f][p]]
      BY <2>5, <2>10, <3>1
    <3>3. i \in DOMAIN a[f]  BY <2>5
    <3>4. b[f][i] = y  BY <3>2, <3>3
    <3>5. QED  BY <3>2, <3>4 DEF Put
  <2>12. /\ Read(ty, n.json, b) # Refused
         /\ Read(ty, j, a) = j /\ y = m.json => Read(ty, n.json, b) = n.json
    <3> HIDE DEF a, b, y
    <3>1. Alike(ty, j, a, Replaced(ty, j, f, i, m.json), b)  BY <1>2, <2>1
    <3>2. Fresh(Table(ty, j.object)[f].ty, Given(ty, j, f)[i], m.json)  BY <2>2
    <3>3. b[f][i] # Refused /\ Read(ty, j, a) # Refused  BY <2>4, <2>7, <2>11
    <3>4. b[f] = Put(a[f], i, b[f][i])  BY <2>11
    <3>5. /\ Read(ty, Replaced(ty, j, f, i, m.json), b) # Refused
          /\ Read(ty, j, a) = j /\ b[f][i] = m.json =>
               Read(ty, Replaced(ty, j, f, i, m.json), b) = Replaced(ty, j, f, i, m.json)
      BY ONLY <2>3, <3>1, <3>2, <3>3, <3>4, ReplacedReads,
              f \in Known(ty, j), i \in DOMAIN Given(ty, j, f)
    <3>6. QED  BY <2>1, <2>11, <3>5
  <2>13. ASSUME Relayed2(ty, j) = j PROVE Relayed1(t, g) = g
    <3>1. Read(ty, j, a) = j  BY <1>1, <2>13
    <3>2. a[f] = Given(ty, j, f)  BY ONLY <2>3, <3>1, PartStays, f \in Known(ty, j)
    <3>3. QED  BY <2>5, <3>2
  <2>14. QED  BY <1>1, <2>1, <2>7, <2>12, <2>13
<1>5. ASSUME NEW f \in Known(ty, j), NEW i \in DOMAIN Given(ty, j, f),
             NEW m \in News1(Table(ty, j.object)[f].ty, Given(ty, j, f)[i]),
             n = New(m.kind, Replaced(ty, j, f, i, m.json))
      PROVE  /\ n.kind # "class" => Relayed2(ty, n.json) # Refused
             /\ n.kind \in {"member", "tag"} /\ (IsObject(j) => Relayed2(ty, j) = j) =>
                  Relayed2(ty, n.json) = n.json
  <2>1. IsObject(j)  BY KnownOnly
  <2>2. n.kind \in {"member", "tag"} => n.kind # "class"  OBVIOUS
  <2>3. QED  BY <1>4, <1>5, <2>1, <2>2
<1>6. QED  BY <1>3, <1>5, News2Is

LEMMA News3Is ==
  ASSUME NEW ty, NEW j, NEW n \in News3(ty, j)
  PROVE  \/ n \in NewsAt(ty, j)
         \/ \E f \in Known(ty, j) : \E i \in DOMAIN Given(ty, j, f) :
              \E m \in News2(Table(ty, j.object)[f].ty, Given(ty, j, f)[i]) :
                n = New(m.kind, Replaced(ty, j, f, i, m.json))
BY DEF News3, NewsBy

LEMMA News3Form ==
  ASSUME NEW ty, NEW j, NEW n \in News3(ty, j)
  PROVE  Fresh(ty, j, n.json) /\ n.kind # "none"
<1>1. CASE n \in NewsAt(ty, j)  BY <1>1, NewsAtForm
<1>2. ASSUME NEW f \in Known(ty, j), NEW i \in DOMAIN Given(ty, j, f),
             NEW m \in News2(Table(ty, j.object)[f].ty, Given(ty, j, f)[i]),
             n = New(m.kind, Replaced(ty, j, f, i, m.json))
      PROVE  Fresh(ty, j, n.json) /\ n.kind # "none"
  <2>1. n.kind = m.kind /\ n.json = Replaced(ty, j, f, i, m.json)  BY <1>2, NewFields
  <2>2. Fresh(ty, j, n.json)  BY <2>1, ReplacedForm
  <2>3. m.kind # "none"  BY News2Form
  <2>4. QED  BY <2>1, <2>2, <2>3
<1>3. QED  BY <1>1, <1>2, News3Is

LEMMA Alike3 ==
  ASSUME NEW ty, NEW j, NEW k
  PROVE  Alike(ty, j, Values2(ty, j), k, Values2(ty, k))
<1>1. ASSUME NEW f \in Known(ty, j) \cap Known(ty, k),
             Table(ty, k.object)[f] = Table(ty, j.object)[f], k.object[f] = j.object[f]
      PROVE  Values2(ty, k)[f] = Values2(ty, j)[f]
  <2>1. Given(ty, k, f) = Given(ty, j, f)  BY <1>1 DEF Given
  <2>2. Values2(ty, j)[f] = [p \in DOMAIN Given(ty, j, f) |-> Relayed2(Table(ty, j.object)[f].ty, Given(ty, j, f)[p])]
    BY Level3Is
  <2>3. Values2(ty, k)[f] = [p \in DOMAIN Given(ty, k, f) |-> Relayed2(Table(ty, k.object)[f].ty, Given(ty, k, f)[p])]
    BY Level3Is
  <2>4. QED  BY <1>1, <2>1, <2>2, <2>3
<1>2. QED  BY <1>1 DEF Alike

LEMMA News3Reads ==
  ASSUME NEW ty, NEW j, NEW n \in News3(ty, j), IsObject(j) => Relayed3(ty, j) # Refused
  PROVE  /\ n.kind # "class" => Relayed3(ty, n.json) # Refused
         /\ n.kind \in {"member", "tag"} /\ (IsObject(j) => Relayed3(ty, j) = j) =>
              Relayed3(ty, n.json) = n.json
<1> DEFINE a == Values2(ty, j)
           b == Values2(ty, n.json)
<1>1. Relayed3(ty, j) = Read(ty, j, a) /\ Relayed3(ty, n.json) = Read(ty, n.json, b)
  BY Level3Is
<1>2. Alike(ty, j, a, n.json, b)  BY Alike3
<1>3. CASE n \in NewsAt(ty, j)
  <2> HIDE DEF a, b
  <2>1. QED  BY <1>1, <1>2, <1>3, NewsAtReads
<1>4. ASSUME NEW f \in Known(ty, j), NEW i \in DOMAIN Given(ty, j, f),
             NEW m \in News2(Table(ty, j.object)[f].ty, Given(ty, j, f)[i]),
             n = New(m.kind, Replaced(ty, j, f, i, m.json)), n.kind # "class"
      PROVE  /\ Relayed3(ty, n.json) # Refused
             /\ n.kind \in {"member", "tag"} /\ Relayed3(ty, j) = j => Relayed3(ty, n.json) = n.json
  <2> DEFINE t == Table(ty, j.object)[f].ty
             g == Given(ty, j, f)[i]
             y == Relayed2(t, m.json)
  <2>1. n.kind = m.kind /\ n.json = Replaced(ty, j, f, i, m.json)  BY <1>4, NewFields
  <2>2. Fresh(t, g, m.json)  BY News2Form
  <2>3. Readings(ty, j, a)  BY Level3
  <2>4. IsObject(j) /\ Read(ty, j, a) # Refused  BY <1>1, KnownOnly
  <2>5. a[f] = [p \in DOMAIN Given(ty, j, f) |-> Relayed2(t, Given(ty, j, f)[p])]
    BY Level3Is
  <2>6. ASSUME IsObject(g) PROVE Relayed2(t, g) # Refused
    <3>1. CASE t = "Any"
      <4>1. Relayed2(t, g) = g  BY <3>1, Level2Is, Reading
      <4>2. QED  BY <2>6, <4>1, Others
    <3>2. CASE t # "Any"
      <4>1. a[f][i] # Refused  BY <2>3, <2>4, <2>6, <3>2, PartAccepted
      <4>2. QED  BY <2>5, <4>1
    <3>3. QED  BY <3>1, <3>2
  <2>7. /\ y # Refused
        /\ m.kind \in {"member", "tag"} /\ (IsObject(g) => Relayed2(t, g) = g) => y = m.json
    <3> HIDE DEF t, g
    <3>1. m.kind # "class" /\ m \in News2(t, g)  BY <1>4, <2>1 DEF t, g
    <3>2. QED  BY <2>6, <3>1, News2Reads
  <2>8. ty \in StructTypes \/ f # "kind"  BY <2>2, <2>3, <2>4, NotText
  <2>9. /\ Known(ty, n.json) = Known(ty, j)
        /\ Table(ty, n.json.object) = Table(ty, j.object)
        /\ Given(ty, n.json, f) = [Given(ty, j, f) EXCEPT ![i] = m.json]
    BY <2>1, <2>8, ReplacedIs
  <2>10. b[f] = [p \in DOMAIN Given(ty, n.json, f) |-> Relayed2(t, Given(ty, n.json, f)[p])]
    BY <2>9, Level3Is
  <2>11. b[f] = Put(a[f], i, b[f][i]) /\ b[f][i] = y
    <3> HIDE DEF a, b, t
    <3>1. /\ DOMAIN Given(ty, n.json, f) = DOMAIN Given(ty, j, f)
          /\ \A p \in DOMAIN Given(ty, j, f) :
               Given(ty, n.json, f)[p] = IF p = i THEN m.json ELSE Given(ty, j, f)[p]
      BY <2>9
    <3>2. b[f] = [p \in DOMAIN a[f] |-> IF p = i THEN y ELSE a[f][p]]
      BY <2>5, <2>10, <3>1
    <3>3. i \in DOMAIN a[f]  BY <2>5
    <3>4. b[f][i] = y  BY <3>2, <3>3
    <3>5. QED  BY <3>2, <3>4 DEF Put
  <2>12. /\ Read(ty, n.json, b) # Refused
         /\ Read(ty, j, a) = j /\ y = m.json => Read(ty, n.json, b) = n.json
    <3> HIDE DEF a, b, y
    <3>1. Alike(ty, j, a, Replaced(ty, j, f, i, m.json), b)  BY <1>2, <2>1
    <3>2. Fresh(Table(ty, j.object)[f].ty, Given(ty, j, f)[i], m.json)  BY <2>2
    <3>3. b[f][i] # Refused /\ Read(ty, j, a) # Refused  BY <2>4, <2>7, <2>11
    <3>4. b[f] = Put(a[f], i, b[f][i])  BY <2>11
    <3>5. /\ Read(ty, Replaced(ty, j, f, i, m.json), b) # Refused
          /\ Read(ty, j, a) = j /\ b[f][i] = m.json =>
               Read(ty, Replaced(ty, j, f, i, m.json), b) = Replaced(ty, j, f, i, m.json)
      BY ONLY <2>3, <3>1, <3>2, <3>3, <3>4, ReplacedReads,
              f \in Known(ty, j), i \in DOMAIN Given(ty, j, f)
    <3>6. QED  BY <2>1, <2>11, <3>5
  <2>13. ASSUME Relayed3(ty, j) = j PROVE Relayed2(t, g) = g
    <3>1. Read(ty, j, a) = j  BY <1>1, <2>13
    <3>2. a[f] = Given(ty, j, f)  BY ONLY <2>3, <3>1, PartStays, f \in Known(ty, j)
    <3>3. QED  BY <2>5, <3>2
  <2>14. QED  BY <1>1, <2>1, <2>7, <2>12, <2>13
<1>5. ASSUME NEW f \in Known(ty, j), NEW i \in DOMAIN Given(ty, j, f),
             NEW m \in News2(Table(ty, j.object)[f].ty, Given(ty, j, f)[i]),
             n = New(m.kind, Replaced(ty, j, f, i, m.json))
      PROVE  /\ n.kind # "class" => Relayed3(ty, n.json) # Refused
             /\ n.kind \in {"member", "tag"} /\ (IsObject(j) => Relayed3(ty, j) = j) =>
                  Relayed3(ty, n.json) = n.json
  <2>1. IsObject(j)  BY KnownOnly
  <2>2. n.kind \in {"member", "tag"} => n.kind # "class"  OBVIOUS
  <2>3. QED  BY <1>4, <1>5, <2>1, <2>2
<1>6. QED  BY <1>3, <1>5, News3Is

LEMMA News4Is ==
  ASSUME NEW ty, NEW j, NEW n \in News4(ty, j)
  PROVE  \/ n \in NewsAt(ty, j)
         \/ \E f \in Known(ty, j) : \E i \in DOMAIN Given(ty, j, f) :
              \E m \in News3(Table(ty, j.object)[f].ty, Given(ty, j, f)[i]) :
                n = New(m.kind, Replaced(ty, j, f, i, m.json))
BY DEF News4, NewsBy

LEMMA News4Form ==
  ASSUME NEW ty, NEW j, NEW n \in News4(ty, j)
  PROVE  Fresh(ty, j, n.json) /\ n.kind # "none"
<1>1. CASE n \in NewsAt(ty, j)  BY <1>1, NewsAtForm
<1>2. ASSUME NEW f \in Known(ty, j), NEW i \in DOMAIN Given(ty, j, f),
             NEW m \in News3(Table(ty, j.object)[f].ty, Given(ty, j, f)[i]),
             n = New(m.kind, Replaced(ty, j, f, i, m.json))
      PROVE  Fresh(ty, j, n.json) /\ n.kind # "none"
  <2>1. n.kind = m.kind /\ n.json = Replaced(ty, j, f, i, m.json)  BY <1>2, NewFields
  <2>2. Fresh(ty, j, n.json)  BY <2>1, ReplacedForm
  <2>3. m.kind # "none"  BY News3Form
  <2>4. QED  BY <2>1, <2>2, <2>3
<1>3. QED  BY <1>1, <1>2, News4Is

LEMMA Alike4 ==
  ASSUME NEW ty, NEW j, NEW k
  PROVE  Alike(ty, j, Values3(ty, j), k, Values3(ty, k))
<1>1. ASSUME NEW f \in Known(ty, j) \cap Known(ty, k),
             Table(ty, k.object)[f] = Table(ty, j.object)[f], k.object[f] = j.object[f]
      PROVE  Values3(ty, k)[f] = Values3(ty, j)[f]
  <2>1. Given(ty, k, f) = Given(ty, j, f)  BY <1>1 DEF Given
  <2>2. Values3(ty, j)[f] = [p \in DOMAIN Given(ty, j, f) |-> Relayed3(Table(ty, j.object)[f].ty, Given(ty, j, f)[p])]
    BY Level4Is
  <2>3. Values3(ty, k)[f] = [p \in DOMAIN Given(ty, k, f) |-> Relayed3(Table(ty, k.object)[f].ty, Given(ty, k, f)[p])]
    BY Level4Is
  <2>4. QED  BY <1>1, <2>1, <2>2, <2>3
<1>2. QED  BY <1>1 DEF Alike

LEMMA News4Reads ==
  ASSUME NEW ty, NEW j, NEW n \in News4(ty, j), IsObject(j) => Relayed4(ty, j) # Refused
  PROVE  /\ n.kind # "class" => Relayed4(ty, n.json) # Refused
         /\ n.kind \in {"member", "tag"} /\ (IsObject(j) => Relayed4(ty, j) = j) =>
              Relayed4(ty, n.json) = n.json
<1> DEFINE a == Values3(ty, j)
           b == Values3(ty, n.json)
<1>1. Relayed4(ty, j) = Read(ty, j, a) /\ Relayed4(ty, n.json) = Read(ty, n.json, b)
  BY Level4Is
<1>2. Alike(ty, j, a, n.json, b)  BY Alike4
<1>3. CASE n \in NewsAt(ty, j)
  <2> HIDE DEF a, b
  <2>1. QED  BY <1>1, <1>2, <1>3, NewsAtReads
<1>4. ASSUME NEW f \in Known(ty, j), NEW i \in DOMAIN Given(ty, j, f),
             NEW m \in News3(Table(ty, j.object)[f].ty, Given(ty, j, f)[i]),
             n = New(m.kind, Replaced(ty, j, f, i, m.json)), n.kind # "class"
      PROVE  /\ Relayed4(ty, n.json) # Refused
             /\ n.kind \in {"member", "tag"} /\ Relayed4(ty, j) = j => Relayed4(ty, n.json) = n.json
  <2> DEFINE t == Table(ty, j.object)[f].ty
             g == Given(ty, j, f)[i]
             y == Relayed3(t, m.json)
  <2>1. n.kind = m.kind /\ n.json = Replaced(ty, j, f, i, m.json)  BY <1>4, NewFields
  <2>2. Fresh(t, g, m.json)  BY News3Form
  <2>3. Readings(ty, j, a)  BY Level4
  <2>4. IsObject(j) /\ Read(ty, j, a) # Refused  BY <1>1, KnownOnly
  <2>5. a[f] = [p \in DOMAIN Given(ty, j, f) |-> Relayed3(t, Given(ty, j, f)[p])]
    BY Level4Is
  <2>6. ASSUME IsObject(g) PROVE Relayed3(t, g) # Refused
    <3>1. CASE t = "Any"
      <4>1. Relayed3(t, g) = g  BY <3>1, Level3Is, Reading
      <4>2. QED  BY <2>6, <4>1, Others
    <3>2. CASE t # "Any"
      <4>1. a[f][i] # Refused  BY <2>3, <2>4, <2>6, <3>2, PartAccepted
      <4>2. QED  BY <2>5, <4>1
    <3>3. QED  BY <3>1, <3>2
  <2>7. /\ y # Refused
        /\ m.kind \in {"member", "tag"} /\ (IsObject(g) => Relayed3(t, g) = g) => y = m.json
    <3> HIDE DEF t, g
    <3>1. m.kind # "class" /\ m \in News3(t, g)  BY <1>4, <2>1 DEF t, g
    <3>2. QED  BY <2>6, <3>1, News3Reads
  <2>8. ty \in StructTypes \/ f # "kind"  BY <2>2, <2>3, <2>4, NotText
  <2>9. /\ Known(ty, n.json) = Known(ty, j)
        /\ Table(ty, n.json.object) = Table(ty, j.object)
        /\ Given(ty, n.json, f) = [Given(ty, j, f) EXCEPT ![i] = m.json]
    BY <2>1, <2>8, ReplacedIs
  <2>10. b[f] = [p \in DOMAIN Given(ty, n.json, f) |-> Relayed3(t, Given(ty, n.json, f)[p])]
    BY <2>9, Level4Is
  <2>11. b[f] = Put(a[f], i, b[f][i]) /\ b[f][i] = y
    <3> HIDE DEF a, b, t
    <3>1. /\ DOMAIN Given(ty, n.json, f) = DOMAIN Given(ty, j, f)
          /\ \A p \in DOMAIN Given(ty, j, f) :
               Given(ty, n.json, f)[p] = IF p = i THEN m.json ELSE Given(ty, j, f)[p]
      BY <2>9
    <3>2. b[f] = [p \in DOMAIN a[f] |-> IF p = i THEN y ELSE a[f][p]]
      BY <2>5, <2>10, <3>1
    <3>3. i \in DOMAIN a[f]  BY <2>5
    <3>4. b[f][i] = y  BY <3>2, <3>3
    <3>5. QED  BY <3>2, <3>4 DEF Put
  <2>12. /\ Read(ty, n.json, b) # Refused
         /\ Read(ty, j, a) = j /\ y = m.json => Read(ty, n.json, b) = n.json
    <3> HIDE DEF a, b, y
    <3>1. Alike(ty, j, a, Replaced(ty, j, f, i, m.json), b)  BY <1>2, <2>1
    <3>2. Fresh(Table(ty, j.object)[f].ty, Given(ty, j, f)[i], m.json)  BY <2>2
    <3>3. b[f][i] # Refused /\ Read(ty, j, a) # Refused  BY <2>4, <2>7, <2>11
    <3>4. b[f] = Put(a[f], i, b[f][i])  BY <2>11
    <3>5. /\ Read(ty, Replaced(ty, j, f, i, m.json), b) # Refused
          /\ Read(ty, j, a) = j /\ b[f][i] = m.json =>
               Read(ty, Replaced(ty, j, f, i, m.json), b) = Replaced(ty, j, f, i, m.json)
      BY ONLY <2>3, <3>1, <3>2, <3>3, <3>4, ReplacedReads,
              f \in Known(ty, j), i \in DOMAIN Given(ty, j, f)
    <3>6. QED  BY <2>1, <2>11, <3>5
  <2>13. ASSUME Relayed4(ty, j) = j PROVE Relayed3(t, g) = g
    <3>1. Read(ty, j, a) = j  BY <1>1, <2>13
    <3>2. a[f] = Given(ty, j, f)  BY ONLY <2>3, <3>1, PartStays, f \in Known(ty, j)
    <3>3. QED  BY <2>5, <3>2
  <2>14. QED  BY <1>1, <2>1, <2>7, <2>12, <2>13
<1>5. ASSUME NEW f \in Known(ty, j), NEW i \in DOMAIN Given(ty, j, f),
             NEW m \in News3(Table(ty, j.object)[f].ty, Given(ty, j, f)[i]),
             n = New(m.kind, Replaced(ty, j, f, i, m.json))
      PROVE  /\ n.kind # "class" => Relayed4(ty, n.json) # Refused
             /\ n.kind \in {"member", "tag"} /\ (IsObject(j) => Relayed4(ty, j) = j) =>
                  Relayed4(ty, n.json) = n.json
  <2>1. IsObject(j)  BY KnownOnly
  <2>2. n.kind \in {"member", "tag"} => n.kind # "class"  OBVIOUS
  <2>3. QED  BY <1>4, <1>5, <2>1, <2>2
<1>6. QED  BY <1>3, <1>5, News4Is

LEMMA News5Is ==
  ASSUME NEW ty, NEW j, NEW n \in News(ty, j)
  PROVE  \/ n \in NewsAt(ty, j)
         \/ \E f \in Known(ty, j) : \E i \in DOMAIN Given(ty, j, f) :
              \E m \in News4(Table(ty, j.object)[f].ty, Given(ty, j, f)[i]) :
                n = New(m.kind, Replaced(ty, j, f, i, m.json))
BY DEF News, NewsBy

LEMMA News5Form ==
  ASSUME NEW ty, NEW j, NEW n \in News(ty, j)
  PROVE  Fresh(ty, j, n.json) /\ n.kind # "none"
<1>1. CASE n \in NewsAt(ty, j)  BY <1>1, NewsAtForm
<1>2. ASSUME NEW f \in Known(ty, j), NEW i \in DOMAIN Given(ty, j, f),
             NEW m \in News4(Table(ty, j.object)[f].ty, Given(ty, j, f)[i]),
             n = New(m.kind, Replaced(ty, j, f, i, m.json))
      PROVE  Fresh(ty, j, n.json) /\ n.kind # "none"
  <2>1. n.kind = m.kind /\ n.json = Replaced(ty, j, f, i, m.json)  BY <1>2, NewFields
  <2>2. Fresh(ty, j, n.json)  BY <2>1, ReplacedForm
  <2>3. m.kind # "none"  BY News4Form
  <2>4. QED  BY <2>1, <2>2, <2>3
<1>3. QED  BY <1>1, <1>2, News5Is

LEMMA Alike5 ==
  ASSUME NEW ty, NEW j, NEW k
  PROVE  Alike(ty, j, Values4(ty, j), k, Values4(ty, k))
<1>1. ASSUME NEW f \in Known(ty, j) \cap Known(ty, k),
             Table(ty, k.object)[f] = Table(ty, j.object)[f], k.object[f] = j.object[f]
      PROVE  Values4(ty, k)[f] = Values4(ty, j)[f]
  <2>1. Given(ty, k, f) = Given(ty, j, f)  BY <1>1 DEF Given
  <2>2. Values4(ty, j)[f] = [p \in DOMAIN Given(ty, j, f) |-> Relayed4(Table(ty, j.object)[f].ty, Given(ty, j, f)[p])]
    BY Level5Is
  <2>3. Values4(ty, k)[f] = [p \in DOMAIN Given(ty, k, f) |-> Relayed4(Table(ty, k.object)[f].ty, Given(ty, k, f)[p])]
    BY Level5Is
  <2>4. QED  BY <1>1, <2>1, <2>2, <2>3
<1>2. QED  BY <1>1 DEF Alike

LEMMA News5Reads ==
  ASSUME NEW ty, NEW j, NEW n \in News(ty, j), IsObject(j) => Relayed(ty, j) # Refused
  PROVE  /\ n.kind # "class" => Relayed(ty, n.json) # Refused
         /\ n.kind \in {"member", "tag"} /\ (IsObject(j) => Relayed(ty, j) = j) =>
              Relayed(ty, n.json) = n.json
<1> DEFINE a == Values4(ty, j)
           b == Values4(ty, n.json)
<1>1. Relayed(ty, j) = Read(ty, j, a) /\ Relayed(ty, n.json) = Read(ty, n.json, b)
  BY Level5Is
<1>2. Alike(ty, j, a, n.json, b)  BY Alike5
<1>3. CASE n \in NewsAt(ty, j)
  <2> HIDE DEF a, b
  <2>1. QED  BY <1>1, <1>2, <1>3, NewsAtReads
<1>4. ASSUME NEW f \in Known(ty, j), NEW i \in DOMAIN Given(ty, j, f),
             NEW m \in News4(Table(ty, j.object)[f].ty, Given(ty, j, f)[i]),
             n = New(m.kind, Replaced(ty, j, f, i, m.json)), n.kind # "class"
      PROVE  /\ Relayed(ty, n.json) # Refused
             /\ n.kind \in {"member", "tag"} /\ Relayed(ty, j) = j => Relayed(ty, n.json) = n.json
  <2> DEFINE t == Table(ty, j.object)[f].ty
             g == Given(ty, j, f)[i]
             y == Relayed4(t, m.json)
  <2>1. n.kind = m.kind /\ n.json = Replaced(ty, j, f, i, m.json)  BY <1>4, NewFields
  <2>2. Fresh(t, g, m.json)  BY News4Form
  <2>3. Readings(ty, j, a)  BY Level5
  <2>4. IsObject(j) /\ Read(ty, j, a) # Refused  BY <1>1, KnownOnly
  <2>5. a[f] = [p \in DOMAIN Given(ty, j, f) |-> Relayed4(t, Given(ty, j, f)[p])]
    BY Level5Is
  <2>6. ASSUME IsObject(g) PROVE Relayed4(t, g) # Refused
    <3>1. CASE t = "Any"
      <4>1. Relayed4(t, g) = g  BY <3>1, Level4Is, Reading
      <4>2. QED  BY <2>6, <4>1, Others
    <3>2. CASE t # "Any"
      <4>1. a[f][i] # Refused  BY <2>3, <2>4, <2>6, <3>2, PartAccepted
      <4>2. QED  BY <2>5, <4>1
    <3>3. QED  BY <3>1, <3>2
  <2>7. /\ y # Refused
        /\ m.kind \in {"member", "tag"} /\ (IsObject(g) => Relayed4(t, g) = g) => y = m.json
    <3> HIDE DEF t, g
    <3>1. m.kind # "class" /\ m \in News4(t, g)  BY <1>4, <2>1 DEF t, g
    <3>2. QED  BY <2>6, <3>1, News4Reads
  <2>8. ty \in StructTypes \/ f # "kind"  BY <2>2, <2>3, <2>4, NotText
  <2>9. /\ Known(ty, n.json) = Known(ty, j)
        /\ Table(ty, n.json.object) = Table(ty, j.object)
        /\ Given(ty, n.json, f) = [Given(ty, j, f) EXCEPT ![i] = m.json]
    BY <2>1, <2>8, ReplacedIs
  <2>10. b[f] = [p \in DOMAIN Given(ty, n.json, f) |-> Relayed4(t, Given(ty, n.json, f)[p])]
    BY <2>9, Level5Is
  <2>11. b[f] = Put(a[f], i, b[f][i]) /\ b[f][i] = y
    <3> HIDE DEF a, b, t
    <3>1. /\ DOMAIN Given(ty, n.json, f) = DOMAIN Given(ty, j, f)
          /\ \A p \in DOMAIN Given(ty, j, f) :
               Given(ty, n.json, f)[p] = IF p = i THEN m.json ELSE Given(ty, j, f)[p]
      BY <2>9
    <3>2. b[f] = [p \in DOMAIN a[f] |-> IF p = i THEN y ELSE a[f][p]]
      BY <2>5, <2>10, <3>1
    <3>3. i \in DOMAIN a[f]  BY <2>5
    <3>4. b[f][i] = y  BY <3>2, <3>3
    <3>5. QED  BY <3>2, <3>4 DEF Put
  <2>12. /\ Read(ty, n.json, b) # Refused
         /\ Read(ty, j, a) = j /\ y = m.json => Read(ty, n.json, b) = n.json
    <3> HIDE DEF a, b, y
    <3>1. Alike(ty, j, a, Replaced(ty, j, f, i, m.json), b)  BY <1>2, <2>1
    <3>2. Fresh(Table(ty, j.object)[f].ty, Given(ty, j, f)[i], m.json)  BY <2>2
    <3>3. b[f][i] # Refused /\ Read(ty, j, a) # Refused  BY <2>4, <2>7, <2>11
    <3>4. b[f] = Put(a[f], i, b[f][i])  BY <2>11
    <3>5. /\ Read(ty, Replaced(ty, j, f, i, m.json), b) # Refused
          /\ Read(ty, j, a) = j /\ b[f][i] = m.json =>
               Read(ty, Replaced(ty, j, f, i, m.json), b) = Replaced(ty, j, f, i, m.json)
      BY ONLY <2>3, <3>1, <3>2, <3>3, <3>4, ReplacedReads,
              f \in Known(ty, j), i \in DOMAIN Given(ty, j, f)
    <3>6. QED  BY <2>1, <2>11, <3>5
  <2>13. ASSUME Relayed(ty, j) = j PROVE Relayed4(t, g) = g
    <3>1. Read(ty, j, a) = j  BY <1>1, <2>13
    <3>2. a[f] = Given(ty, j, f)  BY ONLY <2>3, <3>1, PartStays, f \in Known(ty, j)
    <3>3. QED  BY <2>5, <3>2
  <2>14. QED  BY <1>1, <2>1, <2>7, <2>12, <2>13
<1>5. ASSUME NEW f \in Known(ty, j), NEW i \in DOMAIN Given(ty, j, f),
             NEW m \in News4(Table(ty, j.object)[f].ty, Given(ty, j, f)[i]),
             n = New(m.kind, Replaced(ty, j, f, i, m.json))
      PROVE  /\ n.kind # "class" => Relayed(ty, n.json) # Refused
             /\ n.kind \in {"member", "tag"} /\ (IsObject(j) => Relayed(ty, j) = j) =>
                  Relayed(ty, n.json) = n.json
  <2>1. IsObject(j)  BY KnownOnly
  <2>2. n.kind \in {"member", "tag"} => n.kind # "class"  OBVIOUS
  <2>3. QED  BY <1>4, <1>5, <2>1, <2>2
<1>6. QED  BY <1>3, <1>5, News5Is

(***************************************************************************)
(* What arrives.                                                           *)
(***************************************************************************)

\* What Keeps lets a reader drop.
Nothing == {Null, Text("0"), List(<<>>), Object(<<>>)}

\* What is read of member f of k is what is in it.
Faithful(ty, k, b, f) ==
  \/ k.object[f] \in Nothing
  \/ f \in Kept(ty, k) /\ Whole(Table(ty, k.object)[f], b[f]) = k.object[f]
  \/ f \in Unknown(ty, k.object)

LEMMA Arrives ==
  ASSUME NEW ty, NEW k, NEW b, RelayedMembers(ty, k, b) # Refused,
         \A f \in DOMAIN k.object : Faithful(ty, k, b, f)
  PROVE  Keeps(k, RelayedMembers(ty, k, b))
<1> DEFINE F == [f \in Kept(ty, k) \cup Unknown(ty, k.object) |->
                   IF f \in Kept(ty, k) THEN Whole(Table(ty, k.object)[f], b[f])
                   ELSE k.object[f]]
           out == RelayedMembers(ty, k, b)
<1>1. out = Object(F)  BY ReadMembers
<1>2. IsObject(out) /\ out.object = F  BY <1>1, Kinds
<1>3. Kept(ty, k) \cap Unknown(ty, k.object) = {}  BY DEF Kept, Known, Unknown
<1> HIDE DEF out
<1>4. ASSUME NEW f \in DOMAIN k.object, k.object[f] \notin Nothing
      PROVE  f \in DOMAIN out.object /\ out.object[f] = k.object[f]
  BY <1>2, <1>3, <1>4 DEF Faithful
<1>5. QED  BY <1>2, <1>4 DEF Keeps, Nothing, out

\* base is line l after some edits.
Edited(ty, l, k) ==
  /\ IsObject(k)
  /\ DOMAIN k.object \subseteq DOMAIN l.object
  /\ \A f \in DOMAIN k.object :
       \/ k.object[f] \in {l.object[f], Null, Wrong, List(<<>>), Object(<<>>)}
       \/ k.object[f] = Text("0") /\ (ty = "PathRef" => f # "kind")

LEMMA EditEdits ==
  ASSUME NEW ty, NEW l, NEW k, Edited(ty, l, k), NEW e \in Edits(ty, k)
  PROVE  Edited(ty, l, e)
<1>1. PICK f \in DOMAIN k.object :
        \/ e = Object(Without(k.object, f))
        \/ \E v \in Blanks(ty, k, f) : e = Object(With(k.object, f, v))
  BY DEF Edits
<1>2. CASE e = Object(Without(k.object, f))
  <2>1. IsObject(e) /\ e.object = Without(k.object, f)  BY <1>2, Kinds
  <2>2. /\ DOMAIN e.object \subseteq DOMAIN k.object
        /\ \A g \in DOMAIN e.object : e.object[g] = k.object[g]
    BY <2>1 DEF Without
  <2>3. QED  BY <2>1, <2>2 DEF Edited
<1>3. ASSUME NEW v \in Blanks(ty, k, f), e = Object(With(k.object, f, v))
      PROVE  Edited(ty, l, e)
  <2>1. IsObject(e) /\ e.object = With(k.object, f, v)  BY <1>3, Kinds
  <2>2. /\ DOMAIN e.object = DOMAIN k.object
        /\ e.object[f] = v
        /\ \A g \in DOMAIN e.object : g # f => e.object[g] = k.object[g]
    <3>1. DOMAIN e.object = DOMAIN k.object \cup {f}  BY <2>1, WithDomain
    <3>2. DOMAIN e.object = DOMAIN k.object  BY <3>1
    <3>3. e.object[f] = v  BY <2>1, WithNew
    <3>4. \A g \in DOMAIN k.object : g # f => e.object[g] = k.object[g]
      BY <2>1, WithOld
    <3>5. QED  BY <3>2, <3>3, <3>4
  <2>3. \/ v \in {Null, Wrong, List(<<>>), Object(<<>>)}
        \/ v = Text("0") /\ f \in Known(ty, k) /\ Table(ty, k.object)[f].mode = "zero"
    BY DEF Blanks
  <2>4. ASSUME f \in Known(ty, k), Table(ty, k.object)[f].mode = "zero", ty = "PathRef"
        PROVE  f # "kind"
    <3>1. ty \notin StructTypes  BY <2>4, TableAssumption
    <3>2. HasKind(k.object) /\ k.object["kind"].text \in Tagged
      BY <2>4, <3>1, KnownOnly DEF Listed
    <3>3. Table(ty, k.object)["kind"] = [mode |-> "must", ty |-> "Text"]
      BY <2>4, <3>2, KindMember
    <3>4. QED  BY <2>4, <3>3
  <2>5. QED  BY <2>1, <2>2, <2>3, <2>4 DEF Edited
<1>4. QED  BY <1>1, <1>2, <1>3

\* A line of this release, edited, that is read.
LEMMA EditedRead ==
  ASSUME NEW ty, NEW l, IsObject(l), Relayed(ty, l) = l, ty # "Any",
         NEW k, Edited(ty, l, k), Relayed(ty, k) # Refused
  PROVE  \/ /\ Listed(ty, k.object)
            /\ Relayed(ty, k) = RelayedMembers(ty, k, Values4(ty, k))
            /\ \A f \in DOMAIN k.object : Faithful(ty, k, Values4(ty, k), f)
         \/ /\ ty = "PathRef" /\ ty \notin StructTypes
            /\ Known(ty, k) = {}
            /\ Keeps(k, Relayed(ty, k))
<1> DEFINE a == Values4(ty, l)
           b == Values4(ty, k)
<1>1. Relayed(ty, l) = Read(ty, l, a) /\ Relayed(ty, k) = Read(ty, k, b)  BY Level5Is
<1>2. IsObject(k)  BY DEF Edited
<1>3. Read(ty, l, a) # Refused  BY <1>1, Others
<1>4. Readings(ty, k, b) /\ Readings(ty, l, a)  BY Level5
<1>5. Alike(ty, l, a, k, b)  BY Alike5
<1>6. Read(ty, l, a) = l /\ Read(ty, k, b) # Refused  BY <1>1
<1> HIDE DEF a, b
<1>7. ASSUME ty = "PathRef", HasKind(k.object)
      PROVE  HasKind(l.object) /\ k.object["kind"] = l.object["kind"]
  <2>1. "kind" \in DOMAIN k.object /\ IsText(k.object["kind"])  BY <1>7 DEF HasKind
  <2>2. k.object["kind"] \notin {Null, Wrong, List(<<>>), Object(<<>>)}
    BY <2>1, Kinds, Others
  <2>3. QED  BY <1>7, <2>1, <2>2 DEF Edited, HasKind
<1>8. CASE /\ Listed(ty, k.object) /\ Read(ty, k, b) = RelayedMembers(ty, k, b)
  <2>1. Table(ty, k.object) = Table(ty, l.object) /\ Listed(ty, l.object)
    BY <1>7, <1>8 DEF Table, Listed
  <2>2. Read(ty, l, a) = RelayedMembers(ty, l, a)  BY <2>1, ReadKnown
  <2>3. RelayedMembers(ty, l, a) = l  BY <1>6, <2>2
  <2>4. /\ DOMAIN l.object = Kept(ty, l) \cup Unknown(ty, l.object)
        /\ \A f \in Kept(ty, l) : l.object[f] = Whole(Table(ty, l.object)[f], a[f])
    BY <2>3, Settled
  <2>5. RelayedMembers(ty, k, b) # Refused  BY <1>6, <1>8
  <2>6. ASSUME NEW f \in DOMAIN k.object
        PROVE  Faithful(ty, k, b, f)
    <3>1. f \in Kept(ty, l) \cup Unknown(ty, l.object)  BY <2>4 DEF Edited
    <3>2. CASE f \in Unknown(ty, l.object)
      <4>1. f \in Unknown(ty, k.object)  BY <2>1, <3>2 DEF Unknown
      <4>2. QED  BY <4>1 DEF Faithful
    <3>3. CASE f \in Kept(ty, l)
      <4>1. f \in Known(ty, l)  BY <3>3 DEF Kept
      <4>2. f \in Known(ty, k)  BY <1>2, <2>1, <4>1 DEF Known
      <4>3. CASE k.object[f] = l.object[f]
        <5>1. f \in Kept(ty, k)  BY <2>1, <3>3, <4>2, <4>3 DEF Kept
        <5>2. b[f] = a[f]  BY <1>5, <2>1, <4>1, <4>2, <4>3 DEF Alike
        <5>3. QED  BY <2>1, <2>4, <3>3, <4>3, <5>1, <5>2 DEF Faithful
      <4>4. CASE k.object[f] \in Nothing  BY <4>4 DEF Faithful
      <4>5. CASE k.object[f] = Wrong
        <5> DEFINE d == Table(ty, k.object)[f]
        <5>1. /\ Wrong # Null /\ ~IsList(Wrong) /\ Wrong # Object(<<>>) /\ Wrong # Text("0")
              /\ ~IsText(Wrong) /\ ~IsObject(Wrong)
          BY Others, Kinds
        <5>2. f \in Kept(ty, k)  BY <4>2, <4>5, <5>1 DEF Kept, Omitted
        <5>3. ~Refuses(d, k.object[f], b[f])  BY <2>5, <5>2, ReadMembers
        <5>4. d.mode # "vec"  BY <4>5, <5>1, <5>3 DEF Refuses
        <5>5. DOMAIN Given(ty, k, f) = {1} /\ Given(ty, k, f)[1] = Wrong
          BY <4>5, <5>4, PartsFacts DEF Given
        <5>6. /\ b[f] = [i \in DOMAIN Given(ty, k, f) |-> b[f][i]]
              /\ \A i \in DOMAIN Given(ty, k, f) :
                   b[f][i] = Refused \/ Shape(d.ty, Given(ty, k, f)[i], b[f][i])
          BY <1>4, <4>2 DEF Readings
        <5>7. 1 \in DOMAIN b[f]  BY <5>5, <5>6
        <5>8. b[f][1] # Refused  BY <5>3, <5>7 DEF Refuses
        <5>9. b[f][1] = Wrong  BY <5>1, <5>5, <5>6, <5>8 DEF Shape
        <5>10. Whole(d, b[f]) = k.object[f]  BY <4>5, <5>4, <5>9 DEF Whole
        <5>11. QED  BY <5>2, <5>10 DEF Faithful
      <4>6. QED  BY <4>3, <4>4, <4>5 DEF Edited, Nothing
    <3>4. QED  BY <3>1, <3>2, <3>3
  <2>7. QED  BY <1>1, <1>8, <2>6 DEF b
<1>9. CASE /\ ty = "PathRef" /\ ty \notin StructTypes
           /\ HasKind(k.object) /\ k.object["kind"].text \notin Tagged
           /\ Read(ty, k, b) = Object([kind |-> Text("other")])
  <2>1. HasKind(l.object) /\ k.object["kind"] = l.object["kind"]  BY <1>7, <1>9
  <2>2. Read(ty, l, a) = Object([kind |-> Text("other")])
    <3>1. ~Listed(ty, l.object)  BY <1>9, <2>1 DEF Listed
    <3>2. QED  BY <1>3, <3>1, ReadObject
  <2>3. l.object = [kind |-> Text("other")]  BY <1>6, <2>2, Kinds
  <2>4. Relayed(ty, k).object = [kind |-> Text("other")] /\ IsObject(Relayed(ty, k))
    BY <1>1, <1>9, Kinds
  <2>5. \A f \in DOMAIN k.object : f = "kind"  BY <2>3 DEF Edited
  <2>6. \A f \in DOMAIN k.object :
          f \in DOMAIN Relayed(ty, k).object /\ Relayed(ty, k).object[f] = k.object[f]
    BY <2>1, <2>3, <2>4, <2>5
  <2>7. Keeps(k, Relayed(ty, k))  BY <2>4, <2>6 DEF Keeps
  <2>8. Known(ty, k) = {}  BY <1>9 DEF Known, Table
  <2>9. QED  BY <1>9, <2>7, <2>8
<1>10. QED  BY <1>2, <1>6, <1>8, <1>9, ReadObject

LEMMA EmptyReads ==
  ASSUME NEW ty, NEW a, Read(ty, Object(<<>>), a) # Refused
  PROVE  Read(ty, Object(<<>>), a) = Object(<<>>)
<1> DEFINE j == Object(<<>>)
<1>1. IsObject(j) /\ j.object = <<>>  BY Kinds
<1>2. DOMAIN j.object = {}  BY <1>1
<1> HIDE DEF j
<1>3. CASE ty = "Any"  BY <1>3, Reading DEF j
<1>4. CASE ty # "Any"
  <2>1. ~HasKind(j.object)  BY <1>2 DEF HasKind
  <2>2. Read(ty, j, a) = RelayedMembers(ty, j, a) /\ RelayedMembers(ty, j, a) # Refused
    BY <1>1, <1>4, <2>1, ReadObject DEF j
  <2>3. Kept(ty, j) = {} /\ Unknown(ty, j.object) = {}
    BY <1>2 DEF Kept, Known, Unknown
  <2> DEFINE F == [f \in Kept(ty, j) \cup Unknown(ty, j.object) |->
                     IF f \in Kept(ty, j) THEN Whole(Table(ty, j.object)[f], a[f])
                     ELSE j.object[f]]
  <2>4. RelayedMembers(ty, j, a) = Object(F)  BY <2>2, ReadMembers
  <2>5. F = <<>>  BY <2>3
  <2>6. QED  BY <2>2, <2>4, <2>5 DEF j
<1>5. QED  BY <1>3, <1>4

\* A new member of an open struct arrives.
LEMMA NewMemberArrives ==
  ASSUME NEW ty, NEW j, NEW a, NEW k, NEW b, NEW v,
         IsObject(j), Listed(ty, j.object), ty \in OpenTypes,
         k = Object(With(j.object, "later", v)), Alike(ty, j, a, k, b),
         \A f \in DOMAIN j.object : Faithful(ty, j, a, f),
         Read(ty, k, b) # Refused
  PROVE  Keeps(k, Read(ty, k, b))
<1>1. IsObject(k) /\ k.object = With(j.object, "later", v)  BY Kinds
<1>2. /\ DOMAIN k.object = DOMAIN j.object \cup {"later"}
      /\ \A g \in DOMAIN j.object : g # "later" => k.object[g] = j.object[g]
  <2>1. DOMAIN k.object = DOMAIN j.object \cup {"later"}  BY <1>1, WithDomain
  <2>2. \A g \in DOMAIN j.object : g # "later" => k.object[g] = j.object[g]
    BY <1>1, WithOld
  <2>3. QED  BY <2>1, <2>2
<1>3. ty \in StructTypes  BY DEF OpenTypes
<1>4. Table(ty, k.object) = Table(ty, j.object) /\ Listed(ty, k.object)
  BY <1>3 DEF Table, Listed
<1>5. "later" \notin DOMAIN Table(ty, k.object)  BY Tables
<1>6. Read(ty, k, b) = RelayedMembers(ty, k, b)  BY <1>1, <1>4, ReadKnown
<1>7. ASSUME NEW f \in DOMAIN k.object
      PROVE  Faithful(ty, k, b, f)
  <2>1. CASE f = "later"
    BY <1>5, <2>1 DEF Faithful, Unknown
  <2>2. CASE f # "later"
    <3>1. f \in DOMAIN j.object /\ k.object[f] = j.object[f]  BY <1>2, <2>2
    <3>2. Faithful(ty, j, a, f)  BY <3>1
    <3>3. CASE f \in Unknown(ty, j.object)
      <4>1. f \in Unknown(ty, k.object)  BY <1>4, <3>3 DEF Unknown
      <4>2. QED  BY <4>1 DEF Faithful
    <3>4. CASE f \in Kept(ty, j) /\ Whole(Table(ty, j.object)[f], a[f]) = j.object[f]
      <4>1. f \in Known(ty, j)  BY <3>4 DEF Kept
      <4>2. f \in Known(ty, k)  BY <1>1, <1>4, <4>1 DEF Known
      <4>3. f \in Kept(ty, k)  BY <1>4, <3>1, <3>4, <4>2 DEF Kept
      <4>4. b[f] = a[f]  BY <1>4, <3>1, <4>1, <4>2 DEF Alike
      <4>5. QED  BY <1>4, <3>1, <3>4, <4>3, <4>4 DEF Faithful
    <3>5. CASE j.object[f] \in Nothing  BY <3>1, <3>5 DEF Faithful
    <3>6. QED  BY <3>2, <3>3, <3>4, <3>5 DEF Faithful
  <2>3. QED  BY <2>1, <2>2
<1>8. RelayedMembers(ty, k, b) # Refused  BY <1>6
<1>9. QED  BY <1>6, <1>7, <1>8, Arrives

\* News of a member's value arrives, if it is read as it is.
LEMMA ReplacedArrives ==
  ASSUME NEW ty, NEW j, NEW a, NEW f \in Known(ty, j), NEW i \in DOMAIN Given(ty, j, f),
         NEW x, NEW b,
         Readings(ty, j, a), Read(ty, j, a) # Refused,
         Fresh(Table(ty, j.object)[f].ty, Given(ty, j, f)[i], x),
         Alike(ty, j, a, Replaced(ty, j, f, i, x), b),
         b[f] = Put(a[f], i, x),
         \A g \in DOMAIN j.object : Faithful(ty, j, a, g),
         Read(ty, Replaced(ty, j, f, i, x), b) # Refused
  PROVE  Keeps(Replaced(ty, j, f, i, x), Read(ty, Replaced(ty, j, f, i, x), b))
<1> DEFINE k == Replaced(ty, j, f, i, x)
           s == [Given(ty, j, f) EXCEPT ![i] = x]
           d == Table(ty, j.object)[f]
<1>1. ty \in StructTypes \/ f # "kind"  BY NotText
<1>2. /\ IsObject(k) /\ Listed(ty, k.object)
      /\ DOMAIN k.object = DOMAIN j.object
      /\ \A g \in DOMAIN j.object : g # f => k.object[g] = j.object[g]
      /\ k.object[f] = Whole(d, s)
      /\ Table(ty, k.object) = Table(ty, j.object)
      /\ Known(ty, k) = Known(ty, j)
  BY <1>1, ReplacedIs
<1>3. ~Omitted(d, k.object[f])  BY ReplacedKept
<1>4. /\ Read(ty, j, a) = RelayedMembers(ty, j, a)
      /\ RelayedMembers(ty, j, a) # Refused
  BY ListedRead
<1>5. Alike(ty, j, a, k, b) /\ Read(ty, k, b) # Refused  OBVIOUS
<1> HIDE DEF k
<1>6. Read(ty, k, b) = RelayedMembers(ty, k, b)  BY <1>2, ReadKnown
<1>7. a[f] = [p \in DOMAIN Given(ty, j, f) |-> a[f][p]]  BY DEF Readings
<1>8. Whole(d, b[f]) = k.object[f]
  <2>1. f \in DOMAIN j.object /\ f \in DOMAIN Table(ty, j.object)  BY DEF Known
  <2>2. f \notin Unknown(ty, j.object)  BY <2>1 DEF Unknown
  <2>3. CASE f \in Kept(ty, j) /\ Whole(d, a[f]) = j.object[f]
    <3>1. ~Refuses(d, j.object[f], a[f])  BY <1>4, <2>3, ReadMembers
    <3>2. Parts(d, Whole(d, a[f])) = a[f]  BY <2>3, <3>1, StaysKept
    <3>3. a[f] = Given(ty, j, f)  BY <2>3, <3>2 DEF Given
    <3>4. b[f] = s  BY <3>3 DEF Put
    <3>5. QED  BY <1>2, <3>4
  <2>4. CASE j.object[f] \in Nothing
    <3>1. d.mode # "vec"
      <4>1. SUFFICES ASSUME d.mode = "vec" PROVE FALSE
        OBVIOUS
      <4>2. ~IsList(Null) /\ ~IsList(Text("0")) /\ ~IsList(Object(<<>>))
        BY Others, Kinds
      <4>3. IsList(List(<<>>)) /\ List(<<>>).list = <<>>  BY Kinds
      <4>4. DOMAIN Given(ty, j, f) = {}
        BY <2>4, <4>1, <4>2, <4>3 DEF Given, Parts, Nothing
      <4>5. QED  BY <4>4
    <3>2. DOMAIN Given(ty, j, f) = {1}  BY <3>1, PartsFacts DEF Given
    <3>3. i = 1  BY <3>2
    <3>4. b[f][1] = x /\ s[1] = x  BY <1>7, <3>2, <3>3 DEF Put
    <3>5. QED  BY <1>2, <3>1, <3>4 DEF Whole
  <2>5. Faithful(ty, j, a, f)  BY <2>1
  <2>6. QED  BY <2>2, <2>3, <2>4, <2>5 DEF Faithful
<1>9. ASSUME NEW g \in DOMAIN k.object
      PROVE  Faithful(ty, k, b, g)
  <2>1. CASE g = f
    <3>1. f \in Kept(ty, k)  BY <1>2, <1>3 DEF Kept
    <3>2. QED  BY <1>2, <1>8, <2>1, <3>1 DEF Faithful
  <2>2. CASE g # f
    <3>1. g \in DOMAIN j.object /\ k.object[g] = j.object[g]  BY <1>2, <2>2
    <3>2. Faithful(ty, j, a, g)  BY <3>1
    <3>3. CASE g \in Unknown(ty, j.object)
      <4>1. g \in Unknown(ty, k.object)  BY <1>2, <3>3 DEF Unknown
      <4>2. QED  BY <4>1 DEF Faithful
    <3>4. CASE g \in Kept(ty, j) /\ Whole(Table(ty, j.object)[g], a[g]) = j.object[g]
      <4>1. g \in Known(ty, j)  BY <3>4 DEF Kept
      <4>2. g \in Kept(ty, k)  BY <1>2, <3>1, <3>4, <4>1 DEF Kept
      <4>3. b[g] = a[g]  BY <1>2, <1>5, <3>1, <4>1 DEF Alike
      <4>4. QED  BY <1>2, <3>1, <3>4, <4>2, <4>3 DEF Faithful
    <3>5. CASE j.object[g] \in Nothing  BY <3>1, <3>5 DEF Faithful
    <3>6. QED  BY <3>2, <3>3, <3>4, <3>5 DEF Faithful
  <2>3. QED  BY <2>1, <2>2
<1>10. RelayedMembers(ty, k, b) # Refused  BY <1>5, <1>6
<1>11. Keeps(k, RelayedMembers(ty, k, b))  BY <1>9, <1>10, Arrives
<1>12. QED  BY <1>6, <1>11 DEF k

LEMMA PartFaithful ==
  ASSUME NEW ty, NEW j, NEW a, NEW f \in Known(ty, j), NEW i \in DOMAIN Given(ty, j, f),
         Readings(ty, j, a), Read(ty, j, a) # Refused, Faithful(ty, j, a, f),
         IsObject(Given(ty, j, f)[i])
  PROVE  Given(ty, j, f)[i] = a[f][i] \/ Given(ty, j, f)[i] = Object(<<>>)
<1> DEFINE d == Table(ty, j.object)[f]
<1>1. f \in DOMAIN j.object /\ f \in DOMAIN Table(ty, j.object)  BY DEF Known
<1>2. f \notin Unknown(ty, j.object)  BY <1>1 DEF Unknown
<1>3. CASE f \in Kept(ty, j) /\ Whole(d, a[f]) = j.object[f]
  <2>1. RelayedMembers(ty, j, a) # Refused  BY ListedRead
  <2>2. ~Refuses(d, j.object[f], a[f])  BY <1>3, <2>1, ReadMembers
  <2>3. Parts(d, Whole(d, a[f])) = a[f]  BY <1>3, <2>2, StaysKept
  <2>4. a[f] = Given(ty, j, f)  BY <1>3, <2>3 DEF Given
  <2>5. QED  BY <2>4
<1>4. CASE j.object[f] \in Nothing
  <2>1. /\ ~IsObject(Null) /\ ~IsObject(Text("0")) /\ ~IsObject(List(<<>>))
        /\ ~IsList(Null) /\ ~IsList(Text("0")) /\ ~IsList(Object(<<>>))
        /\ List(<<>>).list = <<>>
    BY Others, Kinds
  <2>2. CASE d.mode = "vec"
    <3>1. DOMAIN Given(ty, j, f) = {}
      BY <1>4, <2>1, <2>2 DEF Given, Parts, Nothing
    <3>2. QED  BY <3>1
  <2>3. CASE d.mode # "vec"
    <3>1. DOMAIN Given(ty, j, f) = {1} /\ Given(ty, j, f)[1] = j.object[f]
      BY <2>3, PartsFacts DEF Given
    <3>2. Given(ty, j, f)[i] = j.object[f]  BY <3>1
    <3>3. QED  BY <1>4, <2>1, <3>2 DEF Nothing
  <2>4. QED  BY <2>2, <2>3
<1>5. QED  BY <1>2, <1>3, <1>4 DEF Faithful

\* What is new in a line of this release arrives, if it may.
LEMMA NewsArrive ==
  ASSUME NEW ty, NEW l, IsObject(l), Relayed(ty, l) = l,
         NEW j, Edited(ty, l, j), Relayed(ty, j) # Refused,
         NEW n \in News(ty, j), n.kind \in {"member", "tag"}
  PROVE  Keeps(n.json, Relayed(ty, n.json))
<1> DEFINE a == Values4(ty, j)
           b == Values4(ty, n.json)
<1>1. IsObject(j)  BY DEF Edited
<1>2. Relayed(ty, j) = Read(ty, j, a) /\ Relayed(ty, n.json) = Read(ty, n.json, b)
  BY Level5Is
<1>3. Readings(ty, j, a)  BY Level5
<1>4. Alike(ty, j, a, n.json, b)  BY Alike5
<1>5. n.kind # "class"  OBVIOUS
<1>6. Relayed(ty, n.json) # Refused  BY <1>5, News5Reads
<1>7. Read(ty, j, a) # Refused /\ Read(ty, n.json, b) # Refused  BY <1>2, <1>6
<1>8. CASE ty = "Any"
  <2>1. Relayed(ty, n.json) = n.json  BY <1>2, <1>8, Reading
  <2>2. IsObject(n.json)  BY <1>8, News5Form DEF Fresh
  <2>3. QED  BY <2>1, <2>2 DEF Keeps
<1>9. CASE ty = "PathRef" /\ ty \notin StructTypes /\ Known(ty, j) = {}
  <2>1. n \in NewsAt(ty, j)  BY <1>9, News5Is
  <2>2. QED  BY <1>9, <2>1, NewsAtIs
<1>10. CASE Listed(ty, j.object) /\ \A f \in DOMAIN j.object : Faithful(ty, j, a, f)
  <2> HIDE DEF a, b
  <2>1. CASE n \in NewsAt(ty, j)
    <3>1. ty # "Tag"  BY <1>10, TableAssumption DEF Listed, Leaves
    <3>2. PICK v : n.json = Object(With(j.object, "later", v)) /\ ty \notin Closed /\ ty # "PathRef"
      BY <2>1, <3>1, NewsAtIs
    <3>3. ty \in OpenTypes  BY <1>10, <3>2 DEF Listed, OpenTypes
    <3>4. \A f \in DOMAIN j.object : Faithful(ty, j, a, f)  BY <1>10
    <3>5. n.json = Object(With(j.object, "later", v)) /\ Listed(ty, j.object)  BY <1>10, <3>2
    <3>6. Keeps(n.json, Read(ty, n.json, b))
      BY ONLY <1>1, <1>4, <1>7, <3>3, <3>4, <3>5, NewMemberArrives
    <3>7. QED  BY <1>2, <3>6
  <2>2. ASSUME NEW f \in Known(ty, j), NEW i \in DOMAIN Given(ty, j, f),
               NEW m \in News4(Table(ty, j.object)[f].ty, Given(ty, j, f)[i]),
               n = New(m.kind, Replaced(ty, j, f, i, m.json))
        PROVE  Keeps(n.json, Relayed(ty, n.json))
    <3> DEFINE t == Table(ty, j.object)[f].ty
               g == Given(ty, j, f)[i]
    <3>1. n.kind = m.kind /\ n.json = Replaced(ty, j, f, i, m.json)  BY <2>2, NewFields
    <3>2. Fresh(t, g, m.json)  BY News4Form
    <3>3. f \in DOMAIN j.object  BY DEF Known
    <3>4. Faithful(ty, j, a, f)  BY <1>10, <3>3
    <3>5. a[f] = [p \in DOMAIN Given(ty, j, f) |-> Relayed4(t, Given(ty, j, f)[p])]
      BY Level5Is DEF a
    <3>6. ASSUME IsObject(g) PROVE Relayed4(t, g) = g
      <4>1. CASE g = a[f][i]  BY <3>5, <4>1
      <4>2. CASE g = Object(<<>>)
        <5>1. Relayed4(t, g) # Refused
          <6>1. CASE t = "Any"
            <7>1. Relayed4(t, g) = g  BY <6>1, Level4Is, Reading
            <7>2. QED  BY <3>6, <7>1, Others
          <6>2. CASE t # "Any"
            <7>1. a[f][i] # Refused  BY <1>3, <1>7, <3>6, <6>2, PartAccepted
            <7>2. QED  BY <3>5, <7>1
          <6>3. QED  BY <6>1, <6>2
        <5> HIDE DEF t, g
        <5>2. Relayed4(t, g) = Read(t, g, Values3(t, g))  BY Level4Is
        <5>3. Read(t, Object(<<>>), Values3(t, g)) # Refused  BY <4>2, <5>1, <5>2
        <5>4. Read(t, Object(<<>>), Values3(t, g)) = Object(<<>>)  BY <5>3, EmptyReads
        <5>5. QED  BY <4>2, <5>2, <5>4
      <4>3. QED  BY <1>3, <1>7, <3>4, <3>6, <4>1, <4>2, PartFaithful
    <3>7. Relayed4(t, m.json) = m.json
      <4> HIDE DEF t, g
      <4>1. m \in News4(t, g)  BY DEF t, g
      <4>2. IsObject(g) => Relayed4(t, g) # Refused  BY <3>6, Others
      <4>3. m.kind \in {"member", "tag"}  BY <3>1
      <4>4. QED  BY <3>6, <4>1, <4>2, <4>3, News4Reads
    <3>8. ty \in StructTypes \/ f # "kind"  BY <1>3, <1>7, <3>2, NotText
    <3>9. /\ Known(ty, n.json) = Known(ty, j)
          /\ Table(ty, n.json.object) = Table(ty, j.object)
          /\ Given(ty, n.json, f) = [Given(ty, j, f) EXCEPT ![i] = m.json]
      BY <3>1, <3>8, ReplacedIs
    <3>10. b[f] = [p \in DOMAIN Given(ty, n.json, f) |-> Relayed4(t, Given(ty, n.json, f)[p])]
      BY <3>9, Level5Is DEF b
    <3>11. b[f] = Put(a[f], i, m.json)
      <4> HIDE DEF t
      <4>1. /\ DOMAIN Given(ty, n.json, f) = DOMAIN Given(ty, j, f)
            /\ \A p \in DOMAIN Given(ty, j, f) :
                 Given(ty, n.json, f)[p] = IF p = i THEN m.json ELSE Given(ty, j, f)[p]
        BY <3>9
      <4>2. b[f] = [p \in DOMAIN a[f] |-> IF p = i THEN m.json ELSE a[f][p]]
        BY <3>5, <3>7, <3>10, <4>1
      <4>3. QED  BY <4>2 DEF Put
    <3>12. Alike(ty, j, a, Replaced(ty, j, f, i, m.json), b)  BY <1>4, <3>1
    <3>13. Fresh(Table(ty, j.object)[f].ty, Given(ty, j, f)[i], m.json)  BY <3>2
    <3>14. Read(ty, Replaced(ty, j, f, i, m.json), b) # Refused  BY <1>7, <3>1
    <3>15. \A h \in DOMAIN j.object : Faithful(ty, j, a, h)  BY <1>10
    <3>16. Keeps(Replaced(ty, j, f, i, m.json), Read(ty, Replaced(ty, j, f, i, m.json), b))
      BY ONLY <1>3, <1>7, <3>11, <3>12, <3>13, <3>14, <3>15, ReplacedArrives,
              f \in Known(ty, j), i \in DOMAIN Given(ty, j, f)
    <3>17. QED  BY <1>2, <3>1, <3>16
  <2>3. QED  BY <2>1, <2>2, News5Is
<1>11. CASE ty # "Any"
  <2>1. \/ Listed(ty, j.object) /\ \A f \in DOMAIN j.object : Faithful(ty, j, a, f)
        \/ ty = "PathRef" /\ ty \notin StructTypes /\ Known(ty, j) = {}
    BY <1>11, EditedRead
  <2>2. QED  BY <1>9, <1>10, <2>1
<1>12. QED  BY <1>8, <1>11

LEMMA BaseArrives ==
  ASSUME NEW ty, NEW l, IsObject(l), Relayed(ty, l) = l,
         NEW j, Edited(ty, l, j), Relayed(ty, j) # Refused
  PROVE  Keeps(j, Relayed(ty, j))
<1>1. CASE ty = "Any"
  <2>1. Relayed(ty, j) = j  BY <1>1, Level5Is, Reading
  <2>2. IsObject(j)  BY DEF Edited
  <2>3. QED  BY <2>1, <2>2 DEF Keeps
<1>2. CASE ty # "Any"
  <2>1. CASE /\ Relayed(ty, j) = RelayedMembers(ty, j, Values4(ty, j))
             /\ \A f \in DOMAIN j.object : Faithful(ty, j, Values4(ty, j), f)
    <3>1. RelayedMembers(ty, j, Values4(ty, j)) # Refused  BY <2>1
    <3>2. QED  BY <2>1, <3>1, Arrives
  <2>2. QED  BY <1>2, <2>1, EditedRead
<1>3. QED  BY <1>1, <1>2

(***************************************************************************)
(* A line on its way.                                                      *)
(***************************************************************************)

\* base is a line of this release after some edits, sent is base or base with
\* a news, and every hop after the first has written what the first has.
OnItsWay ==
  /\ hops \in Nat
  /\ \E l \in Lines : type = l.type /\ Edited(type, l.json, base)
  /\ \/ news = "none" /\ sent = base
     \/ news # "none" /\ \E n \in News(type, base) : sent = n.json /\ news = n.kind
  /\ line = IF hops = 0 THEN sent ELSE Relayed(type, sent)

LEMMA Rewritten ==
  ASSUME NEW ty, NEW j, Relayed(ty, j) # Refused
  PROVE  Relayed(ty, Relayed(ty, j)) = Relayed(ty, j)
BY Level5

\* Every reachable state of a line is as OnItsWay says.
THEOREM Way == Spec => []OnItsWay
<1>1. Init => OnItsWay
  <2>1. SUFFICES ASSUME Init PROVE OnItsWay
    OBVIOUS
  <2>2. PICK l \in Lines : type = l.type /\ base = l.json  BY <2>1 DEF Init
  <2>3. Edited(type, l.json, base)  BY <2>2, LineAssumption DEF Edited
  <2>4. QED  BY <2>1, <2>2, <2>3 DEF Init, OnItsWay
<1>2. OnItsWay /\ [Next]_vars => OnItsWay'
  <2>1. SUFFICES ASSUME OnItsWay, [Next]_vars PROVE OnItsWay'
    OBVIOUS
  <2>2. PICK l \in Lines : type = l.type /\ Edited(type, l.json, base)
    BY <2>1 DEF OnItsWay
  <2>3. CASE Edit
    <3>1. Edited(type, l.json, base')  BY <2>2, <2>3, EditEdits DEF Edit
    <3>2. QED  BY <2>1, <2>2, <2>3, <3>1 DEF Edit, OnItsWay
  <2>4. CASE AddNews
    <3>1. PICK n \in News(type, base) : sent' = n.json /\ news' = n.kind
      BY <2>4 DEF AddNews
    <3>2. n.kind # "none"  BY News5Form
    <3>3. QED  BY <2>1, <2>2, <2>4, <3>1, <3>2 DEF AddNews, OnItsWay
  <2>5. CASE Relay
    <3>1. line' = Relayed(type, sent)
      <4>1. CASE hops = 0  BY <2>1, <2>5, <4>1 DEF Relay, OnItsWay
      <4>2. CASE hops # 0
        <5>1. line = Relayed(type, sent) /\ line # Refused /\ line' = Relayed(type, line)
          BY <2>1, <2>5, <4>2 DEF Relay, OnItsWay
        <5>2. QED  BY <5>1, Rewritten
      <4>3. QED  BY <4>1, <4>2
    <3>2. hops' \in Nat /\ hops' # 0  BY <2>1, <2>5 DEF Relay, OnItsWay
    <3>3. QED  BY <2>1, <2>2, <2>5, <3>1, <3>2 DEF Relay, OnItsWay
  <2>6. CASE UNCHANGED vars  BY <2>1, <2>6 DEF vars, OnItsWay
  <2>7. QED  BY <2>1, <2>3, <2>4, <2>5, <2>6 DEF Next, Arrived
<1>3. QED  BY <1>1, <1>2, PTL DEF Spec

\* What is new in a line never makes a hop refuse a line it reads without it,
\* a class apart, and a new member of an open struct and a new tag of an
\* identifier or a digest arrive with the rest, however deep they are in the
\* line and however many hops it takes.
THEOREM Survives == Spec => []NewsSurvives
<1>1. OnItsWay => NewsSurvives
  <2>1. SUFFICES ASSUME OnItsWay, Accepted PROVE Delivered
    BY DEF NewsSurvives
  <2>2. Relayed(type, base) # Refused /\ line = Relayed(type, sent)
    BY <2>1 DEF Accepted, OnItsWay
  <2>3. PICK l \in Lines : type = l.type /\ Edited(type, l.json, base)
    BY <2>1 DEF OnItsWay
  <2>4. IsObject(l.json) /\ Relayed(type, l.json) = l.json  BY <2>3, LineAssumption
  <2>5. CASE news = "none" /\ sent = base
    BY <2>2, <2>3, <2>4, <2>5, BaseArrives DEF Delivered
  <2>6. ASSUME NEW n \in News(type, base), sent = n.json, news = n.kind, news # "none"
        PROVE  Delivered
    <3>1. n.kind # "class" => Relayed(type, n.json) # Refused  BY <2>2, News5Reads
    <3>2. n.kind \in {"member", "tag"} => Keeps(n.json, Relayed(type, n.json))
      BY <2>2, <2>3, <2>4, NewsArrive
    <3>3. QED  BY <2>2, <2>6, <3>1, <3>2 DEF Delivered
  <2>7. QED  BY <2>1, <2>5, <2>6 DEF OnItsWay
<1>2. QED  BY <1>1, Way, PTL

\* What one hop has written, every later hop reads and writes the same.
THEOREM Steady == Spec => Stable
<1>1. OnItsWay /\ OnItsWay' /\ [Next]_vars => [hops > 0 /\ hops' # hops => line' = line]_vars
  <2>1. SUFFICES ASSUME OnItsWay, OnItsWay', [Next]_vars, hops > 0, hops' # hops
                 PROVE  line' = line
    OBVIOUS
  <2>2. hops \in Nat /\ hops # 0 /\ line = Relayed(type, sent)
    BY <2>1 DEF OnItsWay
  <2>3. Relay  BY <2>1, <2>2 DEF Next, Edit, AddNews, Arrived, vars
  <2>4. line # Refused /\ line' = Relayed(type, line)  BY <2>3 DEF Relay
  <2>5. QED  BY <2>2, <2>4, Rewritten
<1>2. QED  BY <1>1, Way, PTL DEF Spec, Stable
=============================================================================
