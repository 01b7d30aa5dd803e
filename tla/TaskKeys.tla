------------------------------- MODULE TaskKeys -------------------------------
(***************************************************************************)
(* What crates/oc-core makes of the keys of a task file: parse_str and the *)
(* ids under which a plugin looks up the parameters of its task.           *)
(*                                                                         *)
(* A text is a sequence of words and of the characters that mean something *)
(* here: "::", "|", "_", "-", ".", "+" and the blank.  A file is a sequence*)
(* of blocks [key, array, items], one for each key of the TOML table: its  *)
(* value is an array of tables, or not, and items are the parameters of    *)
(* every [[key]] table of it; the [config] table is the business of module *)
(* Pipeline.                                                               *)
(***************************************************************************)
EXTENDS Naturals, Sequences, FiniteSets, TLC, SequencesExt, FiniteSetsExt

Has(text, c) == c \in ToSet(text)
Before(text, c) == SubSeq(text, 1, SelectInSeq(text, LAMBDA w : w = c) - 1)
After(text, c) ==
  SubSeq(text, SelectInSeq(text, LAMBDA w : w = c) + 1, Len(text))
Trimmed(text) ==
  LET solid == {i \in DOMAIN text : text[i] # " "}
  IN  IF solid = {} THEN <<>> ELSE SubSeq(text, Min(solid), Max(solid))

-----------------------------------------------------------------------------
(* A key is `alias::endpoint` or `alias::version::endpoint`, the endpoint  *)
(* with an optional `|label`.                                              *)

IsKey(key) == Has(key, "::")

AliasOf(key) == Before(key, "::")

\* Everything after the first or, if there are two, after the second "::".
Pinned(key) == Has(After(key, "::"), "::")
PinOf(key) == Before(After(key, "::"), "::")
LastPart(key) == IF Pinned(key) THEN After(After(key, "::"), "::") ELSE After(key, "::")

EndpointOf(key) ==
  IF Has(LastPart(key), "|") THEN Before(LastPart(key), "|") ELSE LastPart(key)

\* An empty label is none.
LabelOf(key) ==
  IF Has(LastPart(key), "|") THEN Trimmed(After(LastPart(key), "|")) ELSE <<>>

-----------------------------------------------------------------------------
(* Task ids.                                                               *)

Sanitized(text) ==
  [i \in DOMAIN text |-> IF text[i] \in {" ", "::", "|", "+"} THEN "_" ELSE text[i]]
Undotted(text) == [i \in DOMAIN text |-> IF text[i] = "." THEN "_" ELSE text[i]]

VersionSuffix(key) ==
  IF Pinned(key) THEN <<"_", "v">> \o Sanitized(Undotted(PinOf(key))) ELSE <<>>

\* Mutant of LabelSuffix: the label is for the console only.
LabelSuffixNone(key) == <<>>

LabelSuffix(key) ==
  IF LabelOf(key) # <<>> THEN <<"_">> \o Sanitized(LabelOf(key)) ELSE <<>>

IndexSuffix(items, i) == IF Len(items) > 1 THEN <<"_", ToString(i)>> ELSE <<>>

\* The words are joined: what the plugin sees has no boundaries but "_".
TaskId(block, i) ==
  AliasOf(block.key) \o <<"_">> \o EndpointOf(block.key)
  \o VersionSuffix(block.key) \o LabelSuffix(block.key) \o IndexSuffix(block.items, i)

-----------------------------------------------------------------------------
(* parse_str, with the alias table of the database.                        *)

\* Whether a block can be resolved.
Resolvable(block, aliases) ==
  IsKey(block.key) /\ AliasOf(block.key) \in DOMAIN aliases /\ block.array

Task(block, i, aliases) ==
  LET entry == aliases[AliasOf(block.key)] IN
    [id |-> TaskId(block, i),
     plugin |-> entry.plugin,
     version |-> IF Pinned(block.key) THEN <<PinOf(block.key)>> ELSE entry.version,
     command |-> EndpointOf(block.key),
     params |-> block.items[i]]

Accepted(file, aliases) == \A b \in ToSet(file) : Resolvable(b, aliases)

Tasks(file, aliases) ==
  FlattenSeq([b \in DOMAIN file |->
                [i \in DOMAIN file[b].items |-> Task(file[b], i, aliases)]])

\* to_task_file_json: what the plugin is given of a task.
Snapshot(tasks) ==
  [t \in DOMAIN tasks |->
     [id |-> tasks[t].id, command |-> tasks[t].command, params |-> tasks[t].params]]

\* The entries a plugin may take for its own: it looks by id.
FoundById(snapshot, id) == {e \in ToSet(snapshot) : e.id = id}
=============================================================================
