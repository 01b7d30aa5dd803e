---------------------------- MODULE MCWireTypes ----------------------------
\* Every struct of the crate, and the tagged enum, on its own.
EXTENDS Relay, WireTypes

RECURSIVE Sample(_)

\* A line with every member of its type.
Sample(ty) ==
  CASE ty = "Any" -> Object([free |-> Text("t"), amount |-> Number])
    [] ty = "Float" -> Number
    [] ty \in {"Text", "Tag"} -> Text("t")
    [] ty = "EnvelopeClass" -> Text("event")
    [] ty \in DOMAIN FoldingEnums -> Text(CHOOSE t \in FoldingEnums[ty] : t # "other")
    [] ty = "PathRef" ->
         Object([kind |-> Text("content_addressed"), digest |-> Sample("ContentDigest")])
    [] ty \in DOMAIN FrozenStructs ->
         Object([f \in DOMAIN FrozenStructs[ty] |->
           LET d == FrozenStructs[ty][f] IN
             CASE d.mode = "vec" -> List(<<Sample(d.ty)>>)
               [] d.mode = "map" -> Sample("Any")
               [] OTHER -> Sample(d.ty)])

MCLines ==
  {[type |-> ty, json |-> Sample(ty)] : ty \in DOMAIN FrozenStructs \cup {"PathRef"}}
=============================================================================
