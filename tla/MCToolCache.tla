----------------------------- MODULE MCToolCache -----------------------------
\* Two builds of one version under one file name, a longer and a shorter one,
\* published one after the other, and a record whose name is no file name.
EXTENDS ToolCache

MCChunks == [a \in Artifacts |-> IF a = "long" THEN 2 ELSE 1]

Build(hash, name, safe) ==
  [ver |-> "v1", platform |-> "linux", sha256 |-> hash, name |-> name, safe |-> safe]

First == Build("long", "tool", TRUE)
Rebuilt == Build("short", "tool", TRUE)
Astray == Build("short", "..", FALSE)

MCIndexes == {<<First>>, <<Rebuilt, First>>, <<Astray>>}
=============================================================================
