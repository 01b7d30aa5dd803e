---------------------------- MODULE MCPluginStore ----------------------------
(***************************************************************************)
(* Instances of PluginStore for TLC.                                       *)
(***************************************************************************)
EXTENDS PluginStore, TLC

ProcessSymmetry == Permutations(Processes)

Package(v, b, c, s) ==
  [ver |-> v, build |-> b, bin |-> "plugin", file |-> "plugin.ocplugin",
   caps |-> c, seal |-> s, valid |-> TRUE, revoked |-> FALSE,
   intact |-> TRUE, risky |-> FALSE]

Consent(d, r, a) == [dev |-> d, risk |-> r, ack |-> a]

\* Two versions, the first published with two builds, of which the second
\* declares other capabilities and comes in a package named like its binary.
TwoBuilds ==
  {Package(1, "b1", "A", "trusted"),
   [Package(1, "b2", "B", "none") EXCEPT !.file = "plugin"],
   Package(2, "b3", "A", "unknown")}

\* One package for each reason to refuse one, and two that pass: two builds
\* of one version, the second in a package that is named like its binary.
Refusable ==
  {Package(1, "b1", "A", "trusted"),
   [Package(1, "b2", "A", "trusted") EXCEPT !.file = "plugin"],
   Package(1, "b3", "A", "none"),
   Package(2, "b4", "A", "unknown"), Package(2, "b5", "A", "forged"),
   [Package(2, "b6", "A", "trusted") EXCEPT !.intact = FALSE],
   [Package(2, "b7", "A", "trusted") EXCEPT !.revoked = TRUE],
   [Package(2, "b8", "A", "trusted") EXCEPT !.risky = TRUE],
   [Package(2, "b9", "A", "trusted") EXCEPT !.valid = FALSE]}

\* Chunks: one each, or two for a binary, so that two of them can mix.
OneChunk == [s \in Sources |-> 1]
TwoChunks == [s \in Sources |-> IF s[1] = "binary" THEN 2 ELSE 1]

NoFlags == {Consent(FALSE, FALSE, FALSE)}
DeveloperMode == {Consent(TRUE, FALSE, FALSE)}
=============================================================================
