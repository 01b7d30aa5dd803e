---------------------------- MODULE MCLicenseGate ----------------------------
(***************************************************************************)
(* Instance of LicenseGate for TLC.                                        *)
(***************************************************************************)
EXTENDS LicenseGate, TLC

ProcessSymmetry == Permutations(Processes)
=============================================================================
