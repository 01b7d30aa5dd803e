--------------------------- MODULE MCToolProtocol ---------------------------
(***************************************************************************)
(* Instance of ToolProtocol for TLC: its constants are numbers.            *)
(***************************************************************************)
EXTENDS ToolProtocol
=============================================================================
