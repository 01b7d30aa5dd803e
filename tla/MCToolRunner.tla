---------------------------- MODULE MCToolRunner ----------------------------
(***************************************************************************)
(* Instances of ToolRunner for TLC.                                        *)
(***************************************************************************)
EXTENDS ToolRunnerContract

CONSTANTS plugin, helper

NoHelpers == {}
OneHelper == {helper}
EventOnly == {"event"}
EventOrBad == {"event", "bad"}
LineOnly == {"line"}
AllOutKinds == {"event", "blank", "bad"}
AllErrKinds == {"line", "long", "bad"}
=============================================================================
