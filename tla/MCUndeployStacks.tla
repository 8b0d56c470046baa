-------------------------- MODULE MCUndeployStacks --------------------------
(***************************************************************************)
(* Constants of the TLC runs of UndeployStacks.                            *)
(***************************************************************************)
EXTENDS UndeployStacks

MCAllOptions == [autoConfirmEnabled : BOOLEAN, ignoreDependencies : BOOLEAN]

MCConfirmed == {[autoConfirmEnabled |-> TRUE, ignoreDependencies |-> FALSE]}

MCNoHookStatus == {{}}

MCHookStatuses == {{}, {"FAILED"}}
=============================================================================
