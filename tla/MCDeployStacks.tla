--------------------------- MODULE MCDeployStacks ---------------------------
(***************************************************************************)
(* Constants of the TLC runs of DeployStacks.                              *)
(***************************************************************************)
EXTENDS DeployStacks

NoOption == [expectNoChanges |-> FALSE, autoConfirmEnabled |-> FALSE,
             ignoreDependencies |-> FALSE]

MCAllOptions == [expectNoChanges : BOOLEAN, autoConfirmEnabled : BOOLEAN,
                 ignoreDependencies : BOOLEAN]

MCNoOption == {NoOption}

MCAutoConfirm == {[NoOption EXCEPT !.autoConfirmEnabled = TRUE]}

MCReviewOptions == {NoOption, [NoOption EXCEPT !.ignoreDependencies = TRUE]}

MCAllSteps == WrappedSteps \union UnwrappedSteps
=============================================================================
