---------------------------- MODULE OperationWait ----------------------------
(***************************************************************************)
(* What StackDeploySteps and UndeployStacks assume of the waits of the     *)
(* CloudFormation client: a wait goes on while the operation is in         *)
(* progress, and answers with the status that operation ended with, or     *)
(* throws.  Somebody else may operate on the stack once the operation is   *)
(* over.  Of that the wait for a rollback, and no other, may tell: it      *)
(* answers with a status the stack has had since its operation ended,      *)
(* which may be one in progress.  StackWaiter is shown to keep this        *)
(* promise.                                                                *)
(***************************************************************************)
EXTENDS CloudFormation

VARIABLES
    operation,  \* the status of what was asked of CloudFormation
    now,        \* the status of the stack, after the operation that of others
    rereads,    \* does the wait read the status again? constant
    answer      \* what the wait answered

vars == <<operation, now, rereads, answer>>

Waiting == "WAITING"
Thrown == "THROWN"

(* A change set and a drift detection are waited for as well. *)
ServiceEndings ==
    [s \in {"CHANGE_SET_IN_PROGRESS", "DETECTION_IN_PROGRESS"} |->
        CASE s = "CHANGE_SET_IN_PROGRESS" -> {"READY", "NO_CHANGES", "FAILED"}
          [] s = "DETECTION_IN_PROGRESS" -> {"DETECTION_COMPLETE", "DETECTION_FAILED"}]

InProgress == InProgressStatuses \union DOMAIN ServiceEndings

EndingsOf(s) == IF s \in InProgressStatuses THEN Endings[s] ELSE ServiceEndings[s]

Init ==
    /\ operation \in InProgress
    /\ now = operation
    /\ rereads \in BOOLEAN
    /\ rereads => operation = "UPDATE_ROLLBACK_IN_PROGRESS"
    /\ answer = Waiting

OperationEnds ==
    /\ operation \in InProgress
    /\ operation' \in EndingsOf(operation)
    /\ now' = operation'
    /\ UNCHANGED <<rereads, answer>>

SomebodyElseOperates ==
    /\ operation \notin InProgress
    /\ now' \in IF now \in InProgressStatuses THEN Endings[now] ELSE InProgressStatuses
    /\ UNCHANGED <<operation, rereads, answer>>

Answer ==
    /\ answer = Waiting
    /\ operation \notin InProgress
    /\ answer' = IF rereads THEN now ELSE operation
    /\ UNCHANGED <<operation, now, rereads>>

Throw ==
    /\ answer = Waiting
    /\ answer' = Thrown
    /\ UNCHANGED <<operation, now, rereads>>

Next == OperationEnds \/ SomebodyElseOperates \/ Answer \/ Throw

Spec == Init /\ [][Next]_vars
=============================================================================
