--------------------------- MODULE CloudFormation ---------------------------
(***************************************************************************)
(* AWS CloudFormation as Takomo uses it through                            *)
(* takomo-aws-clients/cloudformation/client.ts: the status of one stack,   *)
(* what a request does to it, and how an operation in progress may end.    *)
(* The service is external to the repository: the statuses are those of    *)
(* takomo-aws-model, and the module only knows what the callers depend on. *)
(***************************************************************************)
EXTENDS FiniteSets

(* The client's getCurrentStack returns undefined: no such stack, or a     *)
(* deleted one.                                                            *)
Absent == "ABSENT"

(* The statuses that end an operation. *)
DeployedStatuses ==
    {"CREATE_COMPLETE", "UPDATE_COMPLETE", "UPDATE_ROLLBACK_COMPLETE",
     "IMPORT_COMPLETE"}

FailedCreationStatuses == {"CREATE_FAILED", "ROLLBACK_COMPLETE", "ROLLBACK_FAILED"}

StableStatuses ==
    DeployedStatuses \union FailedCreationStatuses \union
    {Absent, "REVIEW_IN_PROGRESS", "UPDATE_ROLLBACK_FAILED", "DELETE_FAILED"}

(* How each operation in progress can end.  A stack is created with        *)
(* DisableRollback: false, so a failed creation ends in a rollback.        *)
Endings ==
    [s \in {"CREATE_IN_PROGRESS", "UPDATE_IN_PROGRESS", "DELETE_IN_PROGRESS",
            "UPDATE_ROLLBACK_IN_PROGRESS"} |->
        CASE s = "CREATE_IN_PROGRESS" ->
                {"CREATE_COMPLETE", "ROLLBACK_COMPLETE", "ROLLBACK_FAILED"}
          [] s = "UPDATE_IN_PROGRESS" ->
                {"UPDATE_COMPLETE", "UPDATE_ROLLBACK_COMPLETE",
                 "UPDATE_ROLLBACK_FAILED"}
          [] s = "DELETE_IN_PROGRESS" -> {Absent, "DELETE_FAILED"}
          [] s = "UPDATE_ROLLBACK_IN_PROGRESS" ->
                {"UPDATE_ROLLBACK_COMPLETE", "UPDATE_ROLLBACK_FAILED"}]

InProgressStatuses == DOMAIN Endings

StackStatuses == StableStatuses \union InProgressStatuses

(* A stack that serves what depends on it: it was created and is not being *)
(* removed.                                                                *)
Exists(status) ==
    status \in DeployedStatuses \union
               {"UPDATE_ROLLBACK_FAILED", "UPDATE_IN_PROGRESS",
                "UPDATE_ROLLBACK_IN_PROGRESS"}
=============================================================================
