---------------------------- MODULE CommandStatus ----------------------------
(***************************************************************************)
(* resolveCommandOutputBase of takomo-core/command.ts: the status of a     *)
(* command from the statuses of its items.                                 *)
(***************************************************************************)
CommandStatuses == {"SUCCESS", "FAILED", "CANCELLED", "SKIPPED"}

SuccessfulStatuses == {"SUCCESS", "SKIPPED"}

(* statuses is the set of the items' statuses; an item is successful       *)
(* exactly when its status is in SuccessfulStatuses.                       *)
ResolvedStatus(statuses) ==
    CASE statuses = {"CANCELLED"} -> "CANCELLED"
      [] statuses = {"SKIPPED"} -> "SKIPPED"
      [] statuses \subseteq SuccessfulStatuses /\ statuses # {"SKIPPED"} -> "SUCCESS"
      [] OTHER -> "FAILED"

(* The same for items whose success is not determined by their status.     *)
ResolvedOutput(items) ==
    LET statuses == {item.status : item \in items}
        success == \A item \in items : item.success
    IN  [success |-> success,
         status |-> CASE statuses = {"CANCELLED"} -> "CANCELLED"
                      [] statuses = {"SKIPPED"} -> "SKIPPED"
                      [] OTHER -> IF success THEN "SUCCESS" ELSE "FAILED"]
=============================================================================
