----------------------------- MODULE StackEvents -----------------------------
(***************************************************************************)
(* The events CloudFormation records for one stack while it carries out an *)
(* operation, as the waits of takomo-aws-clients/cloudformation/client.ts  *)
(* see them.  The service is external to the repository.  Every event      *)
(* carries the client request token of the operation it belongs to, and is *)
(* about the stack itself or about one of its resources (a nested stack    *)
(* is a resource too).  A change set and a drift detection have no events, *)
(* only a status.                                                          *)
(***************************************************************************)
EXTENDS Integers, Sequences, FiniteSets

CONSTANTS
    Requests,           \* what may be waited for: records [kind, timeout]
    MaxResourceEvents   \* bound on the events about resources

ASSUME RequestsAssumption ==
    /\ Requests \subseteq [kind : {"CREATE", "UPDATE", "DELETE", "ROLLBACK",
                                   "CHANGE_SET", "DRIFT_DETECTION"},
                           timeout : BOOLEAN]
    /\ \A r \in Requests : r.timeout => r.kind = "UPDATE"

VARIABLES
    request,    \* what was asked of CloudFormation; constant
    status,     \* status of the stack, the change set or the detection
    log         \* events of the stack, oldest first

serviceVars == <<request, status, log>>

EventKinds == {"CREATE", "UPDATE", "DELETE", "ROLLBACK"}
PollKinds == {"CHANGE_SET", "DRIFT_DETECTION"}

(* The client request tokens: of the request, of its cancellation, and of  *)
(* the operations of others.                                               *)
Own == "own"
Cancelling == "cancelling"
Foreign == "foreign"
Tokens == {Own, Cancelling, Foreign}

InProgress ==
    {"CREATE_IN_PROGRESS", "ROLLBACK_IN_PROGRESS", "UPDATE_IN_PROGRESS",
     "UPDATE_COMPLETE_CLEANUP_IN_PROGRESS", "UPDATE_ROLLBACK_IN_PROGRESS",
     "UPDATE_ROLLBACK_COMPLETE_CLEANUP_IN_PROGRESS", "DELETE_IN_PROGRESS"}

Ended ==
    {"CREATE_COMPLETE", "ROLLBACK_COMPLETE", "ROLLBACK_FAILED", "UPDATE_COMPLETE",
     "UPDATE_ROLLBACK_COMPLETE", "UPDATE_ROLLBACK_FAILED", "DELETE_COMPLETE",
     "DELETE_FAILED"}

(* The statuses a status may be followed by. *)
Successors ==
    [s \in InProgress |->
        CASE s = "CREATE_IN_PROGRESS" -> {"CREATE_COMPLETE", "ROLLBACK_IN_PROGRESS"}
          [] s = "ROLLBACK_IN_PROGRESS" -> {"ROLLBACK_COMPLETE", "ROLLBACK_FAILED"}
          [] s = "UPDATE_IN_PROGRESS" ->
                {"UPDATE_COMPLETE_CLEANUP_IN_PROGRESS", "UPDATE_ROLLBACK_IN_PROGRESS"}
          [] s = "UPDATE_COMPLETE_CLEANUP_IN_PROGRESS" -> {"UPDATE_COMPLETE"}
          [] s = "UPDATE_ROLLBACK_IN_PROGRESS" ->
                {"UPDATE_ROLLBACK_COMPLETE_CLEANUP_IN_PROGRESS", "UPDATE_ROLLBACK_FAILED"}
          [] s = "UPDATE_ROLLBACK_COMPLETE_CLEANUP_IN_PROGRESS" ->
                {"UPDATE_ROLLBACK_COMPLETE"}
          [] s = "DELETE_IN_PROGRESS" -> {"DELETE_COMPLETE", "DELETE_FAILED"}]

PollInProgress == {"CREATE_PENDING", "CREATE_IN_PROGRESS", "DETECTION_IN_PROGRESS"}

PollEnded ==
    {"CREATE_COMPLETE", "FAILED_NO_CHANGES", "FAILED", "DETECTION_COMPLETE",
     "DETECTION_FAILED"}

PollSuccessors ==
    [s \in PollInProgress |->
        CASE s = "CREATE_PENDING" -> {"CREATE_IN_PROGRESS"}
          [] s = "CREATE_IN_PROGRESS" -> {"CREATE_COMPLETE", "FAILED_NO_CHANGES", "FAILED"}
          [] s = "DETECTION_IN_PROGRESS" -> {"DETECTION_COMPLETE", "DETECTION_FAILED"}]

(* The stack when the operation is requested, and its first status in it. *)
StatusBefore(kind) ==
    CASE kind = "CREATE" -> {"NONE"}
      [] kind = "UPDATE" -> {"UPDATE_COMPLETE"}
      [] kind = "DELETE" -> {"ROLLBACK_COMPLETE", "DELETE_FAILED"}
      [] kind = "ROLLBACK" -> {"UPDATE_ROLLBACK_FAILED"}
      [] kind = "CHANGE_SET" -> {"CREATE_PENDING"}
      [] kind = "DRIFT_DETECTION" -> {"DETECTION_IN_PROGRESS"}

FirstStatus(kind) ==
    CASE kind = "CREATE" -> "CREATE_IN_PROGRESS"
      [] kind = "UPDATE" -> "UPDATE_IN_PROGRESS"
      [] kind = "DELETE" -> "DELETE_IN_PROGRESS"
      [] kind = "ROLLBACK" -> "UPDATE_ROLLBACK_IN_PROGRESS"

StackEvent(token, s) == [token |-> token, about |-> "stack", status |-> s]
ResourceEvent(token, s) == [token |-> token, about |-> "resource", status |-> s]

Events == [token : Tokens, about : {"stack", "resource"}, status : InProgress \union Ended]

HasEventOf(token) == \E i \in 1 .. Len(log) : log[i].token = token

(* The request was accepted, and its first event is still to come. *)
Accepted == request.kind \in EventKinds /\ ~HasEventOf(Own)

(* The token of the operation that is in progress or was the last one. *)
CurrentToken == log[Len(log)].token

(* A stack that exists has the events of what happened to it before. *)
ServiceInit ==
    /\ request \in Requests
    /\ status \in StatusBefore(request.kind)
    /\ log = IF request.kind \in {"CREATE"} \union PollKinds THEN <<>>
             ELSE <<StackEvent(Foreign, status)>>

-----------------------------------------------------------------------------
Record(event) == log' = Append(log, event)

OperationBegins ==
    /\ Accepted
    /\ status' = FirstStatus(request.kind)
    /\ Record(StackEvent(Own, status'))
    /\ UNCHANGED request

StatusChanges ==
    /\ ~Accepted
    /\ request.kind \in EventKinds /\ status \in InProgress
    /\ status' \in Successors[status]
    /\ Record(StackEvent(CurrentToken, status'))
    /\ UNCHANGED request

(* A resource, or a nested stack, ends its own part of the operation. *)
ResourceChanges ==
    /\ ~Accepted
    /\ request.kind \in EventKinds /\ status \in InProgress
    /\ Cardinality({i \in 1 .. Len(log) : log[i].about = "resource"}) < MaxResourceEvents
    /\ \E s \in {"UPDATE_COMPLETE", "DELETE_COMPLETE"} : Record(ResourceEvent(CurrentToken, s))
    /\ UNCHANGED <<request, status>>

PolledStatusChanges ==
    /\ request.kind \in PollKinds /\ status \in PollInProgress
    /\ status' \in PollSuccessors[status]
    /\ UNCHANGED <<request, log>>

(* Once the operation is over, somebody else may start one of his own. *)
SomebodyElseDeletes ==
    /\ ~Accepted
    /\ request.kind \in EventKinds
    /\ status \in Ended \ {"DELETE_COMPLETE"}
    /\ CurrentToken # Foreign
    /\ status' = "DELETE_IN_PROGRESS"
    /\ Record(StackEvent(Foreign, status'))
    /\ UNCHANGED request

(* CancelUpdateStack is refused unless the update is in progress. *)
CanBeCancelled == status = "UPDATE_IN_PROGRESS"

UpdateIsCancelled ==
    /\ status' = "UPDATE_ROLLBACK_IN_PROGRESS"
    /\ Record(StackEvent(Cancelling, status'))
    /\ UNCHANGED request
=============================================================================
