----------------------------- MODULE StackWaiter -----------------------------
(***************************************************************************)
(* The waits of takomo-aws-clients/cloudformation/client.ts for what a     *)
(* step asked of CloudFormation: waitStackDeployToComplete,                *)
(* waitStackDeleteToComplete and waitStackRollbackToComplete, which follow *)
(* the events of the stack, and waitUntilChangeSetIsReady and              *)
(* waitDriftDetectionToComplete, which poll a status.                      *)
(*                                                                         *)
(* An event is named by its position in the log of the stack, 0 is         *)
(* undefined.  A definition whose name ends in _Something is a wrong       *)
(* version of the one after it, that the mutation runs put in its place.   *)
(***************************************************************************)
EXTENDS StackEvents

CONSTANT MayFail    \* phases in which a call to CloudFormation may throw

ASSUME MayFailAssumption ==
    MayFail \subseteq {"sleep", "cancel-update", "describe-stack", "poll"}

VARIABLES
    phase,          \* what the wait is doing
    clientToken,    \* token of the operation whose events count
    latestEventId,  \* last event seen, of whatever operation
    described,      \* the events the current describeStackEvents returns
    allEvents,      \* the events handed to the listener
    timeout,        \* timeoutConfig
    elapsed,        \* have more than timeout seconds passed since startTime?
    answer          \* what the wait returned

waiterVars == <<phase, clientToken, latestEventId, described, allEvents, timeout, answer>>
vars == <<serviceVars, waiterVars, elapsed>>

Waiting == "WAITING"
Thrown == "THROWN"

Phases == {"sleep", "describe-events", "cancel-update", "describe-stack", "poll", "answered"}

Init ==
    /\ ServiceInit
    /\ phase = IF request.kind \in PollKinds THEN "poll" ELSE "sleep"
    /\ clientToken = Own
    /\ latestEventId = 0
    /\ described = 0
    /\ allEvents = {}
    /\ timeout = IF request.timeout THEN "set" ELSE "none"
    /\ elapsed = FALSE
    /\ answer = Waiting

AnswerWith(s) == phase' = "answered" /\ answer' = s

-----------------------------------------------------------------------------
(* Every call may be rejected, after the retries of the client. *)
CallThrows ==
    /\ phase \in MayFail
    /\ AnswerWith(Thrown)
    /\ UNCHANGED <<serviceVars, clientToken, latestEventId, described, allEvents, timeout, elapsed>>

(* The response to the first page of describeStackEvents, after the sleep. *)
(* The other pages, each of which waits for its turn in the bulkhead of    *)
(* the region, hold older events only: what CloudFormation records         *)
(* meanwhile is not among them.                                            *)
DescribeStackEvents ==
    /\ phase = "sleep"
    /\ described' = Len(log)
    /\ phase' = "describe-events"
    /\ UNCHANGED <<serviceVars, clientToken, latestEventId, allEvents, timeout, elapsed, answer>>

(* takeRightWhile, then filter. *)
NewEvents == {i \in latestEventId + 1 .. described : log[i].token = clientToken}

UpdatedEvents == allEvents \union NewEvents

AboutStack(events) == {i \in events : log[i].about = "stack"}

(* isTerminalResourceStatus *)
TerminalStatuses ==
    {"CREATE_COMPLETE", "DELETE_COMPLETE", "ROLLBACK_COMPLETE", "UPDATE_COMPLETE",
     "ROLLBACK_FAILED", "CREATE_FAILED", "DELETE_FAILED", "IMPORT_FAILED",
     "IMPORT_COMPLETE", "IMPORT_ROLLBACK_COMPLETE", "IMPORT_ROLLBACK_FAILED",
     "UPDATE_ROLLBACK_COMPLETE", "UPDATE_ROLLBACK_FAILED"}

TerminalEvents_AnyResource == {i \in UpdatedEvents : log[i].status \in TerminalStatuses}

(* findTerminalEvent *)
TerminalEvents == {i \in AboutStack(UpdatedEvents) : log[i].status \in TerminalStatuses}

First(events) == CHOOSE i \in events : \A j \in events : i <= j
Latest(events) == CHOOSE i \in events : \A j \in events : j <= i

(* The events of the response are handed to the listener and looked at in  *)
(* one turn of the event loop.                                             *)
ReadEvents == phase = "describe-events" /\ allEvents' = UpdatedEvents

NextLatestEventId_Current == Len(log)
NextLatestEventId_None == 0

NextLatestEventId == described

GoOnTo(next) ==
    /\ phase' = next
    /\ latestEventId' = NextLatestEventId
    /\ UNCHANGED answer

(* The wait for a rollback goes on to read the status of the stack. *)
TerminalEventFound ==
    /\ ReadEvents
    /\ TerminalEvents # {}
    /\ IF request.kind = "ROLLBACK"
       THEN phase' = "describe-stack" /\ UNCHANGED answer
       ELSE AnswerWith(log[First(TerminalEvents)].status)
    /\ UNCHANGED <<serviceVars, clientToken, latestEventId, described, timeout, elapsed>>

TimedOut == timeout = "set" /\ elapsed

(* The latest event about the stack tells an update that can be cancelled. *)
UpdateUnderWay ==
    LET events == AboutStack(UpdatedEvents)
    IN events # {} /\ log[Latest(events)].status = "UPDATE_IN_PROGRESS"

(* A timeout that finds no event of the update makes the wait throw. *)
TimeoutFindsNoEvent ==
    /\ ReadEvents
    /\ TimedOut
    /\ AboutStack(UpdatedEvents) = {}
    /\ AnswerWith(Thrown)
    /\ UNCHANGED <<serviceVars, clientToken, latestEventId, described, timeout, elapsed>>

TimeoutCancels ==
    /\ ReadEvents
    /\ TerminalEvents = {}
    /\ TimedOut
    /\ UpdateUnderWay
    /\ GoOnTo("cancel-update")
    /\ UNCHANGED <<serviceVars, clientToken, described, timeout, elapsed>>

(* Without a timeout, or when the update is already rolling back or        *)
(* cleaning up.                                                            *)
NoTerminalEvent ==
    /\ ReadEvents
    /\ TerminalEvents = {}
    /\ TimedOut => AboutStack(UpdatedEvents) # {} /\ ~UpdateUnderWay
    /\ GoOnTo("sleep")
    /\ UNCHANGED <<serviceVars, clientToken, described, timeout, elapsed>>

CancelStackUpdate_RefusalIgnored ==
    /\ phase = "cancel-update"
    /\ phase' = "sleep"
    /\ timeout' = "occurred"
    /\ IF CanBeCancelled
       THEN UpdateIsCancelled /\ clientToken' = Cancelling
       ELSE UNCHANGED <<serviceVars, clientToken>>
    /\ UNCHANGED <<latestEventId, described, allEvents, elapsed, answer>>

CancelStackUpdate_OldToken ==
    /\ phase = "cancel-update"
    /\ CanBeCancelled
    /\ UpdateIsCancelled
    /\ timeout' = "occurred"
    /\ phase' = "sleep"
    /\ UNCHANGED <<clientToken, latestEventId, described, allEvents, elapsed, answer>>

(* Between the poll and the cancellation the update may have ended, or     *)
(* begun to roll back: the request is refused and the wait throws.  The    *)
(* events of the update that are recorded between the two are not handed   *)
(* to the listener: from now on only those of the cancellation count.      *)
CancelStackUpdate ==
    /\ phase = "cancel-update"
    /\ IF CanBeCancelled
       THEN /\ UpdateIsCancelled
            /\ clientToken' = Cancelling
            /\ timeout' = "occurred"
            /\ phase' = "sleep"
            /\ UNCHANGED answer
       ELSE AnswerWith(Thrown) /\ UNCHANGED <<serviceVars, clientToken, timeout>>
    /\ UNCHANGED <<latestEventId, described, allEvents, elapsed>>

(* waitStackRollbackToComplete answers with the stack's status of now, which *)
(* is somebody else's once he operates on it.                              *)
DescribeStack ==
    /\ phase = "describe-stack"
    /\ AnswerWith(status)
    /\ UNCHANGED <<serviceVars, clientToken, latestEventId, described, allEvents, timeout, elapsed>>

(* evaluateDescribeChangeSet, of a change set whose reason of failure is   *)
(* part of its status; the first rule that applies decides.                *)
Evaluate(s) ==
    CASE s = "CREATE_COMPLETE" -> "READY"
      [] s \in {"CREATE_IN_PROGRESS", "CREATE_PENDING"} -> "PENDING"
      [] s = "FAILED_NO_CHANGES" -> "NO_CHANGES"
      [] s = "FAILED" -> "FAILED"
      [] OTHER -> "ERROR"

(* The switch of waitDriftDetectionToComplete. *)
EvaluateDetection(s) == IF s \in {"DETECTION_COMPLETE", "DETECTION_FAILED"} THEN s ELSE "PENDING"

PollResult ==
    IF request.kind = "CHANGE_SET" THEN Evaluate(status) ELSE EvaluateDetection(status)

(* A change set that failed, or whose status no rule knows, makes the wait *)
(* throw.                                                                  *)
PollEnds ==
    /\ phase = "poll"
    /\ PollResult # "PENDING"
    /\ AnswerWith(IF PollResult \in {"FAILED", "ERROR"} THEN Thrown ELSE PollResult)
    /\ UNCHANGED <<serviceVars, clientToken, latestEventId, described, allEvents, timeout, elapsed>>

TimePasses ==
    /\ timeout = "set" /\ ~elapsed
    /\ elapsed' = TRUE
    /\ UNCHANGED <<serviceVars, waiterVars>>

-----------------------------------------------------------------------------
WaiterStep ==
    \/ CallThrows
    \/ DescribeStackEvents
    \/ TerminalEventFound
    \/ TimeoutFindsNoEvent
    \/ TimeoutCancels
    \/ NoTerminalEvent
    \/ CancelStackUpdate
    \/ DescribeStack
    \/ PollEnds

ServiceStep ==
    /\ \/ OperationBegins
       \/ StatusChanges
       \/ ResourceChanges
       \/ PolledStatusChanges
       \/ SomebodyElseDeletes
    /\ UNCHANGED <<waiterVars, elapsed>>

Next == WaiterStep \/ ServiceStep \/ TimePasses

(* CloudFormation may hang in an update that has a timeout, that is what   *)
(* the timeout is for; everything else it goes on with.                    *)
ServiceGoesOn ==
    /\ ~(status = "UPDATE_IN_PROGRESS" /\ request.timeout)
    /\ OperationBegins \/ StatusChanges \/ PolledStatusChanges
    /\ UNCHANGED <<waiterVars, elapsed>>

Fairness ==
    /\ WF_vars(WaiterStep)
    /\ WF_vars(ServiceGoesOn)
    /\ WF_vars(TimePasses)

Spec == Init /\ [][Next]_vars /\ Fairness

-----------------------------------------------------------------------------
TypeOK ==
    /\ request \in Requests
    /\ status \in {"NONE"} \union InProgress \union Ended \union PollInProgress \union PollEnded
    /\ log \in Seq(Events)
    /\ phase \in Phases
    /\ clientToken \in {Own, Cancelling}
    /\ latestEventId \in 0 .. described
    /\ described \in 0 .. Len(log)
    /\ allEvents \subseteq 1 .. described
    /\ timeout \in {"none", "set", "occurred"}
    /\ elapsed \in BOOLEAN
    /\ answer \in {Waiting, Thrown} \union InProgress \union Ended \union PollEnded \union
                  {"READY", "NO_CHANGES"}

(* The events looked at so far. *)
Read == IF phase \in {"answered", "describe-stack"} THEN described ELSE latestEventId

(* The listener gets the events of the operation and no other, each once,  *)
(* in the order of the log, and misses none that was read.  Only what an   *)
(* update records between the last poll and its cancellation is lost.      *)
EventsInOrder ==
    /\ \A i \in allEvents : log[i].token # Foreign
    /\ phase = "describe-events" => \A new \in NewEvents, old \in allEvents : old < new
    /\ answer # Thrown => \A i \in 1 .. Read : log[i].token = clientToken => i \in allEvents

(* An update that is cancelled on its timeout is never reported as a       *)
(* success, and the client takes an update for cancelled exactly when it   *)
(* is, although it may end or roll back at any time before the request.    *)
CancelledUpdateRollsBack ==
    /\ timeout = "occurred" <=> HasEventOf(Cancelling)
    /\ timeout = "occurred" =>
          answer \in {Waiting, Thrown, "UPDATE_ROLLBACK_COMPLETE", "UPDATE_ROLLBACK_FAILED"}

(* Every wait ends, also when an update hangs: its timeout cancels it. *)
Terminates == <>(answer # Waiting)

-----------------------------------------------------------------------------
(* The promise of OperationWait, seen from here: the status of what was    *)
(* requested, whatever somebody else does with the stack afterwards, and   *)
(* the status the stack has now.                                           *)
EndEvents ==
    {i \in 1 .. Len(log) :
        log[i].token # Foreign /\ log[i].about = "stack" /\ log[i].status \in Ended}

RequestedStatus ==
    IF request.kind \in EventKinds
    THEN IF EndEvents = {} THEN FirstStatus(request.kind) ELSE log[First(EndEvents)].status
    ELSE IF PollResult # "PENDING" THEN PollResult
         ELSE IF request.kind = "CHANGE_SET" THEN "CHANGE_SET_IN_PROGRESS"
                                             ELSE "DETECTION_IN_PROGRESS"

StatusNow ==
    IF request.kind \in EventKinds /\ EndEvents # {} THEN status ELSE RequestedStatus

AbstractStatus(s) == IF s = "DELETE_COMPLETE" THEN "ABSENT" ELSE s

Abstract == INSTANCE OperationWait
                WITH operation <- AbstractStatus(RequestedStatus),
                     now <- AbstractStatus(StatusNow),
                     rereads <- (request.kind = "ROLLBACK"),
                     answer <- AbstractStatus(answer)

(* A wait answers only once the operation is over, with the status the     *)
(* operation ended with, or it throws; whatever somebody else does then    *)
(* shows in the answer of the wait for a rollback, which reads the status  *)
(* of the stack again, and in no other.                                    *)
ImplementsOperationWait == Abstract!Spec
=============================================================================
