---------------------------- MODULE DeployStacks ----------------------------
(***************************************************************************)
(* executeDeployContext of takomo-stacks-commands/stacks/deploy: one run   *)
(* of "tkm stacks deploy" once its plan is built.  The user confirms the   *)
(* plan; then either every operation is handed at once to a bulkhead, or   *)
(* the operations are deployed one at a time, each reviewed by the user,   *)
(* until the user asks to skip the remaining reviews and the rest goes to  *)
(* a bulkhead.  The steps of one operation are in StackDeploySteps.        *)
(***************************************************************************)
EXTENDS StackDeploySteps, CommandStatus, Bulkhead

CONSTANTS
    Confirmations,  \* answers the user may give to confirmDeploy
    Options         \* the options the command may be started with

ASSUME NumOpsAssumption == NumOps \in Nat

ASSUME InputsAssumption ==
    /\ InitialStatuses \subseteq PlannableStatuses
    /\ Changes \subseteq {"none", "policy", "template"}
    /\ Protections \subseteq BOOLEAN
    /\ Reviews \subseteq {"CANCEL", "CONTINUE", "CONTINUE_AND_SKIP_REMAINING_REVIEWS"}
    /\ Confirmations \subseteq {"CANCEL", "CONTINUE_AND_REVIEW", "CONTINUE_NO_REVIEW"}
    /\ HookResults \subseteq {"continue", "skip", "abort"}
    /\ MayThrow \subseteq WrappedSteps \union UnwrappedSteps
    /\ Options \subseteq [expectNoChanges : BOOLEAN, autoConfirmEnabled : BOOLEAN,
                          ignoreDependencies : BOOLEAN]

VARIABLES
    mode,           \* where executeDeployContext is
    next,           \* i of its sequential loop
    cancelled,      \* DeployState.cancelled
    active,         \* the bulkhead's count of running operations
    queue,          \* the bulkhead's queue
    output          \* status of the command's output

schedulerVars == <<mode, next, cancelled, active, queue, output>>
vars == <<plan, autoConfirm, stackVars, schedulerVars>>

-----------------------------------------------------------------------------
(* The plans buildStacksDeployPlan can produce: operations sorted so that  *)
(* the dependencies of a stack come before it, every dependency in the     *)
(* plan unless dependencies are ignored.                                   *)
Sorted(dependencies) == \A o \in Op : \A d \in dependencies[o] : d < o

Plans ==
    {[dependencies |-> dependencies, status |-> status, change |-> change,
      protection |-> wanted, expectNoChanges |-> options.expectNoChanges,
      autoConfirmEnabled |-> options.autoConfirmEnabled,
      ignoreDependencies |-> options.ignoreDependencies] :
        dependencies \in {f \in [Op -> SUBSET Op] : Sorted(f)},
        status \in [Op -> InitialStatuses],
        change \in [Op -> Changes],
        wanted \in [Op -> Protections],
        options \in Options}

Init ==
    /\ plan \in Plans
    /\ autoConfirm = plan.autoConfirmEnabled
    /\ step = [o \in Op |-> "idle"]
    /\ outcome = [o \in Op |-> None]
    /\ result = [o \in Op |-> None]
    /\ cfn = plan.status
    /\ protection \in [Op -> Protections \union {FALSE}]
    /\ \A o \in Op : ~ExistedBefore(o) => ~protection[o]
    /\ changeSet = [o \in Op |-> FALSE]
    /\ reviewed = [o \in Op |-> FALSE]
    /\ beforeHooks = [o \in Op |-> FALSE]
    /\ afterHooks = [o \in Op |-> None]
    /\ mode = "confirm"
    /\ next = 1
    /\ cancelled = FALSE
    /\ active = 0
    /\ queue = <<>>
    /\ output = None

-----------------------------------------------------------------------------
(* executeStacksInParallel for the operations from first on.               *)
ExecuteInParallel(first) ==
    /\ mode' = "parallel"
    /\ step' = [o \in Op |-> CASE Starts(o, first) -> Waiting
                               [] Queued(o, first) -> "queued"
                               [] Rejected(o, first) -> "completed"
                               [] OTHER -> step[o]]
    /\ result' = [o \in Op |-> IF Rejected(o, first) THEN "REJECTED" ELSE result[o]]
    /\ active' = StartedCount(first, NumOps)
    /\ queue' = [k \in 1 .. QueuedCount(first, NumOps) |-> first + Limit + k - 1]

(* --ignore-dependencies is only accepted for a single operation. *)
RejectIgnoreDependencies ==
    /\ mode = "confirm"
    /\ plan.ignoreDependencies /\ NumOps > 1
    /\ mode' = "done"
    /\ output' = "ERROR"
    /\ UNCHANGED <<plan, autoConfirm, stackVars, next, cancelled, active, queue>>

ConfirmDeploy ==
    /\ mode = "confirm"
    /\ ~(plan.ignoreDependencies /\ NumOps > 1)
    /\ \E answer \in IF plan.autoConfirmEnabled THEN {"CONTINUE_NO_REVIEW"} ELSE Confirmations :
         \/ /\ answer = "CANCEL"
            /\ mode' = "done"
            /\ output' = "CANCELLED"
            /\ UNCHANGED <<autoConfirm, stackVars, active, queue>>
         \/ /\ answer = "CONTINUE_AND_REVIEW"
            /\ mode' = "sequential"
            /\ UNCHANGED <<autoConfirm, stackVars, active, queue, output>>
         \/ /\ answer = "CONTINUE_NO_REVIEW"
            /\ autoConfirm' = TRUE
            /\ ExecuteInParallel(1)
            /\ UNCHANGED <<outcome, awsVars, historyVars, output>>
    /\ UNCHANGED <<plan, next, cancelled>>

-----------------------------------------------------------------------------
(* The sequential loop. *)
BeginNextStack ==
    /\ mode = "sequential"
    /\ next \in Op
    /\ step[next] = "idle"
    /\ ~cancelled
    /\ GoTo(next, Waiting)
    /\ UNCHANGED <<plan, autoConfirm, awsVars, historyVars, schedulerVars>>

CancelNextStack ==
    /\ mode = "sequential"
    /\ next \in Op
    /\ step[next] = "idle"
    /\ cancelled
    /\ Complete(next, "CANCELLED")
    /\ next' = next + 1
    /\ UNCHANGED <<plan, autoConfirm, awsVars, historyVars, mode, cancelled,
                   active, queue, output>>

StopsRemaining_FailureOnly(status) == status = "FAILED"

StopsRemaining(status) == status \in {"CANCELLED", "FAILED"}

(* What follows the await of deployStack.  cancelled is not looked at once *)
(* autoConfirm sends the rest of the plan to the bulkhead.                 *)
StackReturned ==
    /\ mode = "sequential"
    /\ next \in Op
    /\ step[next] = "completed"
    /\ cancelled' = (cancelled \/ StopsRemaining(result[next]))
    /\ IF autoConfirm
       THEN ExecuteInParallel(next + 1) /\ UNCHANGED next
       ELSE next' = next + 1 /\ UNCHANGED <<step, result, mode, active, queue>>
    /\ UNCHANGED <<plan, autoConfirm, outcome, awsVars, historyVars, output>>

-----------------------------------------------------------------------------
(* The bulkhead starts the oldest queued operation when a slot is free. *)
Dequeue ==
    /\ active < Limit
    /\ queue # <<>>
    /\ active' = active + 1
    /\ queue' = Tail(queue)
    /\ GoTo(Head(queue), Waiting)
    /\ UNCHANGED <<plan, autoConfirm, awsVars, historyVars, mode, next, cancelled, output>>

(* An operation keeps its slot until it completes. *)
ReleaseSlot(o) ==
    active' = IF mode = "parallel" /\ step'[o] = "completed" THEN active - 1 ELSE active

RunStack(o) ==
    /\ StackStep(o)
    /\ ReleaseSlot(o)
    /\ UNCHANGED <<plan, mode, next, cancelled, queue, output>>

CloudFormationStep(o) ==
    /\ CfnCompletes(o)
    /\ UNCHANGED <<plan, schedulerVars>>

-----------------------------------------------------------------------------
Statuses == {result[o] : o \in Op}

AllSettled_Some == Statuses \intersect OperationStatuses # {}

AllSettled == Statuses \subseteq OperationStatuses

Finish ==
    /\ \/ mode = "sequential" /\ next > NumOps
       \/ mode = "parallel"
    /\ AllSettled
    /\ mode' = "done"
    /\ output' = ResolvedStatus(Statuses)
    /\ UNCHANGED <<plan, autoConfirm, stackVars, next, cancelled, active, queue>>

(* Promise.all rejects with the first rejected execution and the command   *)
(* ends, whatever the other operations are doing: the process exits.       *)
FinishRejected ==
    /\ mode = "parallel"
    /\ "REJECTED" \in Statuses
    /\ mode' = "done"
    /\ output' = "ERROR"
    /\ UNCHANGED <<plan, autoConfirm, stackVars, next, cancelled, active, queue>>

(* The process has exited. *)
Exited == mode = "done" /\ UNCHANGED vars

Next ==
    \/ RejectIgnoreDependencies
    \/ ConfirmDeploy
    \/ BeginNextStack
    \/ CancelNextStack
    \/ StackReturned
    \/ mode # "done" /\ Dequeue
    \/ \E o \in Op : mode # "done" /\ RunStack(o)
    \/ \E o \in Op : CloudFormationStep(o)
    \/ Finish
    \/ FinishRejected
    \/ Exited

Spec == Init /\ [][Next]_vars

(* Takomo's own code always goes on; CloudFormation ends what it was asked *)
(* to do; and the user answers.  Each operation is a chain of promises of  *)
(* its own, so fairness is stated for each.                                *)
Scheduler ==
    \/ RejectIgnoreDependencies \/ ConfirmDeploy
    \/ BeginNextStack \/ CancelNextStack \/ StackReturned
    \/ mode # "done" /\ Dequeue
    \/ Finish \/ FinishRejected

Fairness ==
    /\ WF_vars(Scheduler)
    /\ \A o \in Op : WF_vars(mode # "done" /\ RunStack(o))
    /\ \A o \in Op : WF_vars(CloudFormationStep(o))

FairSpec == Spec /\ Fairness

-----------------------------------------------------------------------------
(* The types of the variables. *)
TypeOK ==
    /\ plan.dependencies \in [Op -> SUBSET Op]
    /\ plan.status \in [Op -> InitialStatuses]
    /\ autoConfirm \in BOOLEAN
    /\ step \in [Op -> Steps]
    /\ outcome \in [Op -> {None, "SUCCESS", "FAILED", "CANCELLED"}]
    /\ result \in [Op -> {None, "REJECTED"} \union OperationStatuses]
    /\ cfn \in [Op -> StackStatuses]
    /\ protection \in [Op -> BOOLEAN]
    /\ changeSet \in [Op -> BOOLEAN]
    /\ reviewed \in [Op -> BOOLEAN]
    /\ beforeHooks \in [Op -> BOOLEAN]
    /\ afterHooks \in [Op -> {None, "SUCCESS", "FAILED", "CANCELLED"}]
    /\ mode \in {"confirm", "sequential", "parallel", "done"}
    /\ next \in 1 .. NumOps + 1
    /\ cancelled \in BOOLEAN
    /\ active \in 0 .. Limit
    /\ queue \in Seq(Op)
    /\ output \in {None, "ERROR"} \union CommandStatuses

Running == {o \in Op : step[o] \in RunningSteps}

(* Nothing has been asked of CloudFormation, or of the hooks, for o. *)
Untouched(o) == cfn[o] = plan.status[o] /\ ~changeSet[o] /\ ~beforeHooks[o]

(* A stack operation goes beyond wait-dependencies-to-complete only when   *)
(* every dependency has completed and succeeded, in either mode and        *)
(* whatever the bulkhead does meanwhile.                                   *)
DependenciesFirst ==
    \A o \in Op : step[o] \in BegunSteps =>
        \A d \in Dependencies(o) : result[d] \in Successful

(* Once a stack has failed or was cancelled, no stack that depends on it   *)
(* is touched or reported as successful, however far apart they are.       *)
FailureStopsDependents ==
    \A o \in Op :
        (\E d \in Dependencies(o) : result[d] \in {"FAILED", "CANCELLED", "REJECTED"})
            => Untouched(o) /\ result[o] \notin Successful

(* While a stack is created or updated, each of its dependencies is a      *)
(* deployed stack, unless its own hooks skipped it.                        *)
DependenciesDeployed ==
    \A o \in Op : cfn[o] \in {"CREATE_IN_PROGRESS", "UPDATE_IN_PROGRESS"} =>
        \A d \in Dependencies(o) :
            \/ result[d] = "SUCCESS" /\ cfn[d] \in DeployedStatuses
            \/ result[d] = "SKIPPED"

(* "cancel deploy of this stack and all remaining stacks"                  *)
(* (deploy-stacks-io.ts): in a reviewed deployment nothing happens to any  *)
(* stack after the first one that was cancelled or failed.                 *)
FailureStopsReview ==
    \A o, p \in Op :
        ~autoConfirm /\ o < p /\ result[o] \in {"FAILED", "CANCELLED"} =>
            Untouched(p) /\ result[p] \in {None, "CANCELLED"}

(* CloudFormation is asked to create or update a stack only if the user    *)
(* accepted its changes or gave up reviewing.                              *)
ConsentBeforeChange ==
    \A o \in Op : cfn[o] \in {"CREATE_IN_PROGRESS", "UPDATE_IN_PROGRESS"} =>
        autoConfirm \/ reviewed[o]

(* With --expect-no-changes no stack is created or updated, confirmed or   *)
(* not, and a stack reported as successful does not differ from its        *)
(* configuration.                                                          *)
NoChangesMade ==
    plan.expectNoChanges =>
        \A o \in Op :
            /\ cfn[o] \notin {"CREATE_IN_PROGRESS", "UPDATE_IN_PROGRESS"}
            /\ result[o] = "SUCCESS" =>
                  ~Creates(o) /\ plan.change[o] = "none"
                  /\ protection[o] = plan.protection[o]

(* A stack reported as successful is deployed, with the template and the   *)
(* termination protection of its configuration, by whichever of the paths  *)
(* through change sets, failed-stack deletion, rollback and partial        *)
(* updates the operation went.                                             *)
SuccessMeansConfigured ==
    \A o \in Op : result[o] = "SUCCESS" =>
        /\ cfn[o] \in DeployedStatuses
        /\ protection[o] = plan.protection[o]
        /\ Creates(o) => cfn[o] = "CREATE_COMPLETE"
        /\ ~Creates(o) /\ plan.change[o] = "template" => cfn[o] = "UPDATE_COMPLETE"

(* When the before hooks let an operation continue, its after hooks run    *)
(* before it completes, with the status it completes with unless they fail *)
(* themselves.  Unexpected changes are the one exception.                  *)
HooksPaired ==
    \A o \in Op : step[o] = "completed" =>
        /\ beforeHooks[o] /\ ~plan.expectNoChanges =>
              afterHooks[o] # None /\ result[o] \in {afterHooks[o], "FAILED"}
        /\ ~beforeHooks[o] => afterHooks[o] = None

(* The bulkhead's counter is the number of operations that hold a slot, at *)
(* most Limit of them; a reviewed deployment runs one stack at a time.     *)
SlotsBounded ==
    /\ mode = "parallel" => active = Cardinality(Running) /\ active <= Limit
    /\ mode = "sequential" => active = 0 /\ Running \subseteq {next}

(* An operation can go on, or the bulkhead can start one. *)
CanContinue(o) ==
    \/ step[o] \in BegunSteps
    \/ step[o] = Waiting /\ DependenciesSettled(o)

(* Operations hold their slots while they wait for dependencies that may   *)
(* still be in the queue: yet they never all wait for a queued one.        *)
NoSlotDeadlock ==
    mode = "parallel" /\ "REJECTED" \notin Statuses
        => \/ \A o \in Op : step[o] = "completed"
           \/ \E o \in Op : CanContinue(o)
           \/ queue # <<>> /\ active < Limit

(* A command that has not been rejected reports once every operation of    *)
(* its plan has completed, or none was started; and it reports success     *)
(* only if all of them succeeded.                                          *)
OutputComplete ==
    mode = "done" /\ output # "ERROR" =>
        \/ output = "CANCELLED" /\ \A o \in Op : step[o] = "idle" /\ Untouched(o)
        \/ /\ \A o \in Op : step[o] = "completed"
           /\ output \in Successful <=> Statuses \subseteq Successful

(* A completed operation is never run again: its result and the settings   *)
(* Takomo controls stay as they are, also when the sequential loop hands   *)
(* over to the bulkhead.                                                   *)
ResultsFinal ==
    [][\A o \in Op : step[o] = "completed" =>
            /\ step'[o] = "completed"
            /\ UNCHANGED <<result[o], protection[o], changeSet[o], afterHooks[o]>>]_vars

(* Every run of the command ends. *)
Terminates == <>(mode = "done")

-----------------------------------------------------------------------------
(* The promise of StackOperations, seen from here. *)
OperationState ==
    [o \in Op |-> CASE step[o] = "completed" /\ result[o] = "REJECTED" -> "FAILED"
                   [] step[o] = "completed" /\ result[o] # "REJECTED" -> result[o]
                   [] step[o] \in BegunSteps -> "begun"
                   [] OTHER -> "waiting"]

Abstract == INSTANCE StackOperations
                WITH Operations <- Op, needs <- plan.dependencies, state <- OperationState

(* The scheduler and the step machine together keep the promise of         *)
(* StackOperations: in every behaviour operations begin, end and are       *)
(* refused as it allows.                                                   *)
ImplementsStackOperations == Abstract!Spec

-----------------------------------------------------------------------------
(* reviewChangeSet logs "Temporary stack deleted successfully" before it   *)
(* creates the stack or reports the cancellation: the stack is gone then.  *)
TemporaryStackGone ==
    \A o \in Op :
        /\ Creates(o) /\ reviewed[o] /\ step[o] = "initiate-stack-create-or-update"
              => cfn[o] = Absent
        /\ Creates(o) /\ outcome[o] = "CANCELLED" => cfn[o] = Absent

(* waitDependenciesToComplete: "At least one dependency stacks creation    *)
(* was skipped, cancel stack creation".  A stack is not created on a       *)
(* dependency that was skipped and does not exist.                         *)
SkippedDependencyCancels ==
    \A o \in Op : cfn[o] = "CREATE_IN_PROGRESS" =>
        \A d \in Dependencies(o) : result[d] = "SKIPPED" => Exists(cfn[d])
=============================================================================
