--------------------------- MODULE UndeployStacks ---------------------------
(***************************************************************************)
(* takomo-stacks-commands/stacks/undeploy: one run of "tkm stacks          *)
(* undeploy" once its plan is built and validated.  The user confirms the  *)
(* plan, every operation is handed at once to a bulkhead, and each deletes *)
(* its stack after the stacks that depend on it.                           *)
(*                                                                         *)
(* An operation is named by its position in the plan's operations array.   *)
(* A definition whose name ends in _Something is a wrong version of the    *)
(* one after it, that the mutation runs put in its place.                  *)
(***************************************************************************)
EXTENDS CloudFormation, CommandStatus, Bulkhead, Sequences

CONSTANTS
    NumOps,          \* number of operations in the plan
    InitialStatuses, \* statuses a stack may have when the plan is built
    HookStatuses,    \* status configurations of an after hook; {} is none
    Confirmations,   \* answers the user may give to confirmUndeploy
    HookResults,     \* results executeHooks may return
    MayThrow,        \* steps in which a call may throw
    Options          \* the options the command may be started with

VARIABLES
    plan,            \* the operations and the options; constant
    step,            \* the step each operation is at
    outcome,         \* the status handed to executeAfterUndeployHooks
    result,          \* StackResult.status of each operation
    cfn,             \* status of each stack in CloudFormation
    hooksRun,        \* history: the stages of the hooks that were executed
    mode,            \* where executeUndeployContext is
    active,          \* the bulkhead's count of running operations
    queue,           \* the bulkhead's queue
    output           \* status of the command's output

stackVars == <<step, outcome, result, cfn, hooksRun>>
schedulerVars == <<mode, active, queue, output>>
vars == <<plan, stackVars, schedulerVars>>

Op == 1 .. NumOps

None == "NONE"
OperationStatuses == {"SUCCESS", "FAILED", "CANCELLED", "SKIPPED"}
Successful == {"SUCCESS", "SKIPPED"}

Waiting == "wait-dependents-to-complete"

(* The steps createUndeployStackTransitions wraps in                       *)
(* executeAfterUndeployHooksOnError.                                       *)
WrappedSteps == {"initiate-stack-delete", "wait-stack-delete-complete"}
BegunSteps == WrappedSteps \union {"execute-before-hooks", "execute-after-hooks"}
RunningSteps == {Waiting} \union BegunSteps
Steps == {"idle", "queued", "completed"} \union RunningSteps

(* The statuses validateStacksUndeployPlan lets through, without those of  *)
(* a failed import.                                                        *)
UndeployableStatuses ==
    {Absent, "REVIEW_IN_PROGRESS", "DELETE_FAILED"} \union DeployedStatuses
    \union FailedCreationStatuses

ASSUME NumOpsAssumption == NumOps \in Nat

ASSUME InputsAssumption ==
    /\ InitialStatuses \subseteq UndeployableStatuses
    /\ HookStatuses \subseteq SUBSET OperationStatuses
    /\ Confirmations \subseteq {"CANCEL", "CONTINUE"}
    /\ HookResults \subseteq {"continue", "skip", "abort"}
    /\ MayThrow \subseteq WrappedSteps
    /\ Options \subseteq [autoConfirmEnabled : BOOLEAN, ignoreDependencies : BOOLEAN]

Dependents(o) == plan.dependents[o]
ExistedBefore(o) == plan.status[o] # Absent

-----------------------------------------------------------------------------
(* The plans buildStacksUndeployPlan can produce: sorted so that the       *)
(* dependents of a stack come before it.                                   *)
Sorted(dependents) == \A o \in Op : \A d \in dependents[o] : d < o

Plans ==
    {[dependents |-> dependents, status |-> status, hookStatus |-> hookStatus,
      autoConfirmEnabled |-> options.autoConfirmEnabled,
      ignoreDependencies |-> options.ignoreDependencies] :
        dependents \in {f \in [Op -> SUBSET Op] : Sorted(f)},
        status \in [Op -> InitialStatuses],
        hookStatus \in [Op -> HookStatuses],
        options \in Options}

Init ==
    /\ plan \in Plans
    /\ step = [o \in Op |-> "idle"]
    /\ outcome = [o \in Op |-> None]
    /\ result = [o \in Op |-> None]
    /\ cfn = plan.status
    /\ hooksRun = [o \in Op |-> {}]
    /\ mode = "confirm"
    /\ active = 0
    /\ queue = <<>>
    /\ output = None

GoTo(o, next) ==
    /\ step' = [step EXCEPT ![o] = next]
    /\ UNCHANGED <<outcome, result>>

Complete(o, status) ==
    /\ step' = [step EXCEPT ![o] = "completed"]
    /\ result' = [result EXCEPT ![o] = status]
    /\ UNCHANGED outcome

GoToAfterHooks(o, status) ==
    /\ step' = [step EXCEPT ![o] = "execute-after-hooks"]
    /\ outcome' = [outcome EXCEPT ![o] = status]
    /\ UNCHANGED result

-----------------------------------------------------------------------------
(* waitDependentsToComplete.  Promise.all rejects as soon as one of the    *)
(* promises does, and executeStep turns the rejection into FAILED.         *)
DependentRejected(o) ==
    /\ step[o] = Waiting
    /\ \E d \in Dependents(o) : result[d] = "REJECTED"
    /\ Complete(o, "FAILED")
    /\ UNCHANGED <<cfn, hooksRun>>

DependentsSettled_Deleted(o) == \A d \in Dependents(o) : result[d] \in SuccessfulStatuses

DependentsSettled(o) == \A d \in Dependents(o) : result[d] \in OperationStatuses

SomeDependentFailed_FailedOnly(o) == \E d \in Dependents(o) : result[d] = "FAILED"

SomeDependentFailed(o) == \E d \in Dependents(o) : result[d] \notin Successful

SomeDependentSkipped_NotExisting(o) ==
    \E d \in Dependents(o) : result[d] = "SKIPPED" /\ ~ExistedBefore(d)

(* A dependent that was skipped although it exists is still there. *)
SomeDependentSkipped(o) ==
    \E d \in Dependents(o) : result[d] = "SKIPPED" /\ ExistedBefore(d)

DependentsRemain(o) ==
    /\ step[o] = Waiting
    /\ DependentsSettled(o)
    /\ SomeDependentFailed(o) \/ SomeDependentSkipped(o)
    /\ Complete(o, "CANCELLED")
    /\ UNCHANGED <<cfn, hooksRun>>

StackNotFound(o) ==
    /\ step[o] = Waiting
    /\ DependentsSettled(o)
    /\ ~SomeDependentFailed(o) /\ ~SomeDependentSkipped(o)
    /\ ~ExistedBefore(o)
    /\ Complete(o, "SKIPPED")
    /\ UNCHANGED <<cfn, hooksRun>>

DependentsCompleted(o) ==
    /\ step[o] = Waiting
    /\ DependentsSettled(o)
    /\ ~SomeDependentFailed(o) /\ ~SomeDependentSkipped(o)
    /\ ExistedBefore(o)
    /\ GoTo(o, "execute-before-hooks")
    /\ UNCHANGED <<cfn, hooksRun>>

ExecuteBeforeUndeployHooks(o) ==
    /\ step[o] = "execute-before-hooks"
    /\ \E hooks \in HookResults :
          \/ hooks = "abort" /\ Complete(o, "FAILED")
          \/ hooks = "skip" /\ Complete(o, "SKIPPED")
          \/ hooks = "continue" /\ GoTo(o, "initiate-stack-delete")
    /\ hooksRun' = [hooksRun EXCEPT ![o] = @ \union {"before"}]
    /\ UNCHANGED cfn

(* A call that throws: the deletion was not initiated, or it goes on while *)
(* the wait for it has failed.                                             *)
StepThrows(o) ==
    /\ step[o] \in MayThrow
    /\ GoToAfterHooks(o, "FAILED")
    /\ UNCHANGED <<cfn, hooksRun>>

InitiateStackDeletion(o) ==
    /\ step[o] = "initiate-stack-delete"
    /\ cfn' = [cfn EXCEPT ![o] = "DELETE_IN_PROGRESS"]
    /\ GoTo(o, "wait-stack-delete-complete")
    /\ UNCHANGED hooksRun

DeleteSucceeded_AnyEnd(status) == status \in StableStatuses

DeleteSucceeded(status) == status = Absent

WaitStackDeleteToComplete(o) ==
    /\ step[o] = "wait-stack-delete-complete"
    /\ cfn[o] \in StableStatuses
    /\ GoToAfterHooks(o, IF DeleteSucceeded(cfn[o]) THEN "SUCCESS" ELSE "FAILED")
    /\ UNCHANGED <<cfn, hooksRun>>

(* HookExecutor.match: the configured status counts only when executeHooks *)
(* was given one.                                                          *)
HookMatches(o, status) ==
    status # None /\ plan.hookStatus[o] # {} => status \in plan.hookStatus[o]

ExecuteAfterUndeployHooks_HookResult(o) ==
    /\ step[o] = "execute-after-hooks"
    /\ hooksRun' = [hooksRun EXCEPT ![o] = @ \union {"after"}]
    /\ \E hooks \in HookResults : Complete(o, hooks)
    /\ UNCHANGED cfn

(* executeHooks is called without the status of the operation.  A hook     *)
(* that did not match returns "continue".                                  *)
ExecuteAfterUndeployHooks(o) ==
    /\ step[o] = "execute-after-hooks"
    /\ IF HookMatches(o, None)
       THEN /\ hooksRun' = [hooksRun EXCEPT ![o] = @ \union {"after"}]
            /\ \E hooks \in HookResults :
                  Complete(o, IF hooks = "abort" THEN "FAILED" ELSE outcome[o])
       ELSE Complete(o, outcome[o]) /\ UNCHANGED hooksRun
    /\ UNCHANGED cfn

StackStep(o) ==
    \/ DependentRejected(o)
    \/ DependentsRemain(o)
    \/ StackNotFound(o)
    \/ DependentsCompleted(o)
    \/ ExecuteBeforeUndeployHooks(o)
    \/ StepThrows(o)
    \/ InitiateStackDeletion(o)
    \/ WaitStackDeleteToComplete(o)
    \/ ExecuteAfterUndeployHooks(o)

-----------------------------------------------------------------------------
(* --ignore-dependencies is only accepted for a single operation. *)
RejectIgnoreDependencies ==
    /\ mode = "confirm"
    /\ plan.ignoreDependencies /\ NumOps > 1
    /\ mode' = "done"
    /\ output' = "ERROR"
    /\ UNCHANGED <<plan, stackVars, active, queue>>

CancelUndeploy ==
    /\ mode = "confirm"
    /\ ~(plan.ignoreDependencies /\ NumOps > 1)
    /\ ~plan.autoConfirmEnabled /\ "CANCEL" \in Confirmations
    /\ mode' = "done"
    /\ output' = "CANCELLED"
    /\ UNCHANGED <<plan, stackVars, active, queue>>

ConfirmUndeploy ==
    /\ mode = "confirm"
    /\ ~(plan.ignoreDependencies /\ NumOps > 1)
    /\ plan.autoConfirmEnabled \/ "CONTINUE" \in Confirmations
    /\ mode' = "parallel"
    /\ step' = [o \in Op |-> CASE Starts(o, 1) -> Waiting
                               [] Queued(o, 1) -> "queued"
                               [] Rejected(o, 1) -> "completed"]
    /\ result' = [o \in Op |-> IF Rejected(o, 1) THEN "REJECTED" ELSE None]
    /\ active' = StartedCount(1, NumOps)
    /\ queue' = [k \in 1 .. QueuedCount(1, NumOps) |-> Limit + k]
    /\ UNCHANGED <<plan, outcome, cfn, hooksRun, output>>

(* The bulkhead starts the oldest queued operation when a slot is free. *)
Dequeue ==
    /\ mode = "parallel"
    /\ active < Limit
    /\ queue # <<>>
    /\ active' = active + 1
    /\ queue' = Tail(queue)
    /\ GoTo(Head(queue), Waiting)
    /\ UNCHANGED <<plan, cfn, hooksRun, mode, output>>

(* An operation keeps its slot until it completes. *)
DeleteStack(o) ==
    /\ mode = "parallel"
    /\ StackStep(o)
    /\ active' = IF step'[o] = "completed" THEN active - 1 ELSE active
    /\ UNCHANGED <<plan, mode, queue, output>>

CloudFormationStep(o) ==
    /\ cfn[o] \in InProgressStatuses
    /\ \E ending \in Endings[cfn[o]] : cfn' = [cfn EXCEPT ![o] = ending]
    /\ UNCHANGED <<plan, step, outcome, result, hooksRun, schedulerVars>>

Statuses == {result[o] : o \in Op}

(* Promise.all rejects with the first rejected execution, and resolves     *)
(* once all are settled.                                                   *)
Finish ==
    /\ mode = "parallel"
    /\ \/ "REJECTED" \in Statuses /\ output' = "ERROR"
       \/ Statuses \subseteq OperationStatuses /\ output' = ResolvedStatus(Statuses)
    /\ mode' = "done"
    /\ UNCHANGED <<plan, stackVars, active, queue>>

(* The process has exited. *)
Exited == mode = "done" /\ UNCHANGED vars

Scheduler ==
    \/ RejectIgnoreDependencies
    \/ CancelUndeploy
    \/ ConfirmUndeploy
    \/ Dequeue
    \/ Finish

Next ==
    \/ Scheduler
    \/ \E o \in Op : DeleteStack(o)
    \/ \E o \in Op : CloudFormationStep(o)
    \/ Exited

Spec == Init /\ [][Next]_vars

(* As in DeployStacks: each operation is a chain of promises of its own.   *)
Fairness ==
    /\ WF_vars(Scheduler)
    /\ \A o \in Op : WF_vars(DeleteStack(o))
    /\ \A o \in Op : WF_vars(CloudFormationStep(o))

FairSpec == Spec /\ Fairness

-----------------------------------------------------------------------------
(* The types of the variables. *)
TypeOK ==
    /\ plan.dependents \in [Op -> SUBSET Op]
    /\ plan.status \in [Op -> InitialStatuses]
    /\ plan.hookStatus \in [Op -> HookStatuses]
    /\ step \in [Op -> Steps]
    /\ outcome \in [Op -> {None, "SUCCESS", "FAILED"}]
    /\ result \in [Op -> {None, "REJECTED"} \union OperationStatuses]
    /\ cfn \in [Op -> StackStatuses]
    /\ hooksRun \in [Op -> SUBSET {"before", "after"}]
    /\ mode \in {"confirm", "parallel", "done"}
    /\ active \in 0 .. Limit
    /\ queue \in Seq(Op)
    /\ output \in {None, "ERROR"} \union CommandStatuses

(* Nothing has been asked of CloudFormation, or of the hooks, for o. *)
Untouched(o) == cfn[o] = plan.status[o] /\ hooksRun[o] = {}

(* A stack is deleted, or was, only when every stack that depends on it is *)
(* gone: a dependent whose deletion failed, that its own hook skipped or   *)
(* that the bulkhead rejected keeps all it depends on.                     *)
DependentsGone ==
    \A o \in Op :
        ExistedBefore(o) /\ cfn[o] \in {"DELETE_IN_PROGRESS", Absent} =>
            \A d \in Dependents(o) : cfn[d] = Absent

(* Once a stack was not deleted, no stack it depends on is touched or      *)
(* reported as successful.                                                 *)
FailureStopsDependencies ==
    \A o \in Op :
        (\E d \in Dependents(o) : result[d] \in {"FAILED", "CANCELLED", "REJECTED"})
            => Untouched(o) /\ result[o] \notin Successful

(* A command that reports SUCCESS or SKIPPED has left no stack of its plan *)
(* but those their own before hooks skipped; one the user cancelled has    *)
(* touched none.                                                           *)
OutputTruthful ==
    mode = "done" =>
        /\ output \in Successful =>
              \A o \in Op :
                 \/ cfn[o] = Absent
                 \/ result[o] = "SKIPPED" /\ hooksRun[o] = {"before"}
        /\ output = "CANCELLED" => \A o \in Op : Untouched(o)

Running == {o \in Op : step[o] \in RunningSteps}

(* The bulkhead's counter is the number of operations that hold a slot, at *)
(* most Limit of them.                                                     *)
SlotsBounded == active = Cardinality(Running) /\ active <= Limit

(* An operation can go on, or the bulkhead can start one. *)
CanContinue(o) ==
    \/ step[o] \in BegunSteps
    \/ step[o] = Waiting /\ DependentsSettled(o)

(* Operations hold their slots while they wait for dependents that may     *)
(* still be in the queue: yet they never all wait for a queued one.        *)
NoSlotDeadlock ==
    mode = "parallel" /\ "REJECTED" \notin Statuses
        => \/ \A o \in Op : step[o] = "completed"
           \/ \E o \in Op : CanContinue(o)
           \/ queue # <<>> /\ active < Limit

(* Every run of the command ends. *)
Terminates == <>(mode = "done")

-----------------------------------------------------------------------------
(* The promise of StackOperations, seen from here. *)
OperationState ==
    [o \in Op |-> CASE step[o] = "completed" /\ result[o] = "REJECTED" -> "FAILED"
                   [] step[o] = "completed" /\ result[o] # "REJECTED" -> result[o]
                   [] step[o] \in BegunSteps -> "begun"
                   [] OTHER -> "waiting"]

Abstract == INSTANCE StackOperations
                WITH Operations <- Op, needs <- plan.dependents, state <- OperationState

(* An undeployment keeps the promise of StackOperations with the           *)
(* dependents of a stack as what its operation needs.                      *)
ImplementsStackOperations == Abstract!Spec

-----------------------------------------------------------------------------
(* HookStatus of takomo-stacks-model/hook.ts: "Specifies after which stack *)
(* operation status the hook should be executed."  A hook configured with  *)
(* statuses is executed only after an operation that ended with one.       *)
AfterHooksMatchStatus ==
    \A o \in Op : "after" \in hooksRun[o] /\ plan.hookStatus[o] # {} =>
        outcome[o] \in plan.hookStatus[o]
=============================================================================
