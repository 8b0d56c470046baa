-------------------------- MODULE StackDeploySteps --------------------------
(***************************************************************************)
(* The deployment of one stack: the state machine that deploy-stack.ts     *)
(* starts, whose steps are the files of                                    *)
(* takomo-stacks-commands/stacks/deploy/steps and whose arrows are         *)
(* deploy/transitions.ts, run by common/steps.ts.  The module gives the    *)
(* actions of an operation o; DeployStacks schedules them.                 *)
(*                                                                         *)
(* An operation is named by its position in the plan's operations array.   *)
(*                                                                         *)
(* A definition whose name ends in _Something is a wrong version of the    *)
(* one after it, that the mutation runs put in its place.                  *)
(***************************************************************************)
EXTENDS CloudFormation, Integers, Sequences

CONSTANTS
    NumOps,         \* number of operations in the plan
    InitialStatuses,\* statuses a stack may have when the plan is built
    Changes,        \* what differs from the deployed stack: see Plans
    Protections,    \* values of a stack's termination protection
    Reviews,        \* answers the user may give to reviewChangeSet
    HookResults,    \* results executeHooks may return
    MayThrow        \* steps in which a call may throw

VARIABLES
    plan,           \* the operations and the options of the command; constant
    autoConfirm,    \* DeployState.autoConfirm, shared by all operations
    step,           \* the step each operation is at
    outcome,        \* the status handed to executeAfterDeployHooks
    result,         \* StackResult.status of each operation
    cfn,            \* status of each stack in CloudFormation
    protection,     \* termination protection of each stack in CloudFormation
    changeSet,      \* is a change set of this operation left in CloudFormation?
    reviewed,       \* history: the user accepted the changes of the stack
    beforeHooks,    \* history: the before hooks let the operation continue
    afterHooks      \* history: the status the after hooks were given

awsVars == <<cfn, protection, changeSet>>
historyVars == <<reviewed, beforeHooks, afterHooks>>
stackVars == <<step, outcome, result, awsVars, historyVars>>

Op == 1 .. NumOps

None == "NONE"
OperationStatuses == {"SUCCESS", "FAILED", "CANCELLED", "SKIPPED"}
Successful == {"SUCCESS", "SKIPPED"}

PreparationSteps ==
    {"prepare-parameters", "prepare-tags", "prepare-template", "upload-template",
     "validate-template", "summarize-template", "validate-parameters"}

(* The steps createDeployStackTransitions wraps in                         *)
(* executeAfterDeployHooksOnError.  The last two are the waits for the     *)
(* deletion of the temporary stack inside reviewChangeSet.                 *)
WrappedSteps ==
    PreparationSteps \union
    {"initiate-change-set-create", "wait-change-set-to-be-ready",
     "review-change-set", "initiate-stack-create-or-update",
     "initiate-stack-create", "update-termination-protection",
     "initiate-stack-update", "wait-stack-create-or-update-complete",
     "clean-up-then-cancel", "clean-up-then-deploy"}

(* The steps it does not wrap and that call CloudFormation. *)
UnwrappedSteps ==
    {"initiate-failed-stack-delete", "wait-failed-stack-delete-to-complete",
     "continue-update-rollback", "wait-stack-rollback-to-complete",
     "enrich-current-stack"}

HookSteps == {"execute-before-deploy-hooks", "execute-after-deploy-hooks"}

(* The steps an operation reaches once its dependencies let it begin. *)
BegunSteps == WrappedSteps \union UnwrappedSteps \union HookSteps

Waiting == "wait-dependencies-to-complete"
RunningSteps == {Waiting} \union BegunSteps
Steps == {"idle", "queued", "completed"} \union RunningSteps

-----------------------------------------------------------------------------
(* resolveOperationType of deploy/plan.ts.  The other statuses make it throw *)
(* while the plan is built.                                                  *)
OperationType(status) ==
    CASE status = Absent -> "CREATE"
      [] status \in DeployedStatuses \union {"UPDATE_ROLLBACK_FAILED"} -> "UPDATE"
      [] status \in FailedCreationStatuses \union {"REVIEW_IN_PROGRESS"} -> "RECREATE"

PlannableStatuses ==
    DeployedStatuses \union FailedCreationStatuses \union
    {Absent, "UPDATE_ROLLBACK_FAILED", "REVIEW_IN_PROGRESS"}

Type(o) == OperationType(plan.status[o])
Dependencies(o) == plan.dependencies[o]

(* stackExistedBeforeOperation of deploy-stack.ts: currentStack !== undefined *)
ExistedBefore(o) == plan.status[o] # Absent

(* CREATE and RECREATE reach the hooks with currentStack undefined. *)
Creates(o) == Type(o) \in {"CREATE", "RECREATE"}

ProtectionChanged(o) == ~Creates(o) /\ plan.protection[o] # protection[o]

(* waitUntilChangeSetIsReady returns a change set and not undefined. *)
HasChangeSet(o) == Creates(o) \/ plan.change[o] = "template"

-----------------------------------------------------------------------------
(* Transitions. *)
GoTo(o, next) ==
    /\ step' = [step EXCEPT ![o] = next]
    /\ UNCHANGED <<outcome, result>>

Complete(o, status) ==
    /\ step' = [step EXCEPT ![o] = "completed"]
    /\ result' = [result EXCEPT ![o] = status]
    /\ UNCHANGED outcome

GoToAfterHooks(o, status) ==
    /\ step' = [step EXCEPT ![o] = "execute-after-deploy-hooks"]
    /\ outcome' = [outcome EXCEPT ![o] = status]
    /\ UNCHANGED result

SetCfn(o, status) == cfn' = [cfn EXCEPT ![o] = status]
SetProtection(o, value) == protection' = [protection EXCEPT ![o] = value]

-----------------------------------------------------------------------------
(* waitDependenciesToComplete.  Promise.all rejects as soon as one of the  *)
(* promises does, and executeStep turns the rejection into FAILED.         *)
DependencyRejected(o) ==
    /\ step[o] = Waiting
    /\ \E d \in Dependencies(o) : result[d] = "REJECTED"
    /\ Complete(o, "FAILED")
    /\ UNCHANGED <<awsVars, historyVars, autoConfirm>>

DependenciesSettled_Deployed(o) == \A d \in Dependencies(o) : result[d] \in Successful

DependenciesSettled(o) ==
    \A d \in Dependencies(o) : result[d] \in OperationStatuses

SomeDependencyFailed_CancelledPasses(o) ==
    \E d \in Dependencies(o) : result[d] = "FAILED"

SomeDependencyFailed(o) == \E d \in Dependencies(o) : result[d] \notin Successful

SomeDependencySkipped(o) ==
    \E d \in Dependencies(o) : result[d] = "SKIPPED" /\ ~ExistedBefore(d)

DependenciesFailed(o) ==
    /\ step[o] = Waiting
    /\ DependenciesSettled(o)
    /\ SomeDependencyFailed(o)
    /\ Complete(o, "CANCELLED")
    /\ UNCHANGED <<awsVars, historyVars, autoConfirm>>

(* Only a stack unknown to CloudFormation is held back by a skipped        *)
(* dependency.                                                             *)
DependenciesSkipped(o) ==
    /\ step[o] = Waiting
    /\ DependenciesSettled(o)
    /\ ~SomeDependencyFailed(o)
    /\ ~ExistedBefore(o)
    /\ SomeDependencySkipped(o)
    /\ Complete(o, "CANCELLED")
    /\ UNCHANGED <<awsVars, historyVars, autoConfirm>>

FirstStep(o) ==
    CASE Type(o) = "CREATE" -> "execute-before-deploy-hooks"
      [] Type(o) = "RECREATE" -> "initiate-failed-stack-delete"
      [] plan.status[o] = "UPDATE_ROLLBACK_FAILED" -> "continue-update-rollback"
      [] OTHER -> "enrich-current-stack"

DependenciesCompleted_ExistingStackBegins(o) ==
    /\ step[o] = Waiting
    /\ DependenciesSettled(o)
    /\ ExistedBefore(o) \/ (~SomeDependencyFailed(o) /\ ~SomeDependencySkipped(o))
    /\ GoTo(o, FirstStep(o))
    /\ UNCHANGED <<awsVars, historyVars, autoConfirm>>

DependenciesCompleted(o) ==
    /\ step[o] = Waiting
    /\ DependenciesSettled(o)
    /\ ~SomeDependencyFailed(o)
    /\ ExistedBefore(o) \/ ~SomeDependencySkipped(o)
    /\ GoTo(o, FirstStep(o))
    /\ UNCHANGED <<awsVars, historyVars, autoConfirm>>

-----------------------------------------------------------------------------
StepThrows_NoAfterHooks(o) ==
    /\ step[o] \in MayThrow
    /\ Complete(o, "FAILED")
    /\ UNCHANGED <<awsVars, historyVars, autoConfirm>>

(* A step that throws before it has changed anything. *)
StepThrows(o) ==
    /\ step[o] \in MayThrow
    /\ \/ step[o] \in WrappedSteps /\ GoToAfterHooks(o, "FAILED")
       \/ step[o] \in UnwrappedSteps /\ Complete(o, "FAILED")
    /\ UNCHANGED <<awsVars, historyVars, autoConfirm>>

(* RECREATE: termination protection is lifted, then the failed stack is    *)
(* deleted; the second call may throw after the first one took effect.     *)
InitiateFailedStackDelete(o) ==
    /\ step[o] = "initiate-failed-stack-delete"
    /\ SetProtection(o, FALSE)
    /\ \/ SetCfn(o, "DELETE_IN_PROGRESS") /\ GoTo(o, "wait-failed-stack-delete-to-complete")
       \/ step[o] \in MayThrow /\ Complete(o, "FAILED") /\ UNCHANGED cfn
    /\ UNCHANGED <<changeSet, historyVars, autoConfirm>>

WaitFailedStackDeleteToComplete_RetryForever(o) ==
    /\ step[o] = "wait-failed-stack-delete-to-complete"
    /\ cfn[o] \in StableStatuses
    /\ GoTo(o, IF cfn[o] = Absent THEN "execute-before-deploy-hooks"
                                 ELSE "initiate-failed-stack-delete")
    /\ UNCHANGED <<awsVars, historyVars, autoConfirm>>

WaitFailedStackDeleteToComplete(o) ==
    /\ step[o] = "wait-failed-stack-delete-to-complete"
    /\ cfn[o] \in StableStatuses
    /\ IF cfn[o] = Absent THEN GoTo(o, "execute-before-deploy-hooks")
                          ELSE Complete(o, "FAILED")
    /\ UNCHANGED <<awsVars, historyVars, autoConfirm>>

(* UPDATE of a stack whose last update could not be rolled back. *)
ContinueUpdateRollback(o) ==
    /\ step[o] = "continue-update-rollback"
    /\ SetCfn(o, "UPDATE_ROLLBACK_IN_PROGRESS")
    /\ GoTo(o, "wait-stack-rollback-to-complete")
    /\ UNCHANGED <<protection, changeSet, historyVars, autoConfirm>>

WaitStackRollbackToComplete(o) ==
    /\ step[o] = "wait-stack-rollback-to-complete"
    /\ cfn[o] \in StableStatuses
    /\ IF cfn[o] = "UPDATE_ROLLBACK_COMPLETE" THEN GoTo(o, "enrich-current-stack")
                                              ELSE Complete(o, "FAILED")
    /\ UNCHANGED <<awsVars, historyVars, autoConfirm>>

EnrichCurrentStack(o) ==
    /\ step[o] = "enrich-current-stack"
    /\ GoTo(o, "execute-before-deploy-hooks")
    /\ UNCHANGED <<awsVars, historyVars, autoConfirm>>

(* An operation its before hooks stop or skip runs no after hooks. *)
ExecuteBeforeDeployHooks(o) ==
    /\ step[o] = "execute-before-deploy-hooks"
    /\ \E hooks \in HookResults :
          /\ beforeHooks' = [beforeHooks EXCEPT ![o] = (hooks = "continue")]
          /\ \/ hooks = "abort" /\ Complete(o, "FAILED")
             \/ hooks = "skip" /\ Complete(o, "SKIPPED")
             \/ hooks = "continue" /\ GoTo(o, "prepare-parameters")
    /\ UNCHANGED <<awsVars, reviewed, afterHooks, autoConfirm>>

-----------------------------------------------------------------------------
(* The preparation of the request: none of these steps changes a stack.    *)
Prepare(o, current, next) ==
    /\ step[o] = current
    /\ GoTo(o, next)
    /\ UNCHANGED <<awsVars, historyVars, autoConfirm>>

PrepareParameters(o) == Prepare(o, "prepare-parameters", "prepare-tags")
PrepareTags(o) == Prepare(o, "prepare-tags", "prepare-template")
PrepareTemplate(o) == Prepare(o, "prepare-template", "upload-template")
UploadTemplate(o) == Prepare(o, "upload-template", "validate-template")
ValidateTemplate(o) == Prepare(o, "validate-template", "summarize-template")
SummarizeTemplate(o) == Prepare(o, "summarize-template", "validate-parameters")

DeploysDirectly_OptionIgnored(o) == autoConfirm
DeploysDirectly_Either(o) == autoConfirm \/ ~plan.expectNoChanges

(* autoConfirm is read here, and only here, to choose between a direct     *)
(* deployment and a reviewed change set.  Invalid parameters: StepThrows.  *)
DeploysDirectly(o) == autoConfirm /\ ~plan.expectNoChanges

ValidateParameters(o) ==
    Prepare(o, "validate-parameters",
            IF DeploysDirectly(o)
            THEN "initiate-stack-create-or-update"
            ELSE "initiate-change-set-create")

-----------------------------------------------------------------------------
(* A change set of type CREATE makes CloudFormation create a temporary     *)
(* stack that holds it.                                                    *)
InitiateChangeSetCreate(o) ==
    /\ step[o] = "initiate-change-set-create"
    /\ changeSet' = [changeSet EXCEPT ![o] = TRUE]
    /\ IF Creates(o) THEN SetCfn(o, "REVIEW_IN_PROGRESS") ELSE UNCHANGED cfn
    /\ GoTo(o, "wait-change-set-to-be-ready")
    /\ UNCHANGED <<protection, historyVars, autoConfirm>>

PolicyChanged(o) == plan.change[o] = "policy"

(* With expectNoChanges the operation fails at once: the after hooks do not *)
(* run, and neither the change set nor the temporary stack is removed.      *)
WaitChangeSetToBeReady(o) ==
    /\ step[o] = "wait-change-set-to-be-ready"
    /\ IF ~HasChangeSet(o) /\ ~ProtectionChanged(o) /\ ~PolicyChanged(o)
       THEN GoToAfterHooks(o, "SUCCESS")
       ELSE IF plan.expectNoChanges
            THEN Complete(o, "FAILED")
            ELSE GoTo(o, "review-change-set")
    /\ UNCHANGED <<awsVars, historyVars, autoConfirm>>

(* The temporary stack is deleted with its change set before the operation *)
(* goes on; a change set of a deployed stack is deleted by itself.         *)
HoldsTemporaryStack(o) == HasChangeSet(o) /\ Creates(o)

CleanUp(o) ==
    IF HoldsTemporaryStack(o)
    THEN SetCfn(o, "DELETE_IN_PROGRESS") /\ UNCHANGED <<protection, changeSet>>
    ELSE changeSet' = [changeSet EXCEPT ![o] = FALSE] /\ UNCHANGED <<cfn, protection>>

ReviewCancelled(o) ==
    /\ step[o] = "review-change-set"
    /\ "CANCEL" \in Reviews
    /\ CleanUp(o)
    /\ IF HoldsTemporaryStack(o) THEN GoTo(o, "clean-up-then-cancel")
                                ELSE GoToAfterHooks(o, "CANCELLED")
    /\ UNCHANGED <<historyVars, autoConfirm>>

(* The answer to skip the remaining reviews takes effect before the clean *)
(* up, which may still throw.                                             *)
ReviewAccepted(o) ==
    /\ step[o] = "review-change-set"
    /\ \E answer \in Reviews \ {"CANCEL"} :
          autoConfirm' = (autoConfirm \/ answer = "CONTINUE_AND_SKIP_REMAINING_REVIEWS")
    /\ reviewed' = [reviewed EXCEPT ![o] = TRUE]
    /\ \/ /\ CleanUp(o)
          /\ GoTo(o, IF HoldsTemporaryStack(o) THEN "clean-up-then-deploy"
                     ELSE "initiate-stack-create-or-update")
       \/ /\ step[o] \in MayThrow
          /\ GoToAfterHooks(o, "FAILED")
          /\ UNCHANGED awsVars
    /\ UNCHANGED <<beforeHooks, afterHooks>>

(* waitStackDeleteToComplete inside reviewChangeSet: the status the        *)
(* deletion ended with is not looked at.                                   *)
TemporaryStackDeleted(o) ==
    /\ cfn[o] \in StableStatuses
    /\ changeSet' = [changeSet EXCEPT ![o] = cfn[o] # Absent]
    /\ \/ /\ step[o] = "clean-up-then-cancel"
          /\ GoToAfterHooks(o, "CANCELLED")
       \/ /\ step[o] = "clean-up-then-deploy"
          /\ GoTo(o, "initiate-stack-create-or-update")
    /\ UNCHANGED <<cfn, protection, historyVars, autoConfirm>>

-----------------------------------------------------------------------------
InitiateStackCreateOrUpdate(o) ==
    /\ step[o] = "initiate-stack-create-or-update"
    /\ GoTo(o, CASE Creates(o) -> "initiate-stack-create"
                 [] ProtectionChanged(o) -> "update-termination-protection"
                 [] OTHER -> "initiate-stack-update")
    /\ UNCHANGED <<awsVars, historyVars, autoConfirm>>

(* createStack throws when a stack of that name is still there. *)
InitiateStackCreate(o) ==
    /\ step[o] = "initiate-stack-create"
    /\ IF cfn[o] = Absent
       THEN /\ SetCfn(o, "CREATE_IN_PROGRESS")
            /\ SetProtection(o, plan.protection[o])
            /\ GoTo(o, "wait-stack-create-or-update-complete")
       ELSE GoToAfterHooks(o, "FAILED") /\ UNCHANGED <<cfn, protection>>
    /\ UNCHANGED <<changeSet, historyVars, autoConfirm>>

UpdateTerminationProtection(o) ==
    /\ step[o] = "update-termination-protection"
    /\ SetProtection(o, plan.protection[o])
    /\ GoTo(o, "initiate-stack-update")
    /\ UNCHANGED <<cfn, changeSet, historyVars, autoConfirm>>

(* updateStack returns false when CloudFormation finds nothing to update.  *)
InitiateStackUpdate(o) ==
    /\ step[o] = "initiate-stack-update"
    /\ IF plan.change[o] = "template"
       THEN /\ SetCfn(o, "UPDATE_IN_PROGRESS")
            /\ GoTo(o, "wait-stack-create-or-update-complete")
       ELSE GoToAfterHooks(o, "SUCCESS") /\ UNCHANGED cfn
    /\ UNCHANGED <<protection, changeSet, historyVars, autoConfirm>>

DeploySucceeded_AnyDeployed(status) == status \in DeployedStatuses
DeploySucceeded_RollbackCounts(status) == status \in {"CREATE_COMPLETE", "ROLLBACK_COMPLETE", "UPDATE_COMPLETE"}

DeploySucceeded(status) == status \in {"CREATE_COMPLETE", "UPDATE_COMPLETE"}

WaitStackCreateOrUpdateToComplete(o) ==
    /\ step[o] = "wait-stack-create-or-update-complete"
    /\ cfn[o] \in StableStatuses
    /\ GoToAfterHooks(o, IF DeploySucceeded(cfn[o])
                         THEN "SUCCESS" ELSE "FAILED")
    /\ UNCHANGED <<awsVars, historyVars, autoConfirm>>

ExecuteAfterDeployHooks_HookResult(o) ==
    /\ step[o] = "execute-after-deploy-hooks"
    /\ afterHooks' = [afterHooks EXCEPT ![o] = outcome[o]]
    /\ \E hooks \in HookResults : Complete(o, hooks)
    /\ UNCHANGED <<awsVars, reviewed, beforeHooks, autoConfirm>>

(* An after hook that asks to skip changes nothing; one that fails turns   *)
(* the outcome into FAILED.                                                *)
ExecuteAfterDeployHooks(o) ==
    /\ step[o] = "execute-after-deploy-hooks"
    /\ afterHooks' = [afterHooks EXCEPT ![o] = outcome[o]]
    /\ \E hooks \in HookResults :
          Complete(o, IF hooks = "abort" THEN "FAILED" ELSE outcome[o])
    /\ UNCHANGED <<awsVars, reviewed, beforeHooks, autoConfirm>>

-----------------------------------------------------------------------------
(* One iteration of the loop of executeSteps. *)
StackStep(o) ==
    \/ DependencyRejected(o)
    \/ DependenciesFailed(o)
    \/ DependenciesSkipped(o)
    \/ DependenciesCompleted(o)
    \/ StepThrows(o)
    \/ InitiateFailedStackDelete(o)
    \/ WaitFailedStackDeleteToComplete(o)
    \/ ContinueUpdateRollback(o)
    \/ WaitStackRollbackToComplete(o)
    \/ EnrichCurrentStack(o)
    \/ ExecuteBeforeDeployHooks(o)
    \/ PrepareParameters(o)
    \/ PrepareTags(o)
    \/ PrepareTemplate(o)
    \/ UploadTemplate(o)
    \/ ValidateTemplate(o)
    \/ SummarizeTemplate(o)
    \/ ValidateParameters(o)
    \/ InitiateChangeSetCreate(o)
    \/ WaitChangeSetToBeReady(o)
    \/ ReviewCancelled(o)
    \/ ReviewAccepted(o)
    \/ TemporaryStackDeleted(o)
    \/ InitiateStackCreateOrUpdate(o)
    \/ InitiateStackCreate(o)
    \/ UpdateTerminationProtection(o)
    \/ InitiateStackUpdate(o)
    \/ WaitStackCreateOrUpdateToComplete(o)
    \/ ExecuteAfterDeployHooks(o)

(* CloudFormation ends what it has in progress. *)
CfnCompletes(o) ==
    /\ cfn[o] \in InProgressStatuses
    /\ \E ending \in Endings[cfn[o]] : SetCfn(o, ending)
    /\ UNCHANGED <<step, outcome, result, protection, changeSet, historyVars, autoConfirm>>
=============================================================================
