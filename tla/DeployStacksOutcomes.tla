------------------------ MODULE DeployStacksOutcomes ------------------------
(***************************************************************************)
(* Theorems about what a deployment does to the stacks: what it asks of    *)
(* CloudFormation, with whose consent, with which hooks, and what its      *)
(* results say about the stacks.  They need to know, step by step, what    *)
(* one operation has done so far: OperationOK.                             *)
(***************************************************************************)
EXTENDS DeployStacksProofs

(* Statuses of a stack that was asked to change. *)
ChangingStatuses == {"CREATE_IN_PROGRESS", "UPDATE_IN_PROGRESS"}

(* Steps an operation is at only when it has consent to change its stack.  *)
ConsentedSteps ==
    {"clean-up-then-deploy", "initiate-stack-create-or-update",
     "initiate-stack-create", "update-termination-protection",
     "initiate-stack-update", "wait-stack-create-or-update-complete"}

(* Steps only an operation that creates its stack is at. *)
CreateSteps ==
    {"initiate-failed-stack-delete", "wait-failed-stack-delete-to-complete",
     "clean-up-then-cancel", "clean-up-then-deploy", "initiate-stack-create"}

(* Steps only an operation that updates its stack is at. *)
UpdateSteps == {"update-termination-protection", "initiate-stack-update"}

(* Steps at which a stack to update is deployed and not yet asked to       *)
(* change.                                                                 *)
SteadySteps ==
    PreparationSteps \union UpdateSteps \union
    {"enrich-current-stack", "execute-before-deploy-hooks",
     "initiate-change-set-create", "wait-change-set-to-be-ready",
     "review-change-set", "initiate-stack-create-or-update"}

(* Steps before the hooks. *)
UnhookedSteps ==
    {"idle", "queued", Waiting, "execute-before-deploy-hooks"} \union UnwrappedSteps

(* The operation ends, or has ended, as a success. *)
Succeeds(o) ==
    \/ step[o] = "execute-after-deploy-hooks" /\ outcome[o] = "SUCCESS"
    \/ result[o] = "SUCCESS"

(* The stack is what its configuration asks for. *)
Configured(o) ==
    /\ cfn[o] \in DeployedStatuses
    /\ protection[o] = plan.protection[o]
    /\ Creates(o) => cfn[o] = "CREATE_COMPLETE"
    /\ ~Creates(o) /\ plan.change[o] = "template" => cfn[o] = "UPDATE_COMPLETE"

NotStarted(o) == step[o] \in {"idle", "queued", Waiting} => Untouched(o)

HooksKept(o) ==
    /\ step[o] \in UnhookedSteps => ~beforeHooks[o] /\ afterHooks[o] = None
    /\ step[o] \in WrappedSteps \union {"execute-after-deploy-hooks"} =>
          beforeHooks[o] /\ afterHooks[o] = None
    /\ step[o] = "completed" =>
          /\ beforeHooks[o] /\ ~plan.expectNoChanges =>
                afterHooks[o] # None /\ result[o] \in {afterHooks[o], "FAILED"}
          /\ ~beforeHooks[o] => afterHooks[o] = None

ConsentKept(o) ==
    step[o] \in ConsentedSteps \/ cfn[o] \in ChangingStatuses =>
        autoConfirm \/ reviewed[o]

ExpectationKept(o) ==
    plan.expectNoChanges =>
        /\ step[o] \notin ConsentedSteps \union {"review-change-set", "clean-up-then-cancel"}
        /\ cfn[o] \notin ChangingStatuses
        /\ Succeeds(o) => /\ ~Creates(o)
                          /\ plan.change[o] = "none"
                          /\ protection[o] = plan.protection[o]

StackKept(o) ==
    /\ step[o] \in CreateSteps => Creates(o)
    /\ step[o] \in UpdateSteps => ~Creates(o)
    /\ step[o] \in SteadySteps /\ ~Creates(o) => cfn[o] \in DeployedStatuses
    /\ step[o] = "initiate-stack-update" => protection[o] = plan.protection[o]
    /\ step[o] = "wait-stack-create-or-update-complete" =>
          /\ protection[o] = plan.protection[o]
          /\ Creates(o) => cfn[o] \in {"CREATE_IN_PROGRESS"} \union Endings["CREATE_IN_PROGRESS"]
          /\ ~Creates(o) =>
                /\ cfn[o] \in {"UPDATE_IN_PROGRESS"} \union Endings["UPDATE_IN_PROGRESS"]
                /\ plan.change[o] = "template"
    /\ Succeeds(o) => Configured(o)

OperationOK(o) ==
    NotStarted(o) /\ HooksKept(o) /\ ConsentKept(o) /\ ExpectationKept(o) /\ StackKept(o)

ChangeTypeOK == plan.change \in [Op -> Changes]

OperationsOK == ChangeTypeOK /\ \A o \in Op : OperationOK(o)

(* Once a reviewed deployment has met a failure, it starts nothing any     *)
(* more: a loop that is not cancelled has met none.                        *)
ReviewStopped ==
    /\ mode = "parallel" => autoConfirm
    /\ mode = "sequential" =>
          /\ ~cancelled => \A o \in Op : o < next => result[o] \notin {"FAILED", "CANCELLED"}
          /\ cancelled /\ next \in Op => step[next] = "idle"
    /\ FailureStopsReview

-----------------------------------------------------------------------------
(* The kinds of operations, from the status the stack had in the plan. *)
LEMMA OperationKinds ==
    ASSUME NEW o \in Op, PlanTypeOK
    PROVE  /\ Creates(o) <=> plan.status[o] \notin DeployedStatuses \union {"UPDATE_ROLLBACK_FAILED"}
           /\ FirstStep(o) \in {"execute-before-deploy-hooks", "initiate-failed-stack-delete",
                               "continue-update-rollback", "enrich-current-stack"}
           /\ FirstStep(o) \in {"execute-before-deploy-hooks", "initiate-failed-stack-delete"}
                 <=> Creates(o)
           /\ FirstStep(o) = "enrich-current-stack" => plan.status[o] \in DeployedStatuses
<1>1. plan.status[o] \in PlannableStatuses
  BY InputsAssumption DEF PlanTypeOK
<1> USE DEF Creates, FirstStep, Absent, DeployedStatuses, FailedCreationStatuses
<1>2. CASE plan.status[o] = Absent
  <2>1. Type(o) = "CREATE"
    BY <1>2 DEF Type, OperationType
  <2>2. QED
    BY <1>2, <2>1
<1>3. CASE plan.status[o] \in DeployedStatuses \union {"UPDATE_ROLLBACK_FAILED"}
  <2>1. Type(o) = "UPDATE"
    BY <1>3 DEF Type, OperationType
  <2>2. QED
    BY <1>3, <2>1
<1>4. CASE plan.status[o] \in FailedCreationStatuses \union {"REVIEW_IN_PROGRESS"}
  <2>1. Type(o) = "RECREATE"
    BY <1>4 DEF Type, OperationType
  <2>2. QED
    BY <1>4, <2>1
<1>5. QED
  BY <1>1, <1>2, <1>3, <1>4 DEF PlannableStatuses

(* What most steps leave alone. *)
Quiet ==
    /\ cfn' = cfn /\ protection' = protection /\ autoConfirm' = autoConfirm
    /\ reviewed' = reviewed /\ beforeHooks' = beforeHooks /\ afterHooks' = afterHooks

(* The step leaves the outcome and the result of o alone. *)
Continues(o) == outcome'[o] = outcome[o] /\ result'[o] = result[o]

(* Every step of an operation keeps what is known of it.  For each: where  *)
(* it leads and what it changes, then the parts of OperationOK.            *)
LEMMA StackStepKeeps ==
    ASSUME NEW o \in Op, StackTypeOK, PlanTypeOK, ChangeTypeOK, OutcomeKnown, ResultKnown,
           autoConfirm \in BOOLEAN, OperationOK(o), StackStep(o), plan' = plan
    PROVE  OperationOK(o)'
<1> USE DEF StackTypeOK, OperationOK, NotStarted, HooksKept, ConsentKept, ExpectationKept, StackKept,
            ConsentedSteps, CreateSteps, UpdateSteps, SteadySteps, UnhookedSteps,
            ChangingStatuses, Succeeds, Quiet, Continues,
            GoTo, Complete, GoToAfterHooks, SetCfn, SetProtection, awsVars, historyVars,
            WrappedSteps, UnwrappedSteps, PreparationSteps, Waiting, None
<1>a. Creates(o)' <=> Creates(o)
  BY DEF Creates, Type
<1>b. step[o] # "completed" => result[o] = None
  BY DEF ResultKnown
<1>1. CASE DependencyRejected(o) \/ DependenciesFailed(o) \/ DependenciesSkipped(o)
  <2>1. Quiet /\ step[o] = Waiting /\ step'[o] = "completed" /\ result'[o] \in {"FAILED", "CANCELLED"}
    BY <1>1 DEF DependencyRejected, DependenciesFailed, DependenciesSkipped
  <2>2. NotStarted(o)' /\ HooksKept(o)' /\ ConsentKept(o)'
    BY <2>1
  <2>3. ExpectationKept(o)'
    BY <1>a, <1>b, <2>1
  <2>4. StackKept(o)'
    BY <1>a, <1>b, <2>1 DEF Configured
  <2>5. QED
    BY <2>2, <2>3, <2>4
<1>2. CASE DependenciesCompleted(o)
  <2>1. Quiet /\ step[o] = Waiting /\ step'[o] = FirstStep(o) /\ Continues(o)
    BY <1>2 DEF DependenciesCompleted
  <2>2. NotStarted(o)' /\ HooksKept(o)' /\ ConsentKept(o)'
    BY <2>1, OperationKinds
  <2>3. ExpectationKept(o)'
    BY <1>a, <1>b, <2>1, OperationKinds
  <2>4. StackKept(o)'
    BY <1>a, <1>b, <2>1, OperationKinds DEF Untouched
  <2>5. QED
    BY <2>2, <2>3, <2>4
<1>3. CASE StepThrows(o)
  <2>1. /\ Quiet
        /\ \/ /\ step[o] \in WrappedSteps /\ step'[o] = "execute-after-deploy-hooks"
              /\ outcome'[o] = "FAILED" /\ result'[o] = result[o]
           \/ step[o] \in UnwrappedSteps /\ step'[o] = "completed" /\ result'[o] = "FAILED"
    BY <1>3 DEF StepThrows
  <2>2. NotStarted(o)' /\ HooksKept(o)' /\ ConsentKept(o)'
    BY <2>1
  <2>3. ExpectationKept(o)'
    BY <1>a, <1>b, <2>1
  <2>4. StackKept(o)'
    BY <1>a, <1>b, <2>1 DEF Configured
  <2>5. QED
    BY <2>2, <2>3, <2>4
<1>4. CASE InitiateFailedStackDelete(o)
  <2>1. /\ step[o] = "initiate-failed-stack-delete"
        /\ autoConfirm' = autoConfirm /\ reviewed' = reviewed
        /\ beforeHooks' = beforeHooks /\ afterHooks' = afterHooks
        /\ \/ /\ step'[o] = "wait-failed-stack-delete-to-complete" /\ Continues(o)
              /\ cfn'[o] = "DELETE_IN_PROGRESS"
           \/ step'[o] = "completed" /\ result'[o] = "FAILED" /\ cfn' = cfn
    BY <1>4 DEF InitiateFailedStackDelete
  <2>2. NotStarted(o)' /\ HooksKept(o)' /\ ConsentKept(o)'
    BY <2>1
  <2>3. ExpectationKept(o)'
    BY <1>a, <1>b, <2>1
  <2>4. StackKept(o)'
    BY <1>a, <1>b, <2>1 DEF Configured
  <2>5. QED
    BY <2>2, <2>3, <2>4
<1>5. CASE WaitFailedStackDeleteToComplete(o)
  <2>1. /\ Quiet /\ step[o] = "wait-failed-stack-delete-to-complete"
        /\ \/ step'[o] = "execute-before-deploy-hooks" /\ Continues(o)
           \/ step'[o] = "completed" /\ result'[o] = "FAILED"
    BY <1>5 DEF WaitFailedStackDeleteToComplete
  <2>2. NotStarted(o)' /\ HooksKept(o)' /\ ConsentKept(o)'
    BY <2>1
  <2>3. ExpectationKept(o)'
    BY <1>a, <1>b, <2>1
  <2>4. StackKept(o)'
    BY <1>a, <1>b, <2>1 DEF Configured
  <2>5. QED
    BY <2>2, <2>3, <2>4
<1>6. CASE ContinueUpdateRollback(o)
  <2>1. /\ step[o] = "continue-update-rollback"
        /\ autoConfirm' = autoConfirm /\ reviewed' = reviewed
        /\ beforeHooks' = beforeHooks /\ afterHooks' = afterHooks
        /\ step'[o] = "wait-stack-rollback-to-complete" /\ Continues(o)
        /\ cfn'[o] = "UPDATE_ROLLBACK_IN_PROGRESS"
    BY <1>6 DEF ContinueUpdateRollback
  <2>2. NotStarted(o)' /\ HooksKept(o)' /\ ConsentKept(o)'
    BY <2>1
  <2>3. ExpectationKept(o)'
    BY <1>a, <1>b, <2>1
  <2>4. StackKept(o)'
    BY <1>a, <1>b, <2>1 DEF Configured
  <2>5. QED
    BY <2>2, <2>3, <2>4
<1>7. CASE WaitStackRollbackToComplete(o)
  <2>1. /\ Quiet /\ step[o] = "wait-stack-rollback-to-complete"
        /\ \/ /\ step'[o] = "enrich-current-stack" /\ Continues(o)
              /\ cfn[o] = "UPDATE_ROLLBACK_COMPLETE"
           \/ step'[o] = "completed" /\ result'[o] = "FAILED"
    BY <1>7 DEF WaitStackRollbackToComplete
  <2>2. NotStarted(o)' /\ HooksKept(o)' /\ ConsentKept(o)'
    BY <2>1
  <2>3. ExpectationKept(o)'
    BY <1>a, <1>b, <2>1
  <2>4. StackKept(o)'
    BY <1>a, <1>b, <2>1 DEF DeployedStatuses
  <2>5. QED
    BY <2>2, <2>3, <2>4
<1>8. CASE EnrichCurrentStack(o)
  <2>1. /\ Quiet /\ step[o] = "enrich-current-stack"
        /\ step'[o] = "execute-before-deploy-hooks" /\ Continues(o)
    BY <1>8 DEF EnrichCurrentStack
  <2>2. NotStarted(o)' /\ HooksKept(o)' /\ ConsentKept(o)'
    BY <2>1
  <2>3. ExpectationKept(o)'
    BY <1>a, <1>b, <2>1
  <2>4. StackKept(o)'
    BY <1>a, <1>b, <2>1 DEF Configured
  <2>5. QED
    BY <2>2, <2>3, <2>4
<1>9. CASE ExecuteBeforeDeployHooks(o)
  <2>1. /\ step[o] = "execute-before-deploy-hooks"
        /\ cfn' = cfn /\ protection' = protection /\ autoConfirm' = autoConfirm
        /\ reviewed' = reviewed /\ afterHooks' = afterHooks
        /\ \/ /\ step'[o] = "completed" /\ result'[o] \in {"FAILED", "SKIPPED"}
              /\ beforeHooks'[o] = FALSE
           \/ step'[o] = "prepare-parameters" /\ beforeHooks'[o] = TRUE /\ Continues(o)
    BY <1>9 DEF ExecuteBeforeDeployHooks
  <2>2. NotStarted(o)' /\ HooksKept(o)' /\ ConsentKept(o)'
    BY <2>1
  <2>3. ExpectationKept(o)'
    BY <1>a, <1>b, <2>1
  <2>4. StackKept(o)'
    BY <1>a, <1>b, <2>1 DEF Configured
  <2>5. QED
    BY <2>2, <2>3, <2>4
<1>10. CASE PrepareParameters(o) \/ PrepareTags(o) \/ PrepareTemplate(o)
          \/ UploadTemplate(o) \/ ValidateTemplate(o) \/ SummarizeTemplate(o)
  <2>1. /\ Quiet /\ step[o] \in PreparationSteps
        /\ step'[o] \in PreparationSteps /\ Continues(o)
    BY <1>10 DEF PrepareParameters, PrepareTags, PrepareTemplate, UploadTemplate, ValidateTemplate, SummarizeTemplate, Prepare
  <2>2. NotStarted(o)' /\ HooksKept(o)' /\ ConsentKept(o)'
    BY <2>1
  <2>3. ExpectationKept(o)'
    BY <1>a, <1>b, <2>1
  <2>4. StackKept(o)'
    BY <1>a, <1>b, <2>1 DEF Configured
  <2>5. QED
    BY <2>2, <2>3, <2>4
<1>11. CASE ValidateParameters(o)
  <2>1. /\ Quiet /\ step[o] \in PreparationSteps /\ Continues(o)
        /\ \/ step'[o] = "initiate-change-set-create"
           \/ /\ step'[o] = "initiate-stack-create-or-update"
              /\ autoConfirm /\ ~plan.expectNoChanges
    BY <1>11 DEF ValidateParameters, Prepare, DeploysDirectly
  <2>2. NotStarted(o)' /\ HooksKept(o)' /\ ConsentKept(o)'
    BY <2>1
  <2>3. ExpectationKept(o)'
    BY <1>a, <1>b, <2>1
  <2>4. StackKept(o)'
    BY <1>a, <1>b, <2>1 DEF Configured
  <2>5. QED
    BY <2>2, <2>3, <2>4
<1>12. CASE InitiateChangeSetCreate(o)
  <2>1. /\ step[o] = "initiate-change-set-create"
        /\ protection' = protection /\ autoConfirm' = autoConfirm
        /\ reviewed' = reviewed /\ beforeHooks' = beforeHooks /\ afterHooks' = afterHooks
        /\ step'[o] = "wait-change-set-to-be-ready" /\ Continues(o)
        /\ \/ Creates(o) /\ cfn'[o] = "REVIEW_IN_PROGRESS"
           \/ cfn' = cfn
    BY <1>12 DEF InitiateChangeSetCreate
  <2>2. NotStarted(o)' /\ HooksKept(o)' /\ ConsentKept(o)'
    BY <2>1
  <2>3. ExpectationKept(o)'
    BY <1>a, <1>b, <2>1
  <2>4. StackKept(o)'
    BY <1>a, <1>b, <2>1 DEF Configured
  <2>5. QED
    BY <2>2, <2>3, <2>4
<1>13. CASE WaitChangeSetToBeReady(o)
  <2>1. /\ Quiet /\ step[o] = "wait-change-set-to-be-ready"
        /\ \/ /\ step'[o] = "execute-after-deploy-hooks"
              /\ outcome'[o] = "SUCCESS" /\ result'[o] = result[o]
              /\ ~Creates(o) /\ plan.change[o] = "none" /\ plan.protection[o] = protection[o]
           \/ step'[o] = "completed" /\ result'[o] = "FAILED" /\ plan.expectNoChanges
           \/ step'[o] = "review-change-set" /\ Continues(o) /\ ~plan.expectNoChanges
    <3>1. CASE ~HasChangeSet(o) /\ ~ProtectionChanged(o) /\ ~PolicyChanged(o)
      <4>1. ~Creates(o) /\ plan.change[o] = "none" /\ plan.protection[o] = protection[o]
        <5>1. plan.change[o] \in Changes
          BY DEF ChangeTypeOK
        <5>2. plan.change[o] \in {"none", "policy", "template"}
          BY <5>1, InputsAssumption
        <5>3. ~Creates(o) /\ plan.change[o] # "template" /\ plan.change[o] # "policy"
          BY <3>1 DEF HasChangeSet, PolicyChanged
        <5>4. plan.protection[o] = protection[o]
          BY <3>1, <5>3 DEF ProtectionChanged
        <5>5. QED
          BY <5>2, <5>3, <5>4
      <4>2. /\ Quiet /\ step[o] = "wait-change-set-to-be-ready"
            /\ step'[o] = "execute-after-deploy-hooks"
            /\ outcome'[o] = "SUCCESS" /\ result'[o] = result[o]
        BY <1>13, <3>1 DEF WaitChangeSetToBeReady
      <4>3. QED
        BY <4>1, <4>2
    <3>2. CASE ~(~HasChangeSet(o) /\ ~ProtectionChanged(o) /\ ~PolicyChanged(o))
      BY <1>13, <3>2 DEF WaitChangeSetToBeReady
    <3>3. QED
      BY <3>1, <3>2
  <2>2. NotStarted(o)' /\ HooksKept(o)' /\ ConsentKept(o)'
    BY <2>1
  <2>3. ExpectationKept(o)'
    BY <1>a, <1>b, <2>1
  <2>4. StackKept(o)'
    BY <1>a, <1>b, <2>1 DEF Configured
  <2>5. QED
    BY <2>2, <2>3, <2>4
<1>14. CASE ReviewCancelled(o)
  <2>1. /\ step[o] = "review-change-set"
        /\ protection' = protection /\ autoConfirm' = autoConfirm
        /\ reviewed' = reviewed /\ beforeHooks' = beforeHooks /\ afterHooks' = afterHooks
        /\ \/ /\ step'[o] = "clean-up-then-cancel" /\ Continues(o) /\ Creates(o)
              /\ cfn'[o] = "DELETE_IN_PROGRESS"
           \/ /\ step'[o] = "execute-after-deploy-hooks" /\ cfn' = cfn
              /\ outcome'[o] = "CANCELLED" /\ result'[o] = result[o]
    BY <1>14 DEF ReviewCancelled, CleanUp, HoldsTemporaryStack
  <2>2. NotStarted(o)' /\ HooksKept(o)' /\ ConsentKept(o)'
    BY <2>1
  <2>3. ExpectationKept(o)'
    BY <1>a, <1>b, <2>1
  <2>4. StackKept(o)'
    BY <1>a, <1>b, <2>1 DEF Configured
  <2>5. QED
    BY <2>2, <2>3, <2>4
<1>15. CASE ReviewAccepted(o)
  <2>1. /\ step[o] = "review-change-set"
        /\ protection' = protection /\ reviewed'[o] = TRUE
        /\ beforeHooks' = beforeHooks /\ afterHooks' = afterHooks
        /\ \/ /\ step'[o] = "clean-up-then-deploy" /\ Continues(o) /\ Creates(o)
              /\ cfn'[o] = "DELETE_IN_PROGRESS"
           \/ step'[o] = "initiate-stack-create-or-update" /\ Continues(o) /\ cfn' = cfn
           \/ /\ step'[o] = "execute-after-deploy-hooks" /\ cfn' = cfn
              /\ outcome'[o] = "FAILED" /\ result'[o] = result[o]
    BY <1>15 DEF ReviewAccepted, CleanUp, HoldsTemporaryStack
  <2>2. NotStarted(o)' /\ HooksKept(o)' /\ ConsentKept(o)'
    BY <2>1
  <2>3. ExpectationKept(o)'
    BY <1>a, <1>b, <2>1
  <2>4. StackKept(o)'
    BY <1>a, <1>b, <2>1 DEF Configured
  <2>5. QED
    BY <2>2, <2>3, <2>4
<1>16. CASE TemporaryStackDeleted(o)
  <2>1. /\ Quiet
        /\ \/ /\ step[o] = "clean-up-then-cancel" /\ step'[o] = "execute-after-deploy-hooks"
              /\ outcome'[o] = "CANCELLED" /\ result'[o] = result[o]
           \/ /\ step[o] = "clean-up-then-deploy"
              /\ step'[o] = "initiate-stack-create-or-update" /\ Continues(o)
    BY <1>16 DEF TemporaryStackDeleted
  <2>2. NotStarted(o)' /\ HooksKept(o)' /\ ConsentKept(o)'
    BY <2>1
  <2>3. ExpectationKept(o)'
    BY <1>a, <1>b, <2>1
  <2>4. StackKept(o)'
    BY <1>a, <1>b, <2>1 DEF Configured
  <2>5. QED
    BY <2>2, <2>3, <2>4
<1>17. CASE InitiateStackCreateOrUpdate(o)
  <2>1. /\ Quiet /\ step[o] = "initiate-stack-create-or-update" /\ Continues(o)
        /\ \/ step'[o] = "initiate-stack-create" /\ Creates(o)
           \/ step'[o] = "update-termination-protection" /\ ~Creates(o)
           \/ /\ step'[o] = "initiate-stack-update" /\ ~Creates(o)
              /\ protection[o] = plan.protection[o]
    BY <1>17 DEF InitiateStackCreateOrUpdate, ProtectionChanged
  <2>2. NotStarted(o)' /\ HooksKept(o)' /\ ConsentKept(o)'
    BY <2>1
  <2>3. ExpectationKept(o)'
    BY <1>a, <1>b, <2>1
  <2>4. StackKept(o)'
    BY <1>a, <1>b, <2>1 DEF Configured
  <2>5. QED
    BY <2>2, <2>3, <2>4
<1>18. CASE InitiateStackCreate(o)
  <2>1. /\ step[o] = "initiate-stack-create" /\ autoConfirm' = autoConfirm
        /\ reviewed' = reviewed /\ beforeHooks' = beforeHooks /\ afterHooks' = afterHooks
        /\ \/ /\ step'[o] = "wait-stack-create-or-update-complete" /\ Continues(o)
              /\ cfn'[o] = "CREATE_IN_PROGRESS" /\ protection'[o] = plan.protection[o]
           \/ /\ step'[o] = "execute-after-deploy-hooks" /\ cfn' = cfn /\ protection' = protection
              /\ outcome'[o] = "FAILED" /\ result'[o] = result[o]
    BY <1>18 DEF InitiateStackCreate
  <2>2. NotStarted(o)' /\ HooksKept(o)' /\ ConsentKept(o)'
    BY <2>1
  <2>3. ExpectationKept(o)'
    BY <1>a, <1>b, <2>1
  <2>4. StackKept(o)'
    BY <1>a, <1>b, <2>1 DEF Configured
  <2>5. QED
    BY <2>2, <2>3, <2>4
<1>19. CASE UpdateTerminationProtection(o)
  <2>1. /\ step[o] = "update-termination-protection" /\ cfn' = cfn /\ autoConfirm' = autoConfirm
        /\ reviewed' = reviewed /\ beforeHooks' = beforeHooks /\ afterHooks' = afterHooks
        /\ step'[o] = "initiate-stack-update" /\ Continues(o)
        /\ protection'[o] = plan.protection[o]
    BY <1>19 DEF UpdateTerminationProtection
  <2>2. NotStarted(o)' /\ HooksKept(o)' /\ ConsentKept(o)'
    BY <2>1
  <2>3. ExpectationKept(o)'
    BY <1>a, <1>b, <2>1
  <2>4. StackKept(o)'
    BY <1>a, <1>b, <2>1 DEF Configured
  <2>5. QED
    BY <2>2, <2>3, <2>4
<1>20. CASE InitiateStackUpdate(o)
  <2>1. /\ step[o] = "initiate-stack-update" /\ protection' = protection /\ autoConfirm' = autoConfirm
        /\ reviewed' = reviewed /\ beforeHooks' = beforeHooks /\ afterHooks' = afterHooks
        /\ \/ /\ step'[o] = "wait-stack-create-or-update-complete" /\ Continues(o)
              /\ cfn'[o] = "UPDATE_IN_PROGRESS" /\ plan.change[o] = "template"
           \/ /\ step'[o] = "execute-after-deploy-hooks" /\ cfn' = cfn
              /\ plan.change[o] # "template"
              /\ outcome'[o] = "SUCCESS" /\ result'[o] = result[o]
    BY <1>20 DEF InitiateStackUpdate
  <2>2. NotStarted(o)' /\ HooksKept(o)' /\ ConsentKept(o)'
    BY <2>1
  <2>3. ExpectationKept(o)'
    BY <1>a, <1>b, <2>1
  <2>4. StackKept(o)'
    BY <1>a, <1>b, <2>1 DEF Configured
  <2>5. QED
    BY <2>2, <2>3, <2>4
<1>21. CASE WaitStackCreateOrUpdateToComplete(o)
  <2>1. /\ Quiet /\ step[o] = "wait-stack-create-or-update-complete"
        /\ cfn[o] \in StableStatuses
        /\ step'[o] = "execute-after-deploy-hooks" /\ result'[o] = result[o]
        /\ \/ outcome'[o] = "SUCCESS" /\ cfn[o] \in {"CREATE_COMPLETE", "UPDATE_COMPLETE"}
           \/ outcome'[o] = "FAILED"
    BY <1>21 DEF WaitStackCreateOrUpdateToComplete, DeploySucceeded
  <2>2. NotStarted(o)' /\ HooksKept(o)' /\ ConsentKept(o)'
    BY <2>1
  <2>3. ExpectationKept(o)'
    BY <1>a, <1>b, <2>1
  <2>4. StackKept(o)'
    BY <1>a, <1>b, <2>1 DEF Configured, Endings, DeployedStatuses
  <2>5. QED
    BY <2>2, <2>3, <2>4
<1>22. CASE ExecuteAfterDeployHooks(o)
  <2>1. /\ step[o] = "execute-after-deploy-hooks" /\ step'[o] = "completed"
        /\ cfn' = cfn /\ protection' = protection /\ autoConfirm' = autoConfirm
        /\ reviewed' = reviewed /\ beforeHooks' = beforeHooks
        /\ afterHooks'[o] = outcome[o] /\ outcome[o] # None /\ outcome'[o] = outcome[o]
        /\ result'[o] \in {outcome[o], "FAILED"}
    BY <1>22, OutcomeKnown DEF ExecuteAfterDeployHooks, OutcomeKnown
  <2>2. NotStarted(o)' /\ HooksKept(o)' /\ ConsentKept(o)'
    BY <2>1
  <2>3. ExpectationKept(o)'
    BY <1>a, <1>b, <2>1
  <2>4. StackKept(o)'
    BY <1>a, <1>b, <2>1 DEF Configured
  <2>5. QED
    BY <2>2, <2>3, <2>4
<1>23. QED
  BY <1>1, <1>2, <1>3, <1>4, <1>5, <1>6, <1>7, <1>8, <1>9, <1>10, <1>11, <1>12, <1>13, <1>14, <1>15, <1>16, <1>17, <1>18, <1>19, <1>20, <1>21, <1>22 DEF StackStep

(* CloudFormation ends what it has in progress. *)
LEMMA CfnCompletesKeeps ==
    ASSUME NEW o \in Op, StackTypeOK, PlanTypeOK, OperationOK(o), CfnCompletes(o), plan' = plan
    PROVE  OperationOK(o)'
<1>1. /\ cfn[o] \in InProgressStatuses /\ cfn'[o] \in Endings[cfn[o]]
      /\ step' = step /\ outcome' = outcome /\ result' = result /\ protection' = protection
      /\ changeSet' = changeSet /\ reviewed' = reviewed /\ beforeHooks' = beforeHooks
      /\ afterHooks' = afterHooks /\ autoConfirm' = autoConfirm
  BY DEF CfnCompletes, SetCfn, StackTypeOK, historyVars
<1>2. /\ cfn'[o] \notin InProgressStatuses
      /\ cfn[o] \notin DeployedStatuses
      /\ cfn[o] = "CREATE_IN_PROGRESS" => cfn'[o] \in Endings["CREATE_IN_PROGRESS"]
      /\ cfn[o] = "UPDATE_IN_PROGRESS" => cfn'[o] \in Endings["UPDATE_IN_PROGRESS"]
      /\ cfn[o] \notin Endings["CREATE_IN_PROGRESS"]
      /\ cfn[o] \notin Endings["UPDATE_IN_PROGRESS"]
  BY <1>1 DEF InProgressStatuses, Endings, DeployedStatuses, Absent
<1>3. cfn'[o] \notin ChangingStatuses
  BY <1>2 DEF ChangingStatuses, InProgressStatuses, Endings
<1>4. cfn[o] # plan.status[o]
  BY <1>1, PlannableIsStable DEF PlanTypeOK
<1>5. Creates(o)' <=> Creates(o)
  BY DEF Creates, Type
<1>6. NotStarted(o)' /\ HooksKept(o)' /\ ConsentKept(o)' /\ ExpectationKept(o)'
  BY <1>1, <1>3, <1>4, <1>5 DEF OperationOK, NotStarted, Untouched, HooksKept, ConsentKept,
     ExpectationKept, Succeeds
<1>7. StackKept(o)'
  BY <1>1, <1>2, <1>5 DEF OperationOK, StackKept, Succeeds, Configured
<1>8. QED
  BY <1>6, <1>7 DEF OperationOK

(* What one operation does leaves what is known of the others alone: only  *)
(* autoConfirm is shared, and it is never taken back.                      *)
LEMMA OthersKept ==
    ASSUME NEW p \in Op, OperationOK(p), plan' = plan, autoConfirm => autoConfirm',
           step'[p] = step[p], outcome'[p] = outcome[p], result'[p] = result[p],
           cfn'[p] = cfn[p], protection'[p] = protection[p], changeSet'[p] = changeSet[p],
           reviewed'[p] = reviewed[p], beforeHooks'[p] = beforeHooks[p],
           afterHooks'[p] = afterHooks[p]
    PROVE  OperationOK(p)'
<1>1. Creates(p)' <=> Creates(p)
  BY DEF Creates, Type
<1>2. NotStarted(p)' /\ HooksKept(p)' /\ ConsentKept(p)' /\ ExpectationKept(p)'
  BY <1>1 DEF OperationOK, NotStarted, Untouched, HooksKept, ConsentKept, ExpectationKept, Succeeds
<1>3. StackKept(p)'
  BY <1>1 DEF OperationOK, StackKept, Succeeds, Configured
<1>4. QED
  BY <1>2, <1>3 DEF OperationOK

(* A step of an operation accepts for itself only, and never takes         *)
(* autoConfirm back.                                                       *)
LEMMA StackStepConsents ==
    ASSUME NEW o \in Op, StackTypeOK, StackStep(o)
    PROVE  /\ autoConfirm => autoConfirm'
           /\ \A p \in Op \ {o} : reviewed'[p] = reviewed[p]
<1>1. CASE ReviewAccepted(o)
  <2>1. autoConfirm => autoConfirm'
    <3>1. PICK answer \in Reviews \ {"CANCEL"} :
              autoConfirm' = (autoConfirm \/ answer = "CONTINUE_AND_SKIP_REMAINING_REVIEWS")
      BY <1>1 DEF ReviewAccepted
    <3>2. QED
      BY <3>1, Zenon
  <2>2. \A p \in Op \ {o} : reviewed'[p] = reviewed[p]
    BY <1>1 DEF ReviewAccepted, StackTypeOK
  <2>3. QED
    BY <2>1, <2>2
<1>2. CASE ~ReviewAccepted(o)
  <2>1. autoConfirm' = autoConfirm /\ reviewed' = reviewed
    BY <1>2 DEF StackStep, historyVars, DependencyRejected, DependenciesFailed, DependenciesSkipped,
       DependenciesCompleted, StepThrows, InitiateFailedStackDelete,
       WaitFailedStackDeleteToComplete, ContinueUpdateRollback, WaitStackRollbackToComplete,
       EnrichCurrentStack, ExecuteBeforeDeployHooks, PrepareParameters, PrepareTags,
       PrepareTemplate, UploadTemplate, ValidateTemplate, SummarizeTemplate,
       ValidateParameters, Prepare, InitiateChangeSetCreate, WaitChangeSetToBeReady,
       ReviewCancelled, TemporaryStackDeleted, InitiateStackCreateOrUpdate,
       InitiateStackCreate, UpdateTerminationProtection, InitiateStackUpdate,
       WaitStackCreateOrUpdateToComplete, ExecuteAfterDeployHooks
  <2>2. QED
    BY <2>1
<1>3. QED
  BY <1>1, <1>2

-----------------------------------------------------------------------------
(* An operation that is completed without having been started: cancelled   *)
(* in the sequential loop or rejected by the bulkhead.  Or it is moved on  *)
(* to the queue or to its first step.                                      *)
LEMMA NotStartedMoves ==
    ASSUME IInv, NEW o \in Op, OperationOK(o), plan' = plan, autoConfirm => autoConfirm',
           UNCHANGED <<outcome, awsVars, historyVars>>,
           step[o] \in {"idle", "queued"},
           \/ step'[o] \in {"queued", Waiting} /\ result'[o] = result[o]
           \/ step'[o] = "completed" /\ result'[o] \in {"CANCELLED", "REJECTED"}
    PROVE  OperationOK(o)'
<1>1. /\ cfn' = cfn /\ protection' = protection /\ changeSet' = changeSet
      /\ reviewed' = reviewed /\ beforeHooks' = beforeHooks /\ afterHooks' = afterHooks
  BY DEF awsVars, historyVars
<1>2. result[o] = None /\ ~beforeHooks[o] /\ afterHooks[o] = None
      /\ Untouched(o)
  BY DEF IInv, ResultKnown, OperationOK, HooksKept, UnhookedSteps, NotStarted
<1>3. cfn[o] \notin ChangingStatuses
  BY <1>2, PlannableIsStable
     DEF IInv, PlanTypeOK, Untouched, ChangingStatuses, InProgressStatuses, Endings
<1>4. /\ step'[o] \in {"queued", Waiting, "completed"}
      /\ result'[o] \in {None, "CANCELLED", "REJECTED"}
      /\ ~Succeeds(o)'
  BY <1>2 DEF Succeeds, Waiting, None
<1>5. NotStarted(o)' /\ HooksKept(o)'
  BY <1>1, <1>2, <1>4 DEF NotStarted, Untouched, HooksKept, UnhookedSteps, WrappedSteps,
     PreparationSteps, Waiting
<1>6. /\ step'[o] \notin ConsentedSteps \union {"review-change-set", "clean-up-then-cancel"}
      /\ step'[o] \notin CreateSteps \union UpdateSteps \union SteadySteps
      /\ step'[o] \notin {"initiate-stack-update", "wait-stack-create-or-update-complete"}
  BY <1>4 DEF ConsentedSteps, CreateSteps, UpdateSteps, SteadySteps, PreparationSteps, Waiting
<1>7. ConsentKept(o)' /\ ExpectationKept(o)' /\ StackKept(o)'
  BY <1>1, <1>3, <1>4, <1>6 DEF ConsentKept, ExpectationKept, StackKept
<1>8. QED
  BY <1>5, <1>7 DEF OperationOK

(* The operations handed to the bulkhead: those before first are not       *)
(* touched, the others move on from idle.                                  *)
LEMMA ExecuteInParallelKeeps ==
    ASSUME IInv, OperationsOK, NEW first \in Int, SplitAt(first), ExecuteInParallel(first),
           plan' = plan, autoConfirm => autoConfirm',
           UNCHANGED <<outcome, awsVars, historyVars>>
    PROVE  OperationsOK'
<1>1. /\ step' = [o \in Op |-> CASE Starts(o, first) -> Waiting
                                 [] Queued(o, first) -> "queued"
                                 [] Rejected(o, first) -> "completed"
                                 [] OTHER -> step[o]]
      /\ result' = [o \in Op |-> IF Rejected(o, first) THEN "REJECTED" ELSE result[o]]
  BY Zenon DEF ExecuteInParallel
<1>2. ASSUME NEW o \in Op PROVE OperationOK(o)'
  <2>1. OperationOK(o)
    BY <1>2 DEF OperationsOK
  <2>2. CASE o < first
    <3>1. ~Starts(o, first) /\ ~Queued(o, first) /\ ~Rejected(o, first)
      BY <2>2, NumOpsAssumption, LimitAssumption DEF Starts, Queued, Rejected, Op
    <3>2. step'[o] = step[o] /\ result'[o] = result[o]
      BY <1>1, <3>1
    <3>3. /\ outcome' = outcome /\ cfn' = cfn /\ protection' = protection
          /\ changeSet' = changeSet /\ reviewed' = reviewed
          /\ beforeHooks' = beforeHooks /\ afterHooks' = afterHooks
      BY DEF awsVars, historyVars
    <3>4. QED
      BY <2>1, <3>2, <3>3, OthersKept
  <2>3. CASE ~(o < first)
    <3>1. o >= first /\ (Starts(o, first) \/ Queued(o, first) \/ Rejected(o, first))
      BY <2>3, NumOpsAssumption, LimitAssumption DEF Starts, Queued, Rejected, Op
    <3>2. Rejected(o, first) => ~Starts(o, first) /\ ~Queued(o, first)
      BY NumOpsAssumption, LimitAssumption DEF Starts, Queued, Rejected, Op
    <3>3. step[o] = "idle"
      BY <3>1 DEF SplitAt
    <3>4. \/ step'[o] \in {"queued", Waiting} /\ result'[o] = result[o]
          \/ step'[o] = "completed" /\ result'[o] \in {"CANCELLED", "REJECTED"}
      BY <1>1, <3>1, <3>2
    <3>5. QED
      BY <2>1, <3>3, <3>4, NotStartedMoves
  <2>4. QED
    BY <2>2, <2>3
<1>3. QED
  BY <1>2 DEF OperationsOK, ChangeTypeOK

(* One operation moves on by the hand of the scheduler. *)
LEMMA MoveOnKeeps ==
    ASSUME IInv, OperationsOK, NEW o \in Op, step[o] \in {"idle", "queued"},
           GoTo(o, Waiting) \/ Complete(o, "CANCELLED"),
           autoConfirm' = autoConfirm, UNCHANGED <<plan, awsVars, historyVars>>
    PROVE  OperationsOK'
<1>1. /\ outcome' = outcome /\ cfn' = cfn /\ protection' = protection
      /\ changeSet' = changeSet /\ reviewed' = reviewed
      /\ beforeHooks' = beforeHooks /\ afterHooks' = afterHooks /\ plan' = plan
  BY DEF GoTo, Complete, awsVars, historyVars
<1>2. /\ \A p \in Op \ {o} : step'[p] = step[p] /\ result'[p] = result[p]
      /\ \/ step'[o] = Waiting /\ result'[o] = result[o]
         \/ step'[o] = "completed" /\ result'[o] = "CANCELLED"
  BY DEF GoTo, Complete, IInv, StackTypeOK
<1>3. OperationOK(o)'
  <2>1. OperationOK(o)
    BY DEF OperationsOK
  <2>2. UNCHANGED <<outcome, awsVars, historyVars>>
    BY <1>1 DEF awsVars, historyVars
  <2>3. QED
    BY <1>1, <1>2, <2>1, <2>2, NotStartedMoves
<1>4. ASSUME NEW p \in Op \ {o} PROVE OperationOK(p)'
  <2>1. OperationOK(p)
    BY <1>4 DEF OperationsOK
  <2>2. QED
    BY <1>1, <1>2, <2>1, OthersKept
<1>5. QED
  BY <1>1, <1>3, <1>4 DEF OperationsOK, ChangeTypeOK

(* A step that leaves the operations alone. *)
LEMMA OperationsKept ==
    ASSUME OperationsOK, plan' = plan, autoConfirm' = autoConfirm, UNCHANGED stackVars
    PROVE  OperationsOK'
<1>1. /\ step' = step /\ outcome' = outcome /\ result' = result
      /\ cfn' = cfn /\ protection' = protection /\ changeSet' = changeSet
      /\ reviewed' = reviewed /\ beforeHooks' = beforeHooks /\ afterHooks' = afterHooks
  BY DEF stackVars, awsVars, historyVars
<1>2. ASSUME NEW p \in Op PROVE OperationOK(p)'
  <2>1. OperationOK(p)
    BY <1>2 DEF OperationsOK
  <2>2. QED
    BY <1>1, <2>1, OthersKept
<1>3. QED
  BY <1>2 DEF OperationsOK, ChangeTypeOK

LEMMA RunStackKeeps ==
    ASSUME IInv, OperationsOK, NEW o \in Op, RunStack(o)
    PROVE  OperationsOK'
<1>1. StackStep(o) /\ plan' = plan
  BY DEF RunStack
<1>2. StackFrame(o)
  BY <1>1, StackStepFrame DEF IInv, SchedulerTypeOK
<1>3. OperationOK(o)'
  BY <1>1, StackStepKeeps DEF IInv, SchedulerTypeOK, OperationsOK
<1>4. ASSUME NEW p \in Op \ {o} PROVE OperationOK(p)'
  <2>1. OperationOK(p)
    BY <1>4 DEF OperationsOK
  <2>2. (autoConfirm => autoConfirm') /\ reviewed'[p] = reviewed[p]
    BY <1>1, <1>4, StackStepConsents DEF IInv
  <2>3. QED
    BY <1>1, <1>2, <2>1, <2>2, OthersKept DEF StackFrame
<1>5. QED
  BY <1>1, <1>3, <1>4 DEF OperationsOK, ChangeTypeOK

LEMMA CloudFormationStepKeeps ==
    ASSUME IInv, OperationsOK, NEW o \in Op, CloudFormationStep(o)
    PROVE  OperationsOK'
<1>1. CfnCompletes(o) /\ plan' = plan
  BY DEF CloudFormationStep
<1>2. OperationOK(o)'
  BY <1>1, CfnCompletesKeeps DEF IInv, OperationsOK
<1>3. ASSUME NEW p \in Op \ {o} PROVE OperationOK(p)'
  <2>1. OperationOK(p)
    BY <1>3 DEF OperationsOK
  <2>2. /\ step' = step /\ outcome' = outcome /\ result' = result /\ protection' = protection
        /\ changeSet' = changeSet /\ reviewed' = reviewed /\ beforeHooks' = beforeHooks
        /\ afterHooks' = afterHooks /\ autoConfirm' = autoConfirm /\ cfn'[p] = cfn[p]
    BY <1>1, <1>3 DEF CfnCompletes, SetCfn, historyVars, IInv, StackTypeOK
  <2>3. QED
    BY <1>1, <2>1, <2>2, OthersKept
<1>4. QED
  BY <1>1, <1>2, <1>3 DEF OperationsOK, ChangeTypeOK

LEMMA HeadQueued ==
    ASSUME IInv, queue # <<>>
    PROVE  Head(queue) \in Op /\ step[Head(queue)] = "queued" /\ mode \notin {"confirm", "sequential"}
<1>1. queue \in Seq(Op)
  BY DEF IInv, SchedulerTypeOK
<1>2. 1 \in 1 .. Len(queue) /\ Head(queue) = queue[1] /\ queue[1] \in Op
  BY <1>1
<1>3. QED
  BY <1>2 DEF IInv, QueueOK, ModeOK

LEMMA NextKeepsOperations == IInv /\ OperationsOK /\ [Next]_vars => OperationsOK'
<1> SUFFICES ASSUME IInv, OperationsOK, [Next]_vars PROVE OperationsOK'
  OBVIOUS
<1>1. CASE \/ RejectIgnoreDependencies \/ Finish \/ FinishRejected \/ Exited \/ UNCHANGED vars
  <2>1. plan' = plan /\ autoConfirm' = autoConfirm /\ UNCHANGED stackVars
    BY <1>1 DEF RejectIgnoreDependencies, Finish, FinishRejected, Exited, vars
  <2>2. QED
    BY <2>1, OperationsKept
<1>2. CASE ConfirmDeploy
  <2>1. CASE UNCHANGED stackVars /\ autoConfirm' = autoConfirm
    BY <1>2, <2>1, OperationsKept DEF ConfirmDeploy
  <2>2. CASE ExecuteInParallel(1) /\ autoConfirm' = TRUE
            /\ UNCHANGED <<outcome, awsVars, historyVars>>
    <3>1. SplitAt(1) /\ plan' = plan
      BY <1>2, NumOpsAssumption DEF ConfirmDeploy, IInv, ModeOK, SplitAt, Op
    <3>2. QED
      BY <2>2, <3>1, ExecuteInParallelKeeps
  <2>3. QED
    BY <1>2, <2>1, <2>2 DEF ConfirmDeploy
<1>3. CASE BeginNextStack
  BY <1>3, MoveOnKeeps DEF BeginNextStack
<1>4. CASE CancelNextStack
  BY <1>4, MoveOnKeeps DEF CancelNextStack
<1>5. CASE StackReturned
  <2>1. CASE autoConfirm
    <3>1. /\ ExecuteInParallel(next + 1) /\ plan' = plan /\ autoConfirm' = autoConfirm
          /\ next + 1 \in Int /\ UNCHANGED <<outcome, awsVars, historyVars>>
      BY <1>5, <2>1, NumOpsAssumption DEF StackReturned, Op
    <3>2. SplitAt(next + 1)
      BY <1>5, SplitAfterNext DEF StackReturned
    <3>3. QED
      BY <3>1, <3>2, ExecuteInParallelKeeps
  <2>2. CASE ~autoConfirm
    BY <1>5, <2>2, OperationsKept DEF StackReturned, stackVars
  <2>3. QED
    BY <2>1, <2>2
<1>6. CASE mode # "done" /\ Dequeue
  <2>1. Head(queue) \in Op /\ step[Head(queue)] = "queued"
    BY <1>6, HeadQueued DEF Dequeue
  <2>2. QED
    BY <1>6, <2>1, MoveOnKeeps DEF Dequeue
<1>7. CASE \E o \in Op : mode # "done" /\ RunStack(o)
  BY <1>7, RunStackKeeps
<1>8. CASE \E o \in Op : CloudFormationStep(o)
  BY <1>8, CloudFormationStepKeeps
<1>9. QED
  BY <1>1, <1>2, <1>3, <1>4, <1>5, <1>6, <1>7, <1>8 DEF Next

LEMMA InitOperations == Init => OperationsOK
<1> SUFFICES ASSUME Init PROVE OperationsOK
  OBVIOUS
<1>1. IInv
  BY InitIInv
<1>2. ChangeTypeOK
  BY DEF Init, Plans, ChangeTypeOK
<1>3. ASSUME NEW o \in Op PROVE OperationOK(o)
  <2>1. /\ step[o] = "idle" /\ result[o] = None /\ Untouched(o) /\ ~beforeHooks[o]
        /\ afterHooks[o] = None
    BY <1>3 DEF Init, Untouched
  <2>2. cfn[o] \notin ChangingStatuses
    BY <1>1, <2>1, PlannableIsStable
       DEF IInv, PlanTypeOK, Untouched, ChangingStatuses, InProgressStatuses, Endings
  <2>3. step[o] \notin ConsentedSteps \union CreateSteps \union UpdateSteps \union SteadySteps
    BY <2>1 DEF ConsentedSteps, CreateSteps, UpdateSteps, SteadySteps, PreparationSteps
  <2>4. NotStarted(o) /\ HooksKept(o) /\ ConsentKept(o)
    BY <2>1, <2>2, <2>3 DEF NotStarted, HooksKept, ConsentKept, WrappedSteps, PreparationSteps
  <2>5. ~Succeeds(o)
    BY <2>1 DEF Succeeds, None
  <2>6. ExpectationKept(o) /\ StackKept(o)
    BY <2>1, <2>2, <2>3, <2>5 DEF ExpectationKept, StackKept
  <2>7. QED
    BY <2>4, <2>6 DEF OperationOK
<1>4. QED
  BY <1>2, <1>3 DEF OperationsOK

LEMMA OperationsHold == Spec => [](IInv /\ OperationsOK)
  BY InitOperations, NextKeepsOperations, InvariantHolds, PTL DEF Spec

-----------------------------------------------------------------------------
(* CloudFormation is never asked to create or update a stack without the   *)
(* user's consent, whatever the deployment mode and whichever operation    *)
(* was told to skip the remaining reviews.                                 *)
THEOREM ConsentAlwaysFirst == Spec => []ConsentBeforeChange
<1>1. OperationsOK => ConsentBeforeChange
  BY DEF OperationsOK, OperationOK, ConsentKept, ConsentBeforeChange, ChangingStatuses
<1>2. QED
  BY <1>1, OperationsHold, PTL

(* With --expect-no-changes no deployment creates or updates a stack, and  *)
(* a success means that nothing differs.                                   *)
THEOREM NoChangesEverMade == Spec => []NoChangesMade
<1>1. OperationsOK => NoChangesMade
  BY DEF OperationsOK, OperationOK, ExpectationKept, NoChangesMade, ChangingStatuses, Succeeds
<1>2. QED
  BY <1>1, OperationsHold, PTL

(* A success always means that the stack is what its configuration asks    *)
(* for.                                                                    *)
THEOREM SuccessAlwaysConfigured == Spec => []SuccessMeansConfigured
<1>1. OperationsOK => SuccessMeansConfigured
  BY DEF OperationsOK, OperationOK, StackKept, SuccessMeansConfigured, Succeeds, Configured
<1>2. QED
  BY <1>1, OperationsHold, PTL

(* Before hooks that let an operation continue are always followed by its  *)
(* after hooks, but for unexpected changes.                                *)
THEOREM HooksAlwaysPaired == Spec => []HooksPaired
<1>1. OperationsOK => HooksPaired
  BY DEF OperationsOK, OperationOK, HooksKept, HooksPaired
<1>2. QED
  BY <1>1, OperationsHold, PTL

(* While a stack is created or updated its dependencies are deployed: a    *)
(* stack that is not as it was has dependencies that all succeeded, and a  *)
(* success means a deployed stack.                                         *)
THEOREM DependenciesAlwaysDeployed == Spec => []DependenciesDeployed
<1>1. ASSUME IInv, OperationsOK,
             NEW o \in Op, cfn[o] \in {"CREATE_IN_PROGRESS", "UPDATE_IN_PROGRESS"},
             NEW d \in Dependencies(o)
      PROVE  \/ result[d] = "SUCCESS" /\ cfn[d] \in DeployedStatuses
             \/ result[d] = "SKIPPED"
  <2>1. ~Untouched(o)
    BY <1>1, PlannableIsStable
       DEF IInv, PlanTypeOK, Untouched, InProgressStatuses, Endings
  <2>2. result[d] \in Successful /\ d \in Op
    BY <1>1, <2>1 DEF IInv, TouchedAfterDependencies, PlanTypeOK, Dependencies
  <2>3. result[d] = "SUCCESS" => cfn[d] \in DeployedStatuses
    BY <1>1, <2>2 DEF OperationsOK, OperationOK, StackKept, Succeeds, Configured
  <2>4. QED
    BY <2>2, <2>3 DEF Successful
<1>2. IInv /\ OperationsOK => DependenciesDeployed
  BY <1>1 DEF DependenciesDeployed
<1>3. QED
  BY <1>2, OperationsHold, PTL

-----------------------------------------------------------------------------
(* The end of the command. *)
LEMMA NextKeepsOutput ==
    IInv /\ OperationsOK /\ OutputComplete /\ [Next]_vars => OutputComplete'
<1> SUFFICES ASSUME IInv, OperationsOK, OutputComplete, [Next]_vars,
                    mode' = "done", output' # "ERROR"
             PROVE  OutputComplete'
  BY DEF OutputComplete
<1>1. CASE ConfirmDeploy
  <2>1. mode = "confirm" /\ output' = "CANCELLED" /\ UNCHANGED stackVars /\ plan' = plan
    BY <1>1 DEF ConfirmDeploy, ExecuteInParallel
  <2>2. \A o \in Op : step[o] = "idle" /\ Untouched(o)
    BY <2>1 DEF IInv, ModeOK, OperationsOK, OperationOK, NotStarted
  <2>3. QED
    BY <2>1, <2>2 DEF OutputComplete, Untouched, stackVars, awsVars, historyVars
<1>2. CASE Finish
  <2>1. /\ UNCHANGED stackVars /\ output' = ResolvedStatus(Statuses)
        /\ Statuses \subseteq OperationStatuses
    BY <1>2 DEF Finish, AllSettled
  <2>2. ASSUME NEW o \in Op PROVE step'[o] = "completed"
    <3>1. result[o] \in OperationStatuses
      BY <2>1 DEF Statuses
    <3>2. QED
      BY <2>1, <3>1 DEF IInv, ResultKnown, OperationStatuses, None, stackVars
  <2>3. output' \in Successful <=> Statuses \subseteq Successful
    <3>1. CASE Statuses = {"CANCELLED"}
      <4>1. ResolvedStatus(Statuses) = "CANCELLED"
        <5>1. Statuses # {"SKIPPED"}
          BY <3>1, "CANCELLED" # "SKIPPED", Zenon
        <5>2. ~(Statuses \subseteq SuccessfulStatuses /\ Statuses # {"SKIPPED"})
          BY <3>1 DEF SuccessfulStatuses
        <5>3. QED
          BY <3>1, <5>1, <5>2 DEF ResolvedStatus
      <4>2. "CANCELLED" \in Statuses /\ Statuses \subseteq {"CANCELLED"}
        BY <3>1
      <4>3. QED
        BY <2>1, <4>1, <4>2 DEF Successful
    <3>2. CASE Statuses = {"SKIPPED"}
      <4>1. ResolvedStatus(Statuses) = "SKIPPED"
        <5>1. Statuses # {"CANCELLED"}
          BY <3>2, "SKIPPED" # "CANCELLED", Zenon
        <5>2. ~(Statuses \subseteq SuccessfulStatuses /\ Statuses # {"SKIPPED"})
          BY <3>2 DEF SuccessfulStatuses
        <5>3. QED
          BY <3>2, <5>1, <5>2 DEF ResolvedStatus
      <4>2. "SKIPPED" \in Statuses /\ Statuses \subseteq {"SKIPPED"}
        BY <3>2
      <4>3. QED
        BY <2>1, <4>1, <4>2 DEF Successful
    <3>3. CASE Statuses \subseteq Successful /\ Statuses # {"SKIPPED"} /\ Statuses # {"CANCELLED"}
      <4>1. ResolvedStatus(Statuses) = "SUCCESS"
        BY <3>3 DEF ResolvedStatus, Successful, SuccessfulStatuses
      <4>2. QED
        BY <2>1, <3>3, <4>1 DEF Successful
    <3>4. CASE ~(Statuses \subseteq Successful) /\ Statuses # {"SKIPPED"} /\ Statuses # {"CANCELLED"}
      <4>1. ResolvedStatus(Statuses) = "FAILED"
        BY <3>4 DEF ResolvedStatus, Successful, SuccessfulStatuses
      <4>2. QED
        BY <2>1, <3>4, <4>1 DEF Successful
    <3>5. QED
      BY <3>1, <3>2, <3>3, <3>4
  <2>4. Statuses' = Statuses
    BY <2>1 DEF Statuses, stackVars
  <2>5. QED
    BY <2>2, <2>3, <2>4 DEF OutputComplete
<1>3. CASE \E o \in Op : CloudFormationStep(o)
  <2>1. PICK o \in Op : CloudFormationStep(o)
    BY <1>3
  <2>2. /\ plan' = plan /\ step' = step /\ result' = result /\ changeSet' = changeSet
        /\ beforeHooks' = beforeHooks /\ mode' = mode /\ output' = output
        /\ cfn[o] \in InProgressStatuses
        /\ \A p \in Op \ {o} : cfn'[p] = cfn[p]
    BY <2>1 DEF CloudFormationStep, CfnCompletes, SetCfn, historyVars, schedulerVars, IInv,
                StackTypeOK
  <2>3. ~Untouched(o)
    BY <2>2, PlannableIsStable DEF IInv, PlanTypeOK, Untouched
  <2>4. \A p \in Op : Untouched(p) => Untouched(p)'
    BY <2>2, <2>3 DEF Untouched
  <2>5. Statuses' = Statuses
    BY <2>2 DEF Statuses
  <2>6. QED
    BY <2>2, <2>4, <2>5 DEF OutputComplete
<1>4. CASE Exited \/ UNCHANGED vars
  BY <1>4 DEF Exited, vars, stackVars, awsVars, historyVars, schedulerVars, OutputComplete,
     Untouched, Statuses
<1>5. CASE \/ RejectIgnoreDependencies \/ BeginNextStack \/ CancelNextStack \/ StackReturned
           \/ FinishRejected
           \/ mode # "done" /\ Dequeue
           \/ \E o \in Op : mode # "done" /\ RunStack(o)
  BY <1>5 DEF RejectIgnoreDependencies, BeginNextStack, CancelNextStack, StackReturned,
     ExecuteInParallel, Dequeue, FinishRejected, RunStack, schedulerVars
<1>6. QED
  BY <1>1, <1>2, <1>3, <1>4, <1>5 DEF Next

(* Every deployment that is not rejected reports on all its operations, or *)
(* on none: and as successful only if all of them were.                    *)
THEOREM OutputAlwaysComplete == Spec => []OutputComplete
<1>1. Init => OutputComplete
  BY DEF Init, OutputComplete
<1>2. QED
  BY <1>1, NextKeepsOutput, OperationsHold, PTL DEF Spec

-----------------------------------------------------------------------------
(* The reviewed deployment.  Where its loop is when a step of an operation *)
(* is taken, and what is known of the operations around it.                *)
LEMMA OneAtATime ==
    ASSUME IInv, OperationsOK, ReviewStopped, ~autoConfirm, mode \in {"sequential", "parallel"},
           NEW o \in Op, step[o] \in RunningSteps
    PROVE  /\ mode = "sequential" /\ next = o /\ ~cancelled
           /\ \A p \in Op : p < o => result[p] \notin {"FAILED", "CANCELLED"}
           /\ \A p \in Op : p > o => Untouched(p) /\ step[p] = "idle" /\ result[p] = None
<1>1. mode = "sequential"
  BY DEF ReviewStopped
<1>2. step[o] # "idle" /\ step[o] # "completed"
  BY DEF RunningSteps, BegunSteps, WrappedSteps, UnwrappedSteps, HookSteps, PreparationSteps,
         Waiting
<1>3. next = o
  <2>1. ~(o < next) /\ ~(o > next)
    BY <1>1, <1>2 DEF IInv, ModeOK
  <2>2. QED
    BY <2>1, NumOpsAssumption DEF IInv, SchedulerTypeOK, Op
<1>4. ~cancelled
  BY <1>1, <1>2, <1>3 DEF ReviewStopped
<1>5. \A p \in Op : p > o => Untouched(p) /\ step[p] = "idle" /\ result[p] = None
  BY <1>1, <1>3 DEF IInv, ModeOK, ResultKnown, OperationsOK, OperationOK, NotStarted
<1>6. QED
  BY <1>1, <1>3, <1>4, <1>5 DEF ReviewStopped

LEMMA NextKeepsReview ==
    IInv /\ OperationsOK /\ ReviewStopped /\ [Next]_vars => ReviewStopped'
<1> SUFFICES ASSUME IInv, OperationsOK, ReviewStopped, [Next]_vars PROVE ReviewStopped'
  OBVIOUS
<1>a. ASSUME autoConfirm', mode' # "sequential" PROVE ReviewStopped'
  BY <1>a DEF ReviewStopped, FailureStopsReview
<1>b. ASSUME UNCHANGED <<autoConfirm, plan, stackVars, next, cancelled>>,
             mode' \in {mode, "done"}
      PROVE  ReviewStopped'
  BY <1>b DEF ReviewStopped, FailureStopsReview, stackVars, awsVars, historyVars, Untouched
<1>1. CASE \/ RejectIgnoreDependencies \/ Finish \/ FinishRejected \/ Exited \/ UNCHANGED vars
  BY <1>1, <1>b DEF RejectIgnoreDependencies, Finish, FinishRejected, Exited, vars, schedulerVars
<1>2. CASE ConfirmDeploy
  <2>1. CASE mode' = "done" /\ UNCHANGED <<autoConfirm, stackVars>>
    BY <1>2, <2>1, <1>b DEF ConfirmDeploy
  <2>2. CASE autoConfirm' = TRUE /\ mode' = "parallel"
    BY <2>2, <1>a
  <2>3. CASE mode' = "sequential" /\ UNCHANGED <<autoConfirm, stackVars>>
    <3>1. next' = 1 /\ \A o \in Op : step'[o] = "idle" /\ result'[o] = None
      BY <1>2, <2>3 DEF ConfirmDeploy, IInv, ModeOK, ResultKnown, stackVars
    <3>2. \A o \in Op : ~(o < 1)
      BY NumOpsAssumption DEF Op
    <3>3. QED
      BY <2>3, <3>1, <3>2 DEF ReviewStopped, FailureStopsReview, None
  <2>4. QED
    BY <1>2, <2>1, <2>2, <2>3 DEF ConfirmDeploy, ExecuteInParallel
<1>3. CASE BeginNextStack
  <2>1. /\ mode' = "sequential" /\ next' = next /\ cancelled' = cancelled /\ ~cancelled
        /\ result' = result /\ autoConfirm' = autoConfirm /\ plan' = plan
        /\ cfn' = cfn /\ changeSet' = changeSet /\ beforeHooks' = beforeHooks
        /\ mode = "sequential"
    BY <1>3 DEF BeginNextStack, GoTo, awsVars, historyVars, schedulerVars
  <2>2. FailureStopsReview'
    BY <2>1 DEF ReviewStopped, FailureStopsReview, Untouched
  <2>3. QED
    BY <2>1, <2>2 DEF ReviewStopped
<1>4. CASE CancelNextStack
  <2>1. /\ mode = "sequential" /\ mode' = "sequential" /\ next' = next + 1
        /\ cancelled' = cancelled /\ cancelled /\ next \in Op
        /\ step[next] = "idle" /\ result'[next] = "CANCELLED"
        /\ \A p \in Op \ {next} : result'[p] = result[p] /\ step'[p] = step[p]
        /\ autoConfirm' = autoConfirm /\ plan' = plan
        /\ cfn' = cfn /\ changeSet' = changeSet /\ beforeHooks' = beforeHooks
    BY <1>4 DEF CancelNextStack, Complete, awsVars, historyVars, IInv, StackTypeOK
  <2>2. \A p \in Op : Untouched(p)' <=> Untouched(p)
    BY <2>1 DEF Untouched
  <2>3. \A p \in Op : p >= next => Untouched(p) /\ step[p] = "idle"
    <3>1. \A p \in Op : p >= next => p = next \/ p > next
      BY <2>1, NumOpsAssumption DEF Op
    <3>2. QED
      BY <2>1, <3>1 DEF IInv, ModeOK, OperationsOK, OperationOK, NotStarted
  <2>4. \A p \in Op : p >= next => result'[p] \in {None, "CANCELLED"}
    BY <2>1, <2>3 DEF IInv, ResultKnown
  <2>5. ASSUME NEW o \in Op, NEW p \in Op, ~autoConfirm, o < p,
               result'[o] \in {"FAILED", "CANCELLED"}
        PROVE  Untouched(p)' /\ result'[p] \in {None, "CANCELLED"}
    <3>1. CASE p >= next
      BY <2>2, <2>3, <2>4, <3>1
    <3>2. CASE ~(p >= next)
      <4>1. o # next /\ p # next
        BY <2>1, <2>5, <3>2, NumOpsAssumption DEF Op
      <4>2. result[o] \in {"FAILED", "CANCELLED"} /\ result'[p] = result[p]
        BY <2>1, <2>5, <4>1
      <4>3. QED
        BY <2>2, <2>5, <4>2 DEF ReviewStopped, FailureStopsReview
    <3>3. QED
      BY <3>1, <3>2
  <2>6. FailureStopsReview'
    BY <2>1, <2>5 DEF FailureStopsReview
  <2>7. next' \in Op => step'[next'] = "idle"
    <3>1. next + 1 \in Op => next + 1 > next /\ next + 1 >= next /\ next + 1 # next
      BY <2>1, NumOpsAssumption DEF Op
    <3>2. QED
      BY <2>1, <2>3, <3>1
  <2>8. QED
    BY <2>1, <2>6, <2>7 DEF ReviewStopped
<1>5. CASE StackReturned
  <2>1. CASE autoConfirm
    BY <1>5, <2>1, <1>a DEF StackReturned, ExecuteInParallel
  <2>2. CASE ~autoConfirm
    <3>1. /\ mode = "sequential" /\ mode' = "sequential" /\ next' = next + 1
          /\ cancelled' = (cancelled \/ StopsRemaining(result[next])) /\ next \in Op
          /\ step' = step /\ result' = result /\ autoConfirm' = autoConfirm /\ plan' = plan
          /\ cfn' = cfn /\ changeSet' = changeSet /\ beforeHooks' = beforeHooks
          /\ step[next] = "completed"
      BY <1>5, <2>2 DEF StackReturned, awsVars, historyVars
    <3>2. FailureStopsReview'
      BY <3>1 DEF ReviewStopped, FailureStopsReview, Untouched
    <3>3. ~cancelled' => ~cancelled /\ result[next] \notin {"FAILED", "CANCELLED"}
      BY <3>1, Zenon DEF StopsRemaining
    <3>4. ASSUME ~cancelled', NEW o \in Op, o < next'
          PROVE  result'[o] \notin {"FAILED", "CANCELLED"}
      <4>1. o < next \/ o = next
        BY <3>1, <3>4, NumOpsAssumption DEF Op
      <4>2. QED
        BY <3>1, <3>3, <3>4, <4>1 DEF ReviewStopped
    <3>5. next' \in Op => step'[next'] = "idle"
      <4>1. next + 1 \in Op => next + 1 > next
        BY <3>1, NumOpsAssumption DEF Op
      <4>2. QED
        BY <3>1, <4>1 DEF IInv, ModeOK
    <3>6. QED
      BY <2>2, <3>1, <3>2, <3>4, <3>5 DEF ReviewStopped
  <2>3. QED
    BY <2>1, <2>2
<1>6. CASE mode # "done" /\ Dequeue
  <2>1. mode = "parallel" /\ mode' = mode /\ autoConfirm' = autoConfirm
    BY <1>6, HeadQueued DEF Dequeue, IInv, SchedulerTypeOK
  <2>2. QED
    BY <2>1, <1>a DEF ReviewStopped
<1>7. ASSUME NEW o \in Op, mode # "done", RunStack(o) PROVE ReviewStopped'
  <2>1. /\ StackFrame(o) /\ plan' = plan /\ mode' = mode /\ next' = next
        /\ cancelled' = cancelled
    BY <1>7, StackStepFrame DEF RunStack, IInv, SchedulerTypeOK
  <2>2. autoConfirm => autoConfirm'
    BY <1>7, StackStepConsents DEF RunStack, IInv
  <2>3. /\ step[o] \in RunningSteps /\ mode \in {"sequential", "parallel"}
        /\ step'[o] # "idle"
    <3>1. step[o] \in RunningSteps /\ step[o] # "idle" /\ step'[o] # "idle"
      BY <2>1 DEF StackFrame, RunningSteps, BegunSteps, WrappedSteps, UnwrappedSteps, HookSteps,
         PreparationSteps, Waiting
    <3>2. QED
      BY <1>7, <3>1 DEF IInv, ModeOK, SchedulerTypeOK
  <2>4. ASSUME mode = "sequential" PROVE next = o /\ ~cancelled
    <3>1. step[o] # "idle" /\ step[o] # "completed"
      BY <2>3 DEF RunningSteps, BegunSteps, WrappedSteps, UnwrappedSteps, HookSteps,
         PreparationSteps, Waiting
    <3>2. ~(o < next) /\ ~(o > next)
      BY <2>4, <3>1 DEF IInv, ModeOK
    <3>3. next = o
      BY <3>2, NumOpsAssumption DEF IInv, SchedulerTypeOK, Op
    <3>4. QED
      BY <2>4, <3>1, <3>3 DEF ReviewStopped
  <2>5. mode' = "sequential" => \A p \in Op : p < next' => result'[p] \notin {"FAILED", "CANCELLED"}
    <3>1. \A p \in Op : p < o => p # o
      BY NumOpsAssumption DEF Op
    <3>2. QED
      BY <2>1, <2>4, <3>1 DEF StackFrame, ReviewStopped
  <2>6. FailureStopsReview'
    <3>1. SUFFICES ASSUME ~autoConfirm', NEW p \in Op, NEW q \in Op, p < q,
                          result'[p] \in {"FAILED", "CANCELLED"}
                   PROVE  Untouched(q)' /\ result'[q] \in {None, "CANCELLED"}
      BY DEF FailureStopsReview
    <3>2. /\ \A r \in Op : r < o => result[r] \notin {"FAILED", "CANCELLED"}
          /\ \A r \in Op : r > o => Untouched(r) /\ step[r] = "idle" /\ result[r] = None
      BY <2>2, <2>3, <3>1, OneAtATime
    <3>3. p = o \/ p < o \/ p > o
      BY NumOpsAssumption DEF Op
    <3>4. p = o
      <4>1. p < o => p # o
        BY NumOpsAssumption DEF Op
      <4>2. p > o => p # o
        BY NumOpsAssumption DEF Op
      <4>3. QED
        BY <2>1, <3>1, <3>2, <3>3, <4>1, <4>2 DEF StackFrame, None
    <3>5. q > o /\ q # o
      BY <3>1, <3>4, NumOpsAssumption DEF Op
    <3>6. QED
      BY <2>1, <3>2, <3>5 DEF StackFrame, Untouched
  <2>7. QED
    BY <2>1, <2>2, <2>4, <2>5, <2>6 DEF ReviewStopped
<1>8. CASE \E o \in Op : CloudFormationStep(o)
  <2>1. PICK o \in Op : CloudFormationStep(o)
    BY <1>8
  <2>2. /\ plan' = plan /\ step' = step /\ result' = result /\ changeSet' = changeSet
        /\ beforeHooks' = beforeHooks /\ mode' = mode /\ next' = next
        /\ cancelled' = cancelled /\ autoConfirm' = autoConfirm
        /\ cfn[o] \in InProgressStatuses
        /\ \A p \in Op \ {o} : cfn'[p] = cfn[p]
    BY <2>1 DEF CloudFormationStep, CfnCompletes, SetCfn, historyVars, schedulerVars, IInv,
                StackTypeOK
  <2>3. ~Untouched(o)
    BY <2>2, PlannableIsStable DEF IInv, PlanTypeOK, Untouched
  <2>4. \A p \in Op : Untouched(p) => Untouched(p)'
    BY <2>2, <2>3 DEF Untouched
  <2>5. FailureStopsReview'
    BY <2>2, <2>4 DEF ReviewStopped, FailureStopsReview
  <2>6. QED
    BY <2>2, <2>5 DEF ReviewStopped
<1>9. QED
  BY <1>1, <1>2, <1>3, <1>4, <1>5, <1>6, <1>7, <1>8 DEF Next

(* In every reviewed deployment nothing happens to any stack after the     *)
(* first that failed or was cancelled.  The loop itself only knows its     *)
(* cancelled flag: ReviewStopped relates it to the results before the      *)
(* current operation.                                                      *)
THEOREM FailureAlwaysStopsReview == Spec => []FailureStopsReview
<1>1. Init => ReviewStopped
  BY DEF Init, ReviewStopped, FailureStopsReview, None
<1>2. ReviewStopped => FailureStopsReview
  BY DEF ReviewStopped
<1>3. QED
  BY <1>1, <1>2, NextKeepsReview, OperationsHold, PTL DEF Spec
=============================================================================
