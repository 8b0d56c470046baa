------------------------- MODULE DeployStacksProofs -------------------------
(***************************************************************************)
(* Theorems about DeployStacks, for every plan, every number of            *)
(* operations and every size of the bulkhead.                              *)
(***************************************************************************)
EXTENDS DeployStacks, FiniteSetTheorems, WellFoundedInduction, TLAPS

(* The part of TypeOK a step of one stack operation depends on. *)
StackTypeOK ==
    /\ step \in [Op -> Steps]
    /\ outcome \in [Op -> {None, "SUCCESS", "FAILED", "CANCELLED"}]
    /\ result \in [Op -> {None, "REJECTED"} \union OperationStatuses]
    /\ cfn \in [Op -> StackStatuses]
    /\ protection \in [Op -> BOOLEAN]
    /\ changeSet \in [Op -> BOOLEAN]
    /\ reviewed \in [Op -> BOOLEAN]
    /\ beforeHooks \in [Op -> BOOLEAN]
    /\ afterHooks \in [Op -> {None, "SUCCESS", "FAILED", "CANCELLED"}]

PlanTypeOK ==
    /\ plan.dependencies \in [Op -> SUBSET Op]
    /\ plan.status \in [Op -> InitialStatuses]
    /\ plan.protection \in [Op -> BOOLEAN]
    /\ Sorted(plan.dependencies)

SchedulerTypeOK ==
    /\ autoConfirm \in BOOLEAN
    /\ mode \in {"confirm", "sequential", "parallel", "done"}
    /\ next \in 1 .. NumOps + 1
    /\ cancelled \in BOOLEAN
    /\ active \in 0 .. Limit
    /\ queue \in Seq(Op)
    /\ output \in {None, "ERROR"} \union CommandStatuses

(* The after hooks always get a status. *)
OutcomeKnown ==
    \A o \in Op : step[o] = "execute-after-deploy-hooks" => outcome[o] # None

(* An operation has a result exactly when it is completed. *)
ResultKnown == \A o \in Op : step[o] = "completed" <=> result[o] # None

(* An operation that has begun, left a trace or succeeded has dependencies *)
(* that all succeeded: this implies both DependenciesFirst and             *)
(* FailureStopsDependents, and is inductive.                               *)
TouchedAfterDependencies ==
    \A o \in Op :
        step[o] \in BegunSteps \/ ~Untouched(o) \/ result[o] \in Successful
            => \A d \in Dependencies(o) : result[d] \in Successful

(* What each mode says of the operations. *)
ModeOK ==
    /\ mode = "confirm" => next = 1 /\ \A o \in Op : step[o] = "idle"
    /\ mode \in {"confirm", "sequential"} => queue = <<>> /\ active = 0
    /\ mode = "sequential" =>
          \A o \in Op : /\ o < next => step[o] = "completed"
                        /\ o > next => step[o] = "idle"
                        /\ step[o] # "queued"
    /\ mode = "parallel" => \A o \in Op : step[o] # "idle"

(* The queue holds the operations that are not yet started, in the order   *)
(* of the plan, all after every operation that runs.                       *)
QueueOK ==
    /\ \A k \in 1 .. Len(queue) : step[queue[k]] = "queued"
    /\ \A o \in Op : step[o] = "queued" => \E k \in 1 .. Len(queue) : queue[k] = o
    /\ \A j, k \in 1 .. Len(queue) : j < k => queue[j] < queue[k]
    /\ \A o, p \in Op : step[o] = "queued" /\ step[p] \in RunningSteps => p < o

SlotsCounted == mode = "parallel" => active = Cardinality(Running)

IInv ==
    /\ StackTypeOK
    /\ PlanTypeOK
    /\ SchedulerTypeOK
    /\ OutcomeKnown
    /\ ResultKnown
    /\ TouchedAfterDependencies
    /\ ModeOK
    /\ QueueOK
    /\ SlotsCounted

-----------------------------------------------------------------------------
(* What a step of operation o does to the stacks: it changes nothing of    *)
(* another operation, runs only in a slot, ends in a later step or with a  *)
(* result, and leaves the wait for the dependencies only in the ways       *)
(* waitDependenciesToComplete allows.                                      *)
StackFrame(o) ==
    /\ StackTypeOK'
    /\ \A p \in Op \ {o} :
          /\ step'[p] = step[p]
          /\ outcome'[p] = outcome[p]
          /\ result'[p] = result[p]
          /\ cfn'[p] = cfn[p] /\ protection'[p] = protection[p]
          /\ changeSet'[p] = changeSet[p] /\ afterHooks'[p] = afterHooks[p]
          /\ beforeHooks'[p] = beforeHooks[p]
    /\ step[o] \in RunningSteps
    /\ \/ step'[o] \in BegunSteps /\ result'[o] = result[o]
       \/ step'[o] = "completed" /\ result'[o] \in OperationStatuses
    /\ step'[o] = "execute-after-deploy-hooks" => outcome'[o] # None
    /\ autoConfirm' \in BOOLEAN
    /\ step[o] = Waiting =>
          /\ cfn'[o] = cfn[o] /\ changeSet'[o] = changeSet[o]
          /\ beforeHooks'[o] = beforeHooks[o]
          /\ \/ step'[o] \in BegunSteps /\ \A d \in Dependencies(o) : result[d] \in Successful
             \/ step'[o] = "completed" /\ result'[o] \notin Successful

(* Each of the twenty-nine steps of an operation satisfies its frame.       *)
LEMMA StackStepFrame ==
    ASSUME NEW o \in Op, StackTypeOK, PlanTypeOK, OutcomeKnown,
           autoConfirm \in BOOLEAN, StackStep(o)
    PROVE  StackFrame(o)
<1> USE DEF StackTypeOK, StackFrame, GoTo, Complete, GoToAfterHooks, SetCfn, SetProtection,
            awsVars, historyVars, Steps, RunningSteps, BegunSteps, WrappedSteps,
            UnwrappedSteps, HookSteps, PreparationSteps, Waiting, OperationStatuses, None
<1>1. CASE DependencyRejected(o)
  BY <1>1 DEF DependencyRejected, Successful
<1>2. CASE DependenciesFailed(o)
  BY <1>2 DEF DependenciesFailed, Successful
<1>3. CASE DependenciesSkipped(o)
  BY <1>3 DEF DependenciesSkipped, Successful
<1>4. CASE DependenciesCompleted(o)
  BY <1>4 DEF DependenciesCompleted, SomeDependencyFailed, FirstStep
<1>5. CASE StepThrows(o)
  BY <1>5 DEF StepThrows
<1>6. CASE InitiateFailedStackDelete(o)
  BY <1>6 DEF InitiateFailedStackDelete, StackStatuses, InProgressStatuses, Endings
<1>7. CASE WaitFailedStackDeleteToComplete(o)
  BY <1>7 DEF WaitFailedStackDeleteToComplete
<1>8. CASE ContinueUpdateRollback(o)
  BY <1>8 DEF ContinueUpdateRollback, StackStatuses, InProgressStatuses, Endings
<1>9. CASE WaitStackRollbackToComplete(o)
  BY <1>9 DEF WaitStackRollbackToComplete
<1>10. CASE EnrichCurrentStack(o)
  BY <1>10 DEF EnrichCurrentStack
<1>11. CASE ExecuteBeforeDeployHooks(o)
  BY <1>11 DEF ExecuteBeforeDeployHooks
<1>12. CASE PrepareParameters(o)
  BY <1>12 DEF PrepareParameters, Prepare
<1>13. CASE PrepareTags(o)
  BY <1>13 DEF PrepareTags, Prepare
<1>14. CASE PrepareTemplate(o)
  BY <1>14 DEF PrepareTemplate, Prepare
<1>15. CASE UploadTemplate(o)
  BY <1>15 DEF UploadTemplate, Prepare
<1>16. CASE ValidateTemplate(o)
  BY <1>16 DEF ValidateTemplate, Prepare
<1>17. CASE SummarizeTemplate(o)
  BY <1>17 DEF SummarizeTemplate, Prepare
<1>18. CASE ValidateParameters(o)
  BY <1>18 DEF ValidateParameters, Prepare
<1>19. CASE InitiateChangeSetCreate(o)
  BY <1>19 DEF InitiateChangeSetCreate, StackStatuses, StableStatuses
<1>20. CASE WaitChangeSetToBeReady(o)
  BY <1>20 DEF WaitChangeSetToBeReady
<1>21. CASE ReviewCancelled(o)
  <2>1. CASE HoldsTemporaryStack(o)
    BY <1>21, <2>1 DEF ReviewCancelled, CleanUp, StackStatuses, InProgressStatuses, Endings
  <2>2. CASE ~HoldsTemporaryStack(o)
    BY <1>21, <2>2 DEF ReviewCancelled, CleanUp
  <2>3. QED
    BY <2>1, <2>2
<1>22. CASE ReviewAccepted(o)
  <2>1. PICK answer \in Reviews \ {"CANCEL"} :
            autoConfirm' = (autoConfirm \/ answer = "CONTINUE_AND_SKIP_REMAINING_REVIEWS")
    BY <1>22 DEF ReviewAccepted
  <2>2. autoConfirm' \in BOOLEAN
    BY <2>1, Zenon
  <2>3. CASE HoldsTemporaryStack(o)
    BY <1>22, <2>2, <2>3
       DEF ReviewAccepted, CleanUp, StackStatuses, InProgressStatuses, Endings
  <2>4. CASE ~HoldsTemporaryStack(o)
    BY <1>22, <2>2, <2>4 DEF ReviewAccepted, CleanUp
  <2>5. QED
    BY <2>3, <2>4
<1>23. CASE TemporaryStackDeleted(o)
  BY <1>23 DEF TemporaryStackDeleted
<1>24. CASE InitiateStackCreateOrUpdate(o)
  BY <1>24 DEF InitiateStackCreateOrUpdate
<1>25. CASE InitiateStackCreate(o)
  BY <1>25 DEF InitiateStackCreate, StackStatuses, InProgressStatuses, Endings, PlanTypeOK
<1>26. CASE UpdateTerminationProtection(o)
  BY <1>26 DEF UpdateTerminationProtection, PlanTypeOK
<1>27. CASE InitiateStackUpdate(o)
  BY <1>27 DEF InitiateStackUpdate, StackStatuses, InProgressStatuses, Endings
<1>28. CASE WaitStackCreateOrUpdateToComplete(o)
  BY <1>28 DEF WaitStackCreateOrUpdateToComplete
<1>29. CASE ExecuteAfterDeployHooks(o)
  BY <1>29 DEF ExecuteAfterDeployHooks, OutcomeKnown
<1>30. QED
  BY <1>1, <1>2, <1>3, <1>4, <1>5, <1>6, <1>7, <1>8, <1>9, <1>10, <1>11, <1>12, <1>13,
     <1>14, <1>15, <1>16, <1>17, <1>18, <1>19, <1>20, <1>21, <1>22, <1>23, <1>24, <1>25,
     <1>26, <1>27, <1>28, <1>29 DEF StackStep

-----------------------------------------------------------------------------
LEMMA PlannableIsStable ==
    ASSUME NEW status \in InitialStatuses
    PROVE  status \in StableStatuses /\ status \notin InProgressStatuses
  BY InputsAssumption
     DEF PlannableStatuses, StableStatuses, InProgressStatuses, Endings, DeployedStatuses,
         FailedCreationStatuses, Absent

(* In the initial states. *)
LEMMA InitIInv == Init => IInv
<1> SUFFICES ASSUME Init PROVE IInv
  OBVIOUS
<1> USE DEF Init
<1>1. PICK dependencies \in {f \in [Op -> SUBSET Op] : Sorted(f)},
           status \in [Op -> InitialStatuses], change \in [Op -> Changes],
           wanted \in [Op -> Protections], options \in Options :
        plan = [dependencies |-> dependencies, status |-> status, change |-> change,
                protection |-> wanted, expectNoChanges |-> options.expectNoChanges,
                autoConfirmEnabled |-> options.autoConfirmEnabled,
                ignoreDependencies |-> options.ignoreDependencies]
  BY DEF Plans
<1>2. PlanTypeOK
  BY <1>1, InputsAssumption DEF PlanTypeOK
<1>3. StackTypeOK
  <2>1. cfn \in [Op -> StackStatuses]
    BY <1>2, PlannableIsStable DEF PlanTypeOK, StackStatuses
  <2>2. QED
    BY <2>1, InputsAssumption DEF StackTypeOK, Steps
<1>4. options.autoConfirmEnabled \in BOOLEAN
  BY InputsAssumption
<1>5. SchedulerTypeOK
  <2>1. autoConfirm \in BOOLEAN
    BY <1>1, <1>4, Zenon
  <2>2. next \in 1 .. NumOps + 1 /\ active \in 0 .. Limit
    BY NumOpsAssumption, LimitAssumption
  <2>3. queue \in Seq(Op)
    OBVIOUS
  <2>4. QED
    BY <2>1, <2>2, <2>3 DEF SchedulerTypeOK
<1>6. OutcomeKnown /\ ResultKnown
  BY DEF OutcomeKnown, ResultKnown
<1>7. TouchedAfterDependencies
  BY DEF TouchedAfterDependencies, Untouched, BegunSteps, WrappedSteps, UnwrappedSteps,
         HookSteps, PreparationSteps, Successful, None
<1>8. ModeOK /\ QueueOK
  BY DEF ModeOK, QueueOK, RunningSteps, BegunSteps, WrappedSteps, UnwrappedSteps,
         HookSteps, PreparationSteps, Waiting
<1>9. SlotsCounted
  BY DEF SlotsCounted
<1>10. QED
  BY <1>2, <1>3, <1>5, <1>6, <1>7, <1>8, <1>9 DEF IInv

(* The operations before first are completed, the others untouched.        *)
SplitAt(first) ==
    \A o \in Op : /\ o < first => step[o] = "completed"
                  /\ o >= first => step[o] = "idle"

(* Handing the operations from first on to the bulkhead.  Those that start *)
(* are an interval of positions, those that are queued the next one.       *)
LEMMA ExecuteInParallelIInv ==
    ASSUME IInv, NEW first \in 1 .. NumOps + 1,
           SplitAt(first), ExecuteInParallel(first),
           autoConfirm' \in BOOLEAN, cancelled' \in BOOLEAN,
           UNCHANGED <<plan, outcome, awsVars, historyVars, next, output>>
    PROVE  IInv'
<1> DEFINE last == Smaller(first + Limit - 1, NumOps)
           room == QueuedCount(first, NumOps)
<1>1. /\ mode' = "parallel"
      /\ step' = [o \in Op |-> CASE Starts(o, first) -> Waiting
                                 [] Queued(o, first) -> "queued"
                                 [] Rejected(o, first) -> "completed"
                                 [] OTHER -> step[o]]
      /\ result' = [o \in Op |-> IF Rejected(o, first) THEN "REJECTED" ELSE result[o]]
      /\ active' = StartedCount(first, NumOps)
      /\ queue' = [k \in 1 .. room |-> first + Limit + k - 1]
  BY Zenon DEF ExecuteInParallel
<1>2. /\ outcome' = outcome /\ cfn' = cfn /\ protection' = protection
      /\ changeSet' = changeSet /\ reviewed' = reviewed
      /\ beforeHooks' = beforeHooks /\ afterHooks' = afterHooks
      /\ plan' = plan /\ next' = next /\ output' = output
  BY DEF awsVars, historyVars
<1>a. ASSUME NEW o \in Op
      PROVE  /\ o < first => result[o] # None
             /\ ~(o < first) => result[o] = None /\ step[o] = "idle"
  <2>1. /\ step[o] = "completed" <=> result[o] # None
        /\ o < first => step[o] = "completed"
        /\ o >= first => step[o] = "idle"
    BY DEF IInv, ResultKnown, SplitAt
  <2>2. o < first \/ o >= first
    BY NumOpsAssumption DEF Op
  <2>3. QED
    BY <2>1, <2>2
<1>3. ASSUME NEW o \in Op
      PROVE  /\ o < first => step'[o] = "completed" /\ result'[o] = result[o]
             /\ Starts(o, first) => step'[o] = Waiting /\ result'[o] = None
             /\ Queued(o, first) => step'[o] = "queued" /\ result'[o] = None
             /\ Rejected(o, first) => step'[o] = "completed" /\ result'[o] = "REJECTED"
             /\ o < first \/ Starts(o, first) \/ Queued(o, first) \/ Rejected(o, first)
  BY <1>1, <1>a, NumOpsAssumption, LimitAssumption
     DEF Starts, Queued, Rejected, SplitAt, IInv, Op
<1>b. ASSUME NEW o \in Op
      PROVE  /\ step'[o] \in {"completed", Waiting, "queued"}
             /\ step'[o] = Waiting <=> Starts(o, first)
             /\ step'[o] = "queued" <=> Queued(o, first)
             /\ step'[o] = "completed" <=> result'[o] # None
             /\ result'[o] \in Successful <=> result[o] \in Successful
             /\ result'[o] = result[o] \/ result'[o] = "REJECTED"
  <2>1. /\ o < first => ~Starts(o, first) /\ ~Queued(o, first)
        /\ Starts(o, first) => ~(o < first) /\ ~Queued(o, first)
        /\ Queued(o, first) => ~(o < first)
        /\ Rejected(o, first) => ~(o < first) /\ ~Starts(o, first) /\ ~Queued(o, first)
    BY NumOpsAssumption, LimitAssumption DEF Starts, Queued, Rejected, Op
  <2>2. QED
    BY <1>3, <1>a, <2>1 DEF Waiting, Successful, None
<1>c. ASSUME NEW o \in Op
      PROVE  /\ step'[o] \notin BegunSteps
             /\ step'[o] \in RunningSteps <=> Starts(o, first)
  BY <1>b DEF RunningSteps, BegunSteps, WrappedSteps, UnwrappedSteps, HookSteps,
              PreparationSteps, Waiting
<1>4. /\ room \in Nat
      /\ \A k \in 1 .. room : /\ first + Limit + k - 1 \in Op
                              /\ Queued(first + Limit + k - 1, first)
      /\ \A o \in Op : Queued(o, first) => o - first - Limit + 1 \in 1 .. room
  BY NumOpsAssumption, LimitAssumption DEF QueuedCount, Smaller, Larger, Queued, Op
<1> HIDE DEF room
<1>6. StackTypeOK'
  <2>1. step' \in [Op -> Steps]
    BY <1>1, <1>b DEF Steps, RunningSteps
  <2>2. result' \in [Op -> {None, "REJECTED"} \union OperationStatuses]
    BY <1>1, <1>b DEF IInv, StackTypeOK
  <2>3. QED
    BY <1>2, <2>1, <2>2 DEF IInv, StackTypeOK
<1>7. PlanTypeOK'
  BY <1>2 DEF IInv, PlanTypeOK, Sorted
<1>8. SchedulerTypeOK'
  <2>1. queue' \in [1 .. room -> Op]
    BY <1>1, <1>4
  <2>4. queue' \in Seq(Op)
    BY <1>4, <2>1
  <2>2. active' \in 0 .. Limit
    BY <1>1, NumOpsAssumption, LimitAssumption DEF StartedCount, Smaller
  <2>3. QED
    BY <1>1, <1>2, <2>4, <2>2 DEF IInv, SchedulerTypeOK
<1>9. OutcomeKnown'
  BY <1>b DEF OutcomeKnown, Waiting
<1>10. ResultKnown'
  BY <1>b DEF ResultKnown
<1>11. TouchedAfterDependencies'
  <2>2. \A o \in Op : Untouched(o)' <=> Untouched(o)
    BY <1>2 DEF Untouched
  <2>4. QED
    BY <1>2, <1>b, <1>c, <2>2 DEF IInv, TouchedAfterDependencies, Dependencies, PlanTypeOK
<1>12. ModeOK'
  BY <1>1, <1>b DEF ModeOK, Waiting
<1>13. QueueOK'
  <2>1. Len(queue') = room /\ \A k \in 1 .. room : queue'[k] = first + Limit + k - 1
    BY <1>1, <1>4
  <2>2. \A k \in 1 .. Len(queue') : step'[queue'[k]] = "queued"
    BY <1>b, <1>4, <2>1
  <2>4. \A o \in Op : step'[o] = "queued" => \E k \in 1 .. Len(queue') : queue'[k] = o
    <3>1. SUFFICES ASSUME NEW o \in Op, Queued(o, first)
                   PROVE  \E k \in 1 .. room : queue'[k] = o
      BY <1>b, <2>1
    <3>2. o - first - Limit + 1 \in 1 .. room
      BY <1>4, <3>1
    <3>3. queue'[o - first - Limit + 1] = o
      BY <2>1, <3>2, LimitAssumption, NumOpsAssumption DEF Op
    <3>4. QED
      BY <3>2, <3>3
  <2>5. \A j, k \in 1 .. Len(queue') : j < k => queue'[j] < queue'[k]
    BY <1>4, <2>1, LimitAssumption
  <2>7. \A o, p \in Op : step'[o] = "queued" /\ step'[p] \in RunningSteps => p < o
    BY <1>b, <1>c, LimitAssumption, NumOpsAssumption DEF Queued, Starts, Op
  <2>8. QED
    BY <2>2, <2>4, <2>5, <2>7 DEF QueueOK
<1>14. SlotsCounted'
  <2>1. Running' = {o \in Op : Starts(o, first)}
    BY <1>c DEF Running
  <2>2. {o \in Op : Starts(o, first)} = first .. last
    BY LimitAssumption, NumOpsAssumption DEF Starts, Smaller, Op
  <2>3. last \in Int /\ active' = IF first > last THEN 0 ELSE last - first + 1
    BY <1>1, LimitAssumption, NumOpsAssumption DEF StartedCount, Smaller
  <2>5. Cardinality(first .. last) = active'
    BY <2>3, FS_Interval
  <2>4. QED
    BY <2>1, <2>2, <2>5 DEF SlotsCounted
<1>15. QED
  BY <1>6, <1>7, <1>8, <1>9, <1>10, <1>11, <1>12, <1>13, <1>14 DEF IInv

LEMMA RunningFinite == IsFiniteSet(Running)
<1>1. IsFiniteSet(Op)
  BY FS_Interval, NumOpsAssumption DEF Op
<1>2. QED
  BY <1>1, FS_Subset DEF Running

(* A step of one operation: the frame says what it does, the rest of the   *)
(* state is unchanged but for the slot it may give back.                   *)
LEMMA RunStackIInv ==
    ASSUME IInv, NEW o \in Op, RunStack(o)
    PROVE  IInv'
<1>1. StackFrame(o)
  BY StackStepFrame DEF RunStack, IInv, SchedulerTypeOK
<1>2. plan' = plan /\ mode' = mode /\ next' = next /\ cancelled' = cancelled /\ queue' = queue
      /\ output' = output
  BY DEF RunStack
<1>3. active' = IF mode = "parallel" /\ step'[o] = "completed" THEN active - 1 ELSE active
  BY DEF RunStack, ReleaseSlot
<1>4. step[o] \in RunningSteps /\ step[o] \notin {"idle", "queued", "completed"}
  BY <1>1 DEF StackFrame, RunningSteps, BegunSteps, WrappedSteps, UnwrappedSteps,
              HookSteps, PreparationSteps, Waiting
<1>5. /\ step'[o] \notin {"idle", "queued"}
      /\ step'[o] \in RunningSteps <=> step'[o] # "completed"
      /\ step'[o] \in RunningSteps <=> step'[o] \in BegunSteps
      /\ step'[o] = "completed" <=> result'[o] # None
  BY <1>1, <1>4 DEF IInv, ResultKnown, StackFrame, RunningSteps, BegunSteps, WrappedSteps,
     UnwrappedSteps, HookSteps, PreparationSteps, Waiting, OperationStatuses, None
<1>6. ASSUME NEW p \in Op \ {o}
      PROVE  /\ step'[p] = step[p] /\ result'[p] = result[p] /\ outcome'[p] = outcome[p]
             /\ Untouched(p)' <=> Untouched(p)
  BY <1>1, <1>2 DEF StackFrame, Untouched
<1>7. StackTypeOK' /\ PlanTypeOK'
  BY <1>1, <1>2 DEF IInv, StackFrame, PlanTypeOK, Sorted
<1>9. Running' = IF step'[o] = "completed" THEN Running \ {o} ELSE Running
  BY <1>4, <1>5, <1>6 DEF Running
<1>10. SlotsCounted' /\ active' \in 0 .. Limit
  <2>1. o \in Running
    BY <1>4 DEF Running
  <2>2. Cardinality(Running \ {o}) = Cardinality(Running) - 1
    BY RunningFinite, <2>1, FS_RemoveElement
  <2>3. Cardinality(Running \ {o}) \in Nat
    BY RunningFinite, FS_RemoveElement, FS_CardinalityType
  <2>4. SlotsCounted'
    BY <1>2, <1>3, <1>9, <2>2 DEF IInv, SlotsCounted
  <2>5. mode = "parallel" => active - 1 \in 0 .. Limit
    BY <2>2, <2>3, LimitAssumption DEF IInv, SlotsCounted, SchedulerTypeOK
  <2>6. QED
    BY <1>3, <2>4, <2>5 DEF IInv, SchedulerTypeOK
<1>11. SchedulerTypeOK'
  <2>1. autoConfirm' \in BOOLEAN
    BY <1>1 DEF StackFrame
  <2>2. QED
    BY <1>2, <1>10, <2>1 DEF IInv, SchedulerTypeOK
<1>12. OutcomeKnown' /\ ResultKnown'
  <2>1. step'[o] = "execute-after-deploy-hooks" => outcome'[o] # None
    BY <1>1 DEF StackFrame
  <2>2. QED
    BY <1>5, <1>6, <2>1 DEF IInv, OutcomeKnown, ResultKnown
<1>13. TouchedAfterDependencies'
  <2>1. result[o] \notin Successful
    BY <1>4 DEF IInv, ResultKnown, Successful, None
  <2>2. ASSUME NEW p \in Op, \A d \in Dependencies(p) : result[d] \in Successful
        PROVE  \A d \in Dependencies(p)' : result'[d] \in Successful
    BY <1>2, <1>6, <2>1, <2>2 DEF Dependencies, IInv, PlanTypeOK
  <2>3. ASSUME NEW p \in Op \ {o},
               step'[p] \in BegunSteps \/ ~Untouched(p)' \/ result'[p] \in Successful
        PROVE  \A d \in Dependencies(p)' : result'[d] \in Successful
    BY <1>6, <2>2, <2>3 DEF IInv, TouchedAfterDependencies
  <2>4. CASE step[o] = Waiting
    <3>1. Untouched(o)' <=> Untouched(o)
      BY <1>1, <1>2, <2>4 DEF StackFrame, Untouched
    <3>2. \/ \A d \in Dependencies(o) : result[d] \in Successful
          \/ step'[o] = "completed" /\ result'[o] \notin Successful
      BY <1>1, <2>4 DEF StackFrame
    <3>3. ~Untouched(o) => \A d \in Dependencies(o) : result[d] \in Successful
      BY DEF IInv, TouchedAfterDependencies
    <3>4. step'[o] = "completed" => step'[o] \notin BegunSteps
      BY <1>5
    <3>5. step'[o] \in BegunSteps \/ ~Untouched(o)' \/ result'[o] \in Successful
              => \A d \in Dependencies(o) : result[d] \in Successful
      BY <3>1, <3>2, <3>3, <3>4
    <3>6. QED
      BY <2>2, <2>3, <3>5 DEF TouchedAfterDependencies
  <2>5. CASE step[o] # Waiting
    <3>1. \A d \in Dependencies(o) : result[d] \in Successful
      BY <1>4, <2>5 DEF RunningSteps, IInv, TouchedAfterDependencies
    <3>2. QED
      BY <2>2, <2>3, <3>1 DEF TouchedAfterDependencies
  <2>6. QED
    BY <2>4, <2>5
<1>14. ModeOK'
  <2>1. mode # "confirm"
    BY <1>4 DEF IInv, ModeOK
  <2>2. mode = "sequential" => o = next
    BY <1>4, NumOpsAssumption DEF IInv, ModeOK, SchedulerTypeOK, Op
  <2>3. ASSUME mode = "sequential", NEW p \in Op
        PROVE  /\ p < next => step'[p] = "completed"
               /\ p > next => step'[p] = "idle"
               /\ step'[p] # "queued"
    <3>1. CASE p = o
      BY <1>5, <2>2, <2>3, <3>1, NumOpsAssumption DEF Op
    <3>2. CASE p # o
      BY <1>6, <2>3, <3>2 DEF IInv, ModeOK
    <3>3. QED
      BY <3>1, <3>2
  <2>4. mode = "parallel" => \A p \in Op : step'[p] # "idle"
    BY <1>5, <1>6 DEF IInv, ModeOK
  <2>5. mode = "sequential" => queue' = <<>> /\ active' = 0
    BY <1>2, <1>3 DEF IInv, ModeOK
  <2>6. QED
    BY <1>2, <2>1, <2>3, <2>4, <2>5 DEF ModeOK
<1>15. QueueOK'
  <2>1. \A p \in Op : step'[p] = "queued" <=> step[p] = "queued"
    BY <1>4, <1>5, <1>6
  <2>2. \A p \in Op : step'[p] \in RunningSteps => step[p] \in RunningSteps
    BY <1>4, <1>6
  <2>3. \A k \in 1 .. Len(queue) : queue[k] \in Op
    BY DEF IInv, SchedulerTypeOK
  <2>4. QED
    BY <1>2, <2>1, <2>2, <2>3 DEF IInv, QueueOK
<1>16. QED
  BY <1>7, <1>10, <1>11, <1>12, <1>13, <1>14, <1>15 DEF IInv

(* An operation goes from before its first step to wait-dependencies-to-   *)
(* complete, or is completed without having begun: what that means for the *)
(* parts of the invariant that do not depend on the mode.                  *)
LEMMA MoveOn ==
    ASSUME IInv, NEW o \in Op, step[o] \in {"idle", "queued"},
           \/ GoTo(o, Waiting)
           \/ Complete(o, "CANCELLED"),
           UNCHANGED <<plan, awsVars, historyVars>>
    PROVE  /\ (StackTypeOK /\ PlanTypeOK /\ OutcomeKnown /\ ResultKnown /\ TouchedAfterDependencies)'
           /\ step'[o] \in {Waiting, "completed"}
           /\ \A p \in Op \ {o} : step'[p] = step[p]
<1>1. /\ outcome' = outcome /\ cfn' = cfn /\ protection' = protection
      /\ changeSet' = changeSet /\ reviewed' = reviewed
      /\ beforeHooks' = beforeHooks /\ afterHooks' = afterHooks /\ plan' = plan
  BY DEF GoTo, Complete, awsVars, historyVars
<1>2. /\ step' \in [Op -> Steps]
      /\ \A p \in Op \ {o} : step'[p] = step[p] /\ result'[p] = result[p]
      /\ \/ step'[o] = Waiting /\ result' = result
         \/ step'[o] = "completed" /\ result'[o] = "CANCELLED"
  BY DEF GoTo, Complete, IInv, StackTypeOK, Steps, RunningSteps
<1>3. result[o] = None
  BY DEF IInv, ResultKnown
<1>4. step'[o] \notin BegunSteps /\ step'[o] \in {Waiting, "completed"}
  BY <1>2 DEF BegunSteps, WrappedSteps, UnwrappedSteps, HookSteps, PreparationSteps, Waiting
<1>5. result' \in [Op -> {None, "REJECTED"} \union OperationStatuses]
  BY DEF GoTo, Complete, IInv, StackTypeOK, OperationStatuses
<1>6. (StackTypeOK /\ PlanTypeOK)'
  BY <1>1, <1>2, <1>5 DEF IInv, StackTypeOK, PlanTypeOK, Sorted
<1>7. (OutcomeKnown /\ ResultKnown)'
  BY <1>1, <1>2, <1>3 DEF IInv, OutcomeKnown, ResultKnown, Waiting, None
<1>8. TouchedAfterDependencies'
  <2>1. \A p \in Op : Untouched(p)' <=> Untouched(p)
    BY <1>1 DEF Untouched
  <2>2. \A p \in Op : result'[p] \in Successful <=> result[p] \in Successful
    BY <1>2, <1>3 DEF Successful, None
  <2>3. \A p \in Op : step'[p] \in BegunSteps => step[p] \in BegunSteps
    BY <1>2, <1>4
  <2>4. QED
    BY <1>1, <2>1, <2>2, <2>3 DEF IInv, TouchedAfterDependencies, Dependencies, PlanTypeOK
<1>9. QED
  BY <1>2, <1>4, <1>6, <1>7, <1>8

(* The bulkhead starts the operation at the head of its queue: it comes    *)
(* before every operation left in the queue.                               *)
LEMMA DequeueIInv ==
    ASSUME IInv, mode # "done", Dequeue
    PROVE  IInv'
<1> DEFINE h == Head(queue)
<1>1. /\ queue \in Seq(Op) /\ queue # <<>>
      /\ active < Limit /\ active \in 0 .. Limit
  BY DEF Dequeue, IInv, SchedulerTypeOK
<1>2. /\ Len(queue) \in Nat /\ 1 \in 1 .. Len(queue)
      /\ h = queue[1] /\ h \in Op
      /\ \A k \in 1 .. Len(queue) : queue[k] \in Op
  BY <1>1
<1>3. /\ step[h] = "queued" /\ GoTo(h, Waiting)
      /\ active' = active + 1 /\ queue' = Tail(queue)
      /\ UNCHANGED <<plan, autoConfirm, awsVars, historyVars, mode, next, cancelled, output>>
  BY <1>2, Zenon DEF Dequeue, IInv, QueueOK
<1>4. /\ queue' \in Seq(Op) /\ Len(queue') = Len(queue) - 1
      /\ \A k \in 1 .. Len(queue') : k + 1 \in 1 .. Len(queue) /\ queue'[k] = queue[k + 1]
  BY <1>1, <1>2, <1>3
<1>5. mode = "parallel"
  BY <1>1 DEF IInv, ModeOK, SchedulerTypeOK
<1>6. /\ (StackTypeOK /\ PlanTypeOK /\ OutcomeKnown /\ ResultKnown /\ TouchedAfterDependencies)'
      /\ \A p \in Op \ {h} : step'[p] = step[p]
  BY <1>2, <1>3, MoveOn
<1>7. step'[h] = Waiting
  BY <1>2, <1>3 DEF GoTo, IInv, StackTypeOK
<1>8. SchedulerTypeOK'
  BY <1>1, <1>3, <1>4, LimitAssumption DEF IInv, SchedulerTypeOK
<1>9. ModeOK'
  BY <1>3, <1>5, <1>6, <1>7 DEF IInv, ModeOK, Waiting
<1>10. QueueOK'
  <2>1. \A j, k \in 1 .. Len(queue) : j < k => queue[j] < queue[k]
    BY DEF IInv, QueueOK
  <2>2. \A k \in 1 .. Len(queue) : k # 1 => h < queue[k] /\ queue[k] # h
    BY <1>2, <2>1, NumOpsAssumption DEF Op
  <2>3. \A k \in 1 .. Len(queue') : step'[queue'[k]] = "queued"
    <3>1. SUFFICES ASSUME NEW k \in 1 .. Len(queue') PROVE step'[queue'[k]] = "queued"
      OBVIOUS
    <3>2. k + 1 \in 1 .. Len(queue) /\ k + 1 # 1 /\ queue'[k] = queue[k + 1]
      BY <1>2, <1>4
    <3>3. queue[k + 1] \in Op \ {h}
      BY <1>2, <2>2, <3>2
    <3>4. step[queue[k + 1]] = "queued"
      BY <3>2 DEF IInv, QueueOK
    <3>5. QED
      BY <1>6, <3>2, <3>3, <3>4
  <2>4. ASSUME NEW p \in Op, step'[p] = "queued"
        PROVE  p # h /\ step[p] = "queued"
    BY <1>6, <1>7, <2>4 DEF Waiting
  <2>5. ASSUME NEW p \in Op, step'[p] = "queued"
        PROVE  \E k \in 1 .. Len(queue) : k # 1 /\ queue[k] = p
    BY <1>2, <2>4, <2>5 DEF IInv, QueueOK
  <2>6. \A p \in Op : step'[p] = "queued" => \E k \in 1 .. Len(queue') : queue'[k] = p
    <3>1. SUFFICES ASSUME NEW p \in Op, step'[p] = "queued"
                   PROVE  \E k \in 1 .. Len(queue') : queue'[k] = p
      OBVIOUS
    <3>2. PICK k \in 1 .. Len(queue) : k # 1 /\ queue[k] = p
      BY <2>5, <3>1
    <3>3. k - 1 \in 1 .. Len(queue') /\ (k - 1) + 1 = k
      BY <1>2, <1>4, <3>2
    <3>4. queue'[k - 1] = p
      BY <1>4, <3>2, <3>3
    <3>5. QED
      BY <3>3, <3>4
  <2>7. \A j, k \in 1 .. Len(queue') : j < k => queue'[j] < queue'[k]
    BY <1>2, <1>4, <2>1
  <2>8. ASSUME NEW p \in Op, NEW q \in Op, step'[p] = "queued", step'[q] \in RunningSteps
        PROVE  q < p
    <3>1. CASE q = h
      BY <2>2, <2>5, <2>8, <3>1
    <3>2. CASE q # h
      BY <1>6, <2>4, <2>8, <3>2 DEF IInv, QueueOK
    <3>3. QED
      BY <3>1, <3>2
  <2>9. QED
    BY <2>3, <2>6, <2>7, <2>8 DEF QueueOK
<1>11. SlotsCounted'
  <2>1. h \notin Running
    BY <1>3 DEF Running, RunningSteps, BegunSteps, WrappedSteps, UnwrappedSteps, HookSteps,
                PreparationSteps, Waiting
  <2>2. Running' = Running \union {h}
    BY <1>2, <1>6, <1>7 DEF Running, RunningSteps
  <2>3. Cardinality(Running') = Cardinality(Running) + 1
    BY <2>1, <2>2, RunningFinite, FS_AddElement
  <2>4. QED
    BY <1>3, <1>5, <2>3 DEF IInv, SlotsCounted
<1>12. QED
  BY <1>6, <1>8, <1>9, <1>10, <1>11 DEF IInv

(* A step that leaves the operations alone. *)
LEMMA OperationsUnchanged ==
    ASSUME IInv, UNCHANGED <<plan, stackVars, queue, active>>
    PROVE  /\ (StackTypeOK /\ PlanTypeOK /\ OutcomeKnown /\ ResultKnown)'
           /\ (TouchedAfterDependencies /\ QueueOK)'
           /\ Running' = Running
<1>1. /\ step' = step /\ outcome' = outcome /\ result' = result
      /\ cfn' = cfn /\ protection' = protection /\ changeSet' = changeSet
      /\ reviewed' = reviewed /\ beforeHooks' = beforeHooks /\ afterHooks' = afterHooks
      /\ plan' = plan /\ queue' = queue /\ active' = active
  BY DEF stackVars, awsVars, historyVars
<1>2. (StackTypeOK /\ PlanTypeOK /\ OutcomeKnown /\ ResultKnown)'
  BY <1>1 DEF IInv, StackTypeOK, PlanTypeOK, Sorted, OutcomeKnown, ResultKnown
<1>3. \A o \in Op : (Untouched(o)' <=> Untouched(o)) /\ Dependencies(o)' = Dependencies(o)
  BY <1>1 DEF Untouched, Dependencies
<1>4. TouchedAfterDependencies'
  BY <1>1, <1>3 DEF IInv, TouchedAfterDependencies
<1>5. QueueOK' /\ Running' = Running
  BY <1>1 DEF IInv, QueueOK, Running
<1>6. QED
  BY <1>2, <1>4, <1>5

(* The command ends: nothing but mode and output changes. *)
LEMMA EndIInv ==
    ASSUME IInv, mode' = "done", output' \in {None, "ERROR"} \union CommandStatuses,
           autoConfirm' = autoConfirm,
           UNCHANGED <<plan, stackVars, next, cancelled, active, queue>>
    PROVE  IInv'
<1>1. SchedulerTypeOK'
  BY DEF IInv, SchedulerTypeOK
<1>2. ModeOK' /\ SlotsCounted'
  BY DEF ModeOK, SlotsCounted
<1>3. QED
  BY <1>1, <1>2, OperationsUnchanged DEF IInv

LEMMA ResolvedStatusType ==
    ASSUME NEW statuses
    PROVE  ResolvedStatus(statuses) \in CommandStatuses
  BY DEF ResolvedStatus, CommandStatuses

LEMMA ConfirmDeployIInv ==
    ASSUME IInv, ConfirmDeploy
    PROVE  IInv'
<1>1. /\ mode = "confirm"
      /\ plan' = plan /\ next' = next /\ cancelled' = cancelled
      /\ next = 1 /\ queue = <<>> /\ active = 0
      /\ \A o \in Op : step[o] = "idle"
  BY DEF ConfirmDeploy, IInv, ModeOK
<1>2. CASE /\ mode' = "done" /\ output' = "CANCELLED"
           /\ UNCHANGED <<autoConfirm, stackVars, active, queue>>
  BY <1>1, <1>2, EndIInv DEF CommandStatuses
<1>3. CASE /\ mode' = "sequential"
           /\ UNCHANGED <<autoConfirm, stackVars, active, queue, output>>
  <2>1. SchedulerTypeOK'
    BY <1>1, <1>3 DEF IInv, SchedulerTypeOK
  <2>2. step' = step
    BY <1>3 DEF stackVars
  <2>3. ModeOK' /\ SlotsCounted'
    BY <1>1, <1>3, <2>2, NumOpsAssumption DEF ModeOK, SlotsCounted, Op
  <2>4. QED
    BY <1>1, <1>3, <2>1, <2>3, OperationsUnchanged DEF IInv
<1>4. CASE /\ autoConfirm' = TRUE
           /\ ExecuteInParallel(1)
           /\ UNCHANGED <<outcome, awsVars, historyVars, output>>
  <2>1. 1 \in 1 .. NumOps + 1
    BY NumOpsAssumption
  <2>2. SplitAt(1)
    BY <1>1, NumOpsAssumption DEF SplitAt, Op
  <2>3. cancelled' \in BOOLEAN
    BY <1>1 DEF IInv, SchedulerTypeOK
  <2>4. QED
    BY <1>1, <1>4, <2>1, <2>2, <2>3, ExecuteInParallelIInv
<1>5. QED
  BY <1>2, <1>3, <1>4 DEF ConfirmDeploy

(* The sequential loop: the operations before next are completed, those    *)
(* after it have not started.                                              *)
LEMMA SequentialFacts ==
    ASSUME IInv, mode = "sequential", next \in Op
    PROVE  /\ next \in Nat /\ next + 1 \in 1 .. NumOps + 1
           /\ queue = <<>> /\ active = 0
           /\ \A o \in Op : /\ o < next => step[o] = "completed"
                            /\ o > next => step[o] = "idle"
                            /\ step[o] # "queued"
  BY NumOpsAssumption DEF IInv, ModeOK, SchedulerTypeOK, Op

LEMMA SplitAfterNext ==
    ASSUME IInv, mode = "sequential", next \in Op, step[next] = "completed"
    PROVE  SplitAt(next + 1)
<1>1. SUFFICES ASSUME NEW o \in Op
               PROVE  /\ o < next + 1 => step[o] = "completed"
                      /\ o >= next + 1 => step[o] = "idle"
  BY DEF SplitAt
<1>2. /\ o < next + 1 => o < next \/ o = next
      /\ o >= next + 1 => o > next
  BY NumOpsAssumption DEF Op
<1>3. QED
  BY <1>2, SequentialFacts

LEMMA BeginNextStackIInv ==
    ASSUME IInv, BeginNextStack
    PROVE  IInv'
<1>1. /\ mode = "sequential" /\ mode' = "sequential" /\ next \in Op /\ next' = next
      /\ queue' = queue /\ active' = active
      /\ step[next] = "idle" /\ GoTo(next, Waiting)
      /\ UNCHANGED <<plan, autoConfirm, awsVars, historyVars, cancelled, output>>
  BY DEF BeginNextStack, schedulerVars
<1>2. /\ (StackTypeOK /\ PlanTypeOK /\ OutcomeKnown /\ ResultKnown /\ TouchedAfterDependencies)'
      /\ step'[next] \in {Waiting, "completed"}
      /\ \A p \in Op \ {next} : step'[p] = step[p]
  BY <1>1, MoveOn
<1>3. SchedulerTypeOK'
  BY <1>1 DEF IInv, SchedulerTypeOK
<1>4. ModeOK' /\ QueueOK' /\ SlotsCounted'
  <2>1. queue' = <<>> /\ active' = 0
    BY <1>1, SequentialFacts
  <2>2. ASSUME NEW o \in Op
        PROVE  /\ o < next' => step'[o] = "completed"
               /\ o > next' => step'[o] = "idle"
               /\ step'[o] # "queued"
    <3>1. CASE o = next
      BY <1>1, <1>2, <3>1, SequentialFacts DEF Waiting
    <3>2. CASE o # next
      BY <1>1, <1>2, <3>2, SequentialFacts
    <3>3. QED
      BY <3>1, <3>2
  <2>3. QED
    BY <1>1, <2>1, <2>2 DEF ModeOK, QueueOK, SlotsCounted
<1>5. QED
  BY <1>2, <1>3, <1>4 DEF IInv

LEMMA CancelNextStackIInv ==
    ASSUME IInv, CancelNextStack
    PROVE  IInv'
<1>1. /\ mode = "sequential" /\ mode' = "sequential" /\ next \in Op /\ next' = next + 1
      /\ queue' = queue /\ active' = active
      /\ step[next] = "idle" /\ Complete(next, "CANCELLED")
      /\ UNCHANGED <<plan, autoConfirm, awsVars, historyVars, cancelled, output>>
  BY DEF CancelNextStack
<1>2. /\ (StackTypeOK /\ PlanTypeOK /\ OutcomeKnown /\ ResultKnown /\ TouchedAfterDependencies)'
      /\ \A p \in Op \ {next} : step'[p] = step[p]
  BY <1>1, MoveOn
<1>3. step'[next] = "completed"
  BY <1>1 DEF Complete, IInv, StackTypeOK
<1>4. SchedulerTypeOK'
  BY <1>1, SequentialFacts DEF IInv, SchedulerTypeOK
<1>5. ModeOK' /\ QueueOK' /\ SlotsCounted'
  <2>1. queue' = <<>> /\ active' = 0
    BY <1>1, SequentialFacts
  <2>2. ASSUME NEW o \in Op
        PROVE  /\ o < next + 1 => step'[o] = "completed"
               /\ o > next + 1 => step'[o] = "idle"
               /\ step'[o] # "queued"
    <3>1. CASE o = next
      BY <1>1, <1>3, <3>1, SequentialFacts
    <3>2. CASE o # next
      <4>1. step'[o] = step[o]
        BY <1>2, <3>2
      <4>2. o < next + 1 => o < next
        BY <1>1, <3>2, NumOpsAssumption DEF Op
      <4>3. o > next + 1 => o > next
        BY <1>1, NumOpsAssumption DEF Op
      <4>4. QED
        BY <1>1, <4>1, <4>2, <4>3, SequentialFacts
    <3>3. QED
      BY <3>1, <3>2
  <2>3. QED
    BY <1>1, <2>1, <2>2 DEF ModeOK, QueueOK, SlotsCounted
<1>6. QED
  BY <1>2, <1>4, <1>5 DEF IInv

LEMMA StackReturnedIInv ==
    ASSUME IInv, StackReturned
    PROVE  IInv'
<1>1. /\ mode = "sequential" /\ next \in Op /\ step[next] = "completed"
      /\ cancelled' = (cancelled \/ StopsRemaining(result[next]))
      /\ plan' = plan /\ autoConfirm' = autoConfirm /\ output' = output
      /\ UNCHANGED <<outcome, awsVars, historyVars>>
  BY DEF StackReturned
<1>2. cancelled' \in BOOLEAN
  BY <1>1, Zenon DEF IInv, SchedulerTypeOK, StopsRemaining
<1>3. SplitAt(next + 1)
  BY <1>1, SplitAfterNext
<1>4. CASE autoConfirm
  <2>1. ExecuteInParallel(next + 1) /\ next' = next
    BY <1>4 DEF StackReturned
  <2>2. autoConfirm' \in BOOLEAN
    BY <1>1 DEF IInv, SchedulerTypeOK
  <2>3. next + 1 \in 1 .. NumOps + 1
    BY <1>1, SequentialFacts
  <2>4. UNCHANGED <<plan, outcome, awsVars, historyVars, next, output>>
    BY <1>1, <2>1
  <2>5. QED
    BY <1>2, <1>3, <2>1, <2>2, <2>3, <2>4, ExecuteInParallelIInv
<1>5. CASE ~autoConfirm
  <2>1. next' = next + 1 /\ step' = step /\ result' = result /\ mode' = mode
        /\ active' = active /\ queue' = queue
    BY <1>5 DEF StackReturned
  <2>2. SchedulerTypeOK'
    BY <1>1, <1>2, <2>1, SequentialFacts DEF IInv, SchedulerTypeOK
  <2>7. queue' = <<>> /\ active' = 0
    BY <1>1, <2>1, SequentialFacts
  <2>8. ASSUME NEW o \in Op
        PROVE  /\ o < next' => step'[o] = "completed"
               /\ o > next' => step'[o] = "idle"
               /\ step'[o] # "queued"
    <3>1. o > next + 1 => o >= next + 1
      BY <1>1, NumOpsAssumption DEF Op
    <3>2. QED
      BY <1>1, <1>3, <2>1, <3>1, SequentialFacts DEF SplitAt
  <2>4. ModeOK' /\ SlotsCounted'
    BY <1>1, <2>1, <2>7, <2>8 DEF ModeOK, SlotsCounted
  <2>5. UNCHANGED <<plan, stackVars, queue, active>>
    BY <1>1, <2>1 DEF stackVars
  <2>6. QED
    BY <2>2, <2>4, <2>5, OperationsUnchanged DEF IInv
<1>6. QED
  BY <1>4, <1>5

(* CloudFormation ends an operation: only on a stack that was touched,     *)
(* because no stack is planned while it has an operation in progress.      *)
LEMMA CloudFormationStepIInv ==
    ASSUME IInv, NEW o \in Op, CloudFormationStep(o)
    PROVE  IInv'
<1>1. /\ plan' = plan /\ step' = step /\ outcome' = outcome /\ result' = result
      /\ protection' = protection /\ changeSet' = changeSet
      /\ reviewed' = reviewed /\ beforeHooks' = beforeHooks /\ afterHooks' = afterHooks
      /\ autoConfirm' = autoConfirm /\ mode' = mode /\ next' = next
      /\ cancelled' = cancelled /\ active' = active /\ queue' = queue /\ output' = output
  BY DEF CloudFormationStep, CfnCompletes, schedulerVars, historyVars
<1>2. /\ cfn[o] \in InProgressStatuses
      /\ \E ending \in Endings[cfn[o]] : cfn' = [cfn EXCEPT ![o] = ending]
  BY DEF CloudFormationStep, CfnCompletes, SetCfn
<1>3. \A s \in InProgressStatuses : Endings[s] \subseteq StableStatuses
  BY DEF InProgressStatuses, Endings, StableStatuses, DeployedStatuses, FailedCreationStatuses,
         Absent
<1>4. cfn' \in [Op -> StackStatuses] /\ \A p \in Op \ {o} : cfn'[p] = cfn[p]
  BY <1>2, <1>3 DEF IInv, StackTypeOK, StackStatuses
<1>5. StackTypeOK' /\ PlanTypeOK' /\ SchedulerTypeOK'
  BY <1>1, <1>4 DEF IInv, StackTypeOK, PlanTypeOK, Sorted, SchedulerTypeOK
<1>6. ~Untouched(o)
  BY <1>2, PlannableIsStable DEF Untouched, IInv, PlanTypeOK
<1>7. TouchedAfterDependencies'
  <2>1. \A p \in Op : ~Untouched(p)' => ~Untouched(p)
    BY <1>1, <1>4, <1>6 DEF Untouched
  <2>2. \A p \in Op : Dependencies(p)' = Dependencies(p)
    BY <1>1 DEF Dependencies
  <2>3. QED
    BY <1>1, <2>1, <2>2 DEF IInv, TouchedAfterDependencies
<1>8. OutcomeKnown' /\ ResultKnown' /\ ModeOK' /\ QueueOK' /\ SlotsCounted'
  BY <1>1 DEF IInv, OutcomeKnown, ResultKnown, ModeOK, QueueOK, SlotsCounted, Running
<1>9. QED
  BY <1>5, <1>7, <1>8 DEF IInv

LEMMA NextIInv == IInv /\ [Next]_vars => IInv'
<1> SUFFICES ASSUME IInv, [Next]_vars PROVE IInv'
  OBVIOUS
<1>1. CASE RejectIgnoreDependencies
  BY <1>1, EndIInv DEF RejectIgnoreDependencies
<1>2. CASE ConfirmDeploy
  BY <1>2, ConfirmDeployIInv
<1>3. CASE BeginNextStack
  BY <1>3, BeginNextStackIInv
<1>4. CASE CancelNextStack
  BY <1>4, CancelNextStackIInv
<1>5. CASE StackReturned
  BY <1>5, StackReturnedIInv
<1>6. CASE mode # "done" /\ Dequeue
  BY <1>6, DequeueIInv
<1>7. CASE \E o \in Op : mode # "done" /\ RunStack(o)
  BY <1>7, RunStackIInv
<1>8. CASE \E o \in Op : CloudFormationStep(o)
  BY <1>8, CloudFormationStepIInv
<1>9. CASE Finish
  BY <1>9, EndIInv, ResolvedStatusType DEF Finish
<1>10. CASE FinishRejected
  BY <1>10, EndIInv DEF FinishRejected
<1>11. CASE Exited \/ UNCHANGED vars
  <2>1. UNCHANGED <<plan, autoConfirm, stackVars, mode, next, cancelled, active, queue, output>>
    BY <1>11 DEF Exited, vars, schedulerVars
  <2>2. step' = step
    BY <2>1 DEF stackVars
  <2>3. SchedulerTypeOK' /\ ModeOK'
    BY <2>1, <2>2 DEF IInv, SchedulerTypeOK, ModeOK
  <2>4. Running' = Running
    BY <2>1, OperationsUnchanged
  <2>5. SlotsCounted'
    BY <2>1, <2>4 DEF IInv, SlotsCounted
  <2>6. QED
    BY <2>1, <2>3, <2>5, OperationsUnchanged DEF IInv
<1>12. QED
  BY <1>1, <1>2, <1>3, <1>4, <1>5, <1>6, <1>7, <1>8, <1>9, <1>10, <1>11 DEF Next

LEMMA InvariantHolds == Spec => []IInv
  BY InitIInv, NextIInv, PTL DEF Spec

-----------------------------------------------------------------------------
(* The variables of the deployment keep their types.                       *)
THEOREM TypeCorrect == Spec => []TypeOK
<1>1. IInv => TypeOK
  BY DEF IInv, StackTypeOK, PlanTypeOK, SchedulerTypeOK, TypeOK
<1>2. QED
  BY <1>1, InvariantHolds, PTL

(* In every deployment a stack operation goes beyond waiting for its       *)
(* dependencies only when all of them have succeeded.                      *)
THEOREM DependenciesAlwaysFirst == Spec => []DependenciesFirst
<1>1. IInv => DependenciesFirst
  BY DEF IInv, TouchedAfterDependencies, DependenciesFirst
<1>2. QED
  BY <1>1, InvariantHolds, PTL

(* In every deployment no stack that depends on one that failed, was       *)
(* cancelled or rejected is touched or reported as successful.             *)
THEOREM FailureAlwaysStopsDependents == Spec => []FailureStopsDependents
<1>1. IInv => FailureStopsDependents
  BY DEF IInv, TouchedAfterDependencies, FailureStopsDependents, Successful
<1>2. QED
  BY <1>1, InvariantHolds, PTL

(* The bulkhead's counter is always the number of operations that hold a   *)
(* slot, and a reviewed deployment runs one stack at a time.               *)
THEOREM SlotsAlwaysBounded == Spec => []SlotsBounded
<1>1. ASSUME IInv PROVE SlotsBounded
  <2>1. mode = "parallel" => active = Cardinality(Running) /\ active <= Limit
    BY <1>1, LimitAssumption DEF IInv, SlotsCounted, SchedulerTypeOK
  <2>2. ASSUME mode = "sequential" PROVE active = 0 /\ Running \subseteq {next}
    <3>1. active = 0
      BY <1>1, <2>2 DEF IInv, ModeOK
    <3>2. ASSUME NEW o \in Running PROVE o = next
      <4>1. o \in Op /\ step[o] \notin {"idle", "completed"}
        BY <3>2 DEF Running, RunningSteps, BegunSteps, WrappedSteps, UnwrappedSteps, HookSteps,
                    PreparationSteps, Waiting
      <4>2. ~(o < next) /\ ~(o > next)
        BY <1>1, <2>2, <4>1 DEF IInv, ModeOK
      <4>3. QED
        BY <1>1, <4>1, <4>2, NumOpsAssumption DEF IInv, SchedulerTypeOK, Op
    <3>3. QED
      BY <3>1, <3>2
  <2>3. QED
    BY <2>1, <2>2 DEF SlotsBounded
<1>2. QED
  BY <1>1, InvariantHolds, PTL

(* Operations that wait for their dependencies while holding every slot    *)
(* never all wait for one that is still queued: the first operation of the *)
(* plan that has not completed can always go on, because its dependencies  *)
(* come before it, and if it is queued nothing holds a slot.               *)
THEOREM NeverSlotDeadlock == Spec => []NoSlotDeadlock
<1>1. ASSUME IInv PROVE NoSlotDeadlock
  <2>1. SUFFICES ASSUME mode = "parallel", "REJECTED" \notin Statuses,
                        ~\A o \in Op : step[o] = "completed"
                 PROVE  \/ \E o \in Op : CanContinue(o)
                        \/ queue # <<>> /\ active < Limit
    BY DEF NoSlotDeadlock
  <2> DEFINE Pending == {o \in Op : step[o] # "completed"}
  <2>2. PICK m \in Pending : \A o \in Pending : ~(o < m)
    <3>1. Pending \subseteq Nat /\ Pending # {}
      BY <2>1, NumOpsAssumption DEF Op
    <3>2. PICK m \in Pending : \A o \in Pending : <<o, m>> \notin OpToRel(<, Nat)
      BY <3>1, NatLessThanWellFounded, WFMin, Zenon
    <3>3. QED
      BY <3>1, <3>2 DEF OpToRel
  <2>3. \A o \in Op : o < m => step[o] = "completed"
    BY <2>2
  <2>4. m \in Op /\ step[m] \in {"queued", Waiting} \union BegunSteps
    BY <1>1, <2>1, <2>2 DEF IInv, ModeOK, StackTypeOK, Steps, RunningSteps
  <2>5. DependenciesSettled(m)
    <3>1. ASSUME NEW d \in Dependencies(m) PROVE result[d] \in OperationStatuses
      <4>1. d \in Op /\ d < m
        BY <1>1, <2>4, <3>1 DEF IInv, PlanTypeOK, Sorted, Dependencies
      <4>2. result[d] # None
        BY <1>1, <2>3, <4>1 DEF IInv, ResultKnown
      <4>3. result[d] # "REJECTED"
        BY <2>1, <4>1 DEF Statuses
      <4>4. QED
        BY <1>1, <4>1, <4>2, <4>3 DEF IInv, StackTypeOK
    <3>2. QED
      BY <3>1 DEF DependenciesSettled
  <2>6. CASE step[m] # "queued"
    BY <2>4, <2>5, <2>6 DEF CanContinue
  <2>7. CASE step[m] = "queued"
    <3>1. queue # <<>>
      BY <1>1, <2>4, <2>7 DEF IInv, QueueOK
    <3>2. Running = {}
      <4>1. ASSUME NEW o \in Running PROVE FALSE
        <5>1. o \in Op /\ step[o] \in RunningSteps
          BY <4>1 DEF Running
        <5>2. o < m
          BY <1>1, <2>4, <2>7, <5>1 DEF IInv, QueueOK
        <5>3. step[o] = "completed"
          BY <2>3, <5>1, <5>2
        <5>4. QED
          BY <5>1, <5>3 DEF RunningSteps, BegunSteps, WrappedSteps, UnwrappedSteps, HookSteps,
                            PreparationSteps, Waiting
      <4>2. QED
        BY <4>1
    <3>3. active = 0
      BY <1>1, <2>1, <3>2, FS_EmptySet DEF IInv, SlotsCounted
    <3>4. QED
      BY <3>1, <3>3, LimitAssumption
  <2>8. QED
    BY <2>6, <2>7
<1>2. QED
  BY <1>1, InvariantHolds, PTL

(* What an operation has completed with stays. *)
ResultKept(o) ==
    step[o] = "completed" =>
        /\ step'[o] = "completed"
        /\ UNCHANGED <<result[o], protection[o], changeSet[o], afterHooks[o]>>

LEMMA ExecuteInParallelKeepsResults ==
    ASSUME IInv, NEW first \in Int, SplitAt(first), ExecuteInParallel(first),
           UNCHANGED <<awsVars, historyVars>>, NEW o \in Op
    PROVE  ResultKept(o)
<1>1. /\ step' = [p \in Op |-> CASE Starts(p, first) -> Waiting
                                 [] Queued(p, first) -> "queued"
                                 [] Rejected(p, first) -> "completed"
                                 [] OTHER -> step[p]]
      /\ result' = [p \in Op |-> IF Rejected(p, first) THEN "REJECTED" ELSE result[p]]
  BY Zenon DEF ExecuteInParallel
<1>2. SUFFICES ASSUME step[o] = "completed"
               PROVE  step'[o] = "completed" /\ result'[o] = result[o]
  BY DEF ResultKept, awsVars, historyVars
<1>3. ~(o >= first)
  BY <1>2 DEF SplitAt
<1>4. ~Starts(o, first) /\ ~Queued(o, first) /\ ~Rejected(o, first)
  BY <1>3, NumOpsAssumption, LimitAssumption DEF Starts, Queued, Rejected, Op
<1>5. QED
  BY <1>1, <1>2, <1>4

(* A completed operation is never run again, in whatever order the         *)
(* sequential loop and the bulkhead handle the plan.                       *)
THEOREM ResultsAlwaysFinal == Spec => ResultsFinal
<1>1. ASSUME IInv, [Next]_vars, NEW o \in Op PROVE ResultKept(o)
  <2>1. CASE ConfirmDeploy
    <3>1. step[o] # "completed"
      BY <1>1, <2>1 DEF ConfirmDeploy, IInv, ModeOK
    <3>2. QED
      BY <3>1 DEF ResultKept
  <2>2. CASE BeginNextStack \/ CancelNextStack
    <3>1. step[next] = "idle" /\ UNCHANGED <<awsVars, historyVars>>
      BY <2>2 DEF BeginNextStack, CancelNextStack
    <3>2. o # next => step'[o] = step[o] /\ result'[o] = result[o]
      BY <1>1, <2>2 DEF BeginNextStack, CancelNextStack, GoTo, Complete, IInv, StackTypeOK
    <3>3. QED
      BY <3>1, <3>2 DEF ResultKept, awsVars, historyVars
  <2>3. CASE StackReturned
    <3>1. CASE autoConfirm
      <4>1. next + 1 \in Int
        BY <2>3, NumOpsAssumption DEF StackReturned, Op
      <4>2. SplitAt(next + 1)
        BY <1>1, <2>3, SplitAfterNext DEF StackReturned
      <4>3. QED
        BY <1>1, <2>3, <3>1, <4>1, <4>2, ExecuteInParallelKeepsResults DEF StackReturned
    <3>2. CASE ~autoConfirm
      BY <2>3, <3>2 DEF StackReturned, ResultKept, awsVars, historyVars
    <3>3. QED
      BY <3>1, <3>2
  <2>4. CASE mode # "done" /\ Dequeue
    <3>1. step[Head(queue)] = "queued"
      <4>1. queue \in Seq(Op) /\ queue # <<>>
        BY <1>1, <2>4 DEF Dequeue, IInv, SchedulerTypeOK
      <4>2. 1 \in 1 .. Len(queue) /\ Head(queue) = queue[1]
        BY <4>1
      <4>3. QED
        BY <1>1, <4>2 DEF IInv, QueueOK
    <3>2. o # Head(queue) => step'[o] = step[o]
      BY <1>1, <2>4 DEF Dequeue, GoTo, IInv, StackTypeOK
    <3>3. QED
      BY <2>4, <3>1, <3>2 DEF Dequeue, GoTo, ResultKept, awsVars, historyVars
  <2>5. CASE \E p \in Op : mode # "done" /\ RunStack(p)
    <3>1. PICK p \in Op : RunStack(p)
      BY <2>5
    <3>2. StackFrame(p)
      BY <1>1, <3>1, StackStepFrame DEF RunStack, IInv, SchedulerTypeOK
    <3>3. CASE o = p
      BY <3>2, <3>3 DEF StackFrame, ResultKept, RunningSteps, BegunSteps, WrappedSteps,
         UnwrappedSteps, HookSteps, PreparationSteps, Waiting
    <3>4. CASE o # p
      BY <3>2, <3>4 DEF StackFrame, ResultKept
    <3>5. QED
      BY <3>3, <3>4
  <2>6. CASE \E p \in Op : CloudFormationStep(p)
    BY <2>6 DEF CloudFormationStep, CfnCompletes, historyVars, ResultKept
  <2>7. CASE \/ RejectIgnoreDependencies \/ Finish \/ FinishRejected \/ Exited
             \/ UNCHANGED vars
    BY <2>7 DEF RejectIgnoreDependencies, Finish, FinishRejected, Exited, vars, stackVars,
       awsVars, historyVars, ResultKept
  <2>8. QED
    BY <1>1, <2>1, <2>2, <2>3, <2>4, <2>5, <2>6, <2>7 DEF Next
<1>2. IInv /\ [Next]_vars =>
          [\A o \in Op : step[o] = "completed" =>
              /\ step'[o] = "completed"
              /\ UNCHANGED <<result[o], protection[o], changeSet[o], afterHooks[o]>>]_vars
  BY <1>1 DEF ResultKept
<1>3. QED
  BY <1>2, InvariantHolds, PTL DEF Spec, ResultsFinal

-----------------------------------------------------------------------------
(* The refinement.  An operation's abstract state depends only on its own  *)
(* step and result.                                                        *)
StateOf(s, r) ==
    CASE s = "completed" /\ r = "REJECTED" -> "FAILED"
      [] s = "completed" /\ r # "REJECTED" -> r
      [] s \in BegunSteps -> "begun"
      [] OTHER -> "waiting"

LEMMA OperationStateIs ==
    /\ OperationState = [o \in Op |-> StateOf(step[o], result[o])]
    /\ OperationState' = [o \in Op |-> StateOf(step'[o], result'[o])]
  BY DEF OperationState, StateOf

LEMMA StateOfValues ==
    ASSUME NEW s \in Steps, NEW r
    PROVE  /\ s \in {"idle", "queued", Waiting} => StateOf(s, r) = "waiting"
           /\ s \in BegunSteps => StateOf(s, r) = "begun"
           /\ s = "completed" => StateOf(s, r) = IF r = "REJECTED" THEN "FAILED" ELSE r
  BY DEF StateOf, Steps, RunningSteps, BegunSteps, WrappedSteps, UnwrappedSteps, HookSteps,
         PreparationSteps, Waiting

LEMMA OperationStateType ==
    ASSUME IInv
    PROVE  \A o \in Op : OperationState[o] \in Abstract!States
<1>1. ASSUME NEW o \in Op PROVE StateOf(step[o], result[o]) \in Abstract!States
  <2>1. /\ step[o] \in Steps /\ result[o] \in {None, "REJECTED"} \union OperationStatuses
        /\ step[o] = "completed" => result[o] # None
    BY DEF IInv, StackTypeOK, ResultKnown
  <2>2. QED
    BY <2>1, StateOfValues DEF Abstract!States, Abstract!GoodEnds, Abstract!BadEnds,
       OperationStatuses, Steps, RunningSteps
<1>2. QED
  BY <1>1, OperationStateIs

LEMMA InitAbstract == Init => Abstract!Init
<1> SUFFICES ASSUME Init PROVE Abstract!Init
  OBVIOUS
<1>1. plan.dependencies \in [Op -> SUBSET Op]
  BY InitIInv DEF IInv, PlanTypeOK
<1>2. \A o \in Op : StateOf(step[o], result[o]) = "waiting"
  BY StateOfValues DEF Init, Steps
<1>3. QED
  BY <1>1, <1>2, OperationStateIs, Zenon DEF Abstract!Init

(* The operations before first keep their state, the rejected ones are     *)
(* refused, and the others go on waiting.                                  *)
LEMMA ExecuteInParallelRefuses ==
    ASSUME IInv, NEW first \in Int, SplitAt(first), ExecuteInParallel(first), plan' = plan
    PROVE  Abstract!Refuse({o \in Op : Rejected(o, first)})
<1> DEFINE refused == {o \in Op : Rejected(o, first)}
<1>1. /\ step' = [p \in Op |-> CASE Starts(p, first) -> Waiting
                                 [] Queued(p, first) -> "queued"
                                 [] Rejected(p, first) -> "completed"
                                 [] OTHER -> step[p]]
      /\ result' = [p \in Op |-> IF Rejected(p, first) THEN "REJECTED" ELSE result[p]]
  BY Zenon DEF ExecuteInParallel
<1>2. ASSUME NEW o \in Op, o < first
      PROVE  step'[o] = step[o] /\ result'[o] = result[o] /\ o \notin refused
  <2>1. ~Starts(o, first) /\ ~Queued(o, first) /\ ~Rejected(o, first)
    BY <1>2, NumOpsAssumption, LimitAssumption DEF Starts, Queued, Rejected, Op
  <2>2. QED
    BY <1>1, <2>1
<1>3. ASSUME NEW o \in Op, ~(o < first)
      PROVE  /\ step[o] = "idle"
             /\ o \in refused => step'[o] = "completed" /\ result'[o] = "REJECTED"
             /\ o \notin refused => step'[o] \in {Waiting, "queued"}
  <2>1. o >= first /\ (Starts(o, first) \/ Queued(o, first) \/ Rejected(o, first))
    BY <1>3, NumOpsAssumption, LimitAssumption DEF Starts, Queued, Rejected, Op
  <2>2. Rejected(o, first) => ~Starts(o, first) /\ ~Queued(o, first)
    BY NumOpsAssumption, LimitAssumption DEF Starts, Queued, Rejected, Op
  <2>3. QED
    BY <1>1, <2>1, <2>2 DEF SplitAt
<1>4. \A o \in Op : step[o] \in Steps
  BY DEF IInv, StackTypeOK
<1>5. ASSUME NEW o \in Op, o \in refused
      PROVE  OperationState[o] = "waiting" /\ OperationState'[o] = "FAILED"
  BY <1>2, <1>3, <1>4, <1>5, StateOfValues, OperationStateIs DEF Steps
<1>6. ASSUME NEW o \in Op, o \notin refused
      PROVE  OperationState'[o] = OperationState[o]
  <2>1. CASE o < first
    BY <1>2, <2>1, OperationStateIs
  <2>2. CASE ~(o < first)
    <3>1. step[o] = "idle" /\ step'[o] \in {Waiting, "queued"}
      BY <1>3, <1>6, <2>2
    <3>2. step[o] \in Steps /\ step'[o] \in Steps
      BY <3>1 DEF Steps, RunningSteps
    <3>3. StateOf(step[o], result[o]) = "waiting" /\ StateOf(step'[o], result'[o]) = "waiting"
      BY <3>1, <3>2, StateOfValues
    <3>4. QED
      BY <3>3, OperationStateIs
  <2>3. QED
    BY <2>1, <2>2
<1>8. OperationState' \in [Op -> Abstract!States]
  BY <1>5, <1>6, OperationStateType, OperationStateIs DEF Abstract!States, Abstract!BadEnds
<1>9. QED
  BY <1>5, <1>6, <1>8 DEF Abstract!Refuse, Abstract!BadEnds

(* A step of one operation: it begins, ends, is refused, or nothing of it  *)
(* is to be seen.                                                          *)
LEMMA OneOperationRefines ==
    ASSUME IInv, NEW o \in Op, plan' = plan,
           \A p \in Op \ {o} : step'[p] = step[p] /\ result'[p] = result[p],
           step'[o] \in Steps,
           \/ /\ step[o] \in {"idle", "queued"}
              /\ step'[o] = Waiting
           \/ /\ step[o] \in {"idle", Waiting}
              /\ step'[o] = "completed" /\ result'[o] \in {"FAILED", "CANCELLED"}
           \/ /\ step[o] = Waiting /\ step'[o] \in BegunSteps
              /\ \A d \in Dependencies(o) : result[d] \in Successful
           \/ /\ step[o] \in BegunSteps /\ step'[o] \in BegunSteps
           \/ /\ step[o] \in BegunSteps /\ step'[o] = "completed"
              /\ result'[o] \in OperationStatuses
    PROVE  Abstract!Next \/ UNCHANGED <<plan.dependencies, OperationState>>
<1>1. \A p \in Op \ {o} : OperationState'[p] = OperationState[p]
  BY OperationStateIs
<1>2. OperationState = [p \in Op |-> OperationState[p]]
      /\ OperationState' = [p \in Op |-> OperationState'[p]]
  BY OperationStateIs
<1>3. step[o] \in Steps /\ \A p \in Op : step[p] \in Steps
  BY DEF IInv, StackTypeOK
<1>4. /\ OperationState[o] = StateOf(step[o], result[o])
      /\ OperationState'[o] = StateOf(step'[o], result'[o])
  BY OperationStateIs
<1>5. CASE step[o] \in {"idle", "queued"} /\ step'[o] = Waiting
  <2>1. OperationState'[o] = OperationState[o]
    BY <1>3, <1>4, <1>5, StateOfValues
  <2>2. QED
    BY <1>1, <1>2, <2>1
<1>6. CASE /\ step[o] \in {"idle", Waiting} /\ step'[o] = "completed"
           /\ result'[o] \in {"FAILED", "CANCELLED"}
  <2>1. OperationState[o] = "waiting" /\ OperationState'[o] \in {"FAILED", "CANCELLED"}
    BY <1>3, <1>4, <1>6, StateOfValues
  <2>3. OperationState' \in [Op -> Abstract!States]
    BY <1>1, <1>2, <2>1, OperationStateType DEF Abstract!States, Abstract!BadEnds
  <2>4. Abstract!Refuse({o})
    BY <1>1, <2>1, <2>3 DEF Abstract!Refuse, Abstract!BadEnds
  <2>5. {o} \in SUBSET Op
    OBVIOUS
  <2>6. QED
    BY <2>4, <2>5 DEF Abstract!Next
<1>7. CASE /\ step[o] = Waiting /\ step'[o] \in BegunSteps
           /\ \A d \in Dependencies(o) : result[d] \in Successful
  <2>1. OperationState[o] = "waiting" /\ OperationState'[o] = "begun"
    BY <1>3, <1>4, <1>7, StateOfValues
  <2>2. ASSUME NEW d \in plan.dependencies[o] PROVE OperationState[d] \in Abstract!GoodEnds
    <3>1. d \in Op /\ result[d] \in Successful
      BY <1>7, <2>2 DEF Dependencies, IInv, PlanTypeOK
    <3>2. step[d] = "completed"
      BY <3>1 DEF IInv, ResultKnown, Successful, None
    <3>3. StateOf(step[d], result[d]) = result[d]
      BY <1>3, <3>1, <3>2, StateOfValues DEF Successful
    <3>4. QED
      BY <3>1, <3>3, OperationStateIs DEF Abstract!GoodEnds, Successful
  <2>3. OperationState' = [OperationState EXCEPT ![o] = "begun"]
    BY <1>1, <1>2, <2>1
  <2>4. Abstract!Begin(o)
    BY <2>1, <2>2, <2>3 DEF Abstract!Begin, Abstract!Ready
  <2>5. QED
    BY <2>4 DEF Abstract!Next
<1>8. CASE step[o] \in BegunSteps /\ step'[o] \in BegunSteps
  <2>1. OperationState'[o] = OperationState[o]
    BY <1>3, <1>4, <1>8, StateOfValues
  <2>2. QED
    BY <1>1, <1>2, <2>1
<1>9. CASE /\ step[o] \in BegunSteps /\ step'[o] = "completed"
           /\ result'[o] \in OperationStatuses
  <2>1. OperationState[o] = "begun" /\ OperationState'[o] = result'[o]
    BY <1>3, <1>4, <1>9, StateOfValues DEF OperationStatuses
  <2>2. OperationState' = [OperationState EXCEPT ![o] = result'[o]]
    BY <1>1, <1>2, <2>1
  <2>3. Abstract!End(o)
    BY <1>9, <2>1, <2>2 DEF Abstract!End, Abstract!GoodEnds, Abstract!BadEnds, OperationStatuses
  <2>4. QED
    BY <2>3 DEF Abstract!Next
<1>10. QED
  BY <1>5, <1>6, <1>7, <1>8, <1>9

(* A step that leaves the steps and the results alone is not seen.         *)
LEMMA UnseenStep ==
    ASSUME step' = step, result' = result, plan' = plan
    PROVE  UNCHANGED <<plan.dependencies, OperationState>>
  BY OperationStateIs

(* The deployment of a plan keeps the promise of StackOperations: for      *)
(* every plan, every step of the scheduler or of one of its operations is  *)
(* a step of StackOperations or leaves its state alone.                    *)
THEOREM DeploymentRefinesStackOperations == Spec => ImplementsStackOperations
<1>1. ASSUME IInv, IInv', [Next]_vars
      PROVE  Abstract!Next \/ UNCHANGED <<plan.dependencies, OperationState>>
  <2>0. /\ step \in [Op -> Steps] /\ step' \in [Op -> Steps]
        /\ result \in [Op -> {None, "REJECTED"} \union OperationStatuses]
        /\ \A p \in Op : step'[p] \in Steps
    BY <1>1 DEF IInv, StackTypeOK
  <2>1. CASE ConfirmDeploy
    <3>1. CASE UNCHANGED stackVars
      BY <2>1, <3>1, UnseenStep DEF ConfirmDeploy, stackVars
    <3>2. CASE ExecuteInParallel(1)
      <4>1. SplitAt(1) /\ plan' = plan
        BY <1>1, <2>1, NumOpsAssumption DEF ConfirmDeploy, IInv, ModeOK, SplitAt, Op
      <4>2. Abstract!Refuse({o \in Op : Rejected(o, 1)})
        BY <1>1, <3>2, <4>1, ExecuteInParallelRefuses
      <4>3. {o \in Op : Rejected(o, 1)} \in SUBSET Op
        OBVIOUS
      <4>4. QED
        BY <4>2, <4>3 DEF Abstract!Next
    <3>3. QED
      BY <2>1, <3>1, <3>2 DEF ConfirmDeploy
  <2>2. CASE BeginNextStack
    <3>1. /\ next \in Op /\ step[next] = "idle" /\ plan' = plan
          /\ step'[next] = Waiting
          /\ \A p \in Op \ {next} : step'[p] = step[p] /\ result'[p] = result[p]
      BY <2>0, <2>2 DEF BeginNextStack, GoTo
    <3>2. QED
      BY <1>1, <2>0, <3>1, OneOperationRefines
  <2>3. CASE CancelNextStack
    <3>1. /\ next \in Op /\ step[next] = "idle" /\ plan' = plan
          /\ step'[next] = "completed" /\ result'[next] = "CANCELLED"
          /\ \A p \in Op \ {next} : step'[p] = step[p] /\ result'[p] = result[p]
      BY <2>0, <2>3 DEF CancelNextStack, Complete
    <3>2. QED
      BY <1>1, <2>0, <3>1, OneOperationRefines
  <2>4. CASE StackReturned
    <3>1. CASE autoConfirm
      <4>1. next + 1 \in Int /\ ExecuteInParallel(next + 1) /\ plan' = plan
        BY <2>4, <3>1, NumOpsAssumption DEF StackReturned, Op
      <4>2. SplitAt(next + 1)
        BY <1>1, <2>4, SplitAfterNext DEF StackReturned
      <4>3. Abstract!Refuse({o \in Op : Rejected(o, next + 1)})
        BY <1>1, <4>1, <4>2, ExecuteInParallelRefuses
      <4>4. {o \in Op : Rejected(o, next + 1)} \in SUBSET Op
        OBVIOUS
      <4>5. QED
        BY <4>3, <4>4 DEF Abstract!Next
    <3>2. CASE ~autoConfirm
      BY <2>4, <3>2, UnseenStep DEF StackReturned
    <3>3. QED
      BY <3>1, <3>2
  <2>5. CASE mode # "done" /\ Dequeue
    <3> DEFINE h == Head(queue)
    <3>1. h \in Op /\ step[h] = "queued"
      <4>1. queue \in Seq(Op) /\ queue # <<>>
        BY <1>1, <2>5 DEF Dequeue, IInv, SchedulerTypeOK
      <4>2. 1 \in 1 .. Len(queue) /\ h = queue[1] /\ h \in Op
        BY <4>1
      <4>3. QED
        BY <1>1, <4>2 DEF IInv, QueueOK
    <3>2. /\ plan' = plan /\ step'[h] = Waiting
          /\ \A p \in Op \ {h} : step'[p] = step[p] /\ result'[p] = result[p]
      BY <2>0, <2>5, <3>1 DEF Dequeue, GoTo
    <3>3. QED
      BY <1>1, <2>0, <3>1, <3>2, OneOperationRefines
  <2>6. CASE \E o \in Op : mode # "done" /\ RunStack(o)
    <3>1. PICK o \in Op : RunStack(o)
      BY <2>6
    <3>2. StackFrame(o) /\ plan' = plan
      BY <1>1, <3>1, StackStepFrame DEF RunStack, IInv, SchedulerTypeOK
    <3>3. \A p \in Op \ {o} : step'[p] = step[p] /\ result'[p] = result[p]
      BY <3>2 DEF StackFrame
    <3>4. CASE step[o] = Waiting
      <4>1. \/ step'[o] \in BegunSteps
            \/ step'[o] = "completed" /\ result'[o] \in OperationStatuses
        BY <3>2 DEF StackFrame
      <4>2. \/ step'[o] \in BegunSteps /\ \A d \in Dependencies(o) : result[d] \in Successful
            \/ step'[o] = "completed" /\ result'[o] \notin Successful
        BY <3>2, <3>4 DEF StackFrame
      <4>3. CASE step'[o] = "completed" /\ result'[o] \notin Successful
        <5>1. result'[o] \in {"FAILED", "CANCELLED"}
          BY <4>1, <4>3 DEF OperationStatuses, Successful, BegunSteps, WrappedSteps,
             UnwrappedSteps, HookSteps, PreparationSteps
        <5>2. QED
          BY <1>1, <2>0, <3>2, <3>3, <3>4, <4>3, <5>1, OneOperationRefines
      <4>4. CASE step'[o] \in BegunSteps /\ \A d \in Dependencies(o) : result[d] \in Successful
        BY <1>1, <2>0, <3>2, <3>3, <3>4, <4>4, OneOperationRefines
      <4>5. QED
        BY <4>2, <4>3, <4>4
    <3>5. CASE step[o] \in BegunSteps
      <4>1. \/ step'[o] \in BegunSteps
            \/ step'[o] = "completed" /\ result'[o] \in OperationStatuses
        BY <3>2 DEF StackFrame
      <4>2. QED
        BY <1>1, <2>0, <3>2, <3>3, <3>5, <4>1, OneOperationRefines
    <3>6. QED
      BY <3>2, <3>4, <3>5 DEF StackFrame, RunningSteps
  <2>7. CASE \/ \E o \in Op : CloudFormationStep(o)
             \/ RejectIgnoreDependencies \/ Finish \/ FinishRejected \/ Exited
             \/ UNCHANGED vars
    <3>1. step' = step /\ result' = result /\ plan' = plan
      BY <2>7 DEF CloudFormationStep, CfnCompletes, RejectIgnoreDependencies, Finish,
         FinishRejected, Exited, vars, stackVars
    <3>2. QED
      BY <3>1, UnseenStep
  <2>8. QED
    BY <1>1, <2>1, <2>2, <2>3, <2>4, <2>5, <2>6, <2>7 DEF Next
<1>2. IInv /\ IInv' /\ [Next]_vars => [Abstract!Next]_Abstract!vars
  BY <1>1 DEF Abstract!vars
<1>3. QED
  BY <1>2, InitAbstract, InvariantHolds, PTL DEF Spec, ImplementsStackOperations, Abstract!Spec
-----------------------------------------------------------------------------
(* How far an operation has come: the places of the steps on the paths     *)
(* that deploy/transitions.ts draws between the wait for the dependencies  *)
(* and the result.                                                         *)
Place(s) ==
    CASE s = "idle" -> 0
      [] s = "queued" -> 1
      [] s = Waiting -> 2
      [] s \in {"initiate-failed-stack-delete", "continue-update-rollback"} -> 3
      [] s \in {"wait-failed-stack-delete-to-complete", "wait-stack-rollback-to-complete"} -> 4
      [] s = "enrich-current-stack" -> 5
      [] s = "execute-before-deploy-hooks" -> 6
      [] s = "prepare-parameters" -> 7
      [] s = "prepare-tags" -> 8
      [] s = "prepare-template" -> 9
      [] s = "upload-template" -> 10
      [] s = "validate-template" -> 11
      [] s = "summarize-template" -> 12
      [] s = "validate-parameters" -> 13
      [] s = "initiate-change-set-create" -> 14
      [] s = "wait-change-set-to-be-ready" -> 15
      [] s = "review-change-set" -> 16
      [] s \in {"clean-up-then-cancel", "clean-up-then-deploy"} -> 17
      [] s = "initiate-stack-create-or-update" -> 18
      [] s \in {"initiate-stack-create", "update-termination-protection"} -> 19
      [] s = "initiate-stack-update" -> 20
      [] s = "wait-stack-create-or-update-complete" -> 21
      [] s = "execute-after-deploy-hooks" -> 22
      [] s = "completed" -> 23

(* Every step of an operation brings it nearer to its result.              *)
LEMMA StackStepForward ==
    ASSUME NEW o \in Op, StackTypeOK, StackStep(o)
    PROVE  Place(step[o]) < Place(step'[o])
<1> USE DEF StackTypeOK, GoTo, Complete, GoToAfterHooks, Waiting, Place
<1>1. CASE DependencyRejected(o)
  BY <1>1 DEF DependencyRejected
<1>2. CASE DependenciesFailed(o)
  BY <1>2 DEF DependenciesFailed
<1>3. CASE DependenciesSkipped(o)
  BY <1>3 DEF DependenciesSkipped
<1>4. CASE DependenciesCompleted(o)
  BY <1>4 DEF DependenciesCompleted, FirstStep
<1>5. CASE StepThrows(o)
  BY <1>5 DEF StepThrows, WrappedSteps, UnwrappedSteps, PreparationSteps
<1>6. CASE InitiateFailedStackDelete(o)
  BY <1>6 DEF InitiateFailedStackDelete
<1>7. CASE WaitFailedStackDeleteToComplete(o)
  BY <1>7 DEF WaitFailedStackDeleteToComplete
<1>8. CASE ContinueUpdateRollback(o)
  BY <1>8 DEF ContinueUpdateRollback
<1>9. CASE WaitStackRollbackToComplete(o)
  BY <1>9 DEF WaitStackRollbackToComplete
<1>10. CASE EnrichCurrentStack(o)
  BY <1>10 DEF EnrichCurrentStack
<1>11. CASE ExecuteBeforeDeployHooks(o)
  BY <1>11 DEF ExecuteBeforeDeployHooks
<1>12. CASE PrepareParameters(o)
  BY <1>12 DEF PrepareParameters, Prepare
<1>13. CASE PrepareTags(o)
  BY <1>13 DEF PrepareTags, Prepare
<1>14. CASE PrepareTemplate(o)
  BY <1>14 DEF PrepareTemplate, Prepare
<1>15. CASE UploadTemplate(o)
  BY <1>15 DEF UploadTemplate, Prepare
<1>16. CASE ValidateTemplate(o)
  BY <1>16 DEF ValidateTemplate, Prepare
<1>17. CASE SummarizeTemplate(o)
  BY <1>17 DEF SummarizeTemplate, Prepare
<1>18. CASE ValidateParameters(o)
  BY <1>18 DEF ValidateParameters, Prepare
<1>19. CASE InitiateChangeSetCreate(o)
  BY <1>19 DEF InitiateChangeSetCreate
<1>20. CASE WaitChangeSetToBeReady(o)
  BY <1>20 DEF WaitChangeSetToBeReady
<1>21. CASE ReviewCancelled(o)
  BY <1>21 DEF ReviewCancelled
<1>22. CASE ReviewAccepted(o)
  BY <1>22 DEF ReviewAccepted
<1>23. CASE TemporaryStackDeleted(o)
  BY <1>23 DEF TemporaryStackDeleted
<1>24. CASE InitiateStackCreateOrUpdate(o)
  BY <1>24 DEF InitiateStackCreateOrUpdate
<1>25. CASE InitiateStackCreate(o)
  BY <1>25 DEF InitiateStackCreate
<1>26. CASE UpdateTerminationProtection(o)
  BY <1>26 DEF UpdateTerminationProtection
<1>27. CASE InitiateStackUpdate(o)
  BY <1>27 DEF InitiateStackUpdate
<1>28. CASE WaitStackCreateOrUpdateToComplete(o)
  BY <1>28 DEF WaitStackCreateOrUpdateToComplete
<1>29. CASE ExecuteAfterDeployHooks(o)
  BY <1>29 DEF ExecuteAfterDeployHooks
<1>30. QED
  BY <1>1, <1>2, <1>3, <1>4, <1>5, <1>6, <1>7, <1>8, <1>9, <1>10, <1>11,
     <1>12, <1>13, <1>14, <1>15, <1>16, <1>17, <1>18, <1>19, <1>20, <1>21,
     <1>22, <1>23, <1>24, <1>25, <1>26, <1>27, <1>28, <1>29, Zenon DEF StackStep

(* The steps in which nothing but the scheduler moves an operation.        *)
LEMMA SchedulerForward ==
    ASSUME NEW s \in {"idle", "queued"},
           NEW t \in {"idle", "queued", Waiting, "completed"},
           s = "queued" => t \in {"queued", Waiting}, s # t
    PROVE  Place(s) < Place(t)
  BY DEF Place, Waiting

(* An operation that runs goes on, and none ever goes back: whatever       *)
(* fails, throws or is answered, no step of deploy/transitions.ts runs     *)
(* twice for a stack and nothing is asked of CloudFormation again.  With   *)
(* NeverSlotDeadlock it is why a deployment ends when CloudFormation and   *)
(* the user answer.                                                        *)
OnlyForward ==
    [][\A o \in Op : StackStep(o) \/ step'[o] # step[o] => Place(step[o]) < Place(step'[o])]_vars

THEOREM NeverGoesBack == Spec => OnlyForward
<1> DEFINE Forward == \A o \in Op : StackStep(o) \/ step'[o] # step[o]
                                        => Place(step[o]) < Place(step'[o])
<1>1. ASSUME IInv, [Next]_vars PROVE Forward
  <2>0. StackTypeOK /\ step \in [Op -> Steps]
    BY <1>1 DEF IInv, StackTypeOK
  <2>1. SUFFICES ASSUME NEW o \in Op, step'[o] # step[o]
                 PROVE  Place(step[o]) < Place(step'[o])
    BY <2>0, StackStepForward
  <2>2. ASSUME NEW first \in Int, ExecuteInParallel(first), step[o] = "idle"
        PROVE  Place(step[o]) < Place(step'[o])
    <3>1. step'[o] \in {"idle", "queued", Waiting, "completed"}
      BY <2>2 DEF ExecuteInParallel
    <3>2. QED
      BY <2>1, <2>2, <3>1, SchedulerForward
  <2>3. CASE ConfirmDeploy
    <3>1. step[o] = "idle"
      BY <1>1, <2>3 DEF ConfirmDeploy, IInv, ModeOK
    <3>2. ExecuteInParallel(1)
      BY <2>1, <2>3 DEF ConfirmDeploy, stackVars
    <3>3. QED
      BY <2>2, <3>1, <3>2
  <2>4. CASE BeginNextStack
    <3>1. o = next /\ step[o] = "idle" /\ step'[o] = Waiting
      BY <2>0, <2>1, <2>4 DEF BeginNextStack, GoTo
    <3>2. QED
      BY <2>1, <3>1, SchedulerForward
  <2>5. CASE CancelNextStack
    <3>1. o = next /\ step[o] = "idle" /\ step'[o] = "completed"
      BY <2>0, <2>1, <2>5 DEF CancelNextStack, Complete
    <3>2. QED
      BY <2>1, <3>1, SchedulerForward
  <2>6. CASE StackReturned
    <3>1. ExecuteInParallel(next + 1) /\ next + 1 \in Int
      BY <2>1, <2>6, NumOpsAssumption DEF StackReturned, Op
    <3>2. ~(o <= next)
      <4>1. SUFFICES ASSUME o <= next PROVE FALSE
        OBVIOUS
      <4>2. ~Starts(o, next + 1) /\ ~Queued(o, next + 1) /\ ~Rejected(o, next + 1)
        BY <2>6, <4>1, NumOpsAssumption, LimitAssumption
           DEF StackReturned, Starts, Queued, Rejected, Op
      <4>3. QED
        BY <2>1, <3>1, <4>2 DEF ExecuteInParallel
    <3>3. step[o] = "idle"
      BY <1>1, <2>6, <3>2, NumOpsAssumption DEF StackReturned, IInv, ModeOK, Op
    <3>4. QED
      BY <2>2, <3>1, <3>3
  <2>7. CASE mode # "done" /\ Dequeue
    <3>1. queue \in Seq(Op) /\ queue # <<>>
      BY <1>1, <2>7 DEF Dequeue, IInv, SchedulerTypeOK
    <3>2. 1 \in 1 .. Len(queue) /\ Head(queue) = queue[1] /\ Head(queue) \in Op
      BY <3>1
    <3>3. step[Head(queue)] = "queued"
      BY <1>1, <3>2 DEF IInv, QueueOK
    <3>4. o = Head(queue) /\ step'[o] = Waiting
      BY <2>0, <2>1, <2>7, <3>2 DEF Dequeue, GoTo
    <3>5. QED
      BY <2>1, <3>3, <3>4, SchedulerForward
  <2>8. CASE \E p \in Op : mode # "done" /\ RunStack(p)
    <3>1. PICK p \in Op : StackStep(p)
      BY <2>8 DEF RunStack
    <3>2. StackFrame(p)
      BY <1>1, <3>1, StackStepFrame DEF IInv, SchedulerTypeOK
    <3>3. o = p
      BY <2>1, <3>2 DEF StackFrame
    <3>4. QED
      BY <2>0, <3>1, <3>3, StackStepForward
  <2>9. CASE \/ \E p \in Op : CloudFormationStep(p)
             \/ RejectIgnoreDependencies \/ Finish \/ FinishRejected \/ Exited
             \/ UNCHANGED vars
    <3>1. step' = step
      BY <2>9 DEF CloudFormationStep, CfnCompletes, RejectIgnoreDependencies, Finish,
         FinishRejected, Exited, vars, stackVars
    <3>2. QED
      BY <2>1, <3>1
  <2>10. QED
    BY <1>1, <2>3, <2>4, <2>5, <2>6, <2>7, <2>8, <2>9 DEF Next
<1>2. IInv /\ [Next]_vars => [Forward]_vars
  BY <1>1
<1>3. QED
  BY <1>2, InvariantHolds, PTL DEF Spec, OnlyForward
=============================================================================
