------------------------ MODULE UndeployStacksProofs ------------------------
(***************************************************************************)
(* Theorems about UndeployStacks, for every plan, every number of          *)
(* operations and every size of the bulkhead.                              *)
(***************************************************************************)
EXTENDS UndeployStacks, FiniteSetTheorems, WellFoundedInduction, TLAPS

(* The part of TypeOK a step of one operation depends on. *)
StackTypeOK ==
    /\ step \in [Op -> Steps]
    /\ outcome \in [Op -> {None, "SUCCESS", "FAILED"}]
    /\ result \in [Op -> {None, "REJECTED"} \union OperationStatuses]
    /\ cfn \in [Op -> StackStatuses]
    /\ hooksRun \in [Op -> SUBSET {"before", "after"}]

PlanTypeOK ==
    /\ plan.dependents \in [Op -> SUBSET Op]
    /\ plan.status \in [Op -> InitialStatuses]
    /\ plan.hookStatus \in [Op -> HookStatuses]
    /\ Sorted(plan.dependents)

SchedulerTypeOK ==
    /\ mode \in {"confirm", "parallel", "done"}
    /\ active \in 0 .. Limit
    /\ queue \in Seq(Op)
    /\ output \in {None, "ERROR"} \union CommandStatuses

(* What the step and the result of an operation say of its stack.          *)
OperationOK(o) ==
    /\ step[o] = "completed" <=> result[o] # None
    /\ step[o] = "execute-after-hooks" => outcome[o] # None
    /\ step[o] \notin BegunSteps \union {"completed"} => Untouched(o)
    /\ step[o] = "execute-before-hooks" => Untouched(o)
    /\ step[o] = "execute-after-hooks" /\ outcome[o] = "SUCCESS" => cfn[o] = Absent
    /\ result[o] = "SUCCESS" => cfn[o] = Absent
    /\ result[o] = "CANCELLED" => Untouched(o)
    /\ result[o] = "SKIPPED" =>
          /\ cfn[o] = plan.status[o]
          /\ ExistedBefore(o) => hooksRun[o] = {"before"}

(* The stack of d was deleted, or there was none. *)
Gone(d) == result[d] = "SUCCESS" \/ (result[d] = "SKIPPED" /\ ~ExistedBefore(d))

(* An operation that has begun, left a trace or succeeded has dependents   *)
(* that are all gone: neither DependentsGone nor FailureStopsDependencies  *)
(* knows why an operation could begin.                                     *)
TouchedAfterDependents ==
    \A o \in Op :
        step[o] \in BegunSteps \/ ~Untouched(o) \/ result[o] \in Successful
            => \A d \in Dependents(o) : Gone(d)

(* What each mode says of the operations. *)
ModeOK ==
    /\ mode = "confirm" => /\ queue = <<>> /\ active = 0
                           /\ \A o \in Op : step[o] = "idle"
    /\ mode = "parallel" => \A o \in Op : step[o] # "idle"

(* The queue holds the operations that are not yet started, in the order   *)
(* of the plan, all after every operation that runs.                       *)
QueueOK ==
    /\ \A k \in 1 .. Len(queue) : step[queue[k]] = "queued"
    /\ \A o \in Op : step[o] = "queued" => \E k \in 1 .. Len(queue) : queue[k] = o
    /\ \A j, k \in 1 .. Len(queue) : j < k => queue[j] < queue[k]
    /\ \A o, p \in Op : step[o] = "queued" /\ step[p] \in RunningSteps => p < o

SlotsCounted == active = Cardinality(Running)

(* What the status of a finished command says of the operations. *)
OutputOK ==
    mode = "done" =>
        /\ output \in Successful => \A o \in Op : result[o] \in Successful
        /\ output = "CANCELLED" => \A o \in Op : Untouched(o)

IInv ==
    /\ StackTypeOK
    /\ PlanTypeOK
    /\ SchedulerTypeOK
    /\ \A o \in Op : OperationOK(o)
    /\ TouchedAfterDependents
    /\ ModeOK
    /\ QueueOK
    /\ SlotsCounted
    /\ OutputOK

-----------------------------------------------------------------------------
(* No stack is planned while it has an operation in progress. *)
LEMMA UndeployableIsStable ==
    ASSUME NEW status \in InitialStatuses
    PROVE  status \in StableStatuses /\ status \notin InProgressStatuses
  BY InputsAssumption
     DEF UndeployableStatuses, StableStatuses, InProgressStatuses, Endings,
         DeployedStatuses, FailedCreationStatuses, Absent

(* The names of the steps are all different. *)
LEMMA StepNames ==
    ASSUME NEW s \in Steps
    PROVE  /\ s \in RunningSteps <=> s \notin {"idle", "queued", "completed"}
           /\ s \in BegunSteps <=> s \notin {"idle", "queued", "completed", Waiting}
           /\ s = Waiting => s \notin {"idle", "queued", "completed"}
           /\ Waiting \in Steps /\ "queued" \in Steps /\ "completed" \in Steps
  BY DEF Steps, RunningSteps, BegunSteps, WrappedSteps, Waiting

(* What a step of operation o does: it changes nothing of another          *)
(* operation, runs only in a slot, ends in a later step or with a result,  *)
(* and leaves the wait for the dependents only in the ways                 *)
(* waitDependentsToComplete allows.                                        *)
StackFrame(o) ==
    /\ StackTypeOK'
    /\ \A p \in Op \ {o} :
          /\ step'[p] = step[p]
          /\ outcome'[p] = outcome[p]
          /\ result'[p] = result[p]
          /\ cfn'[p] = cfn[p]
          /\ hooksRun'[p] = hooksRun[p]
    /\ step[o] \in RunningSteps
    /\ \/ step'[o] \in BegunSteps /\ result'[o] = result[o]
       \/ step'[o] = "completed" /\ result'[o] \in OperationStatuses
    /\ OperationOK(o)'
    /\ step[o] = Waiting =>
          /\ cfn'[o] = cfn[o] /\ hooksRun'[o] = hooksRun[o]
          /\ \/ step'[o] \in BegunSteps /\ \A d \in Dependents(o) : Gone(d)
             \/ step'[o] = "completed" /\ result'[o] \in {"FAILED", "CANCELLED"}
             \/ /\ step'[o] = "completed" /\ result'[o] = "SKIPPED"
                /\ \A d \in Dependents(o) : Gone(d)

(* waitDependentsToComplete passes only when all the dependents are gone.  *)
LEMMA DependentsAreGone ==
    ASSUME NEW o \in Op, DependentsSettled(o), ~SomeDependentFailed(o),
           ~SomeDependentSkipped(o)
    PROVE  \A d \in Dependents(o) : Gone(d)
  BY DEF SomeDependentFailed, SomeDependentSkipped, Gone, Successful

(* Each of the nine steps of an operation satisfies its frame. *)
LEMMA StackStepFrame ==
    ASSUME NEW o \in Op, StackTypeOK, PlanTypeOK, OperationOK(o), StackStep(o), plan' = plan
    PROVE  StackFrame(o)
<1> USE DEF StackTypeOK, StackFrame, GoTo, Complete, GoToAfterHooks, Steps, RunningSteps,
            BegunSteps, WrappedSteps, Waiting, OperationStatuses, None, OperationOK, Untouched,
            ExistedBefore
<1>1. CASE DependentRejected(o)
  BY <1>1 DEF DependentRejected
<1>2. CASE DependentsRemain(o)
  BY <1>2 DEF DependentsRemain
<1>3. CASE StackNotFound(o)
  BY <1>3, DependentsAreGone DEF StackNotFound
<1>4. CASE DependentsCompleted(o)
  BY <1>4, DependentsAreGone DEF DependentsCompleted
<1>5. CASE ExecuteBeforeUndeployHooks(o)
  BY <1>5 DEF ExecuteBeforeUndeployHooks
<1>6. CASE StepThrows(o)
  BY <1>6, InputsAssumption DEF StepThrows
<1>7. CASE InitiateStackDeletion(o)
  BY <1>7 DEF InitiateStackDeletion, StackStatuses, InProgressStatuses, Endings
<1>8. CASE WaitStackDeleteToComplete(o)
  BY <1>8 DEF WaitStackDeleteToComplete, DeleteSucceeded
<1>9. CASE ExecuteAfterUndeployHooks(o)
  BY <1>9 DEF ExecuteAfterUndeployHooks, HookMatches
<1>10. QED
  BY <1>1, <1>2, <1>3, <1>4, <1>5, <1>6, <1>7, <1>8, <1>9 DEF StackStep

-----------------------------------------------------------------------------
(* In the initial states. *)
LEMMA InitIInv == Init => IInv
<1> SUFFICES ASSUME Init PROVE IInv
  OBVIOUS
<1> USE DEF Init
<1>1. PlanTypeOK
  BY DEF PlanTypeOK, Plans
<1>2. StackTypeOK
  <2>1. cfn \in [Op -> StackStatuses]
    BY <1>1, UndeployableIsStable DEF PlanTypeOK, StackStatuses
  <2>2. QED
    BY <2>1 DEF StackTypeOK, Steps
<1>3. SchedulerTypeOK
  BY LimitAssumption DEF SchedulerTypeOK
<1>4. \A o \in Op : OperationOK(o)
  BY DEF OperationOK, Untouched, None
<1>5. TouchedAfterDependents
  BY DEF TouchedAfterDependents, Untouched, BegunSteps, WrappedSteps, Successful, None
<1>6. ModeOK /\ QueueOK /\ OutputOK
  BY DEF ModeOK, QueueOK, OutputOK, RunningSteps, BegunSteps, WrappedSteps, Waiting
<1>7. SlotsCounted
  <2>1. Running = {}
    BY DEF Running, RunningSteps, BegunSteps, WrappedSteps, Waiting
  <2>2. QED
    BY <2>1, FS_EmptySet DEF SlotsCounted
<1>8. QED
  BY <1>1, <1>2, <1>3, <1>4, <1>5, <1>6, <1>7 DEF IInv

LEMMA RunningFinite == IsFiniteSet(Running)
<1>1. IsFiniteSet(Op)
  BY FS_Interval, NumOpsAssumption DEF Op
<1>2. QED
  BY <1>1, FS_Subset DEF Running

(* What ConfirmUndeploy does to each operation.  Those that start are the  *)
(* first of the plan, those that are queued the next ones.                 *)
LEMMA ConfirmedOperations ==
    ASSUME IInv, ConfirmUndeploy, NEW o \in Op
    PROVE  /\ step[o] = "idle" /\ result[o] = None
           /\ Starts(o, 1) => step'[o] = Waiting /\ result'[o] = None
           /\ Queued(o, 1) => step'[o] = "queued" /\ result'[o] = None
           /\ Rejected(o, 1) => step'[o] = "completed" /\ result'[o] = "REJECTED"
           /\ step'[o] = Waiting <=> Starts(o, 1)
           /\ step'[o] = "queued" <=> Queued(o, 1)
           /\ Starts(o, 1) \/ Queued(o, 1) \/ Rejected(o, 1)
           /\ ~(Starts(o, 1) /\ Queued(o, 1))
<1>1. step[o] = "idle" /\ result[o] = None
  BY DEF ConfirmUndeploy, IInv, ModeOK, OperationOK
<1>2. /\ Starts(o, 1) \/ Queued(o, 1) \/ Rejected(o, 1)
      /\ Starts(o, 1) => ~Queued(o, 1) /\ ~Rejected(o, 1)
      /\ Queued(o, 1) => ~Rejected(o, 1)
  BY NumOpsAssumption, LimitAssumption DEF Starts, Queued, Rejected, Op
<1>3. /\ step' = [p \in Op |-> CASE Starts(p, 1) -> Waiting
                                 [] Queued(p, 1) -> "queued"
                                 [] Rejected(p, 1) -> "completed"]
      /\ result' = [p \in Op |-> IF Rejected(p, 1) THEN "REJECTED" ELSE None]
  BY Zenon DEF ConfirmUndeploy
<1>4. QED
  BY <1>1, <1>2, <1>3 DEF Waiting

LEMMA ConfirmUndeployIInv ==
    ASSUME IInv, ConfirmUndeploy
    PROVE  IInv'
<1> DEFINE room == QueuedCount(1, NumOps)
           last == Smaller(Limit, NumOps)
<1>1. /\ mode' = "parallel"
      /\ step' = [o \in Op |-> CASE Starts(o, 1) -> Waiting
                                 [] Queued(o, 1) -> "queued"
                                 [] Rejected(o, 1) -> "completed"]
      /\ result' = [o \in Op |-> IF Rejected(o, 1) THEN "REJECTED" ELSE None]
      /\ active' = StartedCount(1, NumOps)
      /\ queue' = [k \in 1 .. room |-> Limit + k]
      /\ plan' = plan /\ outcome' = outcome /\ cfn' = cfn /\ hooksRun' = hooksRun
      /\ output' = output
  BY Zenon DEF ConfirmUndeploy
<1>2. ASSUME NEW o \in Op
      PROVE  /\ step[o] = "idle" /\ result[o] = None
             /\ step'[o] \in {Waiting, "queued", "completed"}
             /\ step'[o] = "completed" <=> result'[o] # None
             /\ step'[o] \notin BegunSteps
             /\ step'[o] \in RunningSteps <=> Starts(o, 1)
             /\ step'[o] = Waiting <=> Starts(o, 1)
             /\ step'[o] = "queued" <=> Queued(o, 1)
             /\ result'[o] \in {None, "REJECTED"}
             /\ result'[o] \notin Successful
             /\ Untouched(o) /\ Untouched(o)'
  <2>1. Untouched(o)
    BY ConfirmedOperations DEF IInv, OperationOK, BegunSteps, WrappedSteps
  <2>2. Untouched(o)'
    BY <1>1, <2>1 DEF Untouched
  <2>3. QED
    BY <2>1, <2>2, ConfirmedOperations
       DEF RunningSteps, BegunSteps, WrappedSteps, Waiting, None, Successful
<1>3. /\ room \in Nat
      /\ \A k \in 1 .. room : Limit + k \in Op /\ Queued(Limit + k, 1)
      /\ \A o \in Op : Queued(o, 1) => o - Limit \in 1 .. room
  BY NumOpsAssumption, LimitAssumption DEF QueuedCount, Smaller, Larger, Queued, Op
<1> HIDE DEF room
<1>4. StackTypeOK' /\ PlanTypeOK'
  <2>1. step' \in [Op -> Steps]
    BY <1>1, <1>2 DEF Steps, RunningSteps
  <2>2. result' \in [Op -> {None, "REJECTED"} \union OperationStatuses]
    BY <1>1, <1>2
  <2>3. QED
    BY <1>1, <2>1, <2>2 DEF IInv, StackTypeOK, PlanTypeOK, Sorted
<1>5. SchedulerTypeOK'
  <2>1. queue' \in [1 .. room -> Op]
    BY <1>1, <1>3
  <2>2. queue' \in Seq(Op)
    BY <1>3, <2>1
  <2>3. active' \in 0 .. Limit
    BY <1>1, NumOpsAssumption, LimitAssumption DEF StartedCount, Smaller
  <2>4. QED
    BY <1>1, <2>2, <2>3 DEF IInv, SchedulerTypeOK
<1>6. ASSUME NEW o \in Op PROVE OperationOK(o)'
  BY <1>2 DEF OperationOK, Waiting, None
<1>7. TouchedAfterDependents'
  BY <1>2 DEF TouchedAfterDependents
<1>8. ModeOK' /\ OutputOK'
  BY <1>1, <1>2 DEF ModeOK, OutputOK, Waiting
<1>9. QueueOK'
  <2>1. Len(queue') = room /\ \A k \in 1 .. room : queue'[k] = Limit + k
    BY <1>1, <1>3
  <2>2. \A k \in 1 .. Len(queue') : step'[queue'[k]] = "queued"
    BY <1>2, <1>3, <2>1
  <2>3. \A o \in Op : step'[o] = "queued" => \E k \in 1 .. Len(queue') : queue'[k] = o
    <3>1. SUFFICES ASSUME NEW o \in Op, Queued(o, 1)
                   PROVE  \E k \in 1 .. room : queue'[k] = o
      BY <1>2, <2>1
    <3>2. o - Limit \in 1 .. room
      BY <1>3, <3>1
    <3>3. queue'[o - Limit] = o
      BY <2>1, <3>2, LimitAssumption, NumOpsAssumption DEF Op
    <3>4. QED
      BY <3>2, <3>3
  <2>4. \A j, k \in 1 .. Len(queue') : j < k => queue'[j] < queue'[k]
    BY <1>3, <2>1, LimitAssumption
  <2>5. \A o, p \in Op : step'[o] = "queued" /\ step'[p] \in RunningSteps => p < o
    BY <1>2, LimitAssumption, NumOpsAssumption DEF Queued, Starts, Op
  <2>6. QED
    BY <2>2, <2>3, <2>4, <2>5 DEF QueueOK
<1>10. SlotsCounted'
  <2>1. Running' = {o \in Op : Starts(o, 1)}
    BY <1>2 DEF Running
  <2>2. {o \in Op : Starts(o, 1)} = 1 .. last
    BY LimitAssumption, NumOpsAssumption DEF Starts, Smaller, Op
  <2>3. last \in Nat /\ active' = last
    BY <1>1, LimitAssumption, NumOpsAssumption DEF StartedCount, Smaller
  <2>4. Cardinality(1 .. last) = active'
    BY <2>3, FS_Interval
  <2>5. QED
    BY <2>1, <2>2, <2>4 DEF SlotsCounted
<1>11. QED
  BY <1>4, <1>5, <1>6, <1>7, <1>8, <1>9, <1>10 DEF IInv

(* A step of one operation: the frame says what it does, the rest of the   *)
(* state is unchanged but for the slot it may give back.                   *)
LEMMA DeleteStackIInv ==
    ASSUME IInv, NEW o \in Op, DeleteStack(o)
    PROVE  IInv'
<1>1. StackFrame(o)
  BY StackStepFrame DEF DeleteStack, IInv
<1>2. /\ mode = "parallel" /\ mode' = mode /\ plan' = plan /\ queue' = queue
      /\ output' = output
      /\ active' = IF step'[o] = "completed" THEN active - 1 ELSE active
  BY DEF DeleteStack
<1>3. step[o] \in RunningSteps /\ step[o] \notin {"idle", "queued", "completed"}
  BY <1>1, StepNames DEF StackFrame, IInv, StackTypeOK
<1>4. /\ step'[o] \notin {"idle", "queued"}
      /\ step'[o] \in RunningSteps <=> step'[o] # "completed"
      /\ step'[o] \in RunningSteps <=> step'[o] \in BegunSteps
  BY <1>1 DEF StackFrame, RunningSteps, BegunSteps, WrappedSteps, Waiting
<1>5. ASSUME NEW p \in Op \ {o}
      PROVE  /\ step'[p] = step[p] /\ result'[p] = result[p]
             /\ Untouched(p)' <=> Untouched(p)
             /\ OperationOK(p)'
  BY <1>1, <1>2 DEF StackFrame, Untouched, IInv, OperationOK, ExistedBefore
<1>6. StackTypeOK' /\ PlanTypeOK'
  BY <1>1, <1>2 DEF IInv, StackFrame, PlanTypeOK, Sorted
<1>7. \A p \in Op : OperationOK(p)'
  BY <1>1, <1>5 DEF StackFrame
<1>8. Running' = IF step'[o] = "completed" THEN Running \ {o} ELSE Running
  BY <1>3, <1>4, <1>5 DEF Running
<1>9. SlotsCounted' /\ active' \in 0 .. Limit
  <2>1. o \in Running
    BY <1>3 DEF Running
  <2>2. Cardinality(Running \ {o}) = Cardinality(Running) - 1
    BY RunningFinite, <2>1, FS_RemoveElement
  <2>3. Cardinality(Running \ {o}) \in Nat
    BY RunningFinite, FS_RemoveElement, FS_CardinalityType
  <2>4. SlotsCounted'
    BY <1>2, <1>8, <2>2 DEF IInv, SlotsCounted
  <2>5. active - 1 \in 0 .. Limit
    BY <2>2, <2>3, LimitAssumption DEF IInv, SlotsCounted, SchedulerTypeOK
  <2>6. QED
    BY <1>2, <2>4, <2>5 DEF IInv, SchedulerTypeOK
<1>10. SchedulerTypeOK'
  BY <1>2, <1>9 DEF IInv, SchedulerTypeOK
<1>11. result[o] = None
  BY <1>3 DEF IInv, OperationOK
<1>12. TouchedAfterDependents'
  <2>1. ASSUME NEW p \in Op, \A d \in Dependents(p) : Gone(d)
        PROVE  \A d \in Dependents(p)' : Gone(d)'
    <3>1. Dependents(p)' = Dependents(p) /\ Dependents(p) \subseteq Op
      BY <1>2 DEF Dependents, IInv, PlanTypeOK
    <3>2. ~Gone(o)
      BY <1>11 DEF Gone, None
    <3>3. \A d \in Op \ {o} : Gone(d) => Gone(d)'
      BY <1>2, <1>5 DEF Gone, ExistedBefore
    <3>4. QED
      BY <2>1, <3>1, <3>2, <3>3
  <2>2. ASSUME NEW p \in Op \ {o},
               step'[p] \in BegunSteps \/ ~Untouched(p)' \/ result'[p] \in Successful
        PROVE  \A d \in Dependents(p)' : Gone(d)'
    BY <1>5, <2>1, <2>2 DEF IInv, TouchedAfterDependents
  <2>3. ASSUME step'[o] \in BegunSteps \/ ~Untouched(o)' \/ result'[o] \in Successful
        PROVE  \A d \in Dependents(o) : Gone(d)
    <3>1. CASE step[o] = Waiting
      <4>1. Untouched(o)
        BY <3>1 DEF IInv, OperationOK, BegunSteps, WrappedSteps, Waiting
      <4>2. Untouched(o)'
        BY <1>1, <1>2, <3>1, <4>1 DEF StackFrame, Untouched
      <4>3. step'[o] = "completed" => step'[o] \notin BegunSteps
        BY <1>4
      <4>4. QED
        BY <1>1, <2>3, <3>1, <4>2, <4>3 DEF StackFrame, Successful
    <3>2. CASE step[o] # Waiting
      BY <1>3, <3>2 DEF RunningSteps, IInv, TouchedAfterDependents
    <3>3. QED
      BY <3>1, <3>2
  <2>4. QED
    BY <2>1, <2>2, <2>3 DEF TouchedAfterDependents
<1>13. ModeOK' /\ OutputOK'
  BY <1>2, <1>4, <1>5 DEF IInv, ModeOK, OutputOK
<1>14. QueueOK'
  <2>1. \A p \in Op : step'[p] = "queued" <=> step[p] = "queued"
    BY <1>3, <1>4, <1>5
  <2>2. \A p \in Op : step'[p] \in RunningSteps => step[p] \in RunningSteps
    BY <1>3, <1>5
  <2>3. \A k \in 1 .. Len(queue) : queue[k] \in Op
    BY DEF IInv, SchedulerTypeOK
  <2>4. QED
    BY <1>2, <2>1, <2>2, <2>3 DEF IInv, QueueOK
<1>15. QED
  BY <1>6, <1>7, <1>9, <1>10, <1>12, <1>13, <1>14 DEF IInv

(* What Dequeue does: the first operation of the queue starts to wait.     *)
LEMMA DequeuedOperation ==
    ASSUME IInv, Dequeue
    PROVE  /\ Head(queue) \in Op /\ step[Head(queue)] = "queued"
           /\ Len(queue) \in Nat /\ 1 \in 1 .. Len(queue) /\ Head(queue) = queue[1]
           /\ step' = [step EXCEPT ![Head(queue)] = Waiting]
           /\ mode = "parallel" /\ active < Limit
           /\ active' = active + 1 /\ queue' = Tail(queue)
           /\ UNCHANGED <<plan, outcome, result, cfn, hooksRun, mode, output>>
<1>1. queue \in Seq(Op) /\ queue # <<>>
  BY DEF Dequeue, IInv, SchedulerTypeOK
<1>2. Len(queue) \in Nat /\ 1 \in 1 .. Len(queue) /\ Head(queue) = queue[1] /\ Head(queue) \in Op
  BY <1>1
<1>3. step[Head(queue)] = "queued"
  BY <1>2, Zenon DEF IInv, QueueOK
<1>4. QED
  BY <1>2, <1>3, Zenon DEF Dequeue, GoTo

LEMMA DequeueIInv ==
    ASSUME IInv, Dequeue
    PROVE  IInv'
<1> DEFINE h == Head(queue)
<1>1. /\ h \in Op /\ step[h] = "queued"
      /\ Len(queue) \in Nat /\ 1 \in 1 .. Len(queue) /\ h = queue[1]
      /\ step' = [step EXCEPT ![h] = Waiting]
      /\ mode = "parallel" /\ active < Limit
      /\ active' = active + 1 /\ queue' = Tail(queue)
      /\ UNCHANGED <<plan, outcome, result, cfn, hooksRun, mode, output>>
  BY DequeuedOperation
<1> HIDE DEF h
<1>2. /\ queue \in Seq(Op) /\ active \in 0 .. Limit
      /\ \A k \in 1 .. Len(queue) : queue[k] \in Op
  BY DEF IInv, SchedulerTypeOK
<1>3. /\ queue' \in Seq(Op) /\ Len(queue') = Len(queue) - 1
      /\ \A k \in 1 .. Len(queue') : k + 1 \in 1 .. Len(queue) /\ queue'[k] = queue[k + 1]
  BY <1>1, <1>2
<1>4. /\ step' \in [Op -> Steps] /\ step'[h] = Waiting
      /\ \A p \in Op \ {h} : step'[p] = step[p]
  BY <1>1 DEF IInv, StackTypeOK, Steps, RunningSteps
<1>5. StackTypeOK' /\ PlanTypeOK' /\ SchedulerTypeOK'
  <2>1. StackTypeOK' /\ PlanTypeOK'
    BY <1>1, <1>4 DEF IInv, StackTypeOK, PlanTypeOK, Sorted
  <2>2. active' \in 0 .. Limit
    BY <1>1, <1>2, LimitAssumption
  <2>3. QED
    BY <1>1, <1>3, <2>1, <2>2 DEF IInv, SchedulerTypeOK
<1>6. ASSUME NEW p \in Op
      PROVE  /\ Untouched(p)' <=> Untouched(p)
             /\ step'[p] \in BegunSteps => step[p] \in BegunSteps
             /\ OperationOK(p)'
  <2>1. Untouched(p)' <=> Untouched(p)
    BY <1>1 DEF Untouched
  <2>2. CASE p = h
    BY <1>1, <1>4, <2>1, <2>2
       DEF IInv, OperationOK, ExistedBefore, BegunSteps, WrappedSteps, Waiting
  <2>3. CASE p # h
    BY <1>1, <1>4, <2>1, <2>3 DEF IInv, OperationOK, ExistedBefore
  <2>4. QED
    BY <2>1, <2>2, <2>3
<1>7. TouchedAfterDependents'
  <2>1. \A p \in Op : Dependents(p)' = Dependents(p)
    BY <1>1 DEF Dependents
  <2>2. \A d : Gone(d)' <=> Gone(d)
    BY <1>1 DEF Gone, ExistedBefore
  <2>3. QED
    BY <1>1, <1>6, <2>1, <2>2 DEF IInv, TouchedAfterDependents
<1>8. ModeOK' /\ OutputOK'
  BY <1>1, <1>4 DEF IInv, ModeOK, OutputOK, Waiting
<1>9. QueueOK'
  <2>1. \A j, k \in 1 .. Len(queue) : j < k => queue[j] < queue[k]
    BY DEF IInv, QueueOK
  <2>2. \A k \in 1 .. Len(queue) : k # 1 => h < queue[k] /\ queue[k] # h
    BY <1>1, <1>2, <2>1, NumOpsAssumption DEF Op
  <2>3. \A k \in 1 .. Len(queue') : step'[queue'[k]] = "queued"
    <3>1. SUFFICES ASSUME NEW k \in 1 .. Len(queue') PROVE step'[queue'[k]] = "queued"
      OBVIOUS
    <3>2. k + 1 \in 1 .. Len(queue) /\ k + 1 # 1 /\ queue'[k] = queue[k + 1]
      BY <1>1, <1>3
    <3>3. queue[k + 1] \in Op \ {h}
      BY <1>2, <2>2, <3>2
    <3>4. step[queue[k + 1]] = "queued"
      BY <3>2 DEF IInv, QueueOK
    <3>5. QED
      BY <1>4, <3>2, <3>3, <3>4
  <2>4. ASSUME NEW p \in Op, step'[p] = "queued"
        PROVE  p # h /\ step[p] = "queued"
    BY <1>4, <2>4 DEF Waiting
  <2>5. ASSUME NEW p \in Op, step'[p] = "queued"
        PROVE  \E k \in 1 .. Len(queue) : k # 1 /\ queue[k] = p
    BY <1>1, <2>4, <2>5 DEF IInv, QueueOK
  <2>6. \A p \in Op : step'[p] = "queued" => \E k \in 1 .. Len(queue') : queue'[k] = p
    <3>1. SUFFICES ASSUME NEW p \in Op, step'[p] = "queued"
                   PROVE  \E k \in 1 .. Len(queue') : queue'[k] = p
      OBVIOUS
    <3>2. PICK k \in 1 .. Len(queue) : k # 1 /\ queue[k] = p
      BY <2>5, <3>1
    <3>3. k - 1 \in 1 .. Len(queue') /\ (k - 1) + 1 = k
      BY <1>1, <1>3, <3>2
    <3>4. queue'[k - 1] = p
      BY <1>3, <3>2, <3>3
    <3>5. QED
      BY <3>3, <3>4
  <2>7. \A j, k \in 1 .. Len(queue') : j < k => queue'[j] < queue'[k]
    BY <1>1, <1>3, <2>1
  <2>8. ASSUME NEW p \in Op, NEW q \in Op, step'[p] = "queued", step'[q] \in RunningSteps
        PROVE  q < p
    <3>1. CASE q = h
      BY <2>2, <2>5, <2>8, <3>1
    <3>2. CASE q # h
      BY <1>4, <2>4, <2>8, <3>2 DEF IInv, QueueOK
    <3>3. QED
      BY <3>1, <3>2
  <2>9. QED
    BY <2>3, <2>6, <2>7, <2>8 DEF QueueOK
<1>10. SlotsCounted'
  <2>1. h \notin Running
    BY <1>1 DEF Running, RunningSteps, BegunSteps, WrappedSteps, Waiting
  <2>2. Running' = Running \union {h}
    BY <1>1, <1>4 DEF Running, RunningSteps
  <2>3. Cardinality(Running') = Cardinality(Running) + 1
    BY <2>1, <2>2, RunningFinite, FS_AddElement
  <2>4. QED
    BY <1>1, <2>3 DEF IInv, SlotsCounted
<1>11. QED
  BY <1>5, <1>6, <1>7, <1>8, <1>9, <1>10 DEF IInv

(* CloudFormation ends a deletion: only of a stack that was touched, and   *)
(* of none that is gone.                                                   *)
LEMMA CloudFormationStepIInv ==
    ASSUME IInv, NEW o \in Op, CloudFormationStep(o)
    PROVE  IInv'
<1>1. /\ plan' = plan /\ step' = step /\ outcome' = outcome /\ result' = result
      /\ hooksRun' = hooksRun /\ mode' = mode /\ active' = active /\ queue' = queue
      /\ output' = output
  BY DEF CloudFormationStep, schedulerVars
<1>2. /\ cfn[o] \in InProgressStatuses
      /\ \E ending \in Endings[cfn[o]] : cfn' = [cfn EXCEPT ![o] = ending]
  BY DEF CloudFormationStep
<1>3. \A s \in InProgressStatuses : Endings[s] \subseteq StableStatuses
  BY DEF InProgressStatuses, Endings, StableStatuses, DeployedStatuses, FailedCreationStatuses,
         Absent
<1>4. cfn' \in [Op -> StackStatuses] /\ \A p \in Op \ {o} : cfn'[p] = cfn[p]
  BY <1>2, <1>3 DEF IInv, StackTypeOK, StackStatuses
<1>5. StackTypeOK' /\ PlanTypeOK' /\ SchedulerTypeOK'
  BY <1>1, <1>4 DEF IInv, StackTypeOK, PlanTypeOK, Sorted, SchedulerTypeOK
<1>6. cfn[o] # plan.status[o] /\ cfn[o] # Absent
  BY <1>2, UndeployableIsStable DEF IInv, PlanTypeOK, InProgressStatuses, Endings, Absent
<1>7. \A p \in Op : Untouched(p) => p # o /\ Untouched(p)'
  BY <1>1, <1>4, <1>6 DEF Untouched
<1>8. \A p \in Op : OperationOK(p)'
  <2>1. ASSUME NEW p \in Op \ {o} PROVE OperationOK(p)'
    BY <1>1, <1>4, <1>7 DEF IInv, OperationOK, ExistedBefore
  <2>2. OperationOK(o)'
    BY <1>1, <1>6, <1>7 DEF IInv, OperationOK
  <2>3. QED
    BY <2>1, <2>2
<1>9. TouchedAfterDependents'
  <2>1. \A p \in Op : Dependents(p)' = Dependents(p)
    BY <1>1 DEF Dependents
  <2>2. \A d : Gone(d)' <=> Gone(d)
    BY <1>1 DEF Gone, ExistedBefore
  <2>3. \A p \in Op : ~Untouched(p)' => ~Untouched(p)
    BY <1>7
  <2>4. QED
    BY <1>1, <2>1, <2>2, <2>3 DEF IInv, TouchedAfterDependents
<1>10. ModeOK' /\ QueueOK' /\ SlotsCounted'
  BY <1>1 DEF IInv, ModeOK, QueueOK, SlotsCounted, Running
<1>11. OutputOK'
  BY <1>1, <1>7 DEF IInv, OutputOK
<1>12. QED
  BY <1>5, <1>8, <1>9, <1>10, <1>11 DEF IInv

(* A step that leaves the operations alone. *)
LEMMA OperationsUnchanged ==
    ASSUME IInv, SchedulerTypeOK', ModeOK', OutputOK',
           UNCHANGED <<plan, stackVars, active, queue>>
    PROVE  IInv'
<1>1. /\ step' = step /\ outcome' = outcome /\ result' = result
      /\ cfn' = cfn /\ hooksRun' = hooksRun
      /\ plan' = plan /\ queue' = queue /\ active' = active
  BY DEF stackVars
<1>2. StackTypeOK' /\ PlanTypeOK'
  BY <1>1 DEF IInv, StackTypeOK, PlanTypeOK, Sorted
<1>3. \A o \in Op : /\ Untouched(o)' <=> Untouched(o)
                    /\ Dependents(o)' = Dependents(o)
                    /\ OperationOK(o)'
  BY <1>1 DEF IInv, Untouched, Dependents, OperationOK, ExistedBefore
<1>4. \A d : Gone(d)' <=> Gone(d)
  BY <1>1 DEF Gone, ExistedBefore
<1>5. TouchedAfterDependents'
  BY <1>1, <1>3, <1>4 DEF IInv, TouchedAfterDependents
<1>6. QueueOK' /\ SlotsCounted'
  BY <1>1 DEF IInv, QueueOK, SlotsCounted, Running
<1>7. QED
  BY <1>2, <1>3, <1>5, <1>6 DEF IInv

(* The statuses of the operations that give each status of the command. *)
LEMMA ResolvedStatusFacts ==
    ASSUME NEW statuses
    PROVE  /\ ResolvedStatus(statuses) \in CommandStatuses
           /\ ResolvedStatus(statuses) \in Successful => statuses \subseteq Successful
           /\ ResolvedStatus(statuses) = "CANCELLED" => statuses = {"CANCELLED"}
  BY DEF ResolvedStatus, CommandStatuses, SuccessfulStatuses, Successful

LEMMA FinishIInv ==
    ASSUME IInv, Finish
    PROVE  IInv'
<1>1. /\ mode' = "done" /\ UNCHANGED <<plan, stackVars, active, queue>>
      /\ result' = result
      /\ output' = "ERROR" \/ output' = ResolvedStatus(Statuses)
  BY DEF Finish, stackVars
<1>2. SchedulerTypeOK'
  BY <1>1, ResolvedStatusFacts DEF IInv, SchedulerTypeOK
<1>3. OutputOK'
  <2>1. ASSUME output' \in Successful, NEW o \in Op PROVE result'[o] \in Successful
    <3>1. Statuses \subseteq Successful
      BY <1>1, <2>1, ResolvedStatusFacts DEF Successful
    <3>2. QED
      BY <1>1, <3>1 DEF Statuses
  <2>2. ASSUME output' = "CANCELLED", NEW o \in Op PROVE Untouched(o)'
    <3>1. Statuses = {"CANCELLED"}
      BY <1>1, <2>2, ResolvedStatusFacts
    <3>2. result[o] = "CANCELLED"
      BY <3>1 DEF Statuses
    <3>3. Untouched(o)
      BY <3>2 DEF IInv, OperationOK
    <3>4. QED
      BY <1>1, <3>3 DEF Untouched, stackVars
  <2>3. QED
    BY <2>1, <2>2 DEF OutputOK
<1>4. ModeOK'
  BY <1>1 DEF ModeOK
<1>5. QED
  BY <1>1, <1>2, <1>3, <1>4, OperationsUnchanged

LEMMA RefusedIInv ==
    ASSUME IInv, RejectIgnoreDependencies \/ CancelUndeploy
    PROVE  IInv'
<1>1. /\ mode = "confirm" /\ mode' = "done" /\ output' \in {"ERROR", "CANCELLED"}
      /\ UNCHANGED <<plan, stackVars, active, queue>>
  BY DEF RejectIgnoreDependencies, CancelUndeploy
<1>2. SchedulerTypeOK' /\ ModeOK'
  BY <1>1 DEF IInv, SchedulerTypeOK, ModeOK, CommandStatuses
<1>3. ASSUME NEW o \in Op PROVE Untouched(o)'
  <2>1. Untouched(o)
    BY <1>1 DEF IInv, ModeOK, OperationOK, BegunSteps, WrappedSteps
  <2>2. QED
    BY <1>1, <2>1 DEF Untouched, stackVars
<1>4. OutputOK'
  BY <1>1, <1>3 DEF OutputOK, Successful
<1>5. QED
  BY <1>1, <1>2, <1>4, OperationsUnchanged

LEMMA NextIInv == IInv /\ [Next]_vars => IInv'
<1> SUFFICES ASSUME IInv, [Next]_vars PROVE IInv'
  OBVIOUS
<1>1. CASE RejectIgnoreDependencies \/ CancelUndeploy
  BY <1>1, RefusedIInv
<1>2. CASE ConfirmUndeploy
  BY <1>2, ConfirmUndeployIInv
<1>3. CASE Dequeue
  BY <1>3, DequeueIInv
<1>4. CASE Finish
  BY <1>4, FinishIInv
<1>5. CASE \E o \in Op : DeleteStack(o)
  BY <1>5, DeleteStackIInv
<1>6. CASE \E o \in Op : CloudFormationStep(o)
  BY <1>6, CloudFormationStepIInv
<1>7. CASE Exited \/ UNCHANGED vars
  <2>1. /\ UNCHANGED <<plan, stackVars, mode, active, queue, output>>
        /\ step' = step /\ result' = result /\ cfn' = cfn /\ hooksRun' = hooksRun
    BY <1>7 DEF Exited, vars, stackVars, schedulerVars
  <2>2. SchedulerTypeOK' /\ ModeOK' /\ OutputOK'
    BY <2>1 DEF IInv, SchedulerTypeOK, ModeOK, OutputOK, Untouched
  <2>3. QED
    BY <2>1, <2>2, OperationsUnchanged
<1>8. QED
  BY <1>1, <1>2, <1>3, <1>4, <1>5, <1>6, <1>7 DEF Next, Scheduler

LEMMA InvariantHolds == Spec => []IInv
  BY InitIInv, NextIInv, PTL DEF Spec

-----------------------------------------------------------------------------
(* The variables of the undeployment keep their types. *)
THEOREM TypeCorrect == Spec => []TypeOK
<1>1. IInv => TypeOK
  BY DEF IInv, StackTypeOK, PlanTypeOK, SchedulerTypeOK, TypeOK
<1>2. QED
  BY <1>1, InvariantHolds, PTL

(* In every undeployment a stack is being deleted, or is deleted, only     *)
(* when every stack that depends on it is gone from CloudFormation.        *)
THEOREM DependentsAlwaysGone == Spec => []DependentsGone
<1>1. ASSUME IInv, NEW o \in Op, NEW d \in Dependents(o), ExistedBefore(o),
             cfn[o] \in {"DELETE_IN_PROGRESS", Absent}
      PROVE  cfn[d] = Absent
  <2>1. d \in Op
    BY <1>1 DEF Dependents, IInv, PlanTypeOK
  <2>2. plan.status[o] # "DELETE_IN_PROGRESS"
    BY <1>1, UndeployableIsStable DEF IInv, PlanTypeOK, InProgressStatuses, Endings
  <2>3. ~Untouched(o)
    BY <1>1, <2>2 DEF Untouched, ExistedBefore
  <2>4. Gone(d)
    BY <1>1, <2>3 DEF IInv, TouchedAfterDependents
  <2>5. QED
    BY <1>1, <2>1, <2>4 DEF IInv, OperationOK, Gone, ExistedBefore
<1>2. IInv => DependentsGone
  BY <1>1 DEF DependentsGone
<1>3. QED
  BY <1>2, InvariantHolds, PTL

(* Once a stack was not deleted, whether its deletion failed or the        *)
(* bulkhead rejected it, no stack it depends on is touched or reported as  *)
(* successful.                                                             *)
THEOREM FailureAlwaysStopsDependencies == Spec => []FailureStopsDependencies
<1>1. IInv => FailureStopsDependencies
  BY DEF IInv, TouchedAfterDependents, FailureStopsDependencies, Gone
<1>2. QED
  BY <1>1, InvariantHolds, PTL

(* A command that reports SUCCESS or SKIPPED has left only the stacks      *)
(* their own before hooks skipped, and one that reports CANCELLED has      *)
(* touched none.                                                           *)
THEOREM OutputAlwaysTruthful == Spec => []OutputTruthful
<1>1. ASSUME IInv, mode = "done", output \in Successful, NEW o \in Op
      PROVE  cfn[o] = Absent \/ (result[o] = "SKIPPED" /\ hooksRun[o] = {"before"})
  <2>1. result[o] \in Successful
    BY <1>1 DEF IInv, OutputOK
  <2>2. QED
    BY <1>1, <2>1 DEF IInv, OperationOK, Successful, ExistedBefore
<1>2. IInv => OutputTruthful
  BY <1>1 DEF OutputTruthful, IInv, OutputOK
<1>3. QED
  BY <1>2, InvariantHolds, PTL

(* The bulkhead's counter is always the number of operations that hold a   *)
(* slot.                                                                   *)
THEOREM SlotsAlwaysBounded == Spec => []SlotsBounded
<1>1. IInv => SlotsBounded
  BY LimitAssumption DEF IInv, SlotsCounted, SchedulerTypeOK, SlotsBounded
<1>2. QED
  BY <1>1, InvariantHolds, PTL

(* Operations that wait for their dependents while holding every slot      *)
(* never all wait for one that is still queued: the first operation of the *)
(* plan that has not completed can always go on, because its dependents    *)
(* come before it, and if it is queued nothing holds a slot.               *)
THEOREM NeverSlotDeadlock == Spec => []NoSlotDeadlock
<1>1. ASSUME IInv PROVE NoSlotDeadlock
  <2>1. SUFFICES ASSUME mode = "parallel", "REJECTED" \notin Statuses,
                        ~\A o \in Op : step[o] = "completed"
                 PROVE  \/ \E o \in Op : CanContinue(o)
                        \/ queue # <<>> /\ active < Limit
    BY DEF NoSlotDeadlock
  <2> DEFINE Pending == {o \in Op : step[o] # "completed"}
  <2>2. PICK m \in Pending : \A o \in Pending : ~(o < m)
    <3>1. Pending \subseteq Nat /\ Pending # {}
      BY <2>1, NumOpsAssumption DEF Op
    <3>2. PICK m \in Pending : \A o \in Pending : <<o, m>> \notin OpToRel(<, Nat)
      BY <3>1, NatLessThanWellFounded, WFMin, Zenon
    <3>3. QED
      BY <3>1, <3>2 DEF OpToRel
  <2>3. \A o \in Op : o < m => step[o] = "completed"
    BY <2>2
  <2>4. m \in Op /\ step[m] \in {"queued", Waiting} \union BegunSteps
    BY <1>1, <2>1, <2>2 DEF IInv, ModeOK, StackTypeOK, Steps, RunningSteps
  <2>5. DependentsSettled(m)
    <3>1. ASSUME NEW d \in Dependents(m) PROVE result[d] \in OperationStatuses
      <4>1. d \in Op /\ d < m
        BY <1>1, <2>4, <3>1 DEF IInv, PlanTypeOK, Sorted, Dependents
      <4>2. result[d] # None
        BY <1>1, <2>3, <4>1 DEF IInv, OperationOK
      <4>3. result[d] # "REJECTED"
        BY <2>1, <4>1 DEF Statuses
      <4>4. QED
        BY <1>1, <4>1, <4>2, <4>3 DEF IInv, StackTypeOK
    <3>2. QED
      BY <3>1 DEF DependentsSettled
  <2>6. CASE step[m] # "queued"
    BY <2>4, <2>5, <2>6 DEF CanContinue
  <2>7. CASE step[m] = "queued"
    <3>1. queue # <<>>
      BY <1>1, <2>4, <2>7 DEF IInv, QueueOK
    <3>2. Running = {}
      <4>1. ASSUME NEW o \in Running PROVE FALSE
        <5>1. o \in Op /\ step[o] \in RunningSteps
          BY <4>1 DEF Running
        <5>2. o < m
          BY <1>1, <2>4, <2>7, <5>1 DEF IInv, QueueOK
        <5>3. step[o] = "completed"
          BY <2>3, <5>1, <5>2
        <5>4. QED
          BY <5>1, <5>3 DEF RunningSteps, BegunSteps, WrappedSteps, Waiting
      <4>2. QED
        BY <4>1
    <3>3. active = 0
      BY <1>1, <3>2, FS_EmptySet DEF IInv, SlotsCounted
    <3>4. QED
      BY <3>1, <3>3, LimitAssumption
  <2>8. QED
    BY <2>6, <2>7
<1>2. QED
  BY <1>1, InvariantHolds, PTL

-----------------------------------------------------------------------------
(* The refinement.  An operation's abstract state depends only on its own  *)
(* step and result.                                                        *)
StateOf(s, r) ==
    CASE s = "completed" /\ r = "REJECTED" -> "FAILED"
      [] s = "completed" /\ r # "REJECTED" -> r
      [] s \in BegunSteps -> "begun"
      [] OTHER -> "waiting"

LEMMA OperationStateIs ==
    /\ OperationState = [o \in Op |-> StateOf(step[o], result[o])]
    /\ OperationState' = [o \in Op |-> StateOf(step'[o], result'[o])]
  BY DEF OperationState, StateOf

LEMMA StateOfValues ==
    ASSUME NEW s \in Steps, NEW r
    PROVE  /\ s \in {"idle", "queued", Waiting} => StateOf(s, r) = "waiting"
           /\ s \in BegunSteps => StateOf(s, r) = "begun"
           /\ s = "completed" => StateOf(s, r) = IF r = "REJECTED" THEN "FAILED" ELSE r
  BY DEF StateOf, Steps, RunningSteps, BegunSteps, WrappedSteps, Waiting

LEMMA OperationStateType ==
    ASSUME IInv
    PROVE  \A o \in Op : OperationState[o] \in Abstract!States
<1>1. ASSUME NEW o \in Op PROVE StateOf(step[o], result[o]) \in Abstract!States
  <2>1. /\ step[o] \in Steps /\ result[o] \in {None, "REJECTED"} \union OperationStatuses
        /\ step[o] = "completed" => result[o] # None
    BY DEF IInv, StackTypeOK, OperationOK
  <2>2. QED
    BY <2>1, StateOfValues DEF Abstract!States, Abstract!GoodEnds, Abstract!BadEnds,
       OperationStatuses, Steps, RunningSteps
<1>2. QED
  BY <1>1, OperationStateIs

LEMMA InitAbstract == Init => Abstract!Init
<1> SUFFICES ASSUME Init PROVE Abstract!Init
  OBVIOUS
<1>1. plan.dependents \in [Op -> SUBSET Op]
  BY InitIInv DEF IInv, PlanTypeOK
<1>2. \A o \in Op : StateOf(step[o], result[o]) = "waiting"
  BY StateOfValues DEF Init, Steps
<1>3. QED
  BY <1>1, <1>2, OperationStateIs, Zenon DEF Abstract!Init

(* The rejected operations are refused, the others go on waiting.          *)
LEMMA ConfirmUndeployRefuses ==
    ASSUME IInv, ConfirmUndeploy
    PROVE  Abstract!Next
<1> DEFINE refused == {o \in Op : Rejected(o, 1)}
<1>1. ASSUME NEW o \in Op
      PROVE  /\ OperationState[o] = "waiting"
             /\ o \in refused => OperationState'[o] = "FAILED"
             /\ o \notin refused => OperationState'[o] = "waiting"
  <2>1. /\ step[o] = "idle"
        /\ o \in refused => step'[o] = "completed" /\ result'[o] = "REJECTED"
        /\ o \notin refused => step'[o] \in {Waiting, "queued"}
    BY ConfirmedOperations
  <2>2. step[o] \in Steps /\ step'[o] \in Steps
    BY <2>1 DEF Steps, RunningSteps
  <2>3. QED
    BY <2>1, <2>2, StateOfValues, OperationStateIs
<1>2. OperationState' \in [Op -> Abstract!States]
  BY <1>1, OperationStateIs DEF Abstract!States, Abstract!BadEnds
<1>3. plan' = plan
  BY DEF ConfirmUndeploy
<1>4. Abstract!Refuse(refused)
  BY <1>1, <1>2, <1>3 DEF Abstract!Refuse, Abstract!BadEnds
<1>5. QED
  BY <1>4 DEF Abstract!Next

(* A step of an operation begins it, ends it, passes over it, refuses it,  *)
(* or nothing of it is to be seen.                                         *)
LEMMA DeleteStackRefines ==
    ASSUME IInv, NEW o \in Op, DeleteStack(o)
    PROVE  Abstract!Next \/ UNCHANGED <<plan.dependents, OperationState>>
<1>1. StackFrame(o) /\ plan' = plan
  BY StackStepFrame DEF DeleteStack, IInv
<1>2. /\ \A p \in Op \ {o} : OperationState'[p] = OperationState[p]
      /\ OperationState = [p \in Op |-> OperationState[p]]
      /\ OperationState' = [p \in Op |-> OperationState'[p]]
  BY <1>1, OperationStateIs DEF StackFrame
<1>3. step'[o] \in Steps /\ \A p \in Op : step[p] \in Steps
  BY <1>1 DEF IInv, StackFrame, StackTypeOK
<1>4. /\ OperationState[o] = StateOf(step[o], result[o])
      /\ OperationState'[o] = StateOf(step'[o], result'[o])
  BY OperationStateIs
<1>5. ASSUME \A d \in Dependents(o) : Gone(d)
      PROVE  Abstract!Ready(o)
  <2>1. ASSUME NEW d \in plan.dependents[o] PROVE OperationState[d] \in Abstract!GoodEnds
    <3>1. d \in Op /\ result[d] \in Successful
      BY <1>5, <2>1 DEF Dependents, Gone, Successful, IInv, PlanTypeOK
    <3>2. step[d] = "completed"
      BY <3>1 DEF IInv, OperationOK, Successful, None
    <3>3. StateOf(step[d], result[d]) = result[d]
      BY <1>3, <3>1, <3>2, StateOfValues DEF Successful
    <3>4. QED
      BY <3>1, <3>3, OperationStateIs DEF Abstract!GoodEnds, Successful
  <2>2. QED
    BY <2>1 DEF Abstract!Ready
<1>6. CASE step[o] = Waiting
  <2>1. OperationState[o] = "waiting"
    BY <1>3, <1>4, <1>6, StateOfValues
  <2>2. CASE step'[o] \in BegunSteps /\ \A d \in Dependents(o) : Gone(d)
    <3>1. OperationState' = [OperationState EXCEPT ![o] = "begun"]
      BY <1>2, <1>3, <1>4, <2>2, StateOfValues
    <3>2. Abstract!Begin(o)
      BY <1>1, <1>5, <2>1, <2>2, <3>1 DEF Abstract!Begin
    <3>3. QED
      BY <3>2 DEF Abstract!Next
  <2>3. CASE step'[o] = "completed" /\ result'[o] \in {"FAILED", "CANCELLED"}
    <3>1. OperationState'[o] \in {"FAILED", "CANCELLED"}
      BY <1>3, <1>4, <2>3, StateOfValues
    <3>2. OperationState' \in [Op -> Abstract!States]
      BY <1>2, <3>1, OperationStateType DEF Abstract!States, Abstract!BadEnds
    <3>3. Abstract!Refuse({o}) /\ {o} \in SUBSET Op
      BY <1>1, <1>2, <2>1, <3>1, <3>2 DEF Abstract!Refuse, Abstract!BadEnds
    <3>4. QED
      BY <3>3 DEF Abstract!Next
  <2>4. CASE /\ step'[o] = "completed" /\ result'[o] = "SKIPPED"
             /\ \A d \in Dependents(o) : Gone(d)
    <3>1. OperationState' = [OperationState EXCEPT ![o] = "SKIPPED"]
      BY <1>2, <1>3, <1>4, <2>4, StateOfValues
    <3>2. Abstract!PassOver(o)
      BY <1>1, <1>5, <2>1, <2>4, <3>1 DEF Abstract!PassOver
    <3>3. QED
      BY <3>2 DEF Abstract!Next
  <2>5. QED
    BY <1>1, <1>6, <2>2, <2>3, <2>4 DEF StackFrame
<1>7. CASE step[o] \in BegunSteps
  <2>1. OperationState[o] = "begun"
    BY <1>3, <1>4, <1>7, StateOfValues
  <2>2. CASE step'[o] \in BegunSteps
    <3>1. OperationState'[o] = "begun"
      BY <1>3, <1>4, <2>2, StateOfValues
    <3>2. QED
      BY <1>1, <1>2, <2>1, <3>1
  <2>3. CASE step'[o] = "completed" /\ result'[o] \in OperationStatuses
    <3>1. OperationState' = [OperationState EXCEPT ![o] = result'[o]]
      BY <1>2, <1>3, <1>4, <2>3, StateOfValues DEF OperationStatuses
    <3>2. Abstract!End(o)
      BY <1>1, <2>1, <2>3, <3>1
         DEF Abstract!End, Abstract!GoodEnds, Abstract!BadEnds, OperationStatuses
    <3>3. QED
      BY <3>2 DEF Abstract!Next
  <2>4. QED
    BY <1>1, <2>2, <2>3 DEF StackFrame
<1>8. QED
  BY <1>1, <1>6, <1>7 DEF StackFrame, RunningSteps

(* The undeployment of a plan keeps the promise of StackOperations, with   *)
(* the dependents of a stack as what its operation needs: every step of    *)
(* the scheduler or of one operation is one of its steps or a stutter.     *)
THEOREM UndeploymentRefinesStackOperations == Spec => ImplementsStackOperations
<1>1. ASSUME IInv, [Next]_vars
      PROVE  Abstract!Next \/ UNCHANGED <<plan.dependents, OperationState>>
  <2>1. CASE ConfirmUndeploy
    BY <1>1, <2>1, ConfirmUndeployRefuses
  <2>2. CASE Dequeue
    <3> DEFINE h == Head(queue)
    <3>1. /\ h \in Op /\ step[h] = "queued" /\ step \in [Op -> Steps]
          /\ step' = [step EXCEPT ![h] = Waiting]
          /\ result' = result /\ plan' = plan
      BY <1>1, <2>2, DequeuedOperation DEF IInv, StackTypeOK
    <3> HIDE DEF h
    <3>2. /\ step'[h] = Waiting /\ step[h] \in Steps /\ step'[h] \in Steps
          /\ \A p \in Op \ {h} : step'[p] = step[p]
      BY <3>1 DEF Steps, RunningSteps
    <3>3. /\ StateOf(step[h], result[h]) = "waiting"
          /\ StateOf(step'[h], result'[h]) = "waiting"
      BY <3>1, <3>2, StateOfValues
    <3>4. QED
      BY <3>1, <3>2, <3>3, OperationStateIs
  <2>3. CASE \E o \in Op : DeleteStack(o)
    BY <1>1, <2>3, DeleteStackRefines
  <2>4. CASE \/ \E o \in Op : CloudFormationStep(o)
             \/ RejectIgnoreDependencies \/ CancelUndeploy \/ Finish \/ Exited
             \/ UNCHANGED vars
    <3>1. step' = step /\ result' = result /\ plan' = plan
      BY <2>4 DEF CloudFormationStep, RejectIgnoreDependencies, CancelUndeploy, Finish,
         Exited, vars, stackVars
    <3>2. QED
      BY <3>1, OperationStateIs
  <2>5. QED
    BY <1>1, <2>1, <2>2, <2>3, <2>4 DEF Next, Scheduler
<1>2. IInv /\ [Next]_vars => [Abstract!Next]_Abstract!vars
  BY <1>1 DEF Abstract!vars
<1>3. QED
  BY <1>2, InitAbstract, InvariantHolds, PTL DEF Spec, ImplementsStackOperations, Abstract!Spec
-----------------------------------------------------------------------------
(* How far an operation has come: the places of the steps on the paths     *)
(* that undeploy/transitions.ts draws between the wait for the dependents  *)
(* and the result.                                                         *)
Place(s) ==
    CASE s = "idle" -> 0
      [] s = "queued" -> 1
      [] s = Waiting -> 2
      [] s = "execute-before-hooks" -> 3
      [] s = "initiate-stack-delete" -> 4
      [] s = "wait-stack-delete-complete" -> 5
      [] s = "execute-after-hooks" -> 6
      [] s = "completed" -> 7

(* Every step of an operation brings it nearer to its result.              *)
LEMMA StackStepForward ==
    ASSUME NEW o \in Op, StackTypeOK, StackStep(o)
    PROVE  Place(step[o]) < Place(step'[o])
<1> USE DEF StackTypeOK, GoTo, Complete, GoToAfterHooks, Waiting, Place
<1>1. CASE DependentRejected(o)
  BY <1>1 DEF DependentRejected
<1>2. CASE DependentsRemain(o)
  BY <1>2 DEF DependentsRemain
<1>3. CASE StackNotFound(o)
  BY <1>3 DEF StackNotFound
<1>4. CASE DependentsCompleted(o)
  BY <1>4 DEF DependentsCompleted
<1>5. CASE ExecuteBeforeUndeployHooks(o)
  BY <1>5 DEF ExecuteBeforeUndeployHooks
<1>6. CASE StepThrows(o)
  BY <1>6, InputsAssumption DEF StepThrows, WrappedSteps
<1>7. CASE InitiateStackDeletion(o)
  BY <1>7 DEF InitiateStackDeletion
<1>8. CASE WaitStackDeleteToComplete(o)
  BY <1>8 DEF WaitStackDeleteToComplete
<1>9. CASE ExecuteAfterUndeployHooks(o)
  BY <1>9 DEF ExecuteAfterUndeployHooks
<1>10. QED
  BY <1>1, <1>2, <1>3, <1>4, <1>5, <1>6, <1>7, <1>8, <1>9, Zenon DEF StackStep

(* The steps in which nothing but the scheduler moves an operation.        *)
LEMMA SchedulerForward ==
    ASSUME NEW s \in {"idle", "queued"},
           NEW t \in {"idle", "queued", Waiting, "completed"},
           s = "queued" => t \in {"queued", Waiting}, s # t
    PROVE  Place(s) < Place(t)
  BY DEF Place, Waiting

(* An operation that runs goes on, and none ever goes back: whatever       *)
(* fails or throws, no step of undeploy/transitions.ts runs twice for a    *)
(* stack, and its deletion is asked of CloudFormation at most once.  With  *)
(* NeverSlotDeadlock it is why an undeployment ends when CloudFormation    *)
(* and the user answer.                                                    *)
OnlyForward ==
    [][\A o \in Op : StackStep(o) \/ step'[o] # step[o] => Place(step[o]) < Place(step'[o])]_vars

THEOREM NeverGoesBack == Spec => OnlyForward
<1> DEFINE Forward == \A o \in Op : StackStep(o) \/ step'[o] # step[o]
                                        => Place(step[o]) < Place(step'[o])
<1>1. ASSUME IInv, [Next]_vars PROVE Forward
  <2>0. StackTypeOK /\ step \in [Op -> Steps]
    BY <1>1 DEF IInv, StackTypeOK
  <2>1. SUFFICES ASSUME NEW o \in Op, step'[o] # step[o]
                 PROVE  Place(step[o]) < Place(step'[o])
    BY <2>0, StackStepForward
  <2>2. CASE ConfirmUndeploy
    <3>1. step[o] = "idle"
      BY <1>1, <2>2 DEF ConfirmUndeploy, IInv, ModeOK
    <3>2. Starts(o, 1) \/ Queued(o, 1) \/ Rejected(o, 1)
      BY NumOpsAssumption, LimitAssumption DEF Starts, Queued, Rejected, Op
    <3>3. step'[o] \in {"idle", "queued", Waiting, "completed"}
      BY <2>2, <3>2 DEF ConfirmUndeploy
    <3>4. QED
      BY <2>1, <3>1, <3>3, SchedulerForward
  <2>3. CASE Dequeue
    <3>1. queue \in Seq(Op) /\ queue # <<>>
      BY <1>1, <2>3 DEF Dequeue, IInv, SchedulerTypeOK
    <3>2. 1 \in 1 .. Len(queue) /\ Head(queue) = queue[1] /\ Head(queue) \in Op
      BY <3>1
    <3>3. step[Head(queue)] = "queued"
      BY <1>1, <3>2 DEF IInv, QueueOK
    <3>4. o = Head(queue) /\ step'[o] = Waiting
      BY <2>0, <2>1, <2>3, <3>2 DEF Dequeue, GoTo
    <3>5. QED
      BY <2>1, <3>3, <3>4, SchedulerForward
  <2>4. CASE \E p \in Op : DeleteStack(p)
    <3>1. PICK p \in Op : StackStep(p)
      BY <2>4 DEF DeleteStack
    <3>2. step' = [step EXCEPT ![p] = step'[p]]
      BY <2>0, <3>1 DEF StackStep, DependentRejected, DependentsRemain, StackNotFound,
         DependentsCompleted, ExecuteBeforeUndeployHooks, StepThrows, InitiateStackDeletion,
         WaitStackDeleteToComplete, ExecuteAfterUndeployHooks, GoTo, Complete, GoToAfterHooks
    <3>3. o = p
      BY <2>0, <2>1, <3>2
    <3>4. QED
      BY <2>0, <3>1, <3>3, StackStepForward
  <2>5. CASE \/ \E p \in Op : CloudFormationStep(p)
             \/ RejectIgnoreDependencies \/ CancelUndeploy \/ Finish \/ Exited
             \/ UNCHANGED vars
    <3>1. step' = step
      BY <2>5 DEF CloudFormationStep, RejectIgnoreDependencies, CancelUndeploy, Finish,
         Exited, vars, stackVars
    <3>2. QED
      BY <2>1, <3>1
  <2>6. QED
    BY <1>1, <2>2, <2>3, <2>4, <2>5 DEF Next, Scheduler
<1>2. IInv /\ [Next]_vars => [Forward]_vars
  BY <1>1
<1>3. QED
  BY <1>2, InvariantHolds, PTL DEF Spec, OnlyForward
=============================================================================
