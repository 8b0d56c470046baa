---------------------- MODULE DeploymentTargetsProofs ----------------------
(***************************************************************************)
(* Theorems about DeploymentTargets: the execution of a command over       *)
(* targets, for any number of groups, targets, config sets, command paths  *)
(* and slots.  That its plan lists each target once, and is the one the    *)
(* files and the options ask for, is shown in TargetSelectionProofs.       *)
(***************************************************************************)
EXTENDS TargetSelectionProofs

StepNames == {"planned", "queued", "next", "running", "returned", "completed"}

ExecTypeOK ==
    /\ phase \in {"plan", "confirm", "execute", "reduce", "done"}
    /\ autoConfirm \in BOOLEAN
    /\ limit \in Nat \ {0}
    /\ limit <= command.concurrentTargets
    /\ command.concurrentTargets \in Nat
    /\ group \in 0 .. Len(plan)
    /\ step \in [Target -> StepNames]
    /\ results \in [Target -> Seq(Seq(Outputs))]
    /\ failed \in BOOLEAN
    /\ completed \in Seq(Target)
    /\ reduced \in Seq(Target)
    /\ output \in {NoOutput, Error} \union Outputs

(* The groups begin one after another.  Before the execution begins, none  *)
(* has; after it, all have completed or the command has ended.             *)
PhaseOK ==
    /\ phase \in {"plan", "confirm"} => group = 0
    /\ phase = "reduce" => GroupCompleted /\ group = Len(plan)
    /\ phase \notin {"done"} => reduced = <<>>

(* Only targets of the groups begun are not just planned; those that stay  *)
(* so are the last of their group; and the targets of the groups before    *)
(* the current one have completed.                                         *)
GroupsOK ==
    /\ \A t \in Target :
          step[t] # "planned" => \E i \in DOMAIN plan : i <= group /\ t \in TargetsOf(i)
    /\ \A i \in DOMAIN plan : \A m, n \in DOMAIN plan[i].targets :
          m < n /\ step[plan[i].targets[m]] = "planned" => step[plan[i].targets[n]] = "planned"
    /\ \A i \in DOMAIN plan : i < group =>
          \A t \in TargetsOf(i) : step[t] = "completed"

(* The targets of a group begin in order; one at a time, each after those  *)
(* before it have completed.                                               *)
GroupOrderOK ==
    \A i \in DOMAIN plan : \A m, n \in DOMAIN plan[i].targets :
        m < n /\ Begun(plan[i].targets[n]) =>
            /\ Begun(plan[i].targets[m])
            /\ limit = 1 => step[plan[i].targets[m]] = "completed"

(* A target executes, or has executed, a command path of a config set.     *)
CursorOK ==
    \A t \in Target : step[t] \in {"running", "returned"} => Len(results[t]) # 0

(* A plan that is executed while the user may be asked is executed one     *)
(* target at a time.                                                       *)
ReviewsOK ==
    ~autoConfirm /\ command.kind # "run" /\ (phase = "execute" \/ group # 0) => limit = 1

SlotsOK == Cardinality(InProgress) <= limit

OrderInv ==
    /\ ExecTypeOK
    /\ PhaseOK
    /\ GroupsOK
    /\ GroupOrderOK
    /\ CursorOK
    /\ ReviewsOK
    /\ SlotsOK

-----------------------------------------------------------------------------
(* The results of a target after one more of them. *)
LEMMA ResultAppended ==
    ASSUME ExecTypeOK, NEW t \in Target, NEW result \in Outputs, ResultOfPath(t, result),
           Len(results[t]) # 0
    PROVE  /\ step' \in [Target -> StepNames]
           /\ results' \in [Target -> Seq(Seq(Outputs))]
           /\ step'[t] = "returned"
           /\ \A u \in Target \ {t} : step'[u] = step[u] /\ results'[u] = results[u]
           /\ Len(results'[t]) = Len(results[t])
           /\ \A i \in 1 .. Len(results[t]) :
                 results'[t][i] = IF i = Len(results[t]) THEN Append(results[t][i], result)
                                  ELSE results[t][i]
<1> DEFINE n == Len(results[t])
           new == [results[t] EXCEPT ![n] = Append(@, result)]
<1>1. results[t] \in Seq(Seq(Outputs)) /\ n \in 1 .. n /\ n \in Nat
  BY DEF ExecTypeOK
<1>2. results[t][n] \in Seq(Outputs)
  BY <1>1
<1>3. Append(results[t][n], result) \in Seq(Outputs)
  BY <1>2
<1>4. /\ new \in Seq(Seq(Outputs)) /\ Len(new) = n
      /\ \A i \in 1 .. n : new[i] = IF i = n THEN Append(results[t][i], result) ELSE results[t][i]
  BY <1>1, <1>3
<1>5. results' = [results EXCEPT ![t] = new]
  BY DEF ResultOfPath
<1>6. step' = [step EXCEPT ![t] = "returned"]
  BY DEF ResultOfPath
<1> HIDE DEF new
<1>7. QED
  BY <1>4, <1>5, <1>6 DEF ExecTypeOK, StepNames

LEMMA ConfigSetBegun ==
    ASSUME ExecTypeOK, NEW t \in Target, BeginConfigSet(t)
    PROVE  /\ results' \in [Target -> Seq(Seq(Outputs))]
           /\ \A u \in Target \ {t} : results'[u] = results[u]
           /\ Len(results'[t]) = Len(results[t]) + 1
           /\ results'[t][Len(results[t]) + 1] = <<>>
           /\ \A i \in 1 .. Len(results[t]) : results'[t][i] = results[t][i]
<1>1. results[t] \in Seq(Seq(Outputs)) /\ results' = [results EXCEPT ![t] = Append(@, <<>>)]
  BY DEF ExecTypeOK, BeginConfigSet
<1>2. <<>> \in Seq(Outputs)
  OBVIOUS
<1>3. QED
  BY <1>1, <1>2 DEF ExecTypeOK

LEMMA NestedResultsAreOutputs == NestedResults \subseteq Outputs
  BY DEF NestedResults, Outputs

(* Where targets are in the plan. *)
LEMMA TargetsOfPlan ==
    ASSUME PlanOK
    PROVE  /\ Len(plan) \in Nat /\ DOMAIN plan = 1 .. Len(plan)
           /\ \A i \in DOMAIN plan :
                 /\ plan[i].targets \in Seq(Target)
                 /\ TargetsOf(i) \subseteq Target
                 /\ \A t : t \in TargetsOf(i) <=>
                              \E m \in DOMAIN plan[i].targets : plan[i].targets[m] = t
           /\ \A i, j \in DOMAIN plan : \A t : t \in TargetsOf(i) /\ t \in TargetsOf(j) => i = j
           /\ \A i, j \in DOMAIN plan :
                 \A m \in DOMAIN plan[i].targets, n \in DOMAIN plan[j].targets :
                     plan[i].targets[m] = plan[j].targets[n] => i = j /\ m = n
           /\ Planned \subseteq Target
<1>1. Len(plan) \in Nat /\ DOMAIN plan = 1 .. Len(plan)
  BY DEF PlanOK
<1>2. ASSUME NEW i \in DOMAIN plan
      PROVE  /\ plan[i].targets \in Seq(Target)
             /\ TargetsOf(i) \subseteq Target
             /\ \A t : t \in TargetsOf(i) <=>
                          \E m \in DOMAIN plan[i].targets : plan[i].targets[m] = t
  <2> DEFINE Entries == [group : Group, targets : Seq(Target)]
  <2>0. plan \in Seq(Entries)
    BY DEF PlanOK
  <2> HIDE DEF Entries
  <2>1. plan[i] \in Entries
    BY <1>1, <1>2, <2>0
  <2> USE DEF Entries
  <2>2. plan[i].targets \in Seq(Target)
    BY <2>1
  <2>3. \A t : t \in TargetsOf(i) <=> \E m \in DOMAIN plan[i].targets : plan[i].targets[m] = t
    BY DEF TargetsOf, ToSet
  <2>4. \A m \in DOMAIN plan[i].targets : plan[i].targets[m] \in Target
    BY <2>2
  <2>5. QED
    BY <2>2, <2>3, <2>4
<1>3. \A i, j \in DOMAIN plan :
         \A m \in DOMAIN plan[i].targets, n \in DOMAIN plan[j].targets :
             plan[i].targets[m] = plan[j].targets[n] => i = j /\ m = n
  BY DEF PlanOK
<1>4. ASSUME NEW i \in DOMAIN plan, NEW j \in DOMAIN plan, NEW t,
             t \in TargetsOf(i), t \in TargetsOf(j)
      PROVE  i = j
  <2>1. PICK m \in DOMAIN plan[i].targets : plan[i].targets[m] = t
    BY <1>2, <1>4, Zenon
  <2>2. PICK n \in DOMAIN plan[j].targets : plan[j].targets[n] = t
    BY <1>2, <1>4, Zenon
  <2>3. QED
    BY <1>3, <2>1, <2>2, Zenon
<1>5. Planned \subseteq Target
  BY <1>2 DEF Planned
<1>6. QED
  BY <1>1, <1>2, <1>3, <1>4, <1>5

(* The targets the bulkhead has a place for are the first ones. *)
LEMMA AdmittedOfPlan ==
    ASSUME PlanOK, NEW g \in DOMAIN plan
    PROVE  /\ Admitted(g) \subseteq TargetsOf(g)
           /\ limit \in Nat =>
                 \A i \in DOMAIN plan : \A m, n \in DOMAIN plan[i].targets :
                    m < n /\ plan[i].targets[n] \in Admitted(g) => plan[i].targets[m] \in Admitted(g)
<1>1. Admitted(g) \subseteq TargetsOf(g)
  BY TargetsOfPlan DEF Admitted
<1>2. ASSUME limit \in Nat, NEW i \in DOMAIN plan, NEW m \in DOMAIN plan[i].targets,
             NEW n \in DOMAIN plan[i].targets, m < n, plan[i].targets[n] \in Admitted(g)
      PROVE  plan[i].targets[m] \in Admitted(g)
  <2>1. PICK k \in DOMAIN plan[g].targets \intersect (1 .. limit + QueueCapacity) :
            plan[i].targets[n] = plan[g].targets[k]
    BY <1>2 DEF Admitted
  <2>2. i = g /\ n = k
    BY <1>2, <2>1 DEF PlanOK
  <2>3. plan[i].targets \in Seq(Target) /\ limit + QueueCapacity \in Nat
    BY <1>2, TargetsOfPlan, InputsAssumption
  <2>4. m \in 1 .. limit + QueueCapacity
    BY <1>2, <2>1, <2>2, <2>3
  <2>5. QED
    BY <1>2, <2>2, <2>4 DEF Admitted
<1>3. QED
  BY <1>1, <1>2

LEMMA InProgressFinite ==
    ASSUME ExecTypeOK
    PROVE  IsFiniteSet(InProgress) /\ Cardinality(InProgress) \in Nat
<1>1. IsFiniteSet(Target)
  BY InputsAssumption, FS_Interval DEF Target
<1>2. InProgress \subseteq Target
  BY DEF InProgress
<1>3. QED
  BY <1>1, <1>2, FS_Subset, FS_CardinalityType

-----------------------------------------------------------------------------
(* What a step of target t does. *)
TargetFrame(t) ==
    /\ ExecTypeOK'
    /\ phase = "execute"
    /\ UNCHANGED <<inputVars, phase, autoConfirm, limit, group, reduced, output>>
    /\ \A u \in Target \ {t} : step'[u] = step[u] /\ results'[u] = results[u]
    /\ \/ step[t] = "queued" /\ step'[t] = "next" /\ BeginTarget(t)
       \/ step[t] \in {"next", "running", "returned"} /\ step'[t] \in {"next", "running", "returned"}
       \/ step[t] = "next" /\ step'[t] = "completed"
    /\ step'[t] \in {"running", "returned"} => Len(results'[t]) # 0
    /\ IF step'[t] = "completed" THEN completed' = Append(completed, t)
                                 ELSE completed' = completed

LEMMA TargetStepFrame ==
    ASSUME ExecTypeOK, CursorOK, NEW t \in Target, TargetStep(t)
    PROVE  TargetFrame(t)
<1> USE DEF TargetFrame
<1>0. /\ step \in [Target -> StepNames] /\ results \in [Target -> Seq(Seq(Outputs))]
      /\ failed \in BOOLEAN /\ completed \in Seq(Target)
  BY DEF ExecTypeOK
<1>a. ASSUME UNCHANGED <<inputVars, phase, autoConfirm, limit, group, reduced, output>>,
             step' \in [Target -> StepNames], results' \in [Target -> Seq(Seq(Outputs))],
             failed' \in BOOLEAN, completed' \in Seq(Target)
      PROVE  ExecTypeOK'
  BY <1>a DEF ExecTypeOK, inputVars
<1>1. CASE BeginTarget(t)
  <2>1. /\ step' = [step EXCEPT ![t] = "next"] /\ phase = "execute" /\ step[t] = "queued"
        /\ UNCHANGED <<inputVars, phase, autoConfirm, limit, group, results, failed,
                       completed, reduced, output>>
    BY <1>1 DEF BeginTarget
  <2>2. step' \in [Target -> StepNames]
    BY <1>0, <2>1 DEF StepNames
  <2>3. QED
    BY <1>0, <1>1, <1>a, <2>1, <2>2
<1>2. CASE BeginConfigSet(t)
  <2>1. /\ phase = "execute" /\ step[t] = "next"
        /\ UNCHANGED <<inputVars, phase, autoConfirm, limit, group, step, failed, completed,
                       reduced, output>>
    BY <1>2 DEF BeginConfigSet
  <2>2. QED
    BY <1>0, <1>2, <1>a, <2>1, ConfigSetBegun
<1>3. ASSUME NEW result \in Outputs, ResultOfPath(t, result), Len(results[t]) # 0,
             phase = "execute", step[t] \in {"next", "running"},
             UNCHANGED <<inputVars, phase, autoConfirm, limit, group, failed, completed,
                         reduced, output>>
      PROVE  TargetFrame(t)
  <2>1. /\ step' \in [Target -> StepNames] /\ results' \in [Target -> Seq(Seq(Outputs))]
        /\ step'[t] = "returned"
        /\ \A u \in Target \ {t} : step'[u] = step[u] /\ results'[u] = results[u]
    BY <1>3, ResultAppended
  <2>2. Len(results'[t]) # 0
    BY <1>3, ResultAppended
  <2>3. QED
    BY <1>0, <1>3, <1>a, <2>1, <2>2
<1>4. CASE CancelCommandPath(t)
  <2>1. Cancelled \in Outputs /\ Len(results[t]) # 0
    BY <1>4 DEF Outputs, CancelCommandPath, PathsLeft
  <2>2. QED
    BY <1>3, <1>4, <2>1 DEF CancelCommandPath
<1>5. CASE ExecuteCommandPath(t)
  <2>1. /\ step' = [step EXCEPT ![t] = "running"] /\ phase = "execute" /\ step[t] = "next"
        /\ UNCHANGED <<inputVars, phase, autoConfirm, limit, group, results, failed,
                       completed, reduced, output>>
    BY <1>5 DEF ExecuteCommandPath
  <2>2. step' \in [Target -> StepNames]
    BY <1>0, <2>1 DEF StepNames
  <2>3. Len(results'[t]) # 0
    BY <1>5, <2>1 DEF ExecuteCommandPath, PathsLeft
  <2>4. QED
    BY <1>0, <1>a, <2>1, <2>2, <2>3
<1>6. CASE CommandPathReturns(t)
  <2>1. PICK result \in NestedResults : ResultOfPath(t, result)
    BY <1>6 DEF CommandPathReturns
  <2>2. result \in Outputs
    BY <2>1, NestedResultsAreOutputs
  <2>3. Len(results[t]) # 0
    BY <1>6 DEF CommandPathReturns, CursorOK
  <2>4. QED
    BY <1>3, <1>6, <2>1, <2>2, <2>3 DEF CommandPathReturns
<1>7. CASE RecordResult(t)
  <2>1. /\ step' = [step EXCEPT ![t] = "next"] /\ phase = "execute" /\ step[t] = "returned"
        /\ UNCHANGED <<inputVars, phase, autoConfirm, limit, group, results,
                       completed, reduced, output>>
    BY <1>7 DEF RecordResult
  <2>2. step' \in [Target -> StepNames]
    BY <1>0, <2>1 DEF StepNames
  <2>3. failed' \in BOOLEAN
    <3>1. failed' = (failed \/ StopsTargets(Last(Last(results[t]))))
      BY <1>7 DEF RecordResult
    <3>2. QED
      BY <3>1, Zenon
  <2>4. QED
    BY <1>0, <1>a, <2>1, <2>2, <2>3
<1>8. CASE CompleteTarget(t)
  <2>1. /\ step' = [step EXCEPT ![t] = "completed"] /\ phase = "execute" /\ step[t] = "next"
        /\ completed' = Append(completed, t)
        /\ UNCHANGED <<inputVars, phase, autoConfirm, limit, group, results, failed,
                       reduced, output>>
    BY <1>8 DEF CompleteTarget
  <2>2. step' \in [Target -> StepNames]
    BY <1>0, <2>1 DEF StepNames
  <2>3. QED
    BY <1>0, <1>a, <2>1, <2>2
<1>9. QED
  BY <1>1, <1>2, <1>4, <1>5, <1>6, <1>7, <1>8 DEF TargetStep

(* A target that is not just planned is in the current group or an earlier *)
(* one; one that has not completed, in the current one.                    *)
LEMMA CurrentGroup ==
    ASSUME PlanOK, GroupsOK, ExecTypeOK, NEW t \in Target, step[t] \notin {"planned", "completed"}
    PROVE  group \in DOMAIN plan /\ t \in TargetsOf(group)
<1>1. PICK i \in DOMAIN plan : i <= group /\ t \in TargetsOf(i)
  BY DEF GroupsOK
<1>2. ~(i < group)
  BY <1>1 DEF GroupsOK
<1>3. i = group
  BY <1>1, <1>2, TargetsOfPlan DEF ExecTypeOK
<1>4. QED
  BY <1>1, <1>3

(* The target that gets a slot is the first of its group that is queued.   *)
LEMMA FirstQueued ==
    ASSUME PlanOK, GroupsOK, ExecTypeOK, NEW t \in Target, BeginTarget(t)
    PROVE  /\ group \in DOMAIN plan
           /\ \E i \in DOMAIN plan[group].targets :
                 /\ plan[group].targets[i] = t
                 /\ \A j \in 1 .. i - 1 : step[plan[group].targets[j]] # "queued"
<1> DEFINE targets == plan[group].targets
           Waits == {i \in DOMAIN targets : step[targets[i]] = "queued"}
<1>1. step[t] = "queued"
  BY DEF BeginTarget
<1>2. group \in DOMAIN plan /\ t \in TargetsOf(group)
  BY <1>1, CurrentGroup
<1>3. targets \in Seq(Target) /\ \E m \in DOMAIN targets : targets[m] = t
  BY <1>2, TargetsOfPlan
<1>4. Waits \subseteq Nat /\ Waits # {}
  BY <1>1, <1>3
<1>5. PICK first \in Waits : \A i \in Waits : ~(i < first)
  BY <1>4, LeastMember, Zenon
<1>6. \A j \in 1 .. first - 1 : step[targets[j]] # "queued"
  <2>1. \A j \in 1 .. first - 1 : j \in DOMAIN targets /\ j < first
    BY <1>3
  <2>2. QED
    BY <1>5, <2>1
<1>7. \E i \in DOMAIN targets : /\ step[targets[i]] = "queued"
                                /\ \A j \in 1 .. i - 1 : step[targets[j]] # "queued"
  BY <1>6
<1>8. t = targets[CHOOSE i \in DOMAIN targets :
                     /\ step[targets[i]] = "queued"
                     /\ \A j \in 1 .. i - 1 : step[targets[j]] # "queued"]
  BY DEF BeginTarget
<1>9. QED
  BY <1>2, <1>7, <1>8

LEMMA TargetStepOrder ==
    ASSUME PlanOK, OrderInv, NEW t \in Target, TargetStep(t)
    PROVE  OrderInv'
<1>0. /\ ExecTypeOK /\ PhaseOK /\ GroupsOK /\ GroupOrderOK /\ CursorOK /\ ReviewsOK /\ SlotsOK
  BY DEF OrderInv
<1>1. TargetFrame(t)
  BY <1>0, TargetStepFrame
<1>2. /\ ExecTypeOK' /\ phase = "execute" /\ phase' = phase /\ autoConfirm' = autoConfirm
      /\ limit' = limit /\ group' = group /\ reduced' = reduced
      /\ plan' = plan /\ command' = command
      /\ step[t] \notin {"planned", "completed"} /\ step'[t] # "planned"
  BY <1>1 DEF TargetFrame, inputVars
<1>3. \A i : TargetsOf(i)' = TargetsOf(i)
  BY <1>2 DEF TargetsOf
<1>4. PhaseOK'
  BY <1>0, <1>2 DEF PhaseOK
<1>5. GroupsOK'
  <2>1. \A u \in Target : step'[u] # "planned" <=> step[u] # "planned"
    BY <1>1, <1>2 DEF TargetFrame
  <2>2. \A u \in Target : step[u] = "completed" => step'[u] = "completed"
    BY <1>1, <1>2 DEF TargetFrame
  <2>3. \A i \in DOMAIN plan : TargetsOf(i) \subseteq Target
    BY TargetsOfPlan
  <2>4. \A i \in DOMAIN plan : \A m \in DOMAIN plan[i].targets : plan[i].targets[m] \in Target
    BY TargetsOfPlan
  <2>5. \A i \in DOMAIN plan : \A m, n \in DOMAIN plan[i].targets :
          m < n /\ step'[plan[i].targets[m]] = "planned" => step'[plan[i].targets[n]] = "planned"
    BY <1>0, <2>1, <2>4 DEF GroupsOK
  <2>6. QED
    BY <1>0, <1>2, <1>3, <2>1, <2>2, <2>3, <2>5 DEF GroupsOK
<1>6. GroupOrderOK'
  <2>1. SUFFICES ASSUME NEW i \in DOMAIN plan, NEW m \in DOMAIN plan[i].targets,
                        NEW n \in DOMAIN plan[i].targets, m < n,
                        Begun(plan[i].targets[n])'
                 PROVE  /\ Begun(plan[i].targets[m])'
                        /\ limit = 1 => step'[plan[i].targets[m]] = "completed"
    BY <1>2 DEF GroupOrderOK, Begun
  <2> DEFINE u == plan[i].targets[m]
             v == plan[i].targets[n]
  <2>2. u \in Target /\ v \in Target /\ u # v /\ m \in Nat /\ n \in Nat
    <3>1. plan[i].targets \in Seq(Target)
      BY TargetsOfPlan
    <3>2. u \in Target /\ v \in Target /\ m \in Nat /\ n \in Nat
      BY <3>1
    <3>3. u # v
      BY <2>1, <3>2, TargetsOfPlan
    <3>4. QED
      BY <3>2, <3>3
  <2>3. Begun(u) => Begun(u)'
    BY <1>1, <1>2, <2>2 DEF TargetFrame, Begun
  <2>4. step[u] = "completed" => step'[u] = "completed"
    BY <1>1, <1>2, <2>2 DEF TargetFrame
  <2>5. CASE Begun(v)
    BY <1>0, <2>1, <2>3, <2>4, <2>5 DEF GroupOrderOK
  <2>6. CASE ~Begun(v)
    <3>1. v = t /\ BeginTarget(t) /\ step[t] = "queued"
      <4>1. step'[v] \notin {"planned", "queued"} /\ step[v] \in {"planned", "queued"}
        BY <1>2, <2>1, <2>6 DEF Begun
      <4>2. v = t
        BY <1>1, <2>2, <4>1 DEF TargetFrame
      <4>3. QED
        BY <1>1, <4>1, <4>2 DEF TargetFrame
    <3>2. PICK k \in DOMAIN plan[group].targets :
              /\ plan[group].targets[k] = t
              /\ \A j \in 1 .. k - 1 : step[plan[group].targets[j]] # "queued"
      BY <1>0, <3>1, FirstQueued
    <3>3. group \in DOMAIN plan
      BY <1>0, <3>1, FirstQueued
    <3>4. i = group /\ k = n
      BY <3>1, <3>2, <3>3, TargetsOfPlan
    <3>5. m \in 1 .. k - 1
      <4>1. plan[i].targets \in Seq(Target)
        BY TargetsOfPlan
      <4>2. QED
        BY <2>1, <2>2, <3>4, <4>1
    <3>6. step[u] # "queued"
      BY <3>2, <3>4, <3>5
    <3>7. step[u] # "planned"
      BY <1>0, <2>1, <3>1 DEF GroupsOK
    <3>8. Begun(u)
      BY <3>6, <3>7 DEF Begun
    <3>9. ASSUME limit = 1 PROVE step[u] = "completed"
      <4>1. Cardinality(InProgress) < 1
        BY <3>1, <3>9 DEF BeginTarget
      <4>2. InProgress = {}
        <5>1. Cardinality(InProgress) \in Nat /\ IsFiniteSet(InProgress)
          BY <1>0, InProgressFinite
        <5>2. Cardinality(InProgress) = 0
          BY <4>1, <5>1
        <5>3. QED
          BY <5>1, <5>2, FS_EmptySet
      <4>3. u \notin InProgress /\ step[u] \in StepNames
        BY <1>0, <2>2, <4>2 DEF ExecTypeOK
      <4>4. QED
        BY <2>2, <3>6, <3>7, <4>3 DEF InProgress, StepNames
    <3>10. QED
      BY <2>3, <2>4, <3>8, <3>9
  <2>7. QED
    BY <2>5, <2>6
<1>7. CursorOK'
  BY <1>0, <1>1 DEF CursorOK, TargetFrame
<1>8. ReviewsOK'
  BY <1>0, <1>2 DEF ReviewsOK
<1>9. SlotsOK'
  <2>1. IsFiniteSet(InProgress) /\ Cardinality(InProgress) \in Nat /\ limit \in Nat
    BY <1>0, InProgressFinite DEF ExecTypeOK
  <2>2. CASE BeginTarget(t) /\ step[t] = "queued"
    <3>1. InProgress' \subseteq InProgress \union {t}
      BY <1>1 DEF TargetFrame, InProgress
    <3>2. /\ IsFiniteSet(InProgress \union {t})
          /\ Cardinality(InProgress \union {t}) \in {Cardinality(InProgress), Cardinality(InProgress) + 1}
      BY <2>1, FS_AddElement
    <3>3. Cardinality(InProgress') <= Cardinality(InProgress \union {t})
      BY <3>1, <3>2, FS_Subset
    <3>4. Cardinality(InProgress') \in Nat
      BY <3>1, <3>2, FS_Subset, FS_CardinalityType
    <3>5. Cardinality(InProgress) < limit
      BY <2>2 DEF BeginTarget
    <3>6. Cardinality(InProgress') <= limit
      BY <2>1, <3>2, <3>3, <3>4, <3>5
    <3>7. QED
      BY <1>2, <3>6 DEF SlotsOK
  <2>3. CASE step[t] \in {"next", "running", "returned"}
    <3>1. InProgress' \subseteq InProgress
      BY <1>1, <2>3 DEF TargetFrame, InProgress
    <3>2. Cardinality(InProgress') <= Cardinality(InProgress) /\ Cardinality(InProgress') \in Nat
      BY <2>1, <3>1, FS_Subset, FS_CardinalityType
    <3>3. QED
      BY <1>0, <1>2, <2>1, <3>2 DEF SlotsOK
  <2>4. QED
    BY <1>1, <2>2, <2>3 DEF TargetFrame
<1>10. QED
  BY <1>2, <1>4, <1>5, <1>6, <1>7, <1>8, <1>9 DEF OrderInv

-----------------------------------------------------------------------------
(* resolveCommandOutputBase: its result is one of the outputs; a success   *)
(* just when all its items are, and cancelled only when all of them are.   *)
LEMMA ResolvedOutputIs ==
    ASSUME NEW items \in SUBSET Outputs
    PROVE  /\ ResolvedOutput(items) \in Outputs
           /\ ResolvedOutput(items).success <=> \A item \in items : item.success
           /\ ResolvedOutput(items) \in {Cancelled, Declined} => items \subseteq {Cancelled, Declined}
           /\ ResolvedOutput(items) = Failed => \E item \in items : ~item.success
<1> DEFINE statuses == {item.status : item \in items}
           success == \A item \in items : item.success
           status == CASE statuses = {"CANCELLED"} -> "CANCELLED"
                       [] statuses = {"SKIPPED"} -> "SKIPPED"
                       [] OTHER -> IF success THEN "SUCCESS" ELSE "FAILED"
<1>1. ResolvedOutput(items) = [success |-> success, status |-> status]
  BY DEF ResolvedOutput
<1>2. CASE statuses = {"CANCELLED"}
  <2>1. status = "CANCELLED"
    BY <1>2
  <2>2. \A item \in items : item.status = "CANCELLED"
    BY <1>2
  <2>3. items \subseteq {Cancelled, Declined}
    BY <2>2 DEF Outputs, Success, Skipped, Failed, Cancelled, Declined
  <2>4. CASE success
    <3>1. ResolvedOutput(items) = Declined
      BY <1>1, <2>1, <2>4 DEF Declined
    <3>2. QED
      BY <2>3, <2>4, <3>1 DEF Outputs, Declined, Failed, Cancelled
  <2>5. CASE ~success
    <3>1. ResolvedOutput(items) = Cancelled
      BY <1>1, <2>1, <2>5 DEF Cancelled
    <3>2. QED
      BY <2>3, <2>5, <3>1 DEF Outputs, Declined, Failed, Cancelled
  <2>6. QED
    BY <2>4, <2>5
<1>3. CASE statuses = {"SKIPPED"} /\ statuses # {"CANCELLED"}
  <2>1. status = "SKIPPED"
    BY <1>3
  <2>2. \A item \in items : item.status = "SKIPPED"
    BY <1>3
  <2>3. success
    BY <2>2 DEF Outputs, Success, Skipped, Failed, Cancelled, Declined
  <2>4. ResolvedOutput(items) = Skipped
    BY <1>1, <2>1, <2>3 DEF Skipped
  <2>5. QED
    BY <2>3, <2>4 DEF Outputs, Skipped, Cancelled, Declined, Failed
<1>4. CASE statuses # {"CANCELLED"} /\ statuses # {"SKIPPED"}
  <2>1. status = IF success THEN "SUCCESS" ELSE "FAILED"
    BY <1>4
  <2>2. CASE success
    <3>1. ResolvedOutput(items) = Success
      BY <1>1, <2>1, <2>2 DEF Success
    <3>2. QED
      BY <2>2, <3>1 DEF Outputs, Success, Cancelled, Declined, Failed
  <2>3. CASE ~success
    <3>1. ResolvedOutput(items) = Failed
      BY <1>1, <2>1, <2>3 DEF Failed
    <3>2. QED
      BY <2>3, <3>1 DEF Outputs, Failed, Cancelled, Declined
  <2>4. QED
    BY <2>2, <2>3
<1>5. QED
  BY <1>2, <1>3, <1>4

(* The same of the results of targets, groups and the whole command, in    *)
(* terms of the results of the command paths.                              *)
LEMMA TargetResultIs ==
    ASSUME ExecTypeOK, NEW t \in Target
    PROVE  /\ PathResults(t) \subseteq Outputs
           /\ TargetResult(t) \in Outputs
           /\ TargetResult(t).success <=> \A result \in PathResults(t) : result.success
           /\ TargetResult(t) \in {Cancelled, Declined} => PathResults(t) \subseteq {Cancelled, Declined}
<1> DEFINE items == {ConfigSetResult(t, i) : i \in DOMAIN results[t]}
<1>1. results[t] \in Seq(Seq(Outputs))
  BY DEF ExecTypeOK
<1>2. ASSUME NEW i \in DOMAIN results[t] PROVE ToSet(results[t][i]) \subseteq Outputs
  <2>1. results[t][i] \in Seq(Outputs)
    BY <1>1
  <2>2. QED
    BY <2>1 DEF ToSet
<1>3. ASSUME NEW i \in DOMAIN results[t]
      PROVE  /\ ConfigSetResult(t, i) \in Outputs
             /\ ConfigSetResult(t, i).success <=> \A result \in ToSet(results[t][i]) : result.success
             /\ ConfigSetResult(t, i) \in {Cancelled, Declined} =>
                   ToSet(results[t][i]) \subseteq {Cancelled, Declined}
  BY <1>2, ResolvedOutputIs DEF ConfigSetResult
<1>4. items \in SUBSET Outputs /\ TargetResult(t) = ResolvedOutput(items)
  BY <1>3 DEF TargetResult
<1>5. TargetResult(t).success <=> \A i \in DOMAIN results[t] : ConfigSetResult(t, i).success
  <2>1. TargetResult(t).success <=> \A item \in items : item.success
    BY <1>4, ResolvedOutputIs
  <2>2. QED
    BY <2>1
<1>6. TargetResult(t) \in {Cancelled, Declined} =>
         \A i \in DOMAIN results[t] : ConfigSetResult(t, i) \in {Cancelled, Declined}
  <2>1. TargetResult(t) \in {Cancelled, Declined} => items \subseteq {Cancelled, Declined}
    BY <1>4, ResolvedOutputIs
  <2>2. QED
    BY <2>1
<1>7. TargetResult(t) \in Outputs
  BY <1>4, ResolvedOutputIs
<1> HIDE DEF items
<1>8. QED
  BY <1>2, <1>3, <1>5, <1>6, <1>7 DEF PathResults

LEMMA OverallResultIs ==
    ASSUME PlanOK, ExecTypeOK
    PROVE  /\ OverallResult \in Outputs
           /\ OverallResult.success <=>
                 \A t \in Planned : \A result \in PathResults(t) : result.success
           /\ OverallResult \in {Cancelled, Declined} =>
                 \A t \in Planned : PathResults(t) \subseteq {Cancelled, Declined}
           /\ OverallResult = Failed =>
                 \E t \in Planned : \E result \in PathResults(t) : ~result.success
<1> DEFINE items == {GroupResult(i) : i \in DOMAIN plan}
<1>1. ASSUME NEW i \in DOMAIN plan
      PROVE  /\ GroupResult(i) \in Outputs
             /\ GroupResult(i).success <=> \A t \in TargetsOf(i) : TargetResult(t).success
             /\ GroupResult(i) \in {Cancelled, Declined} =>
                   \A t \in TargetsOf(i) : TargetResult(t) \in {Cancelled, Declined}
  <2> DEFINE parts == {TargetResult(t) : t \in TargetsOf(i)}
  <2>1. TargetsOf(i) \subseteq Target
    BY <1>1, TargetsOfPlan
  <2>2. parts \in SUBSET Outputs /\ GroupResult(i) = ResolvedOutput(parts)
    BY <2>1, TargetResultIs DEF GroupResult
  <2>3. GroupResult(i).success <=> \A part \in parts : part.success
    BY <2>2, ResolvedOutputIs
  <2>4. GroupResult(i) \in {Cancelled, Declined} => parts \subseteq {Cancelled, Declined}
    BY <2>2, ResolvedOutputIs
  <2>5. GroupResult(i) \in Outputs
    BY <2>2, ResolvedOutputIs
  <2>6. QED
    BY <2>3, <2>4, <2>5
<1>2. items \in SUBSET Outputs /\ OverallResult = ResolvedOutput(items)
  BY <1>1 DEF OverallResult
<1>3. OverallResult \in Outputs
  BY <1>2, ResolvedOutputIs
<1>4. OverallResult.success <=> \A i \in DOMAIN plan : GroupResult(i).success
  <2>1. OverallResult.success <=> \A item \in items : item.success
    BY <1>2, ResolvedOutputIs
  <2>2. QED
    BY <2>1
<1>5. OverallResult \in {Cancelled, Declined} =>
         \A i \in DOMAIN plan : GroupResult(i) \in {Cancelled, Declined}
  <2>1. OverallResult \in {Cancelled, Declined} => items \subseteq {Cancelled, Declined}
    BY <1>2, ResolvedOutputIs
  <2>2. QED
    BY <2>1
<1> HIDE DEF items
<1>6. \A t : t \in Planned <=> \E i \in DOMAIN plan : t \in TargetsOf(i)
  BY DEF Planned
<1>7. \A t \in Planned : t \in Target
  BY TargetsOfPlan
<1>8. OverallResult.success <=> \A t \in Planned : TargetResult(t).success
  BY <1>1, <1>4, <1>6
<1>9. OverallResult.success <=> \A t \in Planned : \A result \in PathResults(t) : result.success
  BY <1>7, <1>8, TargetResultIs
<1>10. OverallResult \in {Cancelled, Declined} =>
          \A t \in Planned : PathResults(t) \subseteq {Cancelled, Declined}
  BY <1>1, <1>5, <1>6, <1>7, TargetResultIs
<1>11. OverallResult = Failed => ~OverallResult.success
  BY DEF Failed
<1>12. QED
  BY <1>3, <1>9, <1>10, <1>11

(* The steps that touch no target, and shrink the limit only before any    *)
(* has begun.                                                              *)
LEMMA TargetsStandStill ==
    ASSUME PlanOK, OrderInv, UNCHANGED <<inputVars, group, targetVars>>,
           limit' = limit \/ (group = 0 /\ limit' = 1),
           ExecTypeOK', PhaseOK', ReviewsOK'
    PROVE  OrderInv'
<1>0. /\ ExecTypeOK /\ GroupsOK /\ GroupOrderOK /\ CursorOK /\ SlotsOK
      /\ plan' = plan /\ command' = command /\ group' = group /\ step' = step
      /\ results' = results
  BY DEF OrderInv, inputVars, targetVars
<1>1. \A i : TargetsOf(i)' = TargetsOf(i)
  BY <1>0 DEF TargetsOf
<1>2. GroupsOK' /\ CursorOK'
  BY <1>0, <1>1 DEF GroupsOK, CursorOK
<1>3. group = 0 => \A t \in Target : step[t] = "planned"
  BY <1>0, TargetsOfPlan DEF GroupsOK
<1>4. GroupOrderOK'
  <2>1. CASE limit' = limit
    BY <1>0, <2>1 DEF GroupOrderOK, Begun
  <2>2. CASE group = 0
    <3>1. \A i \in DOMAIN plan : \A n \in DOMAIN plan[i].targets : ~Begun(plan[i].targets[n])
      BY <1>3, <2>2, TargetsOfPlan DEF Begun
    <3>2. QED
      BY <1>0, <3>1 DEF GroupOrderOK, Begun
  <2>3. QED
    BY <2>1, <2>2
<1>5. SlotsOK'
  <2>1. InProgress' = InProgress
    BY <1>0 DEF InProgress
  <2>2. CASE limit' = limit
    BY <1>0, <2>1, <2>2 DEF SlotsOK
  <2>3. CASE group = 0 /\ limit' = 1
    <3>1. InProgress = {}
      BY <1>3, <2>3 DEF InProgress
    <3>2. Cardinality(InProgress) = 0
      BY <3>1, FS_EmptySet
    <3>3. QED
      BY <2>1, <2>3, <3>2 DEF SlotsOK
  <2>4. QED
    BY <2>2, <2>3
<1>6. QED
  BY <1>2, <1>4, <1>5 DEF OrderInv

LEMMA SchedulerOrder ==
    ASSUME PlanOK, OrderInv,
           \/ PlanTargets \/ AutoConfirm \/ CancelOperation \/ ContinueAndReview
           \/ ContinueNoReview \/ RejectGroup \/ FinishTargets \/ Throw \/ Reduce
    PROVE  OrderInv'
<1>0. /\ ExecTypeOK /\ PhaseOK /\ ReviewsOK
  BY DEF OrderInv
<1> USE DEF Finish, inputVars, targetVars
<1>1. /\ {Success, Skipped, Failed, Cancelled, Declined, Error} \subseteq {NoOutput, Error} \union Outputs
      /\ OverallResult \in Outputs
  BY <1>0, OverallResultIs DEF Outputs
<1>2. ASSUME UNCHANGED <<inputVars, group, targetVars>>,
             limit' = limit \/ (group = 0 /\ limit' = 1),
             phase' \in {"plan", "confirm", "execute", "reduce", "done"},
             autoConfirm' \in BOOLEAN, reduced' \in Seq(Target),
             output' \in {NoOutput, Error} \union Outputs
      PROVE  ExecTypeOK'
  BY <1>0, <1>2 DEF ExecTypeOK
<1>3. CASE PlanTargets
  <2>1. /\ phase = "plan" /\ phase' \in {"confirm", "done"}
        /\ output' \in {output, Error, Skipped}
        /\ UNCHANGED <<inputVars, autoConfirm, limit, group, targetVars, reduced>>
    BY <1>3 DEF PlanTargets
  <2>2. ExecTypeOK'
    BY <1>0, <1>1, <1>2, <2>1 DEF ExecTypeOK
  <2>3. PhaseOK' /\ ReviewsOK'
    BY <1>0, <2>1 DEF PhaseOK, ReviewsOK
  <2>4. QED
    BY <2>1, <2>2, <2>3, TargetsStandStill
<1>4. CASE AutoConfirm \/ ContinueNoReview \/ ContinueAndReview
  <2>1. /\ phase = "confirm" /\ phase' = "execute" /\ group = 0
        /\ UNCHANGED <<inputVars, group, targetVars, reduced, output>>
        /\ limit' \in {limit, 1}
    BY <1>0, <1>4 DEF AutoConfirm, ContinueNoReview, ContinueAndReview, PhaseOK
  <2>2. autoConfirm' \in BOOLEAN
    <3>1. CASE AutoConfirm \/ ContinueAndReview
      BY <1>0, <3>1 DEF AutoConfirm, ContinueAndReview, ExecTypeOK
    <3>2. CASE ContinueNoReview
      BY <3>2 DEF ContinueNoReview
    <3>3. QED
      BY <1>4, <3>1, <3>2
  <2>3. ExecTypeOK'
    BY <1>0, <1>2, <2>1, <2>2 DEF ExecTypeOK
  <2>4. PhaseOK'
    BY <1>0, <2>1 DEF PhaseOK
  <2>5. ReviewsOK'
    <3>1. CASE AutoConfirm
      BY <3>1 DEF AutoConfirm, ReviewsOK
    <3>2. CASE ContinueNoReview
      BY <3>2 DEF ContinueNoReview, ReviewsOK
    <3>3. CASE ContinueAndReview
      BY <3>3 DEF ContinueAndReview, ReviewsOK
    <3>4. QED
      BY <1>4, <3>1, <3>2, <3>3
  <2>6. QED
    BY <2>1, <2>3, <2>4, <2>5, TargetsStandStill
<1>5. CASE CancelOperation \/ RejectGroup \/ Throw \/ Reduce
  <2>1. /\ phase' = "done" /\ output' \in Outputs \union {Error}
        /\ UNCHANGED <<inputVars, autoConfirm, limit, group, targetVars>>
        /\ reduced' \in {reduced, completed}
    <3>1. CASE CancelOperation
      BY <1>1, <3>1 DEF CancelOperation, Outputs
    <3>2. CASE RejectGroup \/ Throw
      BY <3>2 DEF RejectGroup, Throw
    <3>3. CASE Reduce
      BY <1>1, <3>3 DEF Reduce, Outputs
    <3>4. QED
      BY <1>5, <3>1, <3>2, <3>3
  <2>2. ExecTypeOK'
    BY <1>0, <1>2, <2>1 DEF ExecTypeOK
  <2>3. PhaseOK' /\ ReviewsOK'
    BY <1>0, <2>1 DEF PhaseOK, ReviewsOK
  <2>4. QED
    BY <2>1, <2>2, <2>3, TargetsStandStill
<1>6. CASE FinishTargets
  <2>1. /\ phase = "execute" /\ phase' \in {"reduce", "done"} /\ GroupCompleted /\ group = Len(plan)
        /\ output' \in {output, OverallResult}
        /\ UNCHANGED <<inputVars, autoConfirm, limit, group, targetVars, reduced>>
    BY <1>6 DEF FinishTargets
  <2>2. ExecTypeOK'
    BY <1>0, <1>1, <1>2, <2>1 DEF ExecTypeOK
  <2>3. GroupCompleted'
    BY <2>1 DEF GroupCompleted, TargetsOf
  <2>4. PhaseOK'
    BY <1>0, <2>1, <2>3 DEF PhaseOK
  <2>5. ReviewsOK'
    BY <1>0, <2>1 DEF ReviewsOK
  <2>6. QED
    BY <2>1, <2>2, <2>4, <2>5, TargetsStandStill
<1>7. QED
  BY <1>3, <1>4, <1>5, <1>6

LEMMA BeginGroupOrder ==
    ASSUME PlanOK, OrderInv, BeginGroup
    PROVE  OrderInv'
<1>0. /\ ExecTypeOK /\ PhaseOK /\ GroupsOK /\ GroupOrderOK /\ CursorOK /\ ReviewsOK /\ SlotsOK
  BY DEF OrderInv
<1>1. /\ phase = "execute" /\ GroupCompleted /\ group < Len(plan)
      /\ group' = group + 1
      /\ step' = [t \in Target |-> IF t \in Admitted(group + 1) THEN "queued" ELSE step[t]]
      /\ plan' = plan /\ command' = command
      /\ UNCHANGED <<phase, autoConfirm, limit, results, failed, completed, reduced, output>>
  BY DEF BeginGroup, inputVars
<1>2. \A i : TargetsOf(i)' = TargetsOf(i)
  BY <1>1 DEF TargetsOf
<1>3. group \in Nat /\ Len(plan) \in Nat /\ DOMAIN plan = 1 .. Len(plan)
      /\ group + 1 \in DOMAIN plan
  BY <1>0, <1>1, TargetsOfPlan DEF ExecTypeOK
<1>4. \A t \in TargetsOf(group + 1) : step[t] = "planned"
  <2>1. \A t \in TargetsOf(group + 1) : t \in Target
    BY <1>3, TargetsOfPlan
  <2>2. \A t \in TargetsOf(group + 1) : \A i \in DOMAIN plan : t \in TargetsOf(i) => i = group + 1
    BY <1>3, TargetsOfPlan
  <2>3. ~(group + 1 <= group)
    BY <1>3
  <2>4. QED
    BY <1>0, <2>1, <2>2, <2>3 DEF GroupsOK
<1>5. ExecTypeOK'
  <2>1. step' \in [Target -> StepNames]
    BY <1>0, <1>1 DEF ExecTypeOK, StepNames
  <2>2. group' \in 0 .. Len(plan')
    BY <1>1, <1>3
  <2>3. QED
    BY <1>0, <1>1, <2>1, <2>2 DEF ExecTypeOK
<1>6. PhaseOK'
  BY <1>0, <1>1 DEF PhaseOK
<1>7. GroupsOK'
  <2>0. Admitted(group + 1) \subseteq TargetsOf(group + 1)
    BY <1>3, AdmittedOfPlan
  <2>1. ASSUME NEW t \in Target, step'[t] # "planned"
        PROVE  \E i \in DOMAIN plan : i <= group + 1 /\ t \in TargetsOf(i)
    <3>1. CASE t \in TargetsOf(group + 1)
      BY <1>3, <3>1
    <3>2. CASE t \notin TargetsOf(group + 1)
      <4>1. step[t] # "planned"
        BY <1>1, <2>0, <2>1, <3>2
      <4>2. PICK i \in DOMAIN plan : i <= group /\ t \in TargetsOf(i)
        BY <1>0, <4>1 DEF GroupsOK
      <4>3. i <= group + 1
        BY <1>3, <4>2
      <4>4. QED
        BY <4>2, <4>3
    <3>3. QED
      BY <3>1, <3>2
  <2>2. ASSUME NEW i \in DOMAIN plan, i < group + 1, NEW t \in TargetsOf(i)
        PROVE  step'[t] = "completed"
    <3>1. t \in Target
      BY TargetsOfPlan
    <3>2. t \notin TargetsOf(group + 1)
      <4>1. i # group + 1
        BY <1>3, <2>2
      <4>2. QED
        BY <1>3, <4>1, TargetsOfPlan
    <3>3. step'[t] = step[t]
      BY <1>1, <2>0, <3>1, <3>2
    <3>4. step[t] = "completed"
      <4>1. i < group \/ (i = group /\ group # 0)
        BY <1>3, <2>2
      <4>2. QED
        BY <1>0, <1>1, <4>1 DEF GroupsOK, GroupCompleted
    <3>5. QED
      BY <3>3, <3>4
  <2>3. ASSUME NEW i \in DOMAIN plan, NEW m \in DOMAIN plan[i].targets,
               NEW n \in DOMAIN plan[i].targets, m < n,
               step'[plan[i].targets[m]] = "planned"
        PROVE  step'[plan[i].targets[n]] = "planned"
    <3> DEFINE u == plan[i].targets[m]
               v == plan[i].targets[n]
    <3>1. u \in Target /\ v \in Target /\ u \in TargetsOf(i) /\ v \in TargetsOf(i)
      BY TargetsOfPlan
    <3>2. u \notin Admitted(group + 1) /\ step[u] = "planned"
      BY <1>1, <2>3, <3>1
    <3>3. step[v] = "planned"
      BY <1>0, <2>3, <3>2 DEF GroupsOK
    <3>4. v \notin Admitted(group + 1)
      BY <1>0, <1>3, <2>3, <3>2, AdmittedOfPlan DEF ExecTypeOK
    <3>5. QED
      BY <1>1, <3>1, <3>3, <3>4
  <2>4. QED
    BY <1>1, <1>2, <2>1, <2>2, <2>3 DEF GroupsOK
<1>8. \A t \in Target : /\ Begun(t)' <=> Begun(t)
                        /\ step[t] = "completed" => step'[t] = "completed"
                        /\ step'[t] # "queued" => step'[t] = step[t]
  BY <1>1, <1>3, <1>4, AdmittedOfPlan DEF Begun
<1>9. GroupOrderOK'
  <2>1. \A i \in DOMAIN plan : \A m \in DOMAIN plan[i].targets : plan[i].targets[m] \in Target
    BY TargetsOfPlan
  <2>2. QED
    BY <1>0, <1>1, <1>8, <2>1 DEF GroupOrderOK
<1>10. CursorOK'
  BY <1>0, <1>1, <1>8 DEF CursorOK
<1>11. ReviewsOK'
  BY <1>0, <1>1 DEF ReviewsOK
<1>12. SlotsOK'
  <2>1. InProgress' = InProgress
    BY <1>1, <1>3, <1>4, <1>8, AdmittedOfPlan DEF InProgress
  <2>2. QED
    BY <1>0, <1>1, <2>1 DEF SlotsOK
<1>13. QED
  BY <1>5, <1>6, <1>7, <1>9, <1>10, <1>11, <1>12 DEF OrderInv

-----------------------------------------------------------------------------
LEMMA InitOrder ==
    ASSUME Init, PlanOK
    PROVE  OrderInv
<1>1. command \in Commands
  BY InputsAre
<1>2. /\ command.concurrentTargets \in Nat \ {0}
      /\ command.autoConfirmEnabled \in BOOLEAN
  BY <1>1 DEF Commands
<1>3. /\ phase = "plan" /\ autoConfirm = command.autoConfirmEnabled
      /\ limit = command.concurrentTargets /\ group = 0
      /\ step = [t \in Target |-> "planned"] /\ results = [t \in Target |-> <<>>]
      /\ failed = FALSE /\ completed = <<>> /\ reduced = <<>> /\ output = NoOutput
  BY DEF Init
<1>4. ExecTypeOK
  <2>1. Len(plan) \in Nat
    BY TargetsOfPlan
  <2>2. <<>> \in Seq(Seq(Outputs)) /\ <<>> \in Seq(Target)
    OBVIOUS
  <2>3. step \in [Target -> StepNames] /\ results \in [Target -> Seq(Seq(Outputs))]
    BY <1>3, <2>2 DEF StepNames
  <2>4. limit \in Nat \ {0} /\ limit <= command.concurrentTargets /\ autoConfirm \in BOOLEAN
    BY <1>2, <1>3
  <2>5. group \in 0 .. Len(plan) /\ phase \in {"plan", "confirm", "execute", "reduce", "done"}
    BY <1>3, <2>1
  <2>6. completed \in Seq(Target) /\ reduced \in Seq(Target) /\ failed \in BOOLEAN
    BY <1>3, <2>2, Zenon
  <2>7. output \in {NoOutput, Error} \union Outputs
    BY <1>3
  <2>8. command.concurrentTargets \in Nat
    BY <1>2
  <2>9. QED
    BY <2>3, <2>4, <2>5, <2>6, <2>7, <2>8 DEF ExecTypeOK
<1>5. PhaseOK /\ CursorOK /\ ReviewsOK
  BY <1>3 DEF PhaseOK, CursorOK, ReviewsOK
<1>6. GroupsOK
  BY <1>3, TargetsOfPlan DEF GroupsOK
<1>7. GroupOrderOK
  <2>1. \A i \in DOMAIN plan : \A m \in DOMAIN plan[i].targets : plan[i].targets[m] \in Target
    BY TargetsOfPlan
  <2>2. QED
    BY <1>3, <2>1 DEF GroupOrderOK, Begun
<1>8. SlotsOK
  <2>1. InProgress = {}
    BY <1>3 DEF InProgress
  <2>2. Cardinality(InProgress) = 0
    BY <2>1, FS_EmptySet
  <2>3. QED
    BY <1>2, <1>3, <2>2 DEF SlotsOK
<1>9. QED
  BY <1>4, <1>5, <1>6, <1>7, <1>8 DEF OrderInv

LEMMA NextOrder ==
    ASSUME PlanOK, OrderInv, [Next]_vars
    PROVE  OrderInv'
<1>1. CASE BeginGroup
  BY <1>1, BeginGroupOrder
<1>2. CASE \E t \in Target : TargetStep(t)
  BY <1>2, TargetStepOrder
<1>3. CASE \/ PlanTargets \/ AutoConfirm \/ CancelOperation \/ ContinueAndReview
           \/ ContinueNoReview \/ RejectGroup \/ FinishTargets \/ Throw \/ Reduce
  BY <1>3, SchedulerOrder
<1>4. CASE UNCHANGED vars
  <2>1. ExecTypeOK' /\ PhaseOK' /\ ReviewsOK'
    BY <1>4 DEF OrderInv, vars, inputVars, targetVars, ExecTypeOK, PhaseOK, ReviewsOK,
                GroupCompleted, TargetsOf
  <2>2. QED
    BY <1>4, <2>1, TargetsStandStill DEF vars
<1>5. QED
  BY <1>1, <1>2, <1>3, <1>4 DEF Next, Exited

(* The plan is executed group by group, each group in the order it is      *)
(* listed and within the limit.                                            *)
THEOREM OrderAlwaysKept == Spec => [](PlanOK /\ OrderInv)
<1>1. Init => PlanOK /\ OrderInv
  BY InitPlan, InitOrder
<1>2. PlanOK /\ OrderInv /\ [Next]_vars => (PlanOK /\ OrderInv)'
  BY NextOrder, PlanKept, InputsKept
<1>3. QED
  BY <1>1, <1>2, PTL DEF Spec

-----------------------------------------------------------------------------
LEMMA TargetsBegunInOrder == PlanOK /\ OrderInv => BegunInOrder
<1> SUFFICES ASSUME PlanOK, OrderInv,
                    NEW t \in Planned, NEW u \in Planned, ListedBefore(t, u), Begun(u)
             PROVE  /\ Begun(t)
                    /\ limit = 1 \/ ~SameGroup(t, u) => step[t] = "completed"
  BY DEF BegunInOrder
<1>0. GroupsOK /\ GroupOrderOK /\ t \in Target /\ u \in Target
  BY TargetsOfPlan DEF OrderInv
<1>1. PICK i \in DOMAIN plan, j \in DOMAIN plan :
          /\ t \in TargetsOf(i) /\ u \in TargetsOf(j)
          /\ \/ i < j
             \/ i = j /\ \E m, n \in DOMAIN plan[i].targets :
                            plan[i].targets[m] = t /\ plan[i].targets[n] = u /\ m < n
  BY DEF ListedBefore
<1>2. CASE i < j
  <2>1. j <= group
    <3>1. PICK k \in DOMAIN plan : k <= group /\ u \in TargetsOf(k)
      BY <1>0 DEF GroupsOK, Begun
    <3>2. QED
      BY <1>1, <3>1, TargetsOfPlan
  <2>2. i < group
    BY <1>2, <2>1, TargetsOfPlan DEF OrderInv, ExecTypeOK
  <2>3. QED
    BY <1>0, <1>1, <2>2 DEF GroupsOK, Begun
<1>3. CASE i = j /\ \E m, n \in DOMAIN plan[i].targets :
                       plan[i].targets[m] = t /\ plan[i].targets[n] = u /\ m < n
  <2>1. Begun(t) /\ (limit = 1 => step[t] = "completed")
    BY <1>0, <1>3 DEF GroupOrderOK
  <2>2. SameGroup(t, u)
    BY <1>1, <1>3 DEF SameGroup
  <2>3. QED
    BY <2>1, <2>2
<1>4. QED
  BY <1>1, <1>2, <1>3

(* "Targets will be deployed in the order they are listed": each target    *)
(* begins after those before it in the plan have begun, or completed if    *)
(* they are of an earlier group or targets are processed one at a time.    *)
THEOREM AlwaysBegunInOrder == Spec => []BegunInOrder
  BY OrderAlwaysKept, TargetsBegunInOrder, PTL

(* No more targets are in progress than concurrentTargets allows, and only *)
(* one while the user is asked to review what the nested commands do.      *)
THEOREM ReviewsAlwaysApart == Spec => []ReviewsNeverOverlap
<1>1. PlanOK /\ OrderInv => ReviewsNeverOverlap
  <2> SUFFICES ASSUME PlanOK, OrderInv PROVE ReviewsNeverOverlap
    OBVIOUS
  <2>1. Cardinality(InProgress) <= limit
    BY DEF OrderInv, SlotsOK
  <2>2. ASSUME ~autoConfirm, command.kind # "run" PROVE Cardinality(InProgress) <= 1
    <3>1. CASE group # 0
      BY <2>1, <2>2, <3>1 DEF OrderInv, ReviewsOK
    <3>2. CASE group = 0
      <4>1. InProgress = {}
        BY <3>2, TargetsOfPlan DEF OrderInv, GroupsOK, InProgress
      <4>2. Cardinality(InProgress) = 0
        BY <4>1, FS_EmptySet
      <4>3. QED
        BY <4>2
    <3>3. QED
      BY <3>1, <3>2
  <2>3. QED
    BY <2>1, <2>2 DEF ReviewsNeverOverlap
<1>2. QED
  BY <1>1, OrderAlwaysKept, PTL

(* Nothing ever begins for a target that is disabled or excluded, that no  *)
(* option asks for, or that is only found below a disabled group.          *)
THEOREM OnlyWantedBegin ==
    Spec => [](\A t \in Target : step[t] # "planned" =>
                  Listings(t) # {} /\ Reached(HomeOf(t)) /\ Wanted(t))
<1> DEFINE OnlyWanted ==
               \A t \in Target : step[t] # "planned" =>
                   Listings(t) # {} /\ Reached(HomeOf(t)) /\ Wanted(t)
<1>1. SelectionInv /\ PlanOK /\ OrderInv => OnlyWanted
  <2> SUFFICES ASSUME SelectionInv, PlanOK, OrderInv, NEW t \in Target, step[t] # "planned"
               PROVE  Listings(t) # {} /\ Reached(HomeOf(t)) /\ Wanted(t)
    OBVIOUS
  <2>1. PICK i \in DOMAIN plan : i <= group /\ t \in TargetsOf(i)
    BY DEF OrderInv, GroupsOK
  <2>2. group # 0 /\ t \in Planned
    BY <2>1, TargetsOfPlan DEF Planned
  <2>3. QED
    BY <2>2 DEF SelectionInv, Selection
<1> HIDE DEF OnlyWanted
<1>2. Spec => []OnlyWanted
  BY <1>1, SelectionAlwaysKept, OrderAlwaysKept, PTL
<1>3. QED
  BY <1>2 DEF OnlyWanted

(* The configuration and the command are an input. *)
InputKept ==
    /\ \E input \in Inputs : config = input.config /\ command = input.command
    /\ rejected \in BOOLEAN

(* The variables keep their types. *)
THEOREM TypesAlwaysOK == Spec => []TypeOK
<1>1. Init => InputKept
  <2>1. Init => rejected \in BOOLEAN
    BY Zenon DEF Init
  <2>2. QED
    BY <2>1 DEF Init, InputKept
<1>2. InputKept /\ [Next]_vars => InputKept'
  BY InputsKept DEF InputKept, inputVars
<1>3. InputKept /\ PlanOK /\ OrderInv => TypeOK
  <2> SUFFICES ASSUME InputKept, PlanOK, OrderInv PROVE TypeOK
    OBVIOUS
  <2>1. ExecTypeOK
    BY DEF OrderInv
  <2>2. limit \in 1 .. command.concurrentTargets
    BY <2>1 DEF ExecTypeOK
  <2>3. QED
    BY <2>1, <2>2 DEF TypeOK, InputKept, ExecTypeOK, StepNames
<1>4. QED
  BY <1>1, <1>2, <1>3, OrderAlwaysKept, PTL DEF Spec

-----------------------------------------------------------------------------
(* The results of t are those of the command paths executed so far: of all *)
(* those of the config sets before the last one begun.                     *)
TargetResultsOK(t) ==
    /\ Len(results[t]) <= Len(Work(t))
    /\ \A i \in DOMAIN results[t] :
          /\ Len(results[t][i]) <= Work(t)[i]
          /\ i < Len(results[t]) \/ step[t] = "completed" => Len(results[t][i]) = Work(t)[i]
    /\ step[t] = "running" => PathsLeft(t)
    /\ step[t] = "returned" => results[t] # <<>> /\ results[t][Len(results[t])] # <<>>
    /\ step[t] = "completed" => Len(results[t]) = Len(Work(t))

NothingYet == \A t \in Target : step[t] \in {"planned", "queued"} => results[t] = <<>>

(* In a run nothing fails the other targets; in a deployment whatever does *)
(* not succeed has set the flag or is about to.                            *)
FlagOK == command.kind = "run" => ~failed

FailureSeen ==
    command.kind # "run" =>
        \A t \in Planned : \A i \in DOMAIN results[t] : \A k \in DOMAIN results[t][i] :
            ~results[t][i][k].success =>
                \/ failed
                \/ step[t] = "returned" /\ i = Len(results[t]) /\ k = Len(results[t][i])

ResultsInv ==
    /\ NothingYet
    /\ \A t \in Planned : TargetResultsOK(t)
    /\ FlagOK
    /\ FailureSeen
    /\ FailureCancelsRest

(* A step of t that adds no result to those of its command paths. *)
Quiet(t) ==
    /\ Len(results'[t]) \in {Len(results[t]), Len(results[t]) + 1}
    /\ \A i \in DOMAIN results[t] : results'[t][i] = results[t][i]
    /\ \A i \in DOMAIN results'[t] \ DOMAIN results[t] : results'[t][i] = <<>>
    /\ step'[t] = "running" => step[t] = "next" /\ ~failed
    /\ step'[t] # "returned"
    /\ failed' = failed \/ RecordResult(t)
    /\ step[t] = "returned" => RecordResult(t)

(* One that adds result. *)
Adds(t, result) ==
    /\ step'[t] = "returned"
    /\ failed' = failed
    /\ Len(results[t]) # 0
    /\ Len(results'[t]) = Len(results[t])
    /\ \A i \in 1 .. Len(results[t]) :
          results'[t][i] = IF i = Len(results[t]) THEN Append(results[t][i], result)
                           ELSE results[t][i]
    /\ \/ step[t] = "next" /\ failed /\ result = Cancelled
       \/ step[t] = "running" /\ result \in NestedResults

LEMMA QuietOrAdds ==
    ASSUME ExecTypeOK, CursorOK, NEW t \in Target, TargetStep(t)
    PROVE  Quiet(t) \/ \E result \in Outputs : Adds(t, result)
<1>0. step \in [Target -> StepNames] /\ results \in [Target -> Seq(Seq(Outputs))]
  BY DEF ExecTypeOK
<1>1. CASE BeginTarget(t)
  <2>1. /\ step' = [step EXCEPT ![t] = "next"] /\ results' = results /\ failed' = failed
        /\ step[t] = "queued"
    BY <1>1 DEF BeginTarget
  <2>2. QED
    BY <1>0, <2>1 DEF Quiet
<1>2. CASE BeginConfigSet(t)
  <2>1. step[t] = "next" /\ step' = step /\ failed' = failed
    BY <1>2 DEF BeginConfigSet
  <2>2. /\ results' \in [Target -> Seq(Seq(Outputs))]
        /\ Len(results'[t]) = Len(results[t]) + 1
        /\ results'[t][Len(results[t]) + 1] = <<>>
        /\ \A i \in 1 .. Len(results[t]) : results'[t][i] = results[t][i]
    BY <1>2, ConfigSetBegun
  <2>3. /\ DOMAIN results[t] = 1 .. Len(results[t]) /\ Len(results[t]) \in Nat
        /\ DOMAIN results'[t] = 1 .. Len(results'[t])
    BY <1>0, <2>2
  <2>4. QED
    BY <2>1, <2>2, <2>3 DEF Quiet
<1>3. CASE CancelCommandPath(t)
  <2>1. Cancelled \in Outputs /\ Len(results[t]) # 0 /\ ResultOfPath(t, Cancelled)
    BY <1>3 DEF Outputs, CancelCommandPath, PathsLeft
  <2>2. step[t] = "next" /\ failed /\ failed' = failed
    BY <1>3 DEF CancelCommandPath
  <2>3. Adds(t, Cancelled)
    BY <2>1, <2>2, ResultAppended DEF Adds
  <2>4. QED
    BY <2>1, <2>3
<1>4. CASE ExecuteCommandPath(t)
  <2>1. /\ step' = [step EXCEPT ![t] = "running"] /\ results' = results /\ failed' = failed
        /\ step[t] = "next" /\ ~failed
    BY <1>4 DEF ExecuteCommandPath
  <2>2. QED
    BY <1>0, <2>1 DEF Quiet
<1>5. CASE CommandPathReturns(t)
  <2>1. PICK result \in NestedResults : ResultOfPath(t, result)
    BY <1>5 DEF CommandPathReturns
  <2>2. result \in Outputs
    BY <2>1, NestedResultsAreOutputs
  <2>3. Len(results[t]) # 0 /\ step[t] = "running" /\ failed' = failed
    BY <1>5 DEF CommandPathReturns, CursorOK
  <2>4. Adds(t, result)
    BY <2>1, <2>2, <2>3, ResultAppended DEF Adds
  <2>5. QED
    BY <2>2, <2>4
<1>6. CASE RecordResult(t)
  <2>1. /\ step' = [step EXCEPT ![t] = "next"] /\ results' = results
    BY <1>6 DEF RecordResult
  <2>2. QED
    BY <1>0, <1>6, <2>1 DEF Quiet
<1>7. CASE CompleteTarget(t)
  <2>1. /\ step' = [step EXCEPT ![t] = "completed"] /\ results' = results /\ failed' = failed
        /\ step[t] = "next"
    BY <1>7 DEF CompleteTarget
  <2>2. QED
    BY <1>0, <2>1 DEF Quiet
<1>8. QED
  BY <1>1, <1>2, <1>3, <1>4, <1>5, <1>6, <1>7 DEF TargetStep

LEMMA QuietResults ==
    ASSUME ExecTypeOK, ExecTypeOK', NEW t \in Target, Quiet(t)
    PROVE  /\ PathResults(t)' = PathResults(t)
           /\ \A i \in DOMAIN results'[t] : \A k \in DOMAIN results'[t][i] :
                 /\ i \in DOMAIN results[t] /\ k \in DOMAIN results[t][i]
                 /\ results'[t][i][k] = results[t][i][k]
           /\ Len(results[t]) <= Len(results'[t])
<1>1. /\ DOMAIN results[t] = 1 .. Len(results[t]) /\ DOMAIN results'[t] = 1 .. Len(results'[t])
      /\ Len(results[t]) \in Nat
  BY DEF ExecTypeOK
<1>2. \A i \in DOMAIN results[t] : i \in DOMAIN results'[t] /\ results'[t][i] = results[t][i]
  BY <1>1 DEF Quiet
<1>3. \A i \in DOMAIN results'[t] \ DOMAIN results[t] : results'[t][i] = <<>>
  BY DEF Quiet
<1>4. DOMAIN <<>> = {} /\ ToSet(<<>>) = {}
  BY DEF ToSet
<1>5. PathResults(t)' = PathResults(t)
  <2>1. PathResults(t)' = UNION {ToSet(results'[t][i]) : i \in DOMAIN results'[t]}
    BY DEF PathResults
  <2>2. \A i \in DOMAIN results'[t] \ DOMAIN results[t] : ToSet(results'[t][i]) = {}
    BY <1>3, <1>4
  <2>3. QED
    BY <1>2, <2>1, <2>2 DEF PathResults
<1>6. QED
  BY <1>1, <1>2, <1>3, <1>4, <1>5 DEF Quiet

LEMMA AddedResults ==
    ASSUME ExecTypeOK, ExecTypeOK', NEW t \in Target, NEW result \in Outputs, Adds(t, result)
    PROVE  /\ PathResults(t)' \subseteq PathResults(t) \union {result}
           /\ \A i \in DOMAIN results'[t] : i \in DOMAIN results[t] /\ i <= Len(results'[t])
           /\ \A i \in DOMAIN results'[t] : \A k \in DOMAIN results'[t][i] :
                 \/ k \in DOMAIN results[t][i] /\ results'[t][i][k] = results[t][i][k]
                 \/ /\ i = Len(results'[t]) /\ k = Len(results'[t][i])
                    /\ results'[t][i][k] = result
<1>1. /\ DOMAIN results[t] = 1 .. Len(results[t]) /\ DOMAIN results'[t] = 1 .. Len(results'[t])
      /\ Len(results[t]) \in Nat /\ Len(results'[t]) = Len(results[t])
  BY DEF ExecTypeOK, Adds
<1>2. \A i \in DOMAIN results[t] : results[t][i] \in Seq(Outputs)
  BY DEF ExecTypeOK
<1>3. ASSUME NEW i \in DOMAIN results'[t]
      PROVE  /\ ToSet(results'[t][i]) \subseteq ToSet(results[t][i]) \union {result}
             /\ \A k \in DOMAIN results'[t][i] :
                   \/ k \in DOMAIN results[t][i] /\ results'[t][i][k] = results[t][i][k]
                   \/ /\ i = Len(results'[t]) /\ k = Len(results'[t][i])
                      /\ results'[t][i][k] = result
  <2>1. results[t][i] \in Seq(Outputs) /\ i \in 1 .. Len(results[t])
    BY <1>1, <1>2
  <2>2. CASE i # Len(results[t])
    <3>1. results'[t][i] = results[t][i]
      BY <2>1, <2>2 DEF Adds
    <3>2. QED
      BY <3>1
  <2>3. CASE i = Len(results[t])
    <3>1. results'[t][i] = Append(results[t][i], result)
      BY <2>1, <2>3 DEF Adds
    <3>2. \A k \in DOMAIN results'[t][i] :
             \/ k \in DOMAIN results[t][i] /\ results'[t][i][k] = results[t][i][k]
             \/ k = Len(results'[t][i]) /\ results'[t][i][k] = result
      BY <2>1, <3>1
    <3>3. ToSet(results'[t][i]) \subseteq ToSet(results[t][i]) \union {result}
      BY <3>2 DEF ToSet
    <3>4. QED
      BY <1>1, <2>3, <3>2, <3>3
  <2>4. QED
    BY <2>2, <2>3
<1>4. PathResults(t)' \subseteq PathResults(t) \union {result}
  <2>1. PathResults(t)' = UNION {ToSet(results'[t][i]) : i \in DOMAIN results'[t]}
    BY DEF PathResults
  <2>2. \A i \in DOMAIN results'[t] : ToSet(results[t][i]) \subseteq PathResults(t)
    BY <1>1 DEF PathResults
  <2>3. QED
    BY <1>3, <2>1, <2>2
<1>5. QED
  BY <1>1, <1>3, <1>4

(* Once Work(t) is a sequence of numbers, a step of t keeps its results to it. *)
LEMMA TargetResultsKept ==
    ASSUME PlanOK, OrderInv, NEW t \in Planned, TargetResultsOK(t), NothingYet, TargetStep(t)
    PROVE  TargetResultsOK(t)'
<1> DEFINE n == Len(results[t])
           work == Work(t)
<1>0. /\ ExecTypeOK /\ CursorOK /\ t \in Target /\ TargetFrame(t) /\ ExecTypeOK'
      /\ Work(t)' = work /\ work \in Seq(Nat) /\ Len(work) \in Nat
  <2>1. ExecTypeOK /\ CursorOK /\ t \in Target
    BY TargetsOfPlan DEF OrderInv
  <2>2. TargetFrame(t)
    BY <2>1, TargetStepFrame
  <2>3. QED
    BY <2>1, <2>2 DEF PlanOK, TargetFrame, inputVars, Work
<1>1. /\ results \in [Target -> Seq(Seq(Outputs))] /\ results' \in [Target -> Seq(Seq(Outputs))]
      /\ step \in [Target -> StepNames]
  BY <1>0 DEF ExecTypeOK
<1>2. /\ n \in Nat /\ DOMAIN results[t] = 1 .. n
      /\ \A i \in 1 .. n : results[t][i] \in Seq(Outputs) /\ Len(results[t][i]) \in Nat
  BY <1>0, <1>1
<1>3. /\ n <= Len(work)
      /\ \A i \in 1 .. n : /\ Len(results[t][i]) <= work[i]
                           /\ i < n => Len(results[t][i]) = work[i]
  BY <1>2 DEF TargetResultsOK
<1>4. \A i \in 1 .. n : work[i] \in Nat
  BY <1>0, <1>2, <1>3
<1>5. PathsLeft(t) <=> n # 0 /\ Len(results[t][n]) < work[n]
  BY DEF PathsLeft
<1> HIDE DEF work
<1>6. ASSUME UNCHANGED results, step'[t] # "returned",
             step'[t] = "running" => PathsLeft(t),
             step'[t] = "completed" => ~PathsLeft(t) /\ n = Len(work)
      PROVE  TargetResultsOK(t)'
  <2>1. PathsLeft(t)' <=> PathsLeft(t)
    BY <1>0, <1>5, <1>6 DEF PathsLeft, work
  <2>2. step'[t] = "completed" => \A i \in 1 .. n : Len(results[t][i]) = work[i]
    BY <1>2, <1>3, <1>4, <1>5, <1>6
  <2>3. QED
    BY <1>0, <1>2, <1>3, <1>6, <2>1, <2>2 DEF TargetResultsOK, work
<1>7. CASE BeginTarget(t) \/ ExecuteCommandPath(t) \/ RecordResult(t) \/ CompleteTarget(t)
  <2>1. UNCHANGED results /\ step'[t] # "returned"
    BY <1>0, <1>1, <1>7 DEF BeginTarget, ExecuteCommandPath, RecordResult, CompleteTarget
  <2>2. step'[t] = "running" => PathsLeft(t)
    BY <1>0, <1>1, <1>7 DEF BeginTarget, ExecuteCommandPath, RecordResult, CompleteTarget
  <2>3. step'[t] = "completed" => ~PathsLeft(t) /\ n = Len(work)
    BY <1>0, <1>1, <1>7 DEF BeginTarget, ExecuteCommandPath, RecordResult, CompleteTarget, work
  <2>4. QED
    BY <1>6, <2>1, <2>2, <2>3
<1>8. CASE BeginConfigSet(t)
  <2>1. step'[t] = "next" /\ ~PathsLeft(t) /\ n < Len(work)
    BY <1>8 DEF BeginConfigSet, work
  <2>2. /\ Len(results'[t]) = n + 1 /\ results'[t][n + 1] = <<>>
        /\ \A i \in 1 .. n : results'[t][i] = results[t][i]
    BY <1>0, <1>8, ConfigSetBegun
  <2>3. \A i \in 1 .. n : Len(results[t][i]) = work[i]
    BY <1>2, <1>3, <1>4, <1>5, <2>1
  <2>4. work[n + 1] \in Nat
    BY <1>0, <1>2, <2>1
  <2>5. DOMAIN results'[t] = 1 .. n + 1
    BY <1>0, <1>1, <2>2
  <2>6. \A i \in 1 .. n + 1 : i \in 1 .. n \/ i = n + 1
    BY <1>2
  <2>7. Len(results'[t][n + 1]) <= work[n + 1]
    <3>1. Len(results'[t][n + 1]) = 0
      BY <2>2
    <3>2. QED
      BY <2>4, <3>1
  <2>8. \A i \in 1 .. n + 1 : /\ Len(results'[t][i]) <= work[i]
                              /\ i < n + 1 => Len(results'[t][i]) = work[i]
    <3>1. ASSUME NEW i \in 1 .. n PROVE Len(results'[t][i]) <= work[i] /\ Len(results'[t][i]) = work[i]
      <4>1. results'[t][i] = results[t][i] /\ Len(results[t][i]) = work[i]
        BY <2>2, <2>3
      <4>2. QED
        BY <1>4, <4>1
    <3>2. ~(n + 1 < n + 1)
      BY <1>2
    <3>3. QED
      BY <2>6, <2>7, <3>1, <3>2
  <2>9. QED
    BY <1>0, <1>2, <2>1, <2>2, <2>5, <2>8 DEF TargetResultsOK, work
<1>9. CASE CancelCommandPath(t) \/ CommandPathReturns(t)
  <2>1. PathsLeft(t)
    BY <1>9 DEF CancelCommandPath, CommandPathReturns, TargetResultsOK
  <2>2. PICK result \in Outputs : Adds(t, result)
    <3>1. ~Quiet(t)
      <4>1. step'[t] = "returned"
        BY <1>0, <1>1, <1>9 DEF CancelCommandPath, CommandPathReturns, ResultOfPath
      <4>2. QED
        BY <4>1 DEF Quiet
    <3>2. QED
      BY <1>0, <3>1, QuietOrAdds
  <2>3. /\ step'[t] = "returned" /\ n # 0 /\ Len(results'[t]) = n
        /\ \A i \in 1 .. n : results'[t][i] = IF i = n THEN Append(results[t][i], result)
                                              ELSE results[t][i]
    BY <2>2 DEF Adds
  <2>4. n \in 1 .. n /\ Len(results'[t][n]) = Len(results[t][n]) + 1 /\ results'[t][n] # <<>>
    <3> DEFINE last == results[t][n]
               new == results'[t][n]
    <3>1. n \in 1 .. n
      BY <1>2, <2>3
    <3>2. last \in Seq(Outputs) /\ result \in Outputs
      BY <1>2, <2>2, <3>1
    <3>3. new = Append(last, result)
      BY <2>3, <3>1
    <3> HIDE DEF last, new
    <3>4. Len(new) = Len(last) + 1 /\ new # <<>>
      BY <3>2, <3>3
    <3> USE DEF last, new
    <3>5. QED
      BY <3>1, <3>4
  <2>5. Len(results'[t][n]) <= work[n]
    <3>1. Len(results[t][n]) \in Nat /\ work[n] \in Nat /\ Len(results[t][n]) < work[n]
      BY <1>2, <1>4, <1>5, <2>1, <2>4
    <3>2. QED
      BY <2>4, <3>1
  <2>6. \A i \in 1 .. n : /\ Len(results'[t][i]) <= work[i]
                          /\ i < n => Len(results'[t][i]) = work[i]
    <3>1. ASSUME NEW i \in 1 .. n, i # n
          PROVE  Len(results'[t][i]) <= work[i] /\ (i < n => Len(results'[t][i]) = work[i])
      <4>1. results'[t][i] = results[t][i]
        BY <2>3, <3>1
      <4>2. QED
        BY <1>3, <4>1
    <3>2. ~(n < n)
      BY <1>2
    <3>3. QED
      BY <2>5, <3>1, <3>2
  <2>7. DOMAIN results'[t] = 1 .. n /\ results'[t] # <<>>
    BY <1>0, <1>1, <2>3
  <2>8. QED
    BY <1>0, <1>3, <2>3, <2>4, <2>6, <2>7 DEF TargetResultsOK, work
<1>10. QED
  BY <1>7, <1>8, <1>9 DEF TargetStep

LEMMA TargetStepResults ==
    ASSUME PlanOK, OrderInv, OrderInv', ResultsInv, NEW t \in Target, TargetStep(t)
    PROVE  ResultsInv'
<1>0. /\ ExecTypeOK /\ CursorOK /\ GroupsOK /\ ExecTypeOK'
      /\ NothingYet /\ FlagOK /\ FailureSeen /\ FailureCancelsRest
  BY DEF OrderInv, ResultsInv
<1>1. TargetFrame(t)
  BY <1>0, TargetStepFrame
<1>2. /\ plan' = plan /\ command' = command /\ project' = project /\ limit' = limit
      /\ \A u \in Target \ {t} : step'[u] = step[u] /\ results'[u] = results[u]
  BY <1>1 DEF TargetFrame, inputVars
<1>3. /\ Planned' = Planned /\ Planned \subseteq Target
      /\ \A x, u : /\ ListedBefore(x, u)' <=> ListedBefore(x, u)
                   /\ SameGroup(x, u)' <=> SameGroup(x, u)
      /\ \A u : Work(u)' = Work(u)
  BY <1>2, TargetsOfPlan DEF Planned, TargetsOf, ListedBefore, SameGroup, Work
<1>4. Quiet(t) \/ \E result \in Outputs : Adds(t, result)
  BY <1>0, QuietOrAdds
<1>5. step[t] \notin {"planned", "completed"} /\ t \in Planned
  <2>1. step[t] \notin {"planned", "completed"}
    BY <1>1 DEF TargetFrame
  <2>2. QED
    BY <1>0, <2>1 DEF GroupsOK, Planned
<1>6. step'[t] \notin {"planned", "queued"}
  BY <1>1 DEF TargetFrame
<1>7. NothingYet'
  BY <1>0, <1>2, <1>6 DEF NothingYet
<1>8. \A u \in Planned : TargetResultsOK(u)'
  <2>1. TargetResultsOK(t)'
    BY <1>0, <1>5, TargetResultsKept DEF ResultsInv
  <2>2. ASSUME NEW u \in Planned \ {t} PROVE TargetResultsOK(u)'
    <3>1. step'[u] = step[u] /\ results'[u] = results[u] /\ Work(u)' = Work(u)
      BY <1>2, <1>3
    <3>2. TargetResultsOK(u)
      BY DEF ResultsInv
    <3>3. QED
      BY <3>1, <3>2 DEF TargetResultsOK, PathsLeft
  <2>3. QED
    BY <2>1, <2>2
<1>9. failed => failed'
  <2>1. RecordResult(t) => failed' = (failed \/ StopsTargets(Last(Last(results[t]))))
    BY DEF RecordResult
  <2>2. failed' = failed \/ RecordResult(t)
    BY <1>4 DEF Quiet, Adds
  <2>3. QED
    BY <2>1, <2>2, Zenon
<1>10. FlagOK'
  <2>1. RecordResult(t) => failed' = (failed \/ (command.kind # "run" /\ ~Last(Last(results[t])).success))
    BY DEF RecordResult, StopsTargets
  <2>2. failed' = failed \/ RecordResult(t)
    BY <1>4 DEF Quiet, Adds
  <2>3. QED
    BY <1>0, <1>2, <2>1, <2>2, Zenon DEF FlagOK
<1>11. FailureSeen'
  <2>1. SUFFICES ASSUME command.kind # "run", NEW u \in Planned, NEW i \in DOMAIN results'[u],
                        NEW k \in DOMAIN results'[u][i], ~results'[u][i][k].success
                 PROVE  \/ failed'
                        \/ /\ step'[u] = "returned" /\ i = Len(results'[u])
                           /\ k = Len(results'[u][i])
    BY <1>2, <1>3 DEF FailureSeen
  <2>2. CASE u # t
    BY <1>0, <1>2, <1>3, <1>9, <2>1, <2>2 DEF FailureSeen
  <2>3. CASE u = t /\ Quiet(t)
    <3>1. i \in DOMAIN results[t] /\ k \in DOMAIN results[t][i] /\ ~results[t][i][k].success
      BY <1>0, <2>1, <2>3, QuietResults
    <3>2. failed \/ (step[t] = "returned" /\ i = Len(results[t]) /\ k = Len(results[t][i]))
      BY <1>0, <1>5, <2>1, <3>1 DEF FailureSeen
    <3>3. ASSUME step[t] = "returned", i = Len(results[t]), k = Len(results[t][i])
          PROVE  failed'
      <4>1. RecordResult(t)
        BY <2>3, <3>3 DEF Quiet
      <4>2. Last(Last(results[t])) = results[t][i][k]
        BY <3>3 DEF Last
      <4>3. failed' = (failed \/ (command.kind # "run" /\ ~Last(Last(results[t])).success))
        BY <4>1 DEF RecordResult, StopsTargets
      <4>4. QED
        BY <2>1, <3>1, <4>2, <4>3, Zenon
    <3>4. QED
      BY <1>9, <3>2, <3>3
  <2>4. ASSUME u = t, NEW result \in Outputs, Adds(t, result)
        PROVE  failed' \/ (step'[u] = "returned" /\ i = Len(results'[u]) /\ k = Len(results'[u][i]))
    <3>1. step'[t] = "returned" /\ step[t] # "returned"
      BY <2>4 DEF Adds
    <3>2. \/ i \in DOMAIN results[t] /\ k \in DOMAIN results[t][i] /\ results'[t][i][k] = results[t][i][k]
          \/ i = Len(results'[t]) /\ k = Len(results'[t][i])
      BY <1>0, <2>1, <2>4, AddedResults
    <3>3. QED
      BY <1>0, <1>5, <1>9, <2>1, <2>4, <3>1, <3>2 DEF FailureSeen
  <2>5. QED
    BY <1>4, <2>2, <2>3, <2>4
<1>12. BegunInOrder'
  <2>1. PlanOK'
    BY <1>1, PlanKept DEF TargetFrame
  <2>2. QED
    BY <2>1, TargetsBegunInOrder, PTL
<1>13. FailureCancelsRest'
  <2>1. SUFFICES ASSUME command.kind # "run", NEW x \in Planned, NEW i \in DOMAIN results'[x],
                        NEW k \in DOMAIN results'[x][i], ~results'[x][i][k].success
                 PROVE  /\ step'[x] # "running"
                        /\ \A j \in i .. Len(results'[x]) : \A l \in DOMAIN results'[x][j] :
                              i < j \/ k < l => results'[x][j][l] = Cancelled
                        /\ \A u \in Planned :
                              ListedBefore(x, u) /\ (limit = 1 \/ ~SameGroup(x, u)) =>
                                  step'[u] # "running" /\ PathResults(u)' \subseteq {Cancelled}
    BY <1>2, <1>3 DEF FailureCancelsRest
  <2> DEFINE Old == i \in DOMAIN results[x] /\ k \in DOMAIN results[x][i] /\ ~results[x][i][k].success
  <2>2. ASSUME Old
        PROVE  /\ step[x] # "running"
               /\ \A j \in i .. Len(results[x]) : \A l \in DOMAIN results[x][j] :
                     i < j \/ k < l => results[x][j][l] = Cancelled
               /\ \A u \in Planned :
                     ListedBefore(x, u) /\ (limit = 1 \/ ~SameGroup(x, u)) =>
                         step[u] # "running" /\ PathResults(u) \subseteq {Cancelled}
               /\ failed \/ step[x] = "returned"
    BY <1>0, <2>1, <2>2 DEF FailureCancelsRest, FailureSeen
  <2>3. x # t => Old
    BY <1>2, <1>3, <2>1
  <2>4. x = t /\ Quiet(t) => Old
    BY <1>0, <2>1, QuietResults
  <2>5. ASSUME NEW u \in Planned \ {t} PROVE PathResults(u)' = PathResults(u) /\ step'[u] = step[u]
    <3>1. results'[u] = results[u] /\ step'[u] = step[u]
      BY <1>2, <1>3
    <3>2. QED
      BY <3>1 DEF PathResults
  <2>6. /\ step'[x] # "running"
        /\ \A j \in i .. Len(results'[x]) : \A l \in DOMAIN results'[x][j] :
              i < j \/ k < l => results'[x][j][l] = Cancelled
    <3>1. CASE x # t
      BY <1>2, <1>3, <2>2, <2>3, <3>1
    <3>2. CASE x = t /\ Quiet(t)
      <4>1. step'[x] # "running"
        BY <2>2, <2>4, <3>2 DEF Quiet
      <4>2. DOMAIN results'[t] = 1 .. Len(results'[t]) /\ DOMAIN results[t] = 1 .. Len(results[t])
        BY <1>0 DEF ExecTypeOK
      <4>3. ASSUME NEW j \in i .. Len(results'[t]), NEW l \in DOMAIN results'[t][j], i < j \/ k < l
            PROVE  results'[t][j][l] = Cancelled
        <5>1. j \in DOMAIN results'[t]
          BY <2>1, <3>2, <4>2, <4>3
        <5>2. /\ j \in DOMAIN results[t] /\ l \in DOMAIN results[t][j]
              /\ results'[t][j][l] = results[t][j][l]
          BY <1>0, <3>2, <4>3, <5>1, QuietResults
        <5>3. j \in i .. Len(results[t])
          BY <4>2, <4>3, <5>2
        <5>4. QED
          BY <2>2, <2>4, <3>2, <4>3, <5>2, <5>3
      <4>4. QED
        BY <3>2, <4>1, <4>3
    <3>3. ASSUME x = t, NEW result \in Outputs, Adds(t, result)
          PROVE  /\ step'[x] # "running"
                 /\ \A j \in i .. Len(results'[x]) : \A l \in DOMAIN results'[x][j] :
                       i < j \/ k < l => results'[x][j][l] = Cancelled
      <4>1. step'[x] # "running"
        BY <3>3 DEF Adds
      <4>2. /\ DOMAIN results'[t] = 1 .. Len(results'[t]) /\ Len(results'[t]) = Len(results[t])
            /\ Len(results[t]) \in Nat
            /\ \A j \in DOMAIN results'[t] : /\ DOMAIN results'[t][j] = 1 .. Len(results'[t][j])
                                             /\ Len(results'[t][j]) \in Nat
        <5>1. results'[t] \in Seq(Seq(Outputs)) /\ results[t] \in Seq(Seq(Outputs))
          BY <1>0 DEF ExecTypeOK
        <5>2. \A j \in DOMAIN results'[t] : results'[t][j] \in Seq(Outputs)
          BY <5>1
        <5>3. QED
          BY <3>3, <5>1, <5>2 DEF Adds
      <4>3. ASSUME NEW j \in i .. Len(results'[t]), NEW l \in DOMAIN results'[t][j], i < j \/ k < l
            PROVE  results'[t][j][l] = Cancelled
        <5>1. j \in DOMAIN results'[t] /\ i \in 1 .. Len(results'[t]) /\ k \in 1 .. Len(results'[t][i])
          BY <2>1, <3>3, <4>2, <4>3
        <5>2. \/ k \in DOMAIN results[t][i] /\ results'[t][i][k] = results[t][i][k]
              \/ i = Len(results'[t]) /\ k = Len(results'[t][i])
          BY <1>0, <2>1, <3>3, AddedResults
        <5>3. CASE i = Len(results'[t]) /\ k = Len(results'[t][i])
          <6>1. j = i
            BY <4>2, <4>3, <5>1, <5>3
          <6>2. l \in 1 .. k
            BY <4>2, <4>3, <5>1, <5>3, <6>1
          <6>3. QED
            BY <4>2, <4>3, <5>1, <6>1, <6>2
        <5>4. CASE k \in DOMAIN results[t][i] /\ results'[t][i][k] = results[t][i][k]
          <6>1. Old
            BY <1>0, <2>1, <3>3, <5>4, AddedResults
          <6>2. step[t] = "next" /\ result = Cancelled
            BY <2>2, <3>3, <6>1 DEF Adds
          <6>3. \/ l \in DOMAIN results[t][j] /\ results'[t][j][l] = results[t][j][l]
                \/ results'[t][j][l] = result
            BY <1>0, <3>3, <4>3, <5>1, AddedResults
          <6>4. j \in i .. Len(results[t])
            BY <4>2, <4>3
          <6>5. QED
            BY <2>2, <3>3, <4>3, <6>1, <6>2, <6>3, <6>4
        <5>5. QED
          BY <5>2, <5>3, <5>4
      <4>4. QED
        BY <3>3, <4>1, <4>3
    <3>4. QED
      BY <1>4, <3>1, <3>2, <3>3
  <2>7. ASSUME NEW u \in Planned, ListedBefore(x, u), limit = 1 \/ ~SameGroup(x, u)
        PROVE  step'[u] # "running" /\ PathResults(u)' \subseteq {Cancelled}
    <3>1. Begun(u)' => step'[x] = "completed"
      BY <1>2, <1>3, <1>12, <2>7 DEF BegunInOrder
    <3>2. CASE u = t
      <4>1. step'[x] = "completed"
        BY <1>6, <3>1, <3>2 DEF Begun
      <4>2. Old
        <5>1. x = t => Quiet(t)
          BY <1>4, <4>1 DEF Adds
        <5>2. QED
          BY <2>3, <2>4, <5>1
      <4>3. step[t] # "running" /\ PathResults(t) \subseteq {Cancelled}
        BY <2>2, <2>7, <3>2, <4>2
      <4>4. CASE Quiet(t)
        <5>1. PathResults(t)' \subseteq {Cancelled}
          BY <1>0, <4>3, <4>4, QuietResults
        <5>2. step'[t] # "running"
          <6>1. CASE x = t
            BY <4>1, <6>1
          <6>2. CASE x # t
            <7>1. step[x] = "completed"
              BY <1>2, <1>3, <4>1, <6>2
            <7>2. failed
              BY <2>2, <4>2, <7>1
            <7>3. QED
              BY <4>4, <7>2 DEF Quiet
          <6>3. QED
            BY <6>1, <6>2
        <5>3. QED
          BY <3>2, <5>1, <5>2
      <4>5. ASSUME NEW result \in Outputs, Adds(t, result)
            PROVE  step'[t] # "running" /\ PathResults(t)' \subseteq {Cancelled}
        <5>1. step'[t] # "running" /\ result = Cancelled
          BY <4>3, <4>5 DEF Adds
        <5>2. PathResults(t)' \subseteq PathResults(t) \union {result}
          BY <1>0, <4>5, AddedResults
        <5>3. QED
          BY <4>3, <5>1, <5>2
      <4>6. QED
        BY <1>4, <3>2, <4>4, <4>5
    <3>3. CASE u # t /\ Old
      BY <2>2, <2>5, <2>7, <3>3
    <3>4. CASE u # t /\ ~Old
      <4>1. step'[x] # "completed"
        <5>1. x = t /\ ~Quiet(t)
          BY <2>3, <2>4, <3>4
        <5>2. QED
          BY <1>4, <5>1 DEF Adds
      <4>2. step'[u] \in {"planned", "queued"}
        BY <3>1, <4>1 DEF Begun
      <4>3. step[u] \in {"planned", "queued"} /\ u \in Target
        BY <1>3, <2>5, <3>4, <4>2
      <4>4. results[u] = <<>>
        BY <1>0, <4>3 DEF NothingYet
      <4>5. PathResults(u) = {}
        BY <4>4 DEF PathResults
      <4>6. QED
        BY <2>5, <3>4, <4>2, <4>5
    <3>5. QED
      BY <3>2, <3>3, <3>4
  <2>8. QED
    BY <2>6, <2>7
<1>14. QED
  BY <1>3, <1>7, <1>8, <1>10, <1>11, <1>13 DEF ResultsInv

LEMMA ResultsStandStill ==
    ASSUME PlanOK, OrderInv, ResultsInv, UNCHANGED <<inputVars, results, failed>>,
           limit' = limit \/ (group = 0 /\ limit' = 1),
           \A t \in Target : step'[t] = step[t] \/ (step[t] = "planned" /\ step'[t] = "queued")
    PROVE  ResultsInv'
<1>0. /\ GroupsOK /\ NothingYet /\ FlagOK /\ FailureSeen /\ FailureCancelsRest
      /\ plan' = plan /\ command' = command /\ project' = project
      /\ results' = results /\ failed' = failed
  BY DEF OrderInv, ResultsInv, inputVars
<1>1. /\ Planned' = Planned /\ Planned \subseteq Target
      /\ \A x, u : /\ ListedBefore(x, u)' <=> ListedBefore(x, u)
                   /\ SameGroup(x, u)' <=> SameGroup(x, u)
      /\ \A u : Work(u)' = Work(u) /\ PathResults(u)' = PathResults(u)
  BY <1>0, TargetsOfPlan DEF Planned, TargetsOf, ListedBefore, SameGroup, Work, PathResults
<1>2. \A t \in Target : step'[t] \in {"running", "returned", "completed"} => step'[t] = step[t]
  OBVIOUS
<1>3. NothingYet' /\ FlagOK'
  BY <1>0 DEF NothingYet, FlagOK
<1>4. \A t \in Planned : TargetResultsOK(t)'
  <2>1. \A t \in Planned : TargetResultsOK(t) /\ t \in Target
    BY <1>1 DEF ResultsInv
  <2>2. QED
    BY <1>0, <1>1, <1>2, <2>1 DEF TargetResultsOK, PathsLeft
<1>5. FailureSeen'
  BY <1>0, <1>1 DEF FailureSeen
<1>6. FailureCancelsRest'
  <2>1. CASE limit' = limit
    BY <1>0, <1>1, <1>2, <2>1 DEF FailureCancelsRest
  <2>2. CASE group = 0
    <3>1. \A t \in Target : results[t] = <<>>
      BY <1>0, <2>2, TargetsOfPlan DEF GroupsOK, NothingYet
    <3>2. DOMAIN <<>> = {}
      OBVIOUS
    <3>3. QED
      BY <1>0, <1>1, <3>1, <3>2 DEF FailureCancelsRest
  <2>3. QED
    BY <2>1, <2>2
<1>7. QED
  BY <1>1, <1>3, <1>4, <1>5, <1>6 DEF ResultsInv

LEMMA InitResults ==
    ASSUME Init, PlanOK
    PROVE  ResultsInv
<1>1. /\ step = [t \in Target |-> "planned"] /\ results = [t \in Target |-> <<>>]
      /\ failed = FALSE /\ Planned \subseteq Target
  BY TargetsOfPlan DEF Init
<1>2. DOMAIN <<>> = {} /\ Len(<<>>) = 0
  OBVIOUS
<1>3. ASSUME NEW t \in Planned PROVE TargetResultsOK(t)
  <2>1. Work(t) \in Seq(Nat)
    BY DEF PlanOK
  <2>2. Len(Work(t)) \in Nat
    BY <2>1
  <2>3. step[t] = "planned" /\ results[t] = <<>>
    BY <1>1
  <2>4. QED
    BY <1>2, <2>2, <2>3 DEF TargetResultsOK
<1>4. FlagOK
  BY <1>1, Zenon DEF FlagOK
<1>5. NothingYet /\ FailureSeen /\ FailureCancelsRest
  BY <1>1, <1>2 DEF NothingYet, FailureSeen, FailureCancelsRest
<1>6. QED
  BY <1>3, <1>4, <1>5 DEF ResultsInv

(* Beginning a group takes only planned targets into the bulkhead.         *)
LEMMA BeginGroupTakesPlanned ==
    ASSUME PlanOK, OrderInv, BeginGroup
    PROVE  \A t \in Target : step'[t] = step[t] \/ (step[t] = "planned" /\ step'[t] = "queued")
<1>1. step' = [t \in Target |-> IF t \in Admitted(group + 1) THEN "queued" ELSE step[t]]
  BY DEF BeginGroup
<1>2. group \in Nat /\ group + 1 \in DOMAIN plan /\ ~(group + 1 <= group)
  BY TargetsOfPlan DEF BeginGroup, OrderInv, ExecTypeOK
<1>3. Admitted(group + 1) \subseteq TargetsOf(group + 1)
  BY <1>2, AdmittedOfPlan
<1>4. ASSUME NEW t \in Target, t \in Admitted(group + 1) PROVE step[t] = "planned"
  <2>1. \A i \in DOMAIN plan : t \in TargetsOf(i) => i = group + 1
    BY <1>2, <1>3, <1>4, TargetsOfPlan
  <2>2. QED
    BY <1>2, <1>3, <1>4, <2>1 DEF OrderInv, GroupsOK
<1>5. QED
  BY <1>1, <1>4

LEMMA NextResults ==
    ASSUME PlanOK, OrderInv, OrderInv', ResultsInv, [Next]_vars
    PROVE  ResultsInv'
<1>1. CASE \E t \in Target : TargetStep(t)
  BY <1>1, TargetStepResults
<1>2. CASE BeginGroup
  <2>1. group < Len(plan) /\ limit' = limit /\ UNCHANGED <<inputVars, results, failed>>
    BY <1>2 DEF BeginGroup
  <2>2. \A t \in Target : step'[t] = step[t] \/ (step[t] = "planned" /\ step'[t] = "queued")
    BY <1>2, BeginGroupTakesPlanned
  <2>3. QED
    BY <2>1, <2>2, ResultsStandStill
<1>3. CASE \/ PlanTargets \/ AutoConfirm \/ CancelOperation \/ ContinueAndReview
           \/ ContinueNoReview \/ RejectGroup \/ FinishTargets \/ Throw \/ Reduce
           \/ UNCHANGED vars
  <2>1. /\ UNCHANGED <<inputVars, results, failed, step>>
        /\ limit' = limit \/ (phase = "confirm" /\ limit' = 1)
    BY <1>3 DEF PlanTargets, AutoConfirm, CancelOperation, ContinueAndReview, ContinueNoReview,
                RejectGroup, FinishTargets, Throw, Reduce, vars, targetVars
  <2>2. phase = "confirm" => group = 0
    BY DEF OrderInv, PhaseOK
  <2>3. QED
    BY <2>1, <2>2, ResultsStandStill
<1>4. QED
  BY <1>1, <1>2, <1>3 DEF Next, Exited

(* The results are those of the command paths executed, and after one that *)
(* does not succeed the rest is cancelled.                                 *)
THEOREM ResultsAlwaysKept == Spec => []ResultsInv
<1>1. Init => ResultsInv
  BY InitPlan, InitResults
<1>2. PlanOK /\ OrderInv /\ OrderInv' /\ ResultsInv /\ [Next]_vars => ResultsInv'
  BY NextResults
<1>3. QED
  BY <1>1, <1>2, OrderAlwaysKept, PTL DEF Spec

(* What the next step of t waits for is there. *)
CanGoOn(t) ==
    \/ step[t] \in {"running", "returned"}
    \/ step[t] = "next" /\ (PathsLeft(t) \/ Len(results[t]) <= Len(Work(t)))
    \/ /\ step[t] = "queued"
       /\ Cardinality(InProgress) < limit
       /\ \E i \in DOMAIN plan[group].targets :
             /\ plan[group].targets[i] = t
             /\ \A j \in 1 .. i - 1 : step[plan[group].targets[j]] # "queued"

(* The targets of a group never all wait: while one of them has not        *)
(* completed, one holds a slot and goes on, or a slot is free and the      *)
(* first that is queued gets it; unless the bulkhead has turned one away,  *)
(* which rejects the group.  So Promise.all of executeGroup settles if the *)
(* nested commands end.                                                    *)
THEOREM NeverStuck ==
    Spec => [](phase = "execute" /\ ~GroupCompleted =>
                  TurnedAway \/ \E t \in TargetsOf(group) : CanGoOn(t))
<1> DEFINE GoesOn == phase = "execute" /\ ~GroupCompleted =>
                         TurnedAway \/ \E t \in TargetsOf(group) : CanGoOn(t)
<1>1. PlanOK /\ OrderInv /\ ResultsInv => GoesOn
  <2> SUFFICES ASSUME PlanOK, OrderInv, ResultsInv, ~GroupCompleted, ~TurnedAway
               PROVE  \E t \in TargetsOf(group) : CanGoOn(t)
    OBVIOUS
  <2>1. ExecTypeOK /\ GroupsOK
    BY DEF OrderInv
  <2>2. PICK u \in TargetsOf(group) : group # 0 /\ step[u] # "completed"
    BY DEF GroupCompleted
  <2>3. group \in DOMAIN plan /\ group <= group
    BY <2>1, <2>2, TargetsOfPlan DEF ExecTypeOK
  <2>4. /\ TargetsOf(group) \subseteq Target
        /\ plan[group].targets \in Seq(Target)
        /\ \A t : t \in TargetsOf(group) <=>
                     \E m \in DOMAIN plan[group].targets : plan[group].targets[m] = t
    BY <2>3, TargetsOfPlan
  <2>5. \A t \in TargetsOf(group) : step[t] # "planned" /\ t \in Planned
    BY <2>2, <2>3, <2>4 DEF TurnedAway, Planned
  <2>6. CASE InProgress # {}
    <3>1. PICK t \in Target : step[t] \in {"next", "running", "returned"}
      BY <2>6 DEF InProgress
    <3>2. t \in TargetsOf(group)
      BY <2>1, <3>1, CurrentGroup
    <3>3. Len(results[t]) <= Len(Work(t))
      BY <2>5, <3>2 DEF ResultsInv, TargetResultsOK
    <3>4. QED
      BY <3>1, <3>2, <3>3 DEF CanGoOn
  <2>7. CASE InProgress = {}
    <3> DEFINE targets == plan[group].targets
               Waits == {i \in DOMAIN targets : step[targets[i]] = "queued"}
    <3>1. \A t \in TargetsOf(group) : step[t] \in {"queued", "completed"}
      BY <2>1, <2>4, <2>5, <2>7 DEF InProgress, ExecTypeOK, StepNames
    <3>2. Cardinality(InProgress) < limit
      <4>1. Cardinality(InProgress) = 0
        BY <2>7, FS_EmptySet
      <4>2. QED
        BY <2>1, <4>1 DEF ExecTypeOK
    <3>3. Waits \subseteq Nat /\ Waits # {}
      <4>1. PICK m \in DOMAIN targets : targets[m] = u
        BY <2>2, <2>4
      <4>2. m \in Waits
        BY <2>2, <3>1, <4>1
      <4>3. DOMAIN targets \subseteq Nat
        BY <2>4
      <4>4. QED
        BY <4>2, <4>3
    <3>4. PICK first \in Waits : \A i \in Waits : ~(i < first)
      BY <3>3, LeastMember, Zenon
    <3>5. \A j \in 1 .. first - 1 : step[targets[j]] # "queued"
      <4>1. \A j \in 1 .. first - 1 : j \in DOMAIN targets /\ j < first
        BY <2>4
      <4>2. QED
        BY <3>4, <4>1
    <3>6. targets[first] \in TargetsOf(group) /\ CanGoOn(targets[first])
      BY <2>4, <3>2, <3>4, <3>5 DEF CanGoOn
    <3>7. QED
      BY <3>6
  <2>8. QED
    BY <2>6, <2>7
<1> HIDE DEF GoesOn
<1>2. Spec => []GoesOn
  BY <1>1, OrderAlwaysKept, ResultsAlwaysKept, PTL
<1>3. QED
  BY <1>2 DEF GoesOn

(* A command path that was executed is not left without a result.          *)
LEMMA QuietIsNotRunning ==
    ASSUME NEW t \in Target, TargetStep(t), step \in [Target -> StepNames], Quiet(t)
    PROVE  step[t] # "running"
  BY DEF TargetStep, BeginTarget, BeginConfigSet, CancelCommandPath, ExecuteCommandPath,
     CommandPathReturns, RecordResult, CompleteTarget, ResultOfPath, Quiet

(* A result is final: a target that has completed is never begun again,    *)
(* what its command paths returned stays, in the order they were executed, *)
(* and a command path that was executed has returned exactly once: nothing *)
(* is retried, whatever the other targets and groups do.                   *)
ResultsFinal ==
    [][\A t \in Target :
          /\ step[t] = "completed" => step'[t] = "completed" /\ results'[t] = results[t]
          /\ \A i \in DOMAIN results[t] : \A k \in DOMAIN results[t][i] :
                /\ i \in DOMAIN results'[t] /\ k \in DOMAIN results'[t][i]
                /\ results'[t][i][k] = results[t][i][k]
          /\ step[t] = "running" /\ step'[t] # "running" =>
                LET n == Len(results[t])
                IN  \E result \in NestedResults :
                       results'[t] = [results[t] EXCEPT ![n] = Append(@, result)]]_vars

THEOREM ResultsAlwaysFinal == Spec => ResultsFinal
<1> DEFINE Final(t) ==
             /\ step[t] = "completed" => step'[t] = "completed" /\ results'[t] = results[t]
             /\ \A i \in DOMAIN results[t] : \A k \in DOMAIN results[t][i] :
                   /\ i \in DOMAIN results'[t] /\ k \in DOMAIN results'[t][i]
                   /\ results'[t][i][k] = results[t][i][k]
             /\ step[t] = "running" /\ step'[t] # "running" =>
                   \E result \in NestedResults :
                      results'[t] = [results[t] EXCEPT ![Len(results[t])] = Append(@, result)]
<1>1. ASSUME PlanOK, OrderInv, [Next]_vars
      PROVE  \A t \in Target : Final(t)
  <2>1. ExecTypeOK /\ GroupsOK /\ CursorOK
    BY <1>1 DEF OrderInv
  <2>2. SUFFICES ASSUME NEW t \in Target PROVE Final(t)
    OBVIOUS
  <2>3. CASE step'[t] = step[t] /\ results'[t] = results[t]
    BY <2>3
  <2>4. CASE BeginGroup
    <3>1. results' = results
      BY <2>4 DEF BeginGroup
    <3>2. step'[t] = step[t] \/ (step[t] = "planned" /\ step'[t] = "queued")
      BY <1>1, <2>4, BeginGroupTakesPlanned
    <3>3. QED
      BY <3>1, <3>2
  <2>5. CASE \E u \in Target : TargetStep(u)
    <3>1. PICK u \in Target : TargetStep(u)
      BY <2>5
    <3>2. TargetFrame(u)
      BY <2>1, <3>1, TargetStepFrame
    <3>3. CASE u # t
      BY <2>3, <3>2, <3>3 DEF TargetFrame
    <3>4. CASE u = t
      <4>1. step[t] \in {"queued", "next", "running", "returned"} /\ ExecTypeOK'
        BY <3>2, <3>4 DEF TargetFrame
      <4>2. CASE Quiet(t)
        <5>1. step[t] # "running"
          BY <2>1, <3>1, <3>4, <4>2, QuietIsNotRunning DEF ExecTypeOK
        <5>2. \A i \in DOMAIN results[t] : i \in DOMAIN results'[t] /\ results'[t][i] = results[t][i]
          <6>1. /\ DOMAIN results[t] = 1 .. Len(results[t]) /\ Len(results[t]) \in Nat
                /\ DOMAIN results'[t] = 1 .. Len(results'[t])
            BY <2>1, <4>1 DEF ExecTypeOK
          <6>2. QED
            BY <4>2, <6>1 DEF Quiet
        <5>3. QED
          BY <4>1, <5>1, <5>2
      <4>3. CASE \E result \in Outputs : Adds(t, result)
        <5>1. PICK result \in Outputs : Adds(t, result)
          BY <4>3
        <5>2. /\ results[t] \in Seq(Seq(Outputs)) /\ results'[t] \in Seq(Seq(Outputs))
          BY <2>1, <4>1 DEF ExecTypeOK
        <5>3. results'[t] = [results[t] EXCEPT ![Len(results[t])] = Append(@, result)]
          <6>1. /\ DOMAIN results[t] = 1 .. Len(results[t])
                /\ DOMAIN results'[t] = 1 .. Len(results[t])
                /\ \A i \in 1 .. Len(results[t]) :
                      results'[t][i] = IF i = Len(results[t]) THEN Append(results[t][i], result)
                                       ELSE results[t][i]
            BY <5>1, <5>2 DEF Adds
          <6>2. results'[t] = [i \in DOMAIN results'[t] |-> results'[t][i]]
            BY <5>2
          <6>3. QED
            BY <6>1, <6>2
        <5>4. ASSUME NEW i \in DOMAIN results[t], NEW k \in DOMAIN results[t][i]
              PROVE  /\ i \in DOMAIN results'[t] /\ k \in DOMAIN results'[t][i]
                     /\ results'[t][i][k] = results[t][i][k]
          <6>1. results[t][i] \in Seq(Outputs) /\ i \in 1 .. Len(results[t])
            BY <5>2
          <6>2. results'[t][i] \in {results[t][i], Append(results[t][i], result)}
            BY <5>1, <6>1 DEF Adds
          <6>3. QED
            BY <5>2, <5>3, <6>1, <6>2
        <5>5. step[t] = "running" => result \in NestedResults
          BY <5>1 DEF Adds
        <5>6. QED
          BY <4>1, <5>3, <5>4, <5>5
      <4>4. QED
        BY <2>1, <3>1, <3>4, <4>2, <4>3, QuietOrAdds
    <3>5. QED
      BY <3>3, <3>4
  <2>6. CASE \/ PlanTargets \/ AutoConfirm \/ CancelOperation \/ ContinueAndReview
             \/ ContinueNoReview \/ RejectGroup \/ FinishTargets \/ Throw \/ Reduce
             \/ Exited \/ UNCHANGED vars
    <3>1. step' = step /\ results' = results
      BY <2>6 DEF PlanTargets, AutoConfirm, CancelOperation, ContinueAndReview, ContinueNoReview,
         RejectGroup, FinishTargets, Throw, Reduce, Exited, vars, targetVars
    <3>2. QED
      BY <2>3, <3>1
  <2>7. QED
    BY <1>1, <2>4, <2>5, <2>6 DEF Next
<1>2. PlanOK /\ OrderInv /\ [Next]_vars => [\A t \in Target : Final(t)]_vars
  BY <1>1
<1>3. QED
  BY <1>2, OrderAlwaysKept, PTL DEF Spec, ResultsFinal

(* "if a target fails the remaining targets should be cancelled": after a  *)
(* command path that does not succeed nothing that follows in the plan     *)
(* runs or is reported as a success, but for the targets beside it.        *)
THEOREM FailureAlwaysCancelsRest == Spec => []FailureCancelsRest
<1>1. ResultsInv => FailureCancelsRest
  BY DEF ResultsInv
<1>2. QED
  BY <1>1, ResultsAlwaysKept, PTL

-----------------------------------------------------------------------------
(* The targets completed, in the order they were. *)
CompletedOK ==
    /\ \A t \in Target : step[t] = "completed" <=> \E m \in DOMAIN completed : completed[m] = t
    /\ \A m, n \in DOMAIN completed : m # n =>
          /\ completed[m] # completed[n]
          /\ limit = 1 /\ m < n => ListedBefore(completed[m], completed[n])

RunResults ==
    command.kind = "run" => \A t \in Planned : PathResults(t) \subseteq {Success, Failed}

(* The reduce command is run after map commands that all succeeded. *)
OutcomePhases ==
    /\ phase \notin {"plan", "done"} => plan # <<>>
    /\ phase = "reduce" =>
          command.kind = "run" /\ \A t \in Planned : \A result \in PathResults(t) : result.success

OutcomeInv ==
    /\ CompletedOK
    /\ RunResults
    /\ OutcomePhases
    /\ OutputTruthful
    /\ ReduceComplete

(* Any two targets of the plan are listed one before the other. *)
LEMMA ListedInOrder ==
    ASSUME PlanOK, NEW t \in Planned, NEW u \in Planned, t # u
    PROVE  ListedBefore(t, u) \/ ListedBefore(u, t)
<1>1. PICK i \in DOMAIN plan, j \in DOMAIN plan : t \in TargetsOf(i) /\ u \in TargetsOf(j)
  BY DEF Planned
<1>2. i \in Nat /\ j \in Nat
  BY <1>1, TargetsOfPlan
<1>3. CASE i # j
  BY <1>1, <1>2, <1>3 DEF ListedBefore
<1>4. CASE i = j
  <2>1. PICK m \in DOMAIN plan[i].targets, n \in DOMAIN plan[i].targets :
            plan[i].targets[m] = t /\ plan[i].targets[n] = u
    BY <1>1, <1>4, TargetsOfPlan
  <2>2. m \in Nat /\ n \in Nat
    BY <1>1, <2>1, TargetsOfPlan
  <2>3. m < n \/ n < m
    BY <2>1, <2>2
  <2>4. QED
    BY <1>1, <1>4, <2>1, <2>3 DEF ListedBefore
<1>5. QED
  BY <1>3, <1>4

LEMMA AllCompleted ==
    ASSUME PlanOK, OrderInv, GroupCompleted, group = Len(plan)
    PROVE  \A t \in Planned : step[t] = "completed"
<1>1. SUFFICES ASSUME NEW i \in DOMAIN plan, NEW t \in TargetsOf(i) PROVE step[t] = "completed"
  BY DEF Planned
<1>2. i < group \/ (i = group /\ group # 0)
  BY <1>1, TargetsOfPlan
<1>3. QED
  BY <1>1, <1>2 DEF OrderInv, GroupsOK, GroupCompleted

(* A completed target has executed all its command paths. *)
LEMMA CompletedExecuted ==
    ASSUME ResultsInv, NEW t \in Planned, step[t] = "completed"
    PROVE  ExecutedAll(t)
  BY DEF ResultsInv, TargetResultsOK, ExecutedAll

LEMMA TargetStepCompleted ==
    ASSUME PlanOK, OrderInv, OrderInv', CompletedOK, NEW t \in Target, TargetStep(t)
    PROVE  CompletedOK'
<1>0. /\ ExecTypeOK /\ CursorOK /\ GroupsOK
      /\ completed \in Seq(Target) /\ Len(completed) \in Nat /\ DOMAIN completed = 1 .. Len(completed)
      /\ step \in [Target -> StepNames] /\ step' \in [Target -> StepNames]
  BY DEF OrderInv, ExecTypeOK
<1>1. TargetFrame(t)
  BY <1>0, TargetStepFrame
<1>2. /\ plan' = plan /\ limit' = limit /\ PlanOK'
      /\ \A u \in Target \ {t} : step'[u] = step[u]
      /\ step[t] # "completed" /\ step[t] # "planned"
      /\ \A x, u : ListedBefore(x, u)' <=> ListedBefore(x, u)
  BY <1>1, PlanKept DEF TargetFrame, inputVars, ListedBefore, TargetsOf
<1>3. CASE step'[t] # "completed"
  <2>1. completed' = completed
    BY <1>1, <1>3 DEF TargetFrame
  <2>2. QED
    BY <1>2, <1>3, <2>1 DEF CompletedOK
<1>4. CASE step'[t] = "completed"
  <2> DEFINE len == Len(completed)
  <2>1. completed' = Append(completed, t)
    BY <1>1, <1>4 DEF TargetFrame
  <2>2. /\ DOMAIN completed' = 1 .. len + 1 /\ completed'[len + 1] = t
        /\ \A m \in 1 .. len : completed'[m] = completed[m]
    BY <1>0, <2>1
  <2>3. \A m \in 1 .. len : completed[m] # t /\ completed[m] \in Target
    BY <1>0, <1>2 DEF CompletedOK
  <2>4. \A u \in Target : step'[u] = "completed" <=> \E m \in DOMAIN completed' : completed'[m] = u
    <3>1. ASSUME NEW u \in Target, u # t
          PROVE  step'[u] = "completed" <=> \E m \in DOMAIN completed' : completed'[m] = u
      <4>1. step'[u] = step[u]
        BY <1>2, <3>1
      <4>2. (\E m \in 1 .. len + 1 : completed'[m] = u) <=> \E m \in 1 .. len : completed[m] = u
        BY <1>0, <2>2, <3>1
      <4>3. QED
        BY <1>0, <2>2, <4>1, <4>2 DEF CompletedOK
    <3>2. step'[t] = "completed" /\ len + 1 \in DOMAIN completed' /\ completed'[len + 1] = t
      BY <1>0, <1>4, <2>2
    <3>3. QED
      BY <3>1, <3>2
  <2>5. ASSUME limit = 1, NEW m \in 1 .. len
        PROVE  ListedBefore(completed[m], t)
    <3> DEFINE u == completed[m]
    <3>1. u \in Target /\ u # t
      BY <2>3
    <3>2. step[u] = "completed"
      BY <1>0, <3>1 DEF CompletedOK
    <3>3. t \in Planned /\ u \in Planned
      BY <1>0, <1>2, <3>1, <3>2 DEF GroupsOK, Planned
    <3>4. ~ListedBefore(t, u)
      <4>1. BegunInOrder
        BY TargetsBegunInOrder
      <4>2. Begun(u)
        BY <3>2 DEF Begun
      <4>3. QED
        BY <1>2, <2>5, <3>3, <4>1, <4>2 DEF BegunInOrder
    <3>5. QED
      BY <3>1, <3>3, <3>4, ListedInOrder
  <2>6. ASSUME NEW m \in 1 .. len + 1, NEW n \in 1 .. len + 1, m # n
        PROVE  /\ completed'[m] # completed'[n]
               /\ limit = 1 /\ m < n => ListedBefore(completed'[m], completed'[n])
    <3>1. CASE m \in 1 .. len /\ n \in 1 .. len
      BY <1>0, <2>2, <2>6, <3>1 DEF CompletedOK
    <3>2. CASE m \in 1 .. len /\ n = len + 1
      BY <2>2, <2>3, <2>5, <3>2
    <3>3. CASE m = len + 1 /\ n \in 1 .. len
      <4>1. ~(m < n)
        BY <1>0, <3>3
      <4>2. QED
        BY <2>2, <2>3, <3>3, <4>1
    <3>4. QED
      BY <1>0, <2>6, <3>1, <3>2, <3>3
  <2>7. QED
    BY <1>2, <2>2, <2>4, <2>6 DEF CompletedOK
<1>5. QED
  BY <1>3, <1>4

LEMMA TargetStepOutcome ==
    ASSUME PlanOK, OrderInv, OrderInv', ResultsInv, OutcomeInv, NEW t \in Target, TargetStep(t)
    PROVE  OutcomeInv'
<1>0. /\ ExecTypeOK /\ ExecTypeOK' /\ CursorOK /\ FlagOK /\ RunResults /\ OutcomePhases
      /\ CompletedOK /\ PhaseOK'
  BY DEF OrderInv, ResultsInv, OutcomeInv
<1>1. TargetFrame(t)
  BY <1>0, TargetStepFrame
<1>2. /\ plan' = plan /\ command' = command /\ phase = "execute" /\ phase' = "execute"
      /\ \A u \in Target \ {t} : results'[u] = results[u]
  BY <1>1 DEF TargetFrame, inputVars
<1>3. Planned' = Planned /\ Planned \subseteq Target
  BY <1>2, TargetsOfPlan DEF Planned, TargetsOf
<1>4. CompletedOK'
  BY <1>0, TargetStepCompleted
<1>5. RunResults'
  <2>1. SUFFICES ASSUME command.kind = "run", NEW u \in Planned
                 PROVE  PathResults(u)' \subseteq {Success, Failed}
    BY <1>2, <1>3 DEF RunResults
  <2>2. PathResults(u) \subseteq {Success, Failed}
    BY <1>0, <2>1 DEF RunResults
  <2>3. CASE u # t
    BY <1>2, <1>3, <2>2, <2>3 DEF PathResults
  <2>4. CASE u = t /\ Quiet(t)
    BY <1>0, <2>2, <2>4, QuietResults
  <2>5. ASSUME u = t, NEW result \in Outputs, Adds(t, result)
        PROVE  PathResults(u)' \subseteq {Success, Failed}
    <3>1. result \in NestedResults
      BY <1>0, <2>1, <2>5 DEF Adds, FlagOK
    <3>2. result \in {Success, Failed}
      BY <2>1, <3>1 DEF NestedResults
    <3>3. QED
      BY <1>0, <2>2, <2>5, <3>2, AddedResults
  <2>6. QED
    BY <1>0, <2>3, <2>4, <2>5, QuietOrAdds
<1>6. OutcomePhases'
  BY <1>0, <1>2 DEF OutcomePhases
<1>7. OutputTruthful'
  BY <1>2 DEF OutputTruthful
<1>8. ReduceComplete'
  <2>1. reduced' = <<>>
    BY <1>0, <1>2 DEF PhaseOK
  <2>2. QED
    BY <2>1 DEF ReduceComplete
<1>9. QED
  BY <1>4, <1>5, <1>6, <1>7, <1>8 DEF OutcomeInv

LEMMA OutcomeStandsStill ==
    ASSUME PlanOK, OrderInv, OutcomeInv, UNCHANGED <<inputVars, results, completed>>,
           limit' = limit \/ (group = 0 /\ limit' = 1),
           \A t \in Target : step'[t] = "completed" <=> step[t] = "completed"
    PROVE  /\ CompletedOK' /\ RunResults'
           /\ Planned' = Planned
           /\ \A t : PathResults(t)' = PathResults(t)
<1>0. /\ GroupsOK /\ CompletedOK /\ RunResults /\ completed \in Seq(Target)
      /\ plan' = plan /\ command' = command /\ results' = results /\ completed' = completed
  BY DEF OrderInv, ExecTypeOK, OutcomeInv, inputVars
<1>1. /\ Planned' = Planned
      /\ \A t : PathResults(t)' = PathResults(t)
      /\ \A x, u : ListedBefore(x, u)' <=> ListedBefore(x, u)
  BY <1>0 DEF Planned, TargetsOf, PathResults, ListedBefore
<1>2. CompletedOK'
  <2>1. CASE limit' = limit
    BY <1>0, <1>1, <2>1 DEF CompletedOK
  <2>2. CASE group = 0
    <3>1. \A t \in Target : step[t] # "completed"
      BY <1>0, <2>2, TargetsOfPlan DEF GroupsOK
    <3>2. \A m \in DOMAIN completed : completed[m] \in Target
      BY <1>0
    <3>3. DOMAIN completed = {}
      BY <1>0, <3>1, <3>2 DEF CompletedOK
    <3>4. QED
      BY <1>0, <3>1, <3>3 DEF CompletedOK
  <2>3. QED
    BY <2>1, <2>2
<1>3. QED
  BY <1>0, <1>1, <1>2 DEF RunResults

(* The end of a command whose output is that of all its targets. *)
LEMMA OverallTruthful ==
    ASSUME PlanOK, OrderInv, ResultsInv, GroupCompleted, group = Len(plan)
    PROVE  /\ OverallResult \in {Success, Skipped} =>
                 \A t \in Planned : /\ ExecutedAll(t)
                                    /\ PathResults(t) \subseteq {Success, Skipped, Declined}
           /\ OverallResult \in {Cancelled, Declined} =>
                 \A t \in Planned : PathResults(t) \subseteq {Cancelled, Declined}
           /\ OverallResult = Failed =>
                 \E t \in Planned : \E result \in PathResults(t) : ~result.success
<1>1. ExecTypeOK /\ Planned \subseteq Target
  BY TargetsOfPlan DEF OrderInv
<1>2. \A t \in Planned : ExecutedAll(t)
  BY AllCompleted, CompletedExecuted
<1>3. OverallResult \in {Success, Skipped} =>
         \A t \in Planned : PathResults(t) \subseteq {Success, Skipped, Declined}
  <2>1. SUFFICES ASSUME OverallResult.success, NEW t \in Planned, NEW result \in PathResults(t)
                 PROVE  result \in {Success, Skipped, Declined}
    BY DEF Success, Skipped
  <2>2. result.success
    BY <1>1, <2>1, OverallResultIs
  <2>3. result \in Outputs
    BY <1>1, <2>1, TargetResultIs
  <2>4. QED
    BY <2>2, <2>3 DEF Outputs, Failed, Cancelled
<1>4. QED
  BY <1>1, <1>2, <1>3, OverallResultIs

(* The results of a run that succeeded. *)
LEMMA RunSucceeded ==
    ASSUME PlanOK, OrderInv, ResultsInv, command.kind = "run",
           NEW t \in Planned, step[t] = "completed", PathResults(t) \subseteq {Success}
    PROVE  results[t] = <<<<Success>>>>
<1>1. ExecutedAll(t)
  BY CompletedExecuted
<1>2. Work(t) = <<1>>
  BY DEF Work, ConfigSetsToExecute
<1>3. results[t] \in Seq(Seq(Outputs)) /\ Len(results[t]) = 1
  <2>1. Planned \subseteq Target
    BY TargetsOfPlan
  <2>2. QED
    BY <1>1, <1>2, <2>1 DEF ExecutedAll, OrderInv, ExecTypeOK
<1> DEFINE inner == results[t][1]
<1>4. inner \in Seq(Outputs) /\ Len(inner) = 1
  <2>1. Work(t)[1] = 1 /\ 1 \in DOMAIN results[t]
    BY <1>2, <1>3
  <2>2. QED
    BY <1>1, <1>3, <2>1 DEF ExecutedAll
<1>5. inner[1] \in PathResults(t)
  <2>1. 1 \in DOMAIN results[t] /\ 1 \in DOMAIN inner
    BY <1>3, <1>4
  <2>2. inner[1] \in ToSet(inner)
    BY <2>1 DEF ToSet
  <2>3. QED
    BY <2>1, <2>2 DEF PathResults
<1>6. inner[1] = Success
  BY <1>5
<1> HIDE DEF inner
<1>7. inner = <<Success>>
  BY <1>4, <1>6
<1>8. results[t] = <<inner>>
  BY <1>3 DEF inner
<1>9. QED
  BY <1>7, <1>8

LEMMA ReduceOutcome ==
    ASSUME PlanOK, OrderInv, ResultsInv, OutcomeInv, Reduce
    PROVE  OutcomeInv'
<1>0. /\ phase = "reduce" /\ phase' = "done" /\ reduced' = completed
      /\ output' \in {OverallResult, Failed}
      /\ UNCHANGED <<inputVars, autoConfirm, limit, group, targetVars>>
  BY DEF Reduce, Finish
<1>1. /\ ExecTypeOK /\ GroupCompleted /\ group = Len(plan) /\ GroupsOK /\ Planned \subseteq Target
      /\ CompletedOK /\ plan # <<>> /\ command.kind = "run"
      /\ RunResults /\ \A t \in Planned : \A result \in PathResults(t) : result.success
      /\ completed \in Seq(Target)
  BY <1>0, TargetsOfPlan DEF OrderInv, PhaseOK, OutcomeInv, OutcomePhases, ExecTypeOK
<1>2. /\ CompletedOK' /\ RunResults' /\ Planned' = Planned
      /\ \A t : PathResults(t)' = PathResults(t)
  BY <1>0, OutcomeStandsStill DEF targetVars
<1>3. \A t \in Planned : step[t] = "completed"
  BY <1>1, AllCompleted
<1>4. \A t \in Target : step[t] = "completed" => t \in Planned
  BY <1>1 DEF GroupsOK, Planned
<1>5. completed # <<>>
  <2>1. 1 \in DOMAIN plan
    BY <1>1 DEF PlanOK
  <2>2. 1 \in DOMAIN plan[1].targets
    BY <2>1, TargetsOfPlan DEF PlanOK
  <2>3. plan[1].targets[1] \in Planned
    BY <2>1, <2>2, TargetsOfPlan DEF Planned
  <2>4. DOMAIN completed # {}
    BY <1>1, <1>3, <2>3 DEF CompletedOK
  <2>5. QED
    BY <2>4
<1>6. ToSet(completed) = Planned
  <2>1. \A t : t \in ToSet(completed) <=> \E m \in DOMAIN completed : completed[m] = t
    BY DEF ToSet
  <2>2. \A m \in DOMAIN completed : completed[m] \in Target
    BY <1>1
  <2>3. \A t \in Target : step[t] = "completed" <=> \E m \in DOMAIN completed : completed[m] = t
    BY <1>1 DEF CompletedOK
  <2>4. ASSUME NEW t \in Planned PROVE t \in ToSet(completed)
    BY <1>1, <1>3, <2>1, <2>3
  <2>5. ASSUME NEW t \in ToSet(completed) PROVE t \in Planned
    BY <1>4, <2>1, <2>2, <2>3
  <2>6. QED
    BY <2>4, <2>5
<1>7. \A t \in Planned : results[t] = <<<<Success>>>>
  <2>1. \A t \in Planned : PathResults(t) \subseteq {Success}
    BY <1>1 DEF RunResults, Failed
  <2>2. QED
    BY <1>1, <1>3, <2>1, RunSucceeded
<1>8. OutcomePhases'
  BY <1>0 DEF OutcomePhases
<1>9. OutputTruthful'
  <2>1. CASE output' = Failed
    BY <1>0, <1>5, <2>1 DEF OutputTruthful, Failed, Success, Skipped, Cancelled, Declined
  <2>2. CASE output' = OverallResult
    <3>1. OverallResult # Failed
      <4>1. OverallResult.success
        BY <1>1, OverallResultIs
      <4>2. QED
        BY <4>1 DEF Failed
    <3>2. \A t \in Planned : ExecutedAll(t)' <=> ExecutedAll(t)
      BY <1>0 DEF ExecutedAll, Work, targetVars, inputVars
    <3>3. QED
      BY <1>0, <1>1, <1>2, <2>2, <3>1, <3>2, OverallTruthful DEF OutputTruthful
  <2>3. QED
    BY <1>0, <2>1, <2>2
<1>10. ReduceComplete'
  <2>1. \A m, n \in DOMAIN completed : m # n =>
           /\ completed[m] # completed[n]
           /\ limit = 1 /\ m < n => ListedBefore(completed[m], completed[n])
    BY <1>1 DEF CompletedOK
  <2>2. \A x, u : ListedBefore(x, u)' <=> ListedBefore(x, u)
    BY <1>0 DEF ListedBefore, TargetsOf, inputVars
  <2>3. QED
    BY <1>0, <1>2, <1>6, <1>7, <2>1, <2>2 DEF ReduceComplete, targetVars
<1>11. QED
  BY <1>2, <1>8, <1>9, <1>10 DEF OutcomeInv

LEMMA OutputsDiffer ==
    /\ Error \notin Outputs
    /\ {Success, Skipped} \intersect {Cancelled, Declined} = {}
    /\ Failed \notin {Success, Skipped, Cancelled, Declined}
  BY DEF Error, Outputs, Success, Skipped, Failed, Cancelled, Declined

LEMMA SchedulerOutcome ==
    ASSUME PlanOK, OrderInv, OrderInv', ResultsInv, OutcomeInv,
           \/ PlanTargets \/ AutoConfirm \/ CancelOperation \/ ContinueAndReview
           \/ ContinueNoReview \/ RejectGroup \/ FinishTargets \/ Throw
    PROVE  OutcomeInv'
<1> USE DEF Finish
<1>0. /\ PhaseOK /\ PhaseOK' /\ ExecTypeOK /\ GroupsOK /\ NothingYet /\ OutcomePhases
      /\ Planned \subseteq Target
  BY TargetsOfPlan DEF OrderInv, ResultsInv, OutcomeInv
<1>1. /\ UNCHANGED <<inputVars, group, targetVars, reduced>>
      /\ limit' = limit \/ (group = 0 /\ limit' = 1)
      /\ reduced = <<>> /\ plan' = plan /\ command' = command /\ results' = results
  <2>1. UNCHANGED <<inputVars, group, targetVars, reduced>> /\ phase # "done"
    BY DEF PlanTargets, AutoConfirm, CancelOperation, ContinueAndReview, ContinueNoReview,
           RejectGroup, FinishTargets, Throw
  <2>2. limit' = limit \/ (phase = "confirm" /\ limit' = 1)
    BY DEF PlanTargets, AutoConfirm, CancelOperation, ContinueAndReview, ContinueNoReview,
           RejectGroup, FinishTargets, Throw
  <2>3. QED
    BY <1>0, <2>1, <2>2 DEF PhaseOK, inputVars, targetVars
<1>2. /\ CompletedOK' /\ RunResults' /\ Planned' = Planned
      /\ \A t : PathResults(t)' = PathResults(t)
  BY <1>1, OutcomeStandsStill DEF targetVars
<1>3. ReduceComplete'
  BY <1>1 DEF ReduceComplete
<1>4. CASE phase' # "done" /\ phase' # "reduce"
  <2>1. plan # <<>>
    BY <1>0, <1>4 DEF OutcomePhases, PlanTargets, AutoConfirm, CancelOperation,
                      ContinueAndReview, ContinueNoReview, RejectGroup, FinishTargets, Throw
  <2>2. OutcomePhases' /\ OutputTruthful'
    BY <1>1, <1>4, <2>1 DEF OutcomePhases, OutputTruthful
  <2>3. QED
    BY <1>2, <1>3, <2>2 DEF OutcomeInv
<1>5. CASE phase' = "done"
  <2>1. OutcomePhases'
    BY <1>5 DEF OutcomePhases
  <2>2. ASSUME output' = Error PROVE OutputTruthful'
    <3>1. output' \notin {Success, Skipped} /\ output' \notin {Cancelled, Declined} /\ output' # Failed
      BY <2>2, OutputsDiffer DEF Outputs
    <3>2. QED
      BY <3>1 DEF OutputTruthful
  <2>3. ASSUME PlanTargets /\ output' # Error PROVE OutputTruthful'
    <3>1. output' = Skipped /\ plan = <<>>
      BY <1>5, <2>3 DEF PlanTargets
    <3>2. output' \notin {Cancelled, Declined} /\ output' # Failed /\ plan' = <<>>
      BY <1>1, <3>1, OutputsDiffer
    <3>3. QED
      BY <3>2 DEF OutputTruthful
  <2>4. ASSUME CancelOperation PROVE OutputTruthful'
    <3>1. output' \in {Cancelled, Declined}
      BY <2>4 DEF CancelOperation
    <3>2. group = 0
      BY <1>0, <2>4 DEF CancelOperation, PhaseOK
    <3>3. \A t \in Planned : results[t] = <<>>
      BY <1>0, <3>2, TargetsOfPlan DEF GroupsOK, NothingYet
    <3>4. ASSUME NEW t \in Planned PROVE PathResults(t) = {}
      <4>1. results[t] = <<>>
        BY <3>3
      <4>2. QED
        BY <4>1 DEF PathResults
    <3>5. output' \notin {Success, Skipped} /\ output' # Failed
      BY <3>1, OutputsDiffer
    <3>6. QED
      BY <1>2, <3>4, <3>5 DEF OutputTruthful
  <2>5. ASSUME FinishTargets PROVE OutputTruthful'
    <3>1. output' = OverallResult /\ GroupCompleted /\ group = Len(plan)
      BY <1>5, <2>5 DEF FinishTargets
    <3>2. \A t \in Planned : ExecutedAll(t)' <=> ExecutedAll(t)
      BY <1>1 DEF ExecutedAll, Work, targetVars, inputVars
    <3>3. /\ output' \in {Success, Skipped} =>
                \A t \in Planned : /\ ExecutedAll(t)'
                                   /\ PathResults(t)' \subseteq {Success, Skipped, Declined}
          /\ output' \in {Cancelled, Declined} =>
                \A t \in Planned : PathResults(t)' \subseteq {Cancelled, Declined}
          /\ output' = Failed =>
                \E t \in Planned : \E result \in PathResults(t)' : ~result.success
      BY <1>2, <3>1, <3>2, OverallTruthful
    <3>4. QED
      BY <1>2, <3>3 DEF OutputTruthful
  <2>6. ASSUME RejectGroup \/ Throw PROVE OutputTruthful'
    BY <2>2, <2>6 DEF RejectGroup, Throw
  <2>7. OutputTruthful'
    <3>1. PlanTargets \/ CancelOperation \/ FinishTargets \/ RejectGroup \/ Throw
      BY <1>5 DEF AutoConfirm, ContinueAndReview, ContinueNoReview
    <3>2. QED
      BY <2>2, <2>3, <2>4, <2>5, <2>6, <3>1, Zenon
  <2>8. QED
    BY <1>2, <1>3, <2>1, <2>7 DEF OutcomeInv
<1>6. CASE phase' = "reduce"
  <2>1. FinishTargets /\ Reduces /\ phase = "execute"
    BY <1>6 DEF PlanTargets, AutoConfirm, CancelOperation, ContinueAndReview, ContinueNoReview,
                RejectGroup, FinishTargets, Throw
  <2>2. command.kind = "run" /\ \A t \in Planned : \A result \in PathResults(t) : result.success
    BY <1>0, <2>1, OverallResultIs DEF Reduces
  <2>3. OutcomePhases'
    BY <1>0, <1>1, <1>2, <2>1, <2>2 DEF OutcomePhases
  <2>4. OutputTruthful'
    BY <1>6 DEF OutputTruthful
  <2>5. QED
    BY <1>2, <1>3, <2>3, <2>4 DEF OutcomeInv
<1>7. QED
  BY <1>4, <1>5, <1>6

LEMMA BeginGroupOutcome ==
    ASSUME PlanOK, OrderInv, OrderInv', ResultsInv, OutcomeInv, BeginGroup
    PROVE  OutcomeInv'
<1>0. /\ UNCHANGED <<inputVars, limit, results, completed, reduced>>
      /\ phase = "execute" /\ phase' = "execute" /\ group < Len(plan)
  BY DEF BeginGroup
<1>1. OutcomePhases /\ PhaseOK' /\ plan' = plan
  BY <1>0 DEF OrderInv, OutcomeInv, inputVars
<1>2. \A t \in Target : step'[t] = "completed" <=> step[t] = "completed"
  BY BeginGroupTakesPlanned
<1>3. CompletedOK' /\ RunResults'
  BY <1>0, <1>2, OutcomeStandsStill
<1>4. OutcomePhases' /\ OutputTruthful' /\ ReduceComplete'
  BY <1>0, <1>1 DEF OutcomePhases, OutputTruthful, ReduceComplete, PhaseOK
<1>5. QED
  BY <1>3, <1>4 DEF OutcomeInv

LEMMA InitOutcome ==
    ASSUME Init, PlanOK
    PROVE  OutcomeInv
<1>1. /\ phase = "plan" /\ step = [t \in Target |-> "planned"]
      /\ results = [t \in Target |-> <<>>] /\ completed = <<>> /\ reduced = <<>>
      /\ Planned \subseteq Target
  BY TargetsOfPlan DEF Init
<1>2. DOMAIN <<>> = {}
  OBVIOUS
<1>3. QED
  BY <1>1, <1>2 DEF OutcomeInv, CompletedOK, RunResults, OutcomePhases, OutputTruthful,
                    ReduceComplete, PathResults

LEMMA NextOutcome ==
    ASSUME PlanOK, OrderInv, OrderInv', ResultsInv, OutcomeInv, [Next]_vars
    PROVE  OutcomeInv'
<1>1. CASE UNCHANGED vars
  <2>1. CompletedOK' /\ RunResults'
    BY <1>1, OutcomeStandsStill DEF vars, targetVars
  <2>2. /\ OutcomePhases /\ OutputTruthful /\ ReduceComplete
        /\ \A t : PathResults(t)' = PathResults(t)
        /\ \A t : ExecutedAll(t)' <=> ExecutedAll(t)
        /\ \A t, u : ListedBefore(t, u)' <=> ListedBefore(t, u)
        /\ Planned' = Planned
    BY <1>1 DEF vars, inputVars, targetVars, OutcomeInv, PathResults, ExecutedAll, Planned,
                TargetsOf, Work, ListedBefore
  <2>3. OutcomePhases'
    BY <1>1, <2>2 DEF vars, inputVars, OutcomePhases
  <2>4. OutputTruthful'
    BY <1>1, <2>2 DEF vars, inputVars, OutputTruthful
  <2>5. ReduceComplete'
    BY <1>1, <2>2 DEF vars, inputVars, targetVars, ReduceComplete
  <2>6. QED
    BY <2>1, <2>3, <2>4, <2>5 DEF OutcomeInv
<1>2. QED
  BY <1>1, TargetStepOutcome, SchedulerOutcome, BeginGroupOutcome, ReduceOutcome DEF Next, Exited

(* The targets completed, the results of a run and the output of the       *)
(* command are those of the targets of the plan.                           *)
THEOREM OutcomesAlwaysKept == Spec => []OutcomeInv
<1>1. Init => OutcomeInv
  BY InitPlan, InitOutcome
<1>2. PlanOK /\ OrderInv /\ OrderInv' /\ ResultsInv /\ OutcomeInv /\ [Next]_vars => OutcomeInv'
  BY NextOutcome
<1>3. QED
  BY <1>1, <1>2, OrderAlwaysKept, ResultsAlwaysKept, PTL DEF Spec

(* A successful command has executed every command path of every target of *)
(* the plan with success, a cancelled one none, and a failed one had a     *)
(* failure: the output follows from all the groups, not from the last one. *)
THEOREM OutputAlwaysTruthful == Spec => []OutputTruthful
<1>1. OutcomeInv => OutputTruthful
  BY DEF OutcomeInv
<1>2. QED
  BY <1>1, OutcomesAlwaysKept, PTL

(* The reduce command is only handed the complete values of map commands   *)
(* that all succeeded, each target's once.                                 *)
THEOREM ReduceAlwaysComplete == Spec => []ReduceComplete
<1>1. OutcomeInv => ReduceComplete
  BY DEF OutcomeInv
<1>2. QED
  BY <1>1, OutcomesAlwaysKept, PTL

-----------------------------------------------------------------------------
(* All the groups before t's have succeeded. *)
Succeeded(t) == \A u \in Needs[t] : TargetResult(u).success

(* The state of t, for StackOperations, knowing that after the failure of  *)
(* an earlier group t does nothing but cancel its command paths.           *)
StateOf(t) ==
    IF ~Begun(t) THEN "waiting"
    ELSE IF step[t] # "completed" THEN (IF Succeeded(t) THEN "begun" ELSE "waiting")
    ELSE IF ~Succeeded(t) THEN "CANCELLED"
    ELSE IF TargetResult(t).success THEN "SUCCESS" ELSE "FAILED"

LEMMA NeedsAre ==
    ASSUME PlanOK
    PROVE  /\ Needs \in [Target -> SUBSET Target]
           /\ \A t \in Target : \A u \in Needs[t] :
                 /\ command.kind # "run" /\ t \in Planned /\ u \in Planned
                 /\ ListedBefore(u, t) /\ ~SameGroup(u, t)
                 /\ Needs[u] \subseteq Needs[t]
<1>1. Planned \subseteq Target /\ Len(plan) \in Nat /\ DOMAIN plan = 1 .. Len(plan)
  BY TargetsOfPlan
<1>2. \A t \in Target :
         Needs[t] = IF command.kind = "run" THEN {}
                    ELSE {u \in Planned : \E i, j \in DOMAIN plan :
                             i < j /\ u \in TargetsOf(i) /\ t \in TargetsOf(j)}
  BY DEF Needs
<1>3. ASSUME NEW t \in Target, NEW u \in Needs[t]
      PROVE  /\ command.kind # "run" /\ t \in Planned /\ u \in Planned
             /\ ListedBefore(u, t) /\ ~SameGroup(u, t)
             /\ Needs[u] \subseteq Needs[t]
  <2>1. command.kind # "run" /\ u \in Planned /\ u \in Target
    BY <1>1, <1>2, <1>3
  <2>2. PICK i \in DOMAIN plan, j \in DOMAIN plan : i < j /\ u \in TargetsOf(i) /\ t \in TargetsOf(j)
    BY <1>2, <1>3, <2>1
  <2>3. t \in Planned /\ ListedBefore(u, t)
    BY <2>2 DEF Planned, ListedBefore
  <2>4. ~SameGroup(u, t)
    <3>1. SUFFICES ASSUME NEW k \in DOMAIN plan, u \in TargetsOf(k), t \in TargetsOf(k) PROVE FALSE
      BY DEF SameGroup
    <3>2. k = i /\ k = j
      BY <2>2, <3>1, TargetsOfPlan
    <3>3. QED
      BY <1>1, <2>2, <3>2
  <2>5. ASSUME NEW v \in Needs[u] PROVE v \in Needs[t]
    <3>1. v \in Planned
      BY <1>2, <2>1, <2>5
    <3>2. PICK k \in DOMAIN plan, l \in DOMAIN plan : k < l /\ v \in TargetsOf(k) /\ u \in TargetsOf(l)
      BY <1>2, <2>1, <2>5
    <3>3. l = i
      BY <2>2, <3>2, TargetsOfPlan
    <3>4. k < j
      BY <1>1, <2>2, <3>2, <3>3
    <3>5. QED
      BY <1>2, <2>1, <2>2, <3>1, <3>2, <3>4
  <2>6. QED
    BY <2>1, <2>3, <2>4, <2>5
<1>4. Needs \in [Target -> SUBSET Target]
  <2>1. \A t \in Target : Needs[t] \in SUBSET Target
    BY <1>1, <1>2
  <2>2. Needs = [t \in Target |-> Needs[t]]
    BY DEF Needs
  <2>3. QED
    BY <2>1, <2>2
<1>5. QED
  BY <1>3, <1>4

StatesMatch == TargetState = [t \in Target |-> StateOf(t)]

LEMMA TargetStateIs == PlanOK /\ OrderInv /\ ResultsInv => StatesMatch
<1> SUFFICES ASSUME PlanOK, OrderInv, ResultsInv
             PROVE  TargetState = [t \in Target |-> StateOf(t)]
  BY DEF StatesMatch
<1>1. ASSUME NEW t \in Target
      PROVE  Succeeded(t) \/ (step[t] # "running" /\ PathResults(t) \subseteq {Cancelled})
  <2>1. SUFFICES ASSUME NEW u \in Needs[t], ~TargetResult(u).success
                 PROVE  step[t] # "running" /\ PathResults(t) \subseteq {Cancelled}
    BY DEF Succeeded
  <2>2. /\ command.kind # "run" /\ t \in Planned /\ u \in Planned /\ u \in Target
        /\ ListedBefore(u, t) /\ ~SameGroup(u, t)
    BY NeedsAre, TargetsOfPlan
  <2>3. PICK result \in PathResults(u) : ~result.success
    BY <2>1, <2>2, TargetResultIs DEF OrderInv
  <2>4. PICK i \in DOMAIN results[u] : result \in ToSet(results[u][i])
    BY DEF PathResults
  <2>5. PICK k \in DOMAIN results[u][i] : results[u][i][k] = result
    BY <2>4 DEF ToSet
  <2>6. QED
    BY <2>2, <2>3, <2>5 DEF ResultsInv, FailureCancelsRest
<1>2. ASSUME NEW t \in Target PROVE TargetState[t] = StateOf(t)
  <2> DEFINE begun == Succeeded(t) \/ step[t] = "running" \/ ~(PathResults(t) \subseteq {Cancelled})
  <2>1. begun <=> Succeeded(t)
    BY <1>1, <1>2
  <2>2. TargetState[t] = CASE ~Begun(t) -> "waiting"
                           [] Begun(t) /\ step[t] # "completed" -> IF begun THEN "begun" ELSE "waiting"
                           [] OTHER -> IF ~begun THEN "CANCELLED"
                                       ELSE IF TargetResult(t).success THEN "SUCCESS" ELSE "FAILED"
    BY DEF TargetState, Succeeded
  <2> HIDE DEF begun
  <2>3. QED
    BY <2>1, <2>2 DEF StateOf
<1>3. TargetState = [t \in Target |-> TargetState[t]]
  BY DEF TargetState
<1>4. QED
  BY <1>2, <1>3

(* The steps of the command itself begin and end no target. *)
LEMMA SchedulerStutters ==
    ASSUME PlanOK, OrderInv, OrderInv', PlanOK', ResultsInv, ResultsInv',
           UNCHANGED <<inputVars, results>>,
           \A t \in Target : step'[t] = step[t] \/ (step[t] = "planned" /\ step'[t] = "queued")
    PROVE  UNCHANGED <<Needs, TargetState>>
<1>1. plan' = plan /\ command' = command /\ results' = results
  BY DEF inputVars
<1>2. Needs' = Needs
  BY <1>1 DEF Needs, Planned, TargetsOf
<1>3. \A t : TargetResult(t)' = TargetResult(t)
  BY <1>1 DEF TargetResult, ConfigSetResult
<1>4. \A t \in Target : StateOf(t)' = StateOf(t)
  BY <1>2, <1>3 DEF StateOf, Begun, Succeeded
<1>5. StatesMatch /\ StatesMatch'
  BY TargetStateIs, PTL
<1>6. QED
  BY <1>2, <1>4, <1>5 DEF StatesMatch

LEMMA TargetStepRefines ==
    ASSUME PlanOK, OrderInv, OrderInv', PlanOK', ResultsInv, ResultsInv',
           NEW t \in Target, TargetStep(t)
    PROVE  Abstract!Next \/ UNCHANGED <<Needs, TargetState>>
<1>0. ExecTypeOK /\ ExecTypeOK' /\ CursorOK /\ TargetFrame(t)
  BY TargetStepFrame DEF OrderInv
<1>1. /\ plan' = plan /\ command' = command
      /\ \A u \in Target \ {t} : step'[u] = step[u] /\ results'[u] = results[u]
  BY <1>0 DEF TargetFrame, inputVars
<1>2. Needs' = Needs /\ Needs \in [Target -> SUBSET Target]
  BY <1>1, NeedsAre DEF Needs, Planned, TargetsOf
<1>3. BegunInOrder /\ BegunInOrder'
  BY TargetsBegunInOrder, PTL
<1>4. \A u \in Target \ {t} : TargetResult(u)' = TargetResult(u)
  BY <1>1 DEF TargetResult, ConfigSetResult
<1>5. step'[t] = "completed" => TargetResult(t)' = TargetResult(t)
  <2>1. ASSUME step'[t] = "completed" PROVE results' = results
    <3>1. CompleteTarget(t)
      BY <1>0, <2>1 DEF TargetFrame, TargetStep, BeginTarget, BeginConfigSet, CancelCommandPath,
                        ExecuteCommandPath, CommandPathReturns, RecordResult, ResultOfPath, ExecTypeOK
    <3>2. QED
      BY <3>1 DEF CompleteTarget
  <2>2. QED
    BY <2>1 DEF TargetResult, ConfigSetResult
<1>6. ASSUME NEW u \in Target, Begun(u)', NEW v \in Needs[u]
      PROVE  v \in Target /\ step'[v] = "completed" /\ TargetResult(v)' = TargetResult(v)
  <2>1. /\ u \in Planned /\ v \in Planned /\ ListedBefore(v, u) /\ ~SameGroup(v, u)
        /\ v \in Target
    BY <1>2, NeedsAre
  <2>2. Planned' = Planned /\ ListedBefore(v, u)' /\ ~SameGroup(v, u)'
    BY <1>1, <2>1 DEF Planned, TargetsOf, ListedBefore, SameGroup
  <2>3. step'[v] = "completed"
    BY <1>3, <1>6, <2>1, <2>2 DEF BegunInOrder
  <2>4. QED
    BY <1>4, <1>5, <2>1, <2>3
<1>7. \A u \in Target : Begun(u)' => (Succeeded(u)' <=> Succeeded(u))
  BY <1>2, <1>6 DEF Succeeded
<1>8. \A u \in Target \ {t} : StateOf(u)' = StateOf(u)
  BY <1>1, <1>4, <1>7 DEF StateOf, Begun
<1>9. /\ TargetState = [u \in Target |-> StateOf(u)]
      /\ TargetState' = [u \in Target |-> StateOf(u)']
  <2>1. StatesMatch /\ StatesMatch'
    BY TargetStateIs, PTL
  <2>2. QED
    BY <2>1 DEF StatesMatch
<1>10. TargetState' = [TargetState EXCEPT ![t] = StateOf(t)']
  BY <1>8, <1>9
<1>11. ASSUME StateOf(t)' = StateOf(t) PROVE UNCHANGED <<Needs, TargetState>>
  BY <1>2, <1>9, <1>10, <1>11
<1>12. step'[t] \notin {"planned", "queued"} /\ Begun(t)'
  BY <1>0 DEF TargetFrame, Begun
<1>13. CASE step[t] = "queued" /\ step'[t] = "next"
  <2>1. StateOf(t) = "waiting"
    BY <1>13 DEF StateOf, Begun
  <2>2. StateOf(t)' = IF Succeeded(t) THEN "begun" ELSE "waiting"
    BY <1>7, <1>12, <1>13 DEF StateOf
  <2>3. CASE Succeeded(t)
    <3>1. ASSUME NEW u \in Needs[t] PROVE TargetState[u] = "SUCCESS"
      <4>1. u \in Target /\ step'[u] = "completed" /\ u # t
        BY <1>6, <1>12, <1>13
      <4>2. step[u] = "completed" /\ Begun(u)
        BY <1>1, <4>1 DEF Begun
      <4>3. Succeeded(u)
        BY <2>3, NeedsAre DEF Succeeded
      <4>4. TargetResult(u).success
        BY <2>3 DEF Succeeded
      <4>5. QED
        BY <1>9, <4>1, <4>2, <4>3, <4>4 DEF StateOf
    <3>2. Abstract!Begin(t)
      BY <1>2, <1>9, <1>10, <2>1, <2>2, <2>3, <3>1 DEF Abstract!Begin, Abstract!Ready, Abstract!GoodEnds
    <3>3. QED
      BY <3>2 DEF Abstract!Next
  <2>4. CASE ~Succeeded(t)
    BY <1>11, <2>1, <2>2, <2>4
  <2>5. QED
    BY <2>3, <2>4
<1>14. CASE step[t] \in {"next", "running", "returned"} /\ step'[t] \in {"next", "running", "returned"}
  <2>1. StateOf(t) = IF Succeeded(t) THEN "begun" ELSE "waiting"
    BY <1>14 DEF StateOf, Begun
  <2>2. StateOf(t)' = IF Succeeded(t) THEN "begun" ELSE "waiting"
    BY <1>7, <1>12, <1>14 DEF StateOf
  <2>3. QED
    BY <1>11, <2>1, <2>2
<1>15. CASE step[t] = "next" /\ step'[t] = "completed"
  <2>1. TargetState[t] = IF Succeeded(t) THEN "begun" ELSE "waiting"
    BY <1>9, <1>15 DEF StateOf, Begun
  <2>2. StateOf(t)' = IF ~Succeeded(t) THEN "CANCELLED"
                      ELSE IF TargetResult(t)'.success THEN "SUCCESS" ELSE "FAILED"
    BY <1>7, <1>12, <1>15 DEF StateOf
  <2>3. CASE Succeeded(t)
    <3>1. StateOf(t)' \in {"SUCCESS", "FAILED"}
      BY <2>2, <2>3
    <3>2. Abstract!End(t)
      BY <1>2, <1>10, <2>1, <2>3, <3>1 DEF Abstract!End, Abstract!GoodEnds, Abstract!BadEnds
    <3>3. QED
      BY <3>2 DEF Abstract!Next
  <2>4. CASE ~Succeeded(t)
    <3>1. TargetState[t] = "waiting" /\ TargetState' = [TargetState EXCEPT ![t] = "CANCELLED"]
      BY <1>10, <2>1, <2>2, <2>4
    <3>2. TargetState \in [Target -> Abstract!States]
      <4>1. \A u \in Target : StateOf(u) \in Abstract!States
        BY DEF StateOf, Abstract!States, Abstract!GoodEnds, Abstract!BadEnds
      <4>2. QED
        BY <1>9, <4>1
    <3>3. TargetState' \in [Target -> Abstract!States]
      BY <3>1, <3>2 DEF Abstract!States, Abstract!BadEnds
    <3>4. Abstract!Refuse({t})
      BY <1>2, <3>1, <3>2, <3>3 DEF Abstract!Refuse, Abstract!BadEnds
    <3>5. {t} \in SUBSET Target
      OBVIOUS
    <3>6. QED
      BY <3>4, <3>5 DEF Abstract!Next
  <2>5. QED
    BY <2>3, <2>4
<1>16. QED
  BY <1>0, <1>13, <1>14, <1>15 DEF TargetFrame

(* A command over targets keeps the promise of StackOperations: no target  *)
(* of a deployment or an undeployment begins unless all the groups before  *)
(* its own have succeeded.                                                 *)
THEOREM TargetsRefineStackOperations == Spec => ImplementsStackOperations
<1>1. Init => Abstract!Init
  <2> SUFFICES ASSUME Init, PlanOK PROVE Abstract!Init
    BY InitPlan
  <2>1. TargetState = [t \in Target |-> StateOf(t)]
    BY InitOrder, InitResults, TargetStateIs DEF StatesMatch
  <2>2. \A t \in Target : StateOf(t) = "waiting"
    BY DEF Init, StateOf, Begun
  <2>3. QED
    BY <2>1, <2>2, NeedsAre DEF Abstract!Init
<1>2. ASSUME PlanOK, OrderInv, OrderInv', PlanOK', ResultsInv, ResultsInv', [Next]_vars
      PROVE  Abstract!Next \/ UNCHANGED <<Needs, TargetState>>
  <2>1. CASE \E t \in Target : TargetStep(t)
    BY <1>2, <2>1, TargetStepRefines
  <2>2. CASE BeginGroup
    <3>1. UNCHANGED <<inputVars, results>> /\ group < Len(plan)
      BY <2>2 DEF BeginGroup
    <3>2. \A t \in Target : step'[t] = step[t] \/ (step[t] = "planned" /\ step'[t] = "queued")
      BY <1>2, <2>2, BeginGroupTakesPlanned
    <3>3. QED
      BY <1>2, <3>1, <3>2, SchedulerStutters
  <2>3. CASE \/ PlanTargets \/ AutoConfirm \/ CancelOperation \/ ContinueAndReview
             \/ ContinueNoReview \/ RejectGroup \/ FinishTargets \/ Throw \/ Reduce
             \/ UNCHANGED vars
    <3>1. UNCHANGED <<inputVars, results, step>>
      BY <2>3 DEF PlanTargets, AutoConfirm, CancelOperation, ContinueAndReview, ContinueNoReview,
                  RejectGroup, FinishTargets, Throw, Reduce, vars, targetVars
    <3>2. QED
      BY <1>2, <3>1, SchedulerStutters
  <2>4. QED
    BY <1>2, <2>1, <2>2, <2>3 DEF Next, Exited
<1>3. /\ PlanOK /\ OrderInv /\ ResultsInv /\ (PlanOK /\ OrderInv /\ ResultsInv)' /\ [Next]_vars
         => [Abstract!Next]_Abstract!vars
  BY <1>2 DEF Abstract!vars
<1>4. QED
  BY <1>1, <1>3, OrderAlwaysKept, ResultsAlwaysKept, PTL
     DEF Spec, ImplementsStackOperations, Abstract!Spec
=============================================================================
