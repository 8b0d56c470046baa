-------------------------- MODULE DeploymentTargets --------------------------
(***************************************************************************)
(* A command over deployment targets: "tkm targets deploy", "undeploy",    *)
(* "bootstrap" and "tear-down" (takomo-deployment-targets-commands/        *)
(* operation, and executeConfigSetPlan of takomo-execution-plans), and     *)
(* "tkm targets run" (.../run).  The groups of the plan are processed one  *)
(* after another and the targets of a group in a bulkhead.  A target       *)
(* executes the command paths of its config sets one by one, each a whole  *)
(* deployment or undeployment of stacks; or, in a run, one map command.    *)
(*                                                                         *)
(* A definition whose name ends in _Something is a wrong version of the    *)
(* one after it, that the mutation runs put in its place.                  *)
(***************************************************************************)
EXTENDS TargetSelection, CommandStatus

CONSTANTS
    Inputs,         \* configurations and commands: see InputsAssumption
    QueueCapacity   \* second argument of Policy.bulkhead

ASSUME InputsAssumption ==
    /\ NumGroups \in Nat /\ NumTargets \in Nat /\ QueueCapacity \in Nat
    /\ \A input \in Inputs : input.config \in Configs /\ input.command \in Commands

VARIABLES
    config,         \* the files of the configuration; constant
    project,        \* what getDeploymentConfig makes of them; constant
    command,        \* the command; constant
    rejected,       \* whether the configuration or the command is; constant
    plan,           \* what planDeployment or planRun makes of them; constant
    phase,          \* where the command is
    autoConfirm,    \* ctx.autoConfirmEnabled
    limit,          \* concurrentTargets, as executeOperation gets it
    group,          \* number of groups of the plan begun
    step,           \* where each target is
    results,        \* of the command paths of each config set of each target
    failed,         \* OperationState.failed
    completed,      \* the targets in the order of their results
    reduced,        \* the targets whose values the reduce command got
    output          \* of the command

inputVars == <<config, project, command, rejected, plan>>
targetVars == <<step, results, failed, completed>>
vars == <<inputVars, phase, autoConfirm, limit, group, targetVars, reduced, output>>

Success == [status |-> "SUCCESS", success |-> TRUE]
Skipped == [status |-> "SKIPPED", success |-> TRUE]
Failed == [status |-> "FAILED", success |-> FALSE]
Cancelled == [status |-> "CANCELLED", success |-> FALSE]

(* What executeUndeployContext returns, and confirmRun, when the user says *)
(* no: cancelled, yet a success.                                           *)
Declined == [status |-> "CANCELLED", success |-> TRUE]

Outputs == {Success, Skipped, Failed, Cancelled, Declined}
Error == [status |-> "ERROR", success |-> FALSE]
NoProject == [parent |-> <<>>]
NoOutput == [status |-> "none", success |-> FALSE]

TargetsOf(i) == ToSet(plan[i].targets)
Planned == UNION {TargetsOf(i) : i \in DOMAIN plan}
Work(t) == ConfigSetsToExecute(project, command, t)

(* The targets that hold a slot of the bulkhead. *)
InProgress == {t \in Target : step[t] \in {"next", "running", "returned"}}

Init ==
    /\ \E input \in Inputs : config = input.config /\ command = input.command
    /\ project = IF ConfigError(config) THEN NoProject ELSE BuildDeploymentConfig(config)
    /\ rejected = (ConfigError(config) \/ PlanError(project, command))
    /\ plan = IF ConfigError(config) THEN <<>> ELSE CreateExecutionPlan(project, command)
    /\ phase = "plan"
    /\ autoConfirm = command.autoConfirmEnabled
    /\ limit = command.concurrentTargets
    /\ group = 0
    /\ step = [t \in Target |-> "planned"]
    /\ results = [t \in Target |-> <<>>]
    /\ failed = FALSE
    /\ completed = <<>>
    /\ reduced = <<>>
    /\ output = NoOutput

Finish(result) ==
    /\ phase' = "done"
    /\ output' = result

-----------------------------------------------------------------------------
(* planDeployment and planRun, for the configuration as it was loaded. *)
PlanTargets ==
    /\ phase = "plan"
    /\ CASE rejected -> Finish(Error)
         [] ~rejected /\ plan = <<>> -> Finish(Skipped)
         [] OTHER -> phase' = "confirm" /\ UNCHANGED output
    /\ UNCHANGED <<inputVars, autoConfirm, limit, group, targetVars, reduced>>

AutoConfirm ==
    /\ phase = "confirm"
    /\ autoConfirm
    /\ phase' = "execute"
    /\ UNCHANGED <<inputVars, autoConfirm, limit, group, targetVars, reduced, output>>

(* confirmOperation *)
CancelOperation ==
    /\ phase = "confirm"
    /\ ~autoConfirm
    /\ Finish(IF command.kind = "run" THEN Declined ELSE Cancelled)
    /\ UNCHANGED <<inputVars, autoConfirm, limit, group, targetVars, reduced>>

ContinueAndReview_AllAtOnce ==
    /\ phase = "confirm"
    /\ ~autoConfirm /\ command.kind # "run"
    /\ phase' = "execute"
    /\ UNCHANGED <<inputVars, autoConfirm, limit, group, targetVars, reduced, output>>

(* The nested commands will ask about their stacks: one target at a time.  *)
ContinueAndReview ==
    /\ phase = "confirm"
    /\ ~autoConfirm /\ command.kind # "run"
    /\ phase' = "execute"
    /\ limit' = 1
    /\ UNCHANGED <<inputVars, autoConfirm, group, targetVars, reduced, output>>

ContinueNoReview ==
    /\ phase = "confirm"
    /\ ~autoConfirm
    /\ phase' = "execute"
    /\ autoConfirm' = (command.kind # "run")
    /\ UNCHANGED <<inputVars, limit, group, targetVars, reduced, output>>

-----------------------------------------------------------------------------
GroupCompleted_NothingQueued == group # 0 => \A t \in TargetsOf(group) : step[t] # "queued"

(* Promise.all over the targets of the group. *)
GroupCompleted == group # 0 => \A t \in TargetsOf(group) : step[t] = "completed"

(* The targets that the bulkhead has a slot or a place in its queue for.   *)
Admitted(i) ==
    {plan[i].targets[n] : n \in DOMAIN plan[i].targets \intersect (1 .. limit + QueueCapacity)}

BeginGroup_Forgets ==
    /\ phase = "execute"
    /\ GroupCompleted
    /\ group < Len(plan)
    /\ group' = group + 1
    /\ failed' = FALSE
    /\ step' = [t \in Target |-> IF t \in Admitted(group + 1) THEN "queued" ELSE step[t]]
    /\ UNCHANGED <<inputVars, phase, autoConfirm, limit, results, completed, reduced, output>>

(* executeGroup and processDeploymentGroup: all the targets are handed to  *)
(* the group's own bulkhead, which rejects those it has no place for: they *)
(* stay planned.                                                           *)
BeginGroup ==
    /\ phase = "execute"
    /\ GroupCompleted
    /\ group < Len(plan)
    /\ group' = group + 1
    /\ step' = [t \in Target |-> IF t \in Admitted(group + 1) THEN "queued" ELSE step[t]]
    /\ UNCHANGED <<inputVars, phase, autoConfirm, limit, results, failed, completed,
                   reduced, output>>

TurnedAway == group # 0 /\ \E t \in TargetsOf(group) : step[t] = "planned"

(* The promise of a target that was turned away rejects Promise.all, and   *)
(* the process exits, while other targets of the group are in progress.    *)
RejectGroup ==
    /\ phase = "execute"
    /\ TurnedAway
    /\ Finish(Error)
    /\ UNCHANGED <<inputVars, autoConfirm, limit, group, targetVars, reduced>>

-----------------------------------------------------------------------------
(* The bulkhead gives a free slot to the target that waits the longest.    *)
BeginTarget(t) ==
    /\ phase = "execute"
    /\ step[t] = "queued"
    /\ Cardinality(InProgress) < limit
    /\ LET targets == plan[group].targets
       IN  t = targets[CHOOSE i \in DOMAIN targets :
                          /\ step[targets[i]] = "queued"
                          /\ \A j \in 1 .. i - 1 : step[targets[j]] # "queued"]
    /\ step' = [step EXCEPT ![t] = "next"]
    /\ UNCHANGED <<inputVars, phase, autoConfirm, limit, group, results, failed,
                   completed, reduced, output>>

(* The command paths of the config set t is executing that are left. *)
PathsLeft(t) ==
    LET n == Len(results[t]) IN n # 0 /\ Len(results[t][n]) < Work(t)[n]

(* executeTarget *)
BeginConfigSet(t) ==
    /\ phase = "execute"
    /\ step[t] = "next"
    /\ ~PathsLeft(t)
    /\ Len(results[t]) < Len(Work(t))
    /\ results' = [results EXCEPT ![t] = Append(@, <<>>)]
    /\ UNCHANGED <<inputVars, phase, autoConfirm, limit, group, step, failed, completed,
                   reduced, output>>

ResultOfPath_StatusOnly(t, result) ==
    /\ step' = [step EXCEPT ![t] = "returned"]
    /\ results' = [results EXCEPT ![t][Len(results[t])] = Append(@, [status |-> result.status])]

ResultOfPath(t, result) ==
    /\ step' = [step EXCEPT ![t] = "returned"]
    /\ results' = [results EXCEPT ![t][Len(results[t])] = Append(@, result)]

(* The executor looks at state.failed before anything else. *)
CancelCommandPath(t) ==
    /\ phase = "execute"
    /\ step[t] = "next"
    /\ PathsLeft(t)
    /\ failed
    /\ ResultOfPath(t, Cancelled)
    /\ UNCHANGED <<inputVars, phase, autoConfirm, limit, group, failed, completed,
                   reduced, output>>

ExecuteCommandPath(t) ==
    /\ phase = "execute"
    /\ step[t] = "next"
    /\ PathsLeft(t)
    /\ ~failed
    /\ step' = [step EXCEPT ![t] = "running"]
    /\ UNCHANGED <<inputVars, phase, autoConfirm, limit, group, results, failed, completed,
                   reduced, output>>

(* What a nested command may return: anything it throws, and a failure to  *)
(* get credentials or credentials of another account, become FAILED.       *)
NestedResults ==
    {Success, Failed}
        \union (IF command.kind = "run" THEN {} ELSE {Skipped, Cancelled})
        \union (IF command.kind = "undeploy" /\ ~autoConfirm THEN {Declined} ELSE {})

CommandPathReturns_Retries(t) ==
    /\ phase = "execute"
    /\ step[t] = "running"
    /\ \E result \in NestedResults :
          IF result.success THEN ResultOfPath(t, result)
          ELSE step' = [step EXCEPT ![t] = "next"] /\ UNCHANGED results
    /\ UNCHANGED <<inputVars, phase, autoConfirm, limit, group, failed, completed,
                   reduced, output>>

CommandPathReturns(t) ==
    /\ phase = "execute"
    /\ step[t] = "running"
    /\ \E result \in NestedResults : ResultOfPath(t, result)
    /\ UNCHANGED <<inputVars, phase, autoConfirm, limit, group, failed, completed,
                   reduced, output>>

StopsTargets_FailedOnly(result) == command.kind # "run" /\ result = Failed

(* Nothing sets the flag in a run. *)
StopsTargets(result) == command.kind # "run" /\ ~result.success

(* executeConfigSet, after the await of executeCommandPath: meanwhile      *)
(* other targets may have looked at state.failed.                          *)
RecordResult(t) ==
    /\ phase = "execute"
    /\ step[t] = "returned"
    /\ failed' = (failed \/ StopsTargets(Last(Last(results[t]))))
    /\ step' = [step EXCEPT ![t] = "next"]
    /\ UNCHANGED <<inputVars, phase, autoConfirm, limit, group, results, completed,
                   reduced, output>>

(* The result of the target is pushed and its slot is free. *)
CompleteTarget(t) ==
    /\ phase = "execute"
    /\ step[t] = "next"
    /\ ~PathsLeft(t)
    /\ Len(results[t]) = Len(Work(t))
    /\ step' = [step EXCEPT ![t] = "completed"]
    /\ completed' = Append(completed, t)
    /\ UNCHANGED <<inputVars, phase, autoConfirm, limit, group, results, failed,
                   reduced, output>>

-----------------------------------------------------------------------------
ConfigSetResult(t, i) == ResolvedOutput(ToSet(results[t][i]))
TargetResult(t) == ResolvedOutput({ConfigSetResult(t, i) : i \in DOMAIN results[t]})
GroupResult(i) == ResolvedOutput({TargetResult(t) : t \in TargetsOf(i)})

OverallResult_OfLastGroup == GroupResult(Len(plan))

OverallResult == ResolvedOutput({GroupResult(i) : i \in DOMAIN plan})

Reduces_Always == command.kind = "run" /\ command.reduce

Reduces == command.kind = "run" /\ command.reduce /\ OverallResult.success

FinishTargets ==
    /\ phase = "execute"
    /\ GroupCompleted
    /\ group = Len(plan)
    /\ IF Reduces THEN phase' = "reduce" /\ UNCHANGED output ELSE Finish(OverallResult)
    /\ UNCHANGED <<inputVars, autoConfirm, limit, group, targetVars, reduced>>

(* What is not caught: the files of the configuration and the repositories *)
(* of targets, the caller's identity when a plan is created, the file of   *)
(* the map command's arguments, the reduce command's credentials.          *)
Throw ==
    /\ \/ phase = "plan"
       \/ phase = "execute" /\ group = 0 /\ command.kind = "run"
       \/ phase = "reduce"
    /\ Finish(Error)
    /\ UNCHANGED <<inputVars, autoConfirm, limit, group, targetVars, reduced>>

(* The values are handed over in the order the targets completed. *)
Reduce ==
    /\ phase = "reduce"
    /\ reduced' = completed
    /\ \E result \in {OverallResult, Failed} : Finish(result)
    /\ UNCHANGED <<inputVars, autoConfirm, limit, group, targetVars>>

(* The process has exited. *)
Exited == phase = "done" /\ UNCHANGED vars

TargetStep(t) ==
    \/ BeginTarget(t)
    \/ BeginConfigSet(t)
    \/ CancelCommandPath(t)
    \/ ExecuteCommandPath(t)
    \/ CommandPathReturns(t)
    \/ RecordResult(t)
    \/ CompleteTarget(t)

Next ==
    \/ PlanTargets
    \/ AutoConfirm \/ CancelOperation \/ ContinueAndReview \/ ContinueNoReview
    \/ BeginGroup \/ RejectGroup
    \/ \E t \in Target : TargetStep(t)
    \/ FinishTargets \/ Reduce \/ Throw
    \/ Exited

Spec == Init /\ [][Next]_vars

(* The user answers, Takomo's code goes on and a nested command ends, as   *)
(* DeployStacks and UndeployStacks show of theirs.                         *)
FairSpec == Spec /\ WF_vars(Next)

-----------------------------------------------------------------------------
(* What the execution relies on: each target is in one group of the plan,  *)
(* once, and the number of its command paths is known.                     *)
PlanOK ==
    /\ plan \in Seq([group : Group, targets : Seq(Target)])
    /\ \A i \in DOMAIN plan : plan[i].targets # <<>>
    /\ \A i, j \in DOMAIN plan :
          \A m \in DOMAIN plan[i].targets, n \in DOMAIN plan[j].targets :
              plan[i].targets[m] = plan[j].targets[n] => i = j /\ m = n
    /\ \A t \in Planned : Work(t) \in Seq(Nat)

(* The types of the variables. *)
TypeOK ==
    /\ \E input \in Inputs : config = input.config /\ command = input.command
    /\ rejected \in BOOLEAN
    /\ PlanOK
    /\ phase \in {"plan", "confirm", "execute", "reduce", "done"}
    /\ autoConfirm \in BOOLEAN
    /\ limit \in 1 .. command.concurrentTargets
    /\ group \in 0 .. Len(plan)
    /\ step \in [Target -> {"planned", "queued", "next", "running", "returned", "completed"}]
    /\ results \in [Target -> Seq(Seq(Outputs))]
    /\ failed \in BOOLEAN
    /\ completed \in Seq(Target)
    /\ reduced \in Seq(Target)
    /\ output \in {NoOutput, Error} \union Outputs

(* g and the groups above it. *)
Above(g) ==
    {h \in Group :
        \A groups \in SUBSET Group :
            g \in groups /\ (\A i \in groups : config.parent[i] \in groups \union {NoParent})
                => h \in groups}

(* A group is reached from a root of the selection if no group from the    *)
(* root down to it is disabled.                                            *)
Reached(g) ==
    \E root \in Above(g) :
        /\ IF command.groups = <<>> THEN config.parent[root] = NoParent
           ELSE root \in ToSet(command.groups)
        /\ \A h \in Above(g) : root \in Above(h) => config.status[h] # "disabled"

(* What the files list, in their order: t may be in the file or, as often  *)
(* as they like, in the repositories.                                      *)
Listed == config.targets \o config.repositories

Listings(t) == {i \in DOMAIN Listed : Listed[i].name = t}

LastListing(t) == CHOOSE i \in Listings(t) : \A j \in Listings(t) : j <= i

HomeOf(t) == Listed[LastListing(t)].group

(* The last listing that gives a status decides. *)
Disabled(t) ==
    \E i \in Listings(t) :
        /\ Listed[i].status = "disabled"
        /\ \A j \in Listings(t) : i < j => Listed[j].status = NotGiven

(* t has a label or a config set that one of its listings, or a group      *)
(* above it, is configured with.                                           *)
Has(t, label) ==
    \/ \E i \in Listings(t) : label \in Listed[i].labels
    \/ \E g \in Above(HomeOf(t)) : label \in config.labels[g]

Uses(t, configSet) ==
    \/ \E i \in Listings(t) : configSet \in ToSet(Listed[i].configSets)
    \/ \E g \in Above(HomeOf(t)) : configSet \in ToSet(config.configSets[g])

Wanted(t) ==
    /\ ~Disabled(t)
    /\ command.targets # {} => \E pattern \in command.targets : t \in pattern
    /\ \A pattern \in command.excludeTargets : t \notin pattern
    /\ command.labels # {} => \E label \in command.labels : Has(t, label)
    /\ \A label \in command.excludeLabels : ~Has(t, label)
    /\ command.kind # "run" =>
          \E cs \in ConfigSet : Uses(t, cs) /\ command.configSetName \in {NotGiven, cs}

(* Targets come group by group, a group before those below it, and groups  *)
(* beside each other, with all that is below them, by priority.            *)
Sorted ==
    \A i, j \in DOMAIN plan : i < j =>
        /\ plan[j].group \notin Above(plan[i].group)
        /\ \A g \in Above(plan[i].group), h \in Above(plan[j].group) :
              config.parent[g] = config.parent[h] /\ config.parent[g] # NoParent
                  => config.rank[g] <= config.rank[h]

(* Just the targets the files and the options ask for: each wanted target, *)
(* in the one group it belongs to, if that is reached, and no disabled or  *)
(* excluded target; the groups sorted, unless they are named, and the      *)
(* targets of each by name.                                                *)
Selection ==
    /\ \A t \in Target :
          t \in Planned <=> Listings(t) # {} /\ Reached(HomeOf(t)) /\ Wanted(t)
    /\ \A i \in DOMAIN plan :
          /\ \A t \in TargetsOf(i) : HomeOf(t) = plan[i].group
          /\ \A m, n \in DOMAIN plan[i].targets :
                m < n => plan[i].targets[m] < plan[i].targets[n]
    /\ \A i, j \in DOMAIN plan : i # j => TargetsOf(i) \intersect TargetsOf(j) = {}
    /\ command.groups = <<>> => Sorted

(* Whatever the command deploys, undeploys or runs for, once its plan is   *)
(* shown to the user, is the selection the files and the options ask for.  *)
SelectionExact == phase = "confirm" => Selection

-----------------------------------------------------------------------------
Begun(t) == step[t] \notin {"planned", "queued"}

(* t is listed before u in the plan shown to the user. *)
ListedBefore(t, u) ==
    \E i, j \in DOMAIN plan :
        /\ t \in TargetsOf(i) /\ u \in TargetsOf(j)
        /\ \/ i < j
           \/ i = j /\ \E m, n \in DOMAIN plan[i].targets :
                          plan[i].targets[m] = t /\ plan[i].targets[n] = u /\ m < n

SameGroup(t, u) == \E i \in DOMAIN plan : {t, u} \subseteq TargetsOf(i)

(* "Targets will be deployed in the order they are listed"                 *)
(* (deploy-targets-io.ts): a target begins after those listed before it    *)
(* have begun, after they have completed if they are of another group or   *)
(* if targets are processed one at a time.                                 *)
BegunInOrder ==
    \A t, u \in Planned : ListedBefore(t, u) /\ Begun(u) =>
        /\ Begun(t)
        /\ limit = 1 \/ ~SameGroup(t, u) => step[t] = "completed"

(* At most concurrentTargets targets are in progress, and never two of     *)
(* them while the nested commands ask the user to review.                  *)
ReviewsNeverOverlap ==
    /\ Cardinality(InProgress) <= limit
    /\ ~autoConfirm /\ command.kind # "run" => Cardinality(InProgress) <= 1

PathResults(t) == UNION {ToSet(results[t][i]) : i \in DOMAIN results[t]}

(* "if a target fails the remaining targets should be cancelled"           *)
(* (failing-targets.test.ts): whatever is left of a failed target, the     *)
(* targets of later groups and, one at a time, all those listed after it   *)
(* are cancelled; none of their command paths is executed or reported as a *)
(* success.                                                                *)
FailureCancelsRest ==
    command.kind # "run" =>
        \A t \in Planned :
            \A i \in DOMAIN results[t] : \A k \in DOMAIN results[t][i] :
                ~results[t][i][k].success =>
                    /\ step[t] # "running"
                    /\ \A j \in i .. Len(results[t]) : \A l \in DOMAIN results[t][j] :
                          i < j \/ k < l => results[t][j][l] = Cancelled
                    /\ \A u \in Planned :
                          ListedBefore(t, u) /\ (limit = 1 \/ ~SameGroup(t, u)) =>
                              step[u] # "running" /\ PathResults(u) \subseteq {Cancelled}

ExecutedAll(t) ==
    /\ step[t] = "completed"
    /\ Len(results[t]) = Len(Work(t))
    /\ \A i \in DOMAIN results[t] : Len(results[t][i]) = Work(t)[i]

(* A success means that every command path of every config set of every    *)
(* planned target was executed with success, but for undeployments the     *)
(* user declined; a cancelled command has executed none, and declined all  *)
(* it asked about; and one that does not succeed had a failure.            *)
OutputTruthful ==
    phase = "done" =>
        /\ output \in {Success, Skipped} =>
              \/ plan = <<>>
              \/ \A t \in Planned : /\ ExecutedAll(t)
                                    /\ PathResults(t) \subseteq {Success, Skipped, Declined}
        /\ output \in {Cancelled, Declined} =>
              \A t \in Planned : PathResults(t) \subseteq {Cancelled, Declined}
        /\ output = Failed =>
              \/ \E t \in Planned : \E result \in PathResults(t) : ~result.success
              \/ reduced # <<>>

(* The reduce command gets the value of each target of the plan, once, and *)
(* only if all the map commands succeeded; in the order they are listed if *)
(* they were run one at a time.                                            *)
ReduceComplete ==
    reduced # <<>> =>
        /\ ToSet(reduced) = Planned
        /\ \A m, n \in DOMAIN reduced : m # n =>
              /\ reduced[m] # reduced[n]
              /\ limit = 1 /\ m < n => ListedBefore(reduced[m], reduced[n])
        /\ \A t \in Planned : results[t] = <<<<Success>>>>

(* Every command ends. *)
Terminates == <>(phase = "done")

-----------------------------------------------------------------------------
(* The promise of StackOperations, for targets: those of a deployment or   *)
(* an undeployment need the success of all the groups before theirs.       *)
Needs ==
    [t \in Target |->
        IF command.kind = "run" THEN {}
        ELSE {u \in Planned : \E i, j \in DOMAIN plan :
                                 i < j /\ u \in TargetsOf(i) /\ t \in TargetsOf(j)}]

(* Holding a slot counts as begun, but for the targets that do nothing but *)
(* cancel their command paths because an earlier group has failed.         *)
TargetState ==
    [t \in Target |->
        LET begun == \/ \A u \in Needs[t] : TargetResult(u).success
                     \/ step[t] = "running"
                     \/ ~(PathResults(t) \subseteq {Cancelled})
        IN  CASE ~Begun(t) -> "waiting"
              [] Begun(t) /\ step[t] # "completed" -> IF begun THEN "begun" ELSE "waiting"
              [] OTHER -> IF ~begun THEN "CANCELLED"
                          ELSE IF TargetResult(t).success THEN "SUCCESS" ELSE "FAILED"]

Abstract == INSTANCE StackOperations
                WITH Operations <- Target, needs <- Needs, state <- TargetState

(* Targets begin, end and are refused as StackOperations allows: none      *)
(* begins unless everything before its group has succeeded.                *)
ImplementsStackOperations == Abstract!Spec
=============================================================================
