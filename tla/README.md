# Takomo in TLA+

A verification development kept beside [Takomo](../src/README.md), the
command-line tool that deploys AWS CloudFormation stacks. It models the parts of
the program where the order of things decides whether it is right: the
scheduling of stack operations, the steps of one operation, the handling of
failures, and what the user agreed to. TLC checks small instances of the
modules; TLAPS proves the central invariants for every instance.

## The system

`tkm` runs one command and exits. A command builds its context from
configuration files, builds a plan, asks the user to confirm it, executes it
and reports a status for every item. There is one process and one event loop;
concurrency comes from chains of promises that interleave at every `await`, and
from CloudFormation, which goes on by itself. Nothing is persisted: a crash
leaves whatever CloudFormation was asked to do, and the next run starts from
the statuses it reads.

| Component | State | Operations | Hard part |
| --- | --- | --- | --- |
| stacks deploy (`takomo-stacks-commands/stacks/deploy`) | plan; `DeployState` (`cancelled`, `autoConfirm`); a map of results or promises; per stack the current step | confirm, sequential review loop, parallel execution, 23 steps per stack | operations wait for each other inside a bulkhead; clean-up of change sets and temporary stacks; hooks on every path; one flag decides about consent |
| stacks undeploy (`.../stacks/undeploy`) | plan, promises; per stack the current step | confirm, parallel execution, 5 steps per stack | the same in the opposite order of dependencies; a stack that was not deleted keeps all it depends on |
| deployment targets (`takomo-deployment-targets-commands`) | plan, `autoConfirmEnabled`, target listener | select groups, targets and config sets; confirm; run a map command for each target and reduce | what is selected; an answer that changes how many targets go on at once |
| config set execution (`takomo-execution-plans`) | `state.failed` | stages, groups, targets, config sets, command paths; each path a nested deployment or undeployment | early exit at each level on a flag that concurrent targets read and set |
| AWS clients (`takomo-aws-clients`) | of a wait: event cursor, client token, timeout; caches, bulkheads | wait for stack operations, paging, retries, assume roles | events of several operations in one log; an update that is cancelled while it ends |
| stacks context (`takomo-stacks-context`) | `ProcessStatus`: command paths left, stacks loaded | build stacks from files, blueprints and stack groups; load the stacks of the command path and, pass after pass, what they depend on; resolve dependencies, check cycles, sort | who decides when a file, its blueprint and several stack groups say whether a stack is ignored or obsolete; only part of the configuration is loaded; termination and order of the sort, on which the scheduler relies |
| stack hooks (`takomo-stacks-hooks`) | `variables.hooks` | run the hooks of a stage | early exits |
| stack resolvers (`takomo-stacks-resolvers`) | none | resolve the value of a parameter | calls to AWS |
| stacks model, config, schemas | none | types, parsing, validation | data |
| deployment targets config, context, model, repository | none | parsing, merging of the targets of file and repositories, inheritance | who decides when several list the same target |
| command line (`takomo-cli`, `takomo-cli-io`) | `autoConfirmEnabled` of the IO object | options, questions, printing, exit code | what the user agreed to |
| command core, utilities, AWS model | none | types; status of a command | data |
| IAM and init commands | none | generate policies, a skeleton | data |

## Modules

| Module | What it is |
| --- | --- |
| `CloudFormation` | the external service: statuses of a stack and how an operation in progress ends |
| `StackDeploySteps` | the steps of one stack operation, one action per step (`deploy/steps/*.ts`, `deploy/transitions.ts`, `common/steps.ts`) |
| `Bulkhead` | the external cockatiel bulkhead: which of a list of operations start, wait in the queue or are rejected |
| `DeployStacks` | `executeDeployContext`: confirmation, sequential review loop, bulkhead; composes the steps of all operations with CloudFormation |
| `CommandStatus` | `resolveCommandOutputBase`, for items whose success follows from the status (stacks) and for items that carry both (targets) |
| `StackOperations` | abstract specification: what any run over a set of stacks or targets promises |
| `UndeployStacks` | `executeUndeployContext` and the steps of a deletion (`undeploy/steps/*.ts`), with CloudFormation and the bulkhead |
| `Orders` | pure operators: numbers in their order, the part of a sequence that a filter keeps |
| `StackConfig` | pure operators: the stacks as `doCreateStackGroup` and `buildStack` make them of stack groups, blueprints and files |
| `StackPlan` | from the configuration to the plan: `processConfigTree`, `dependencies.ts`, `buildStacksDeployPlan`, `buildStacksUndeployPlan` |
| `TargetSelection` | pure operators: the groups, targets, config sets and command paths a targets command is about (`selectDeploymentGroups`, `createExecutionPlan`, `planRun`) |
| `DeploymentTargets` | the targets commands: confirmation, `executeConfigSetPlan` down to the command paths, the map and reduce commands of a run |
| `DeploymentConfig` | pure operators: the deployment configuration as it is made of the file, the repositories and the directory of config sets |
| `StackEvents` | the external service as a wait sees it: the log of a stack's events, the status of a change set or drift detection |
| `StackWaiter` | the waits of `cloudformation/client.ts`: event cursor, terminal event, timeout and cancelled update, polling |
| `OperationWait` | abstract specification: what the steps of an operation rely on when they wait |
| `DeployStacksProofs`, `DeployStacksOutcomes`, `UndeployStacksProofs`, `OrdersProofs`, `StackPlanProofs`, `TargetSelectionProofs`, `DeploymentTargetsProofs`, `StackWaiterProofs` | the theorems and their proofs |
| `MCDeployStacks`, `MCUndeployStacks`, `MCStackPlan`, `MCDeploymentTargets`, `MCStackWaiter` | constants of the TLC runs |

`StackPlan` hands its result to the other two: `PlanRunnable` says that what it
produces is one of the `Plans` from which `DeployStacks` and `UndeployStacks`
start. Both implement `StackOperations`, the deployment with the dependencies of
a stack as what its operation needs, the undeployment with its dependents.
`DeploymentTargets` implements it as well: a target needs the success of all
targets in the groups before its own. A command path of a target is a whole run
of `DeployStacks` or `UndeployStacks`, of which only the result is left. The steps
of those two that wait for CloudFormation rely on `OperationWait`: a wait goes
on until the operation is over and answers with the status it ended with, or
throws; the wait for a rollback alone answers with a status the stack has had
since, because it reads the status again. `StackWaiter` implements it, with the `Endings` of `CloudFormation`.

A definition named `X_Something` is a wrong version of `X`; the mutation runs
put it in the place of `X` to see that a property notices. No specification
uses it.

### State and actions

An operation is named by its position in the plan. `step[o]` is the name under
which `transitions.ts` registers the step the operation is at, plus `idle`
(not started), `queued` (in the bulkhead's queue) and `completed`. `result[o]`
is `StackResult.status`, with `REJECTED` for a promise the bulkhead rejected.
`outcome[o]` is the status handed to `executeAfterDeployHooks`. `cfn[o]`,
`protection[o]` and `changeSet[o]` are what CloudFormation has: the stack's
status, its termination protection, and whether a change set of this operation
is left. `autoConfirm` and `cancelled` are the fields of `DeployState`.
`reviewed`, `beforeHooks` and `afterHooks` are history variables.

`plan` never changes. `plan.status[o]` is the status read when the plan was
built; `plan.change[o]` is how the configuration differs from the deployed
stack (`none`, `policy` only, or `template`, which stands for everything a
change set shows); `plan.protection[o]` is the configured termination
protection; the rest are command options. `Plans` is every plan
`buildStacksDeployPlan` can return, up to what these fields tell apart.

A step is one action with everything it does, up to the next step. Where a step
waits for CloudFormation in the middle (the deletion of the temporary stack
inside `reviewChangeSet`), it is split at the wait into `review-change-set` and
`clean-up-then-...`, because CloudFormation moves between. A call that throws is
the second disjunct of `InitiateFailedStackDelete` and `ReviewAccepted` (where
something was done before) or the action `StepThrows` (where nothing was).
`Spec` lets CloudFormation end each operation in any of its possible statuses.

The bulkhead is cockatiel's: a counter, a FIFO queue, and a slot that is given
back when the promise of an operation settles. The model does what
`executeStacksInParallel` relies on and is marked external.

### The undeployment

`UndeployStacks` has the same shape with `plan.dependents`: `step`, `outcome`,
`result` and `cfn` are as above, `hooksRun` is a history of the hooks that were
executed, and `mode` goes from `confirm` through `parallel` to `done` (there is
no review). `plan.hookStatus[o]` is the status configuration of an after hook.
`waitDependentsToComplete` is split into its outcomes (`DependentRejected`,
`DependentsRemain`, `StackNotFound`, `DependentsCompleted`), the other steps are
one action each, and `CloudFormationStep` lets a deletion end well or badly.

### The plan

A stack is a file in a region, and is named by its place in the order of paths
(`FileOf`, `RegionOf`). A command path, or the path a stack or a parameter says
it depends on, is the set of stacks whose path starts with it: a region of a
file, a file, a stack group, everything; relative paths are the ones they are
resolved to. `config` is what the files say, with `NotGiven` for a property a
file does not have, and `project` is what `StackConfig` makes of it
(`BuildProject`): which stacks are built, which of those are ignored or obsolete,
the paths each depends on, and the files that end the command because they have
no region. `ignore` means two things in the code, and in the model: a stack of an
ignored stack group is not built, a stack that is ignored itself is built and
left out of `ctx.stacks`.

The phases of `StackPlan` are those of the command: `load` (one action per
command path, `NextPass` between passes), `resolve`, `check`, `select`, `sort`
(one action per iteration of the loop of `sortStacks`), `done`. `error` is the
exception that ends the command. `MetAgain` follows the recursion of
`checkCyclicDependenciesForStack`: for a chain of stacks, what its continuations
meet again. `PlanExact` compares the plan with the files
themselves (`Says`, `GroupSays`, `Meant`), not with `project`.

### The deployment targets

One state machine covers `tkm targets deploy`, `undeploy` (with `bootstrap` and
`tear-down`, which differ in the config sets they name) and `run`;
`command.kind` tells them apart. `config` is the configuration as it is written,
`command` the command line, `project` what `DeploymentConfig` makes of the one
and `plan` what `TargetSelection` makes of both; `rejected` says whether the
validation of either fails. None of them changes. Groups are numbered in
the order of the file, `rank` is their order by priority and then name, and a
pattern for target names is the set of targets it matches. There is one stage,
because `getStages` returns only the default one.

`phase` goes through `plan`, `confirm`, `execute`, `reduce` and `done`, `group`
counts the groups begun, and `limit` is `concurrentTargets` as
`executeOperation` gets it: 1 after CONTINUE_AND_REVIEW. A target is `planned`,
`queued` in the bulkhead of its group, at its `next` command path, `running` it,
`returned` from it, or `completed`. `results[t]` has a sequence for each config
set begun, with the results of its command paths. `failed` is
`OperationState.failed`. It is set in `RecordResult`, a step after the executor
returned, because the continuation runs later and another target may look at the
flag in between. `completed`, `reduced` and `output` are the order in which
targets settled, the values the reduce command got, and the command's status.

`DeploymentConfig` starts from the groups and targets of the file, the targets the
repositories list, and the directories of config sets. A target listed by
several repositories is merged: labels and config sets add up, and the later
repository decides on the group and, if it gives one, the status. What follows
is an error when the group is not in the file or the target is in the file as
well. Groups pass their labels and config sets on to the groups and targets
below them. The names of labels and config sets are lists, as the documentation
writes them. `ParsedGroups` and `ExternalTarget` are the recursions of
`parseDeploymentGroup` and `mergeDeploymentTargetConfigs`.
`config.commandPaths` has the number of command paths of each config set the file
defines, and `NotDefined` for one it does not.

### The waits

One instance of `StackWaiter` is one wait, from the request CloudFormation has
accepted to the answer. `phase` is where the loop of
`waitStackDeployToComplete` is: asleep, holding a response of
`describeStackEvents`, about to cancel the update. `clientToken`,
`latestEventId`, `allEvents` and `timeout` are the loop's parameters of those
names, `elapsed` whether more than the timeout has passed since `startTime`.
`described` is the response: all events there were at that moment, since the
pages after the first hold older ones only. The waits for a change set and for
a drift detection poll a status instead (`PollEnds`), which `Evaluate` and
`EvaluateDetection` judge as the code does; a status no rule knows is an error.

`StackEvents` goes on at any time: the operation's first event may come after
the first poll, resources record events with terminal statuses of their own,
the operation may fail and roll back, and an update that is cancelled goes on
under the token of the cancellation. CloudFormation refuses a second operation
while one is in progress; once it is over somebody else may delete the stack
(`SomebodyElseDeletes`), whatever the operation was. The wait must not take the
events of that deletion for its own. It cannot keep the deletion out of its answer
when it waits for a continued rollback: `waitStackRollbackToComplete` finds the
terminal event and then answers with the status `describeStack` reads
(`client.ts:628-637`), which may be `DELETE_IN_PROGRESS` or the end of a deletion.
`OperationWait` says so: its `operation` is what was asked for, `now` what others
have made of the stack since, and only a wait that `rereads` answers with `now`.
`wait-stack-rollback-to-complete.ts` takes any status but
`UPDATE_ROLLBACK_COMPLETE` for a failure, so such an answer ends the stack
operation as FAILED, an end `WaitStackRollbackToComplete` of `StackDeploySteps`
has as well.

## What the runs check

| Run | Instance | Shows |
| --- | --- | --- |
| `deploy_one_stack` | one stack, five initial statuses, every option, answer, hook result, throwing step | consent before any create or update; `--expect-no-changes` never changes a stack and only succeeds when nothing differs; a success leaves the configured stack; hooks are paired |
| `deploy_parallel` | three stacks, all dependency graphs, two slots, queue of one | dependencies first; a failure leaves all dependents untouched; dependencies are deployed while a stack is created or updated; operations that hold slots never all wait for queued ones; the output covers every operation; refinement of `StackOperations` |
| `deploy_reviewed` | three stacks, all graphs, all answers, one slot, queue of one, fair | after a cancelled or failed stack nothing happens to a later one; every run ends |
| `deploy_temporary_stack` | one stack, violation | see findings |
| `deploy_skipped_dependency` | two stacks, violation | see findings |
| `undeploy_stacks` | three stacks, all graphs, every option, answer, hook result and throwing step, two slots, queue of one, fair | a stack is deleted only when all that depend on it are gone; a failure, an abort or a skip of an existing stack leaves everything it depends on untouched; the reported status is true; no deadlock in the bulkhead; refinement of `StackOperations`; every run ends |
| `undeploy_hook_status` | one stack, violation | see findings |
| `stack_plan` | three files in nested stack groups, two regions; every graph with at most one reference per file (to a file, a stack group, a path without stacks) with files that are ignored or obsolete, or groups that are; a chain of files with every combination of obsolete, of regions, and of dependencies and parameters at the levels of file, blueprint and groups; eight commands, fair | each operation comes after all it waits for; the plan has exactly the stacks the files define for the command; nothing the whole configuration demands is left out although only part is loaded; only configurations with a cycle are rejected as cyclic; loading and sorting end |
| `plan_unknown_dependency` | three files, violation | see findings |
| `plan_ignored_dependent` | three files, violation | see findings |
| `deployment_targets` | four targets in three groups (a tree, two roots, a group the bulkhead has no room for), listed in the file and in repositories, one or two at a time, the three commands, every answer and every result of a nested command; every combination of group, label and name options, disabled groups and targets, a target of two repositories, config sets that are inherited, missing, undefined or empty; fair | exactly the targets the files and the options ask for are selected, once, in the order of groups; targets begin as listed; reviews of two targets never overlap; a failure cancels the rest; the reported status is true; the reduce command gets every value; refinement of `StackOperations`; every command ends |
| `stack_wait` | one wait of every kind, with and without a timeout, two events about resources, every call that may throw, somebody else's deletion afterwards (whatever the wait is for), fair | the listener gets the operation's events, each once and in order; a cancelled update is never reported as a success; the answer is the status the operation ended with, in the wait for a rollback that or a later one; every wait ends |

Bounds. One stack is enough for the properties of one operation, because the
frame of a step (lemma `StackStepFrame`) is that operation. Three stacks give
every shape that matters between stacks: a chain, a fork, a join, an unrelated
stack. With two slots and a queue of one, two operations can wait in slots for
one that is queued, and would for ever if the plan were not sorted; the mutation
that makes an operation wait for dependencies to succeed, not to settle, shows
that operations left waiting in their slots are found. In `deploy_reviewed` the
queue is smaller than the plan, so the bulkhead rejects an operation. `InitialStatuses`, `HookResults` and `MayThrow`
of the runs with three stacks are those that lead to different results of an
operation; every other one is in `deploy_one_stack`. In `stack_plan` one
reference per file, to a file or to a group of two, gives chains, forks,
joins, cycles through any stack and a stack that depends on its own group; three
levels of stack groups are enough for a group to take back what its parent says
and for a file two levels below to be told so; the second region is there for a
dependency on one region of a file and for regions that are inherited.
In `deployment_targets` two targets in one group and one in a later group are
enough for the flag to be read before, between and after it is set; two config
sets and a config set with two command paths give each level of the early exit
something to skip. The options that select are combined with a run of one target
at a time only, since the selection does not depend on how it is executed. In
`stack_wait` two events about resources (`MaxResourceEvents`) let one come before
and one after the event a wait is looking for; the events about the stack are
bounded by the operation itself.

Fairness. Each operation is a promise chain of its own, so `Fairness` is weak
fairness of each operation's next step, of CloudFormation for each stack (it
ends what it has started), and of the scheduler (the event loop, the user
answering a prompt). The code justifies no more, and strong fairness is not
needed: an enabled step stays enabled until it is taken. `StackPlan` has no
concurrency that matters: the command paths of a pass are processed one after
another (the model takes them in any order), and weak fairness of its next step
says that the program goes on.
In `DeploymentTargets` every step counts down what is left to do, so weak
fairness of the next step is enough: the user answers, the code goes on, and a
nested command ends, as `DeployStacks` and `UndeployStacks` show of theirs.
In `StackWaiter` the loop goes on, the clock does, and CloudFormation goes on with
what it has begun, except that it may hang for ever in an update that has a
timeout: ending such a wait is what the timeout is for.

## What is proved

`DeployStacksProofs` holds for every number of operations, every dependency
graph, bulkhead size, set of statuses, answers and throwing steps that meets
`NumOpsAssumption`, `LimitAssumption` and `InputsAssumption`.

The inductive invariant `IInv` is the types and
- `ResultKnown`: an operation has a result exactly when it is completed;
- `TouchedAfterDependencies`: an operation that has begun, left a trace in
  CloudFormation or succeeded has only successful dependencies. Neither
  `DependenciesFirst` nor `FailureStopsDependents` is inductive by itself: the
  first forgets the operation once it completes, the second does not know why
  an operation could begin;
- `ModeOK`: in the sequential loop what is before `next` is completed and what
  is after it is idle; in the parallel mode nothing is idle;
- `QueueOK`: the queue holds the queued operations in the plan's order, all
  after every operation that holds a slot;
- `SlotsCounted`: the counter is the cardinality of the running operations.

`StackStepFrame` reduces the 29 disjuncts of a step to one fact about what a
step may do; everything else is proved from it. From `[]IInv`: `TypeCorrect`,
`DependenciesAlwaysFirst`, `FailureAlwaysStopsDependents`,
`SlotsAlwaysBounded`, `ResultsAlwaysFinal` and
- `NeverSlotDeadlock`: take the first operation of the plan that is not
  completed. Its dependencies come before it, so they have settled; if it runs
  it can go on, and if it is queued then, by `QueueOK`, nothing runs and a slot
  is free;
- `NeverGoesBack`: `Place` numbers the steps along the arrows of
  `deploy/transitions.ts`; every step of an operation leads to a later one, and
  nothing else moves an operation but forward;
- `DeploymentRefinesStackOperations`: under `OperationState` every step begins,
  ends or refuses operations of `StackOperations`, or is a stutter.

`UndeployStacksProofs` has the same shape and the same assumptions. Its
invariant relates each operation to its stack (`OperationOK`: an operation that
has not begun has left no trace, one that succeeded has left no stack, one that
was skipped has changed none), and `TouchedAfterDependents` says that an
operation that has begun has only dependents whose stacks are gone. That is
what makes `DependentsGone` inductive: by itself it does not know that the
deletion of a dependent cannot end badly after its operation succeeded. It
gives `TypeCorrect`, `DependentsAlwaysGone`, `FailureAlwaysStopsDependencies`,
`OutputAlwaysTruthful` (with `OutputOK`, what the status says of the results),
`SlotsAlwaysBounded`, `NeverSlotDeadlock`, `NeverGoesBack` and
`UndeploymentRefinesStackOperations`. The rejection of operations by the
bulkhead, for which the TLC run has no room, is covered here.

`DeployStacksOutcomes` proves the properties of the outcome of a deployment, from
`[]IInv` and a second invariant with one part for each thing that is known of an
operation by the step it is at (`OperationsOK`): `NotStarted` (no trace before it
begins), `HooksKept` (which hooks have run), `ConsentKept` (reviewed, confirmed
for all, or not yet at a step that changes the stack), `ExpectationKept` (with
`--expect-no-changes`, how far it can get) and `StackKept` (what status and
termination protection the stack has). `StackStepKeeps` shows them for the 29
kinds of steps. With `ReviewStopped` for the sequential loop they give
`ConsentAlwaysFirst`, `NoChangesEverMade`, `SuccessAlwaysConfigured`,
`HooksAlwaysPaired`, `FailureAlwaysStopsReview`, `DependenciesAlwaysDeployed` and
`OutputAlwaysComplete`.

`StackWaiterProofs` holds for every set of requests and phases that may throw,
with no bound on the log (`MaxResourceEvents` is any value). Its invariant says
how far the operation is, as the log tells it: not begun (`AcceptedOK`), under way
with no event that ends it (`Underway`), over with exactly one, which carries the
token the wait looks for (`Over`), or followed by somebody else's deletion
(`Meddling`). Then that the wait's token is the cancellation's exactly when
CloudFormation has an event of it (`CancelOK`), that everything up to the cursor
was handed over and nothing beyond it (`CursorOK`), and that an answer is the
status of the one event that ended the operation, or, after a rollback, is only
given once there is one (`AnswerOK`): the step that reads the stack again answers
with the status of that moment. No assumption keeps others from the stack. It gives `TypeCorrect`,
`EventsAlwaysInOrder`, `CancelledUpdateAlwaysRollsBack` and
`WaitRefinesOperationWait`.

`OrdersProofs` has the lemmas about `InOrder` and `Part` the next two rest on:
every set of numbers up to a bound has an order (`OrderExists`), it lists each
member once (`InOrderType`), and a part of a sequence has what is at the
positions, once and in order (`PartType`). Where induction is called for they and
the lemmas below take a least counterexample (`LeastMember`), since the library's
induction theorems cannot be instantiated here.

`StackPlanProofs` holds for every number of files, regions, stack groups,
blueprints and parameters, every set of paths and all inputs that meet
`StacksAssumption` and `InputsAssumption`. Lemmas about the operators come first:
what a stack depends on are paths (`ProjectType`), the walk over dependencies is
closed (`CollectedClosed`), and what `doCreateStackGroup` hands down is what the
nearest stack group says (`StackGroupsDef`, `GroupsSay`, `ProjectSays`). The
invariant says that what was loaded is closed under its dependencies but for the
fresh stacks and the paths still to be processed (`LoadOK`), which is why a part
of the configuration is enough; that the dependencies are the resolved ones and
nothing kept depends on something obsolete (`DependenciesOK`); and that, while the
plan is sorted, each chosen stack is listed once or unsorted, and those it
follows are listed before it (`SortOK`). It gives `TypeCorrect`, `AlwaysRunnable`
and `NothingEverLeftOut`. A second invariant (`Exact`) says that the finished plan
has what was chosen, and with `ProjectSays` it gives `AlwaysExact`: whether a
stack is planned is what file, blueprint and stack groups say.

Three more are about cycles. `CyclicExactly` says that the search finds a cycle if
and only if there is a set of stacks each of which depends on one of them: one
way, a chain that meets a stack again is such a set (`CycleFound`); the other, a
chain inside such a set can always go on and, the stacks being finitely many,
must meet itself (`CycleMet`). With it, `CycleOK` gives `RejectedRightly`, and
`SortAlwaysGoesOn`: a configuration that passed the check has no cycle, so a
stack that follows no unsorted one is there for `sortStacks` as long as it has
stacks to sort, in both directions.

`TargetSelectionProofs` holds for every configuration in `Configs` and every
command in `Commands` (`InputsAssumption`): a group comes after its parent in the
file and no two groups have the same rank. `CollectFromHierarchy`, `ParsedGroups`
and `ExternalTarget` are recursive functions. A recursive function is a CHOOSE,
so its equation is a fact only if some function satisfies it; the lemmas
`CollectDef`, `ParsedGroupsDef` and `ExternalTargetDef` show there is one by
building it up along the order of groups or items. From the equations and least
counterexamples follow what they compute: `CollectedBelow` (the active groups
below a root, each before those below it, siblings by rank), `FlattenedAre` (with
`UniqueIs`, exactly the groups `Reached`, once), `ParsedGroupsAre` (labels and
config sets of all groups above), `ExternalTargetIs` (the group of the last
listing, the last status given, labels and config sets of all). `ProjectIs` and
`SelectedTargetsAre` put them together, `PlanIs` concludes, and an invariant that
says that nothing changes the inputs gives `PlanAlwaysOK` (each target is in one
planned group, once, no planned group is empty, and each config set of a target
has a number of command paths) and `SelectionAlwaysExact`.

`DeploymentTargetsProofs` is about the execution of such a plan, and uses
`PlanAlwaysOK` in place of the operators the plan is made with. Three invariants
build on each other. `OrderInv` is about who is where: a group begins when those
before it are completed, a target begins after those before it, with a limit of 1
only when they are completed, at most `limit` targets are in progress, and the
limit is 1 while reviews may come. `ResultsInv` is about each target's results:
they follow its config sets and command paths, and a failure is seen
(`FailureSeen`: the flag is set, or the failure is the last result of a target
that has just returned), which is what makes `FailureCancelsRest` inductive.
`OutcomeInv` says what `completed`, `reduced` and `output` hold of the results.
They give `TypesAlwaysOK`, `AlwaysBegunInOrder`, `ReviewsAlwaysApart`,
`FailureAlwaysCancelsRest`, `OutputAlwaysTruthful`, `ReduceAlwaysComplete` and
`TargetsRefineStackOperations`; for the last one a target in a group after an
unsuccessful one can only be cancelled, so it maps to a refused operation.
`NeverStuck` is the deadlock freedom of a group: as long as one of its targets has
not completed, one in a slot has a next step or the first in the queue gets a free
slot. `OnlyWantedBegin` joins execution and selection: nothing begins for a
target the files and options do not ask for. `ResultsAlwaysFinal` says that a
completed target is not begun again, although `BeginGroup` queues targets, and that
a command path that was executed returns exactly once.

Only model-checked is liveness (`Terminates`, in each of the five modules): liveness
under fairness is out of the prover's reach. Of what it takes, the proofs have that
something can always go on (`NeverSlotDeadlock`, `NeverStuck`, `SortAlwaysGoesOn`)
and that nothing goes back (`NeverGoesBack`, twice, and `ResultsAlwaysFinal` of the
targets). Every other property of a passing run is a theorem. That the plan is sorted
is an assumption of the proofs about `DeployStacks` and `UndeployStacks` (`Sorted` in
`Plans`); `AlwaysRunnable` proves that the code's sort provides it.

`SlotsAlwaysBounded`, `NeverGoesBack`, `ResultsAlwaysFinal` (two of each),
`CyclicExactly`, `SortAlwaysGoesOn`, `PlanAlwaysOK`, `NeverStuck` and
`OnlyWantedBegin` are stated in the proof modules only; no run repeats them.

## Findings

- `TemporaryStackGone`: `review-change-set.ts` logs "Temporary stack deleted
  successfully" without looking at how the deletion ended.
- `SkippedDependencyCancels`: a dependency that was recreated and then skipped
  by its before hook counts as existing, so its dependents are created on top
  of a stack that is gone.
- `AfterHooksMatchStatus`: `execute-after-undeploy-hooks.ts` does not hand the
  status of the operation to `executeHooks`, so an after hook configured for
  failed operations runs after a successful deletion.
- `UnknownDependencyIsUnknown`: a deployment of a command path with an ignored
  stack is refused because of a dependency on a "non-existing" stack that
  exists: the dependencies of ignored stacks are not loaded, and are resolved.
- `DependentsExist`: an ignored stack is a dependent that is not in
  `ctx.stacks`, so what it depends on cannot be undeployed.

Behaviour the model keeps and no property forbids: with `--expect-no-changes` a
RECREATE deletes the failed stack before it fails, and the change set (and the
temporary stack) stays; a stack without changes keeps its empty change set;
`cancelled` is ignored once a review switched to the parallel mode; an update
that fails may leave the new termination protection behind; a rejected
operation ends the process while others are in progress. Deploying a path that
has only obsolete stacks deploys what they depend on. An undeployment leaves the
obsolete dependents of a stack alone (a test asks for it). `DependencyRejected`
and `DependentRejected` are in the code and cannot happen: the operations the
bulkhead rejects are the last of the plan.

In the targets commands: an undeployment the user declines while reviewing
returns CANCELLED with `success: true` (`execute-undeploy-context.ts`; the
deployment returns `false`), so the remaining targets go on and the whole may be
reported SUCCESS; `OutputTruthful` names the exception. In a run nothing sets
`state.failed`, so a map command that fails cancels no other. The reduce command
gets the values in the order the targets completed, which is the listed one only
with one target at a time (the default). The priority of a group orders it among
the children of its parent, not among root groups. Config sets of a stage other
than the default are never executed. An undeployment goes through groups and
config sets in the same order as a deployment. A group with more targets than
the bulkhead has room for ends the process, while the first of them are under
way: `BeginGroup` queues the `Admitted` ones, and `RejectGroup` may come at any
time after it.

In the configuration of stacks: an ignored stack group hides its stacks even when
their files say `ignore: false`, while a child group may say so and has its stacks
built. `populatePropertiesFromConfigFile` tests `configFile.timeout !== null`
where `parseTimeout` returns undefined, so the file of a stack group without a
timeout drops the one of its parent (timeouts are not modelled).

In the configuration of targets: `parseDeploymentGroup` and `parseDeploymentTarget`
call `mergeConfigSetInstructions` with their own config sets where it names the
inherited ones, so a target's own config sets come before those of the groups
above it. In the waits:
the timeout of an update is counted in seconds by `takomo`, that of a creation is
handed to CloudFormation in minutes (`TimeoutInMinutes`); an update that ends, or
fails and begins to roll back, between a poll and the cancellation makes the wait
throw although the update may have succeeded, which `OperationWait` allows; what
an update records between its last poll and its cancellation is not reported.

## Not modelled

The properties of stacks that do not decide which stacks there are or what they
depend on (names, tags, data, hooks, roles, policies, timeouts), the validation of
all of them, a blueprint that does not exist, the check that the command path
exists, the values of parameters and resolvers, templates, hooks
beyond their result, output formatting, credentials, caches and rate limits of
the clients, the variables, roles and accounts of deployment targets, the
environment of map and reduce commands and the values they capture, and the
commands that only read; see `PROJECT.json` for each component. Labels and config
sets given as one string and not a list are left out. The rejection of
operations by an undeployment's bulkhead is in `UndeployStacks`; its run has room
for all of them, and only the proofs cover it.

The repository is far larger than its logic: the package manager's generated
files, integration tests, schemas, type declarations and formatting make up most
of it, and none of that has state or an order of steps.

## Plan

1. Deployment of stacks, its refinement and its proofs: done, with the proofs of
   its outcomes.
2. `UndeployStacks`: modelled, checked and proved as a second refinement of
   `StackOperations`: done.
3. `StackConfig` and `StackPlan`: modelled and checked, and the plan proved to be
   runnable, complete and exact, the search for cycles to be right: done.
4. `DeploymentConfig`, `TargetSelection` and `DeploymentTargets`: modelled,
   checked and proved as the third refinement of `StackOperations`, the selection
   proved exact: done.
5. `StackWaiter`: modelled, checked and proved to implement `OperationWait`: done.
6. Hooks (`executeHooks`, `HookExecutor.match`) as part of the steps,
   confirmation in the IO layer across command paths, paging and rate limits of
   the clients: left.
