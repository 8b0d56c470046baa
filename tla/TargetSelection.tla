--------------------------- MODULE TargetSelection ---------------------------
(***************************************************************************)
(* The plan of a command over deployment targets: selectDeploymentGroups   *)
(* and createExecutionPlan (takomo-deployment-targets-commands/common) for *)
(* the deployment and the undeployment of targets, and planRun (.../run),  *)
(* which selects the targets of a map command in the same way.             *)
(*                                                                         *)
(* project is what BuildDeploymentConfig makes of the configuration, and   *)
(* command is the command with its options.  A pattern for the names of    *)
(* targets stands for the targets it matches.                              *)
(***************************************************************************)
EXTENDS DeploymentConfig

(* groups, targets, labels and their exclusions are empty when the option  *)
(* is not given.                                                           *)
Commands ==
    [kind : {"deploy", "undeploy", "run"},
     groups : Seq(Nat),
     targets : SUBSET SUBSET Target,
     excludeTargets : SUBSET SUBSET Target,
     labels : SUBSET Label,
     excludeLabels : SUBSET Label,
     configSetName : STRING,
     commandPath : BOOLEAN,
     concurrentTargets : Nat \ {0},
     autoConfirmEnabled : BOOLEAN,
     reduce : BOOLEAN]

-----------------------------------------------------------------------------
(* The checks selectDeploymentGroups begins with; a map command has no     *)
(* config set.                                                             *)
SelectionError(project, command) ==
    \/ \E i \in DOMAIN command.groups : command.groups[i] \notin Group
    \/ /\ command.kind # "run"
       /\ \/ command.commandPath /\ command.configSetName = NotGiven
          \/ command.configSetName \notin DOMAIN project.commandPaths \union {NotGiven}

(* sortSiblings and filter of collectFromHierarchy. *)
SortedChildren(project, g) ==
    LET children == {c \in Group : project.parent[c] = g /\ project.active[c]}
        ranks == InOrder({project.rank[c] : c \in children})
    IN  [i \in DOMAIN ranks |-> CHOOSE c \in children : project.rank[c] = ranks[i]]

(* collectFromHierarchy: nothing below a disabled group. *)
CollectFromHierarchy(project, root) ==
    LET Below[g \in Group] ==
            LET children == SortedChildren(project, g)
            IN  <<g>> \o FlattenSeq([i \in DOMAIN children |-> Below[children[i]]])
    IN  IF project.active[root] THEN Below[root] ELSE <<>>

(* Root groups stay in the order of the file, named ones in that of the    *)
(* command line.                                                           *)
RootGroups(project, command) ==
    IF command.groups # <<>> THEN command.groups
    ELSE InOrder({g \in Group : project.parent[g] = NoParent})

(* R.uniqBy *)
Unique(groups) ==
    Part(groups, {i \in DOMAIN groups : \A j \in 1 .. i - 1 : groups[j] # groups[i]})

FlattenedGroups(project, command) ==
    LET roots == RootGroups(project, command)
    IN  Unique(FlattenSeq([i \in DOMAIN roots |-> CollectFromHierarchy(project, roots[i])]))

-----------------------------------------------------------------------------
(* getConfigSetsByType, for the config set type of the command. *)
ConfigSetNames(project, t) == ToSet(project.configSets[t])

ConfigSetsMatch(project, command, t) ==
    command.kind # "run" =>
        /\ ConfigSetNames(project, t) # {}
        /\ command.configSetName \in ConfigSetNames(project, t) \union {NotGiven}

TargetNameMatches(command, t) ==
    /\ command.targets = {} \/ t \in UNION command.targets
    /\ t \notin UNION command.excludeTargets

LabelMatches_ExcludeOnly(project, command, t) ==
    project.labels[t] \intersect command.excludeLabels = {}

LabelMatches(project, command, t) ==
    /\ command.labels = {} \/ project.labels[t] \intersect command.labels # {}
    /\ project.labels[t] \intersect command.excludeLabels = {}

(* convertToExecutionTarget *)
ChosenConfigSets(project, command, t) ==
    LET names == project.configSets[t]
    IN  Part(names, {i \in DOMAIN names : command.configSetName \in {NotGiven, names[i]}})

(* The number of command paths of each config set to execute for t.  A map *)
(* command runs once for each target.                                      *)
ConfigSetsToExecute(project, command, t) ==
    IF command.kind = "run" THEN <<1>>
    ELSE LET chosen == ChosenConfigSets(project, command, t)
         IN  [i \in DOMAIN chosen |->
                 IF command.commandPath THEN 1 ELSE project.commandPaths[chosen[i]]]

(* filterTargetsBySelectionCriteria and executionGroupConverter. *)
SelectedTargets(project, command, g) ==
    InOrder({t \in project.targets[g] :
                /\ project.enabled[t]
                /\ ConfigSetsMatch(project, command, t)
                /\ TargetNameMatches(command, t)
                /\ LabelMatches(project, command, t)
                /\ command.kind = "run" \/ ChosenConfigSets(project, command, t) # <<>>})

(* The groups of the plan, in order, and the targets of each. *)
SelectedGroups(project, command) ==
    LET flattened == FlattenedGroups(project, command)
        groups == Part(flattened,
                       {i \in DOMAIN flattened :
                            SelectedTargets(project, command, flattened[i]) # <<>>})
    IN  [i \in DOMAIN groups |->
            [group |-> groups[i], targets |-> SelectedTargets(project, command, groups[i])]]

(* ctx.getConfigSet throws for a config set that only a target names. *)
UndefinedConfigSet(project, command) ==
    LET groups == SelectedGroups(project, command)
    IN  /\ command.kind # "run"
        /\ \E i \in DOMAIN groups : \E t \in ToSet(groups[i].targets) :
              ~(ToSet(ChosenConfigSets(project, command, t)) \subseteq DOMAIN project.commandPaths)

PlanError(project, command) ==
    \/ SelectionError(project, command)
    \/ UndefinedConfigSet(project, command)

CreateExecutionPlan(project, command) ==
    IF PlanError(project, command) THEN <<>> ELSE SelectedGroups(project, command)
=============================================================================
