-------------------------- MODULE DeploymentConfig --------------------------
(***************************************************************************)
(* The configuration of the deployment targets, as getDeploymentConfig     *)
(* makes it of deployment/targets.yml, of the targets that repositories    *)
(* list (takomo-deployment-targets-repository) and of the directory of     *)
(* config sets: targets listed more than once are merged, and targets get  *)
(* what the groups above them are configured with                          *)
(* (takomo-deployment-targets-config).                                     *)
(*                                                                         *)
(* Groups are numbered in the order of the file, those it leaves out       *)
(* included, and targets in the order of their names.  The config sets of  *)
(* a group or a target are those of the type the command deploys.  The     *)
(* schemas accept lists of names without duplicates, so that all config    *)
(* sets are of the default stage, the only one getStages returns.          *)
(*                                                                         *)
(* MergeTargets_FirstStatus is a wrong version of MergeTargets, that a     *)
(* mutation run puts in its place.                                         *)
(***************************************************************************)
EXTENDS Orders, SequencesExt

CONSTANTS
    NumGroups,      \* number of deployment groups of the file
    NumTargets,     \* number of names of targets
    Label,          \* the labels of targets
    ConfigSet       \* the config sets, named as groups and targets name them

Group == 1 .. NumGroups
Target == 1 .. NumTargets
NoParent == 0
NotConfigured == NumGroups + 1      \* a group the file does not have
NotGiven == "not given"
NotDefined == -1                    \* of a config set the file does not have

(* A target, as the file or a repository lists it in one of the groups. *)
Items(groups) ==
    [name : Target,
     group : groups,
     status : {"active", "disabled", NotGiven},
     labels : SUBSET Label,
     configSets : Seq(ConfigSet)]

(* rank is the order of the groups by priority and name, no two of which   *)
(* have the same name.  repositories are their items in the order they are *)
(* listed: repository by repository, and of a directory of files in the    *)
(* order the file system gives.  commandPaths tells how many each config   *)
(* set has in the file, and directories are the config sets whose          *)
(* directories the loader finds.                                           *)
Configs ==
    {config \in
        [parent : [Group -> {NoParent} \union Group],
         rank : [Group -> Group],
         status : [Group -> {"active", "disabled", NotGiven}],
         labels : [Group -> SUBSET Label],
         configSets : [Group -> Seq(ConfigSet)],
         targets : Seq(Items(Group)),
         repositories : Seq(Items(Group \union {NotConfigured})),
         commandPaths : [ConfigSet -> Nat \union {NotDefined}],
         directories : SUBSET ConfigSet] :
     \A g \in Group :
        /\ config.parent[g] < g
        /\ \A h \in Group : config.rank[g] = config.rank[h] => g = h}

(* Those of second that first does not have come after first. *)
Merged(first, second) ==
    first \o Part(second, {i \in DOMAIN second : second[i] \notin ToSet(first)})

-----------------------------------------------------------------------------
MergeTargets_FirstStatus(first, second) ==
    [second EXCEPT
        !.status = IF first.status = NotGiven THEN @ ELSE first.status,
        !.labels = first.labels \union @,
        !.configSets = Merged(first.configSets, @)]

(* mergeDeploymentTargetConfigs, of lists: a later repository decides on   *)
(* the group and the status.                                               *)
MergeTargets(first, second) ==
    [second EXCEPT
        !.status = IF @ = NotGiven THEN first.status ELSE @,
        !.labels = first.labels \union @,
        !.configSets = Merged(first.configSets, @)]

(* The items of the repositories that have the name t, merged in their     *)
(* order.                                                                  *)
ExternalTarget(config, t) ==
    LET named == Part(config.repositories,
                      {i \in DOMAIN config.repositories : config.repositories[i].name = t})
        UpTo[n \in DOMAIN named] ==
            IF n = 1 THEN named[n] ELSE MergeTargets(UpTo[n - 1], named[n])
    IN  UpTo[Len(named)]

ExternalTargets(config) ==
    {ExternalTarget(config, item.name) : item \in ToSet(config.repositories)}

ItemsOf(config) == ToSet(config.targets) \union ExternalTargets(config)

(* The validation of buildDeploymentConfig. *)
GroupNotConfigured(config) == \E item \in ExternalTargets(config) : item.group = NotConfigured

NotUnique(config) ==
    \/ \E item \in ToSet(config.targets), other \in ExternalTargets(config) :
          item.name = other.name
    \/ \E i, j \in DOMAIN config.targets :
          i # j /\ config.targets[i].name = config.targets[j].name

ConfigError(config) == GroupNotConfigured(config) \/ NotUnique(config)

-----------------------------------------------------------------------------
(* parseDeploymentStatus *)
Active(status) == status # "disabled"

(* mergeConfigSetInstructions is called with what a group or target has    *)
(* itself where it names what is inherited: its own config sets come first *)
MergeConfigSetInstructions(configSets, inherited) == Merged(configSets, inherited)

(* parseDeploymentGroup: what a group and the groups above it give to the  *)
(* targets of the group.                                                   *)
ParsedGroups(config) ==
    LET Parsed[g \in Group] ==
            LET inherited == IF config.parent[g] = NoParent THEN [labels |-> {}, configSets |-> <<>>]
                             ELSE Parsed[config.parent[g]]
            IN  [labels |-> config.labels[g] \union inherited.labels,
                 configSets |-> MergeConfigSetInstructions(config.configSets[g],
                                                           inherited.configSets)]
    IN  Parsed

(* A config set with a directory of its own has one command path, the      *)
(* root, unless the file has a config set of its name.                     *)
CommandPaths(config) ==
    LET defined == {cs \in ConfigSet : config.commandPaths[cs] # NotDefined}
    IN  [cs \in config.directories \union defined |->
            IF cs \in defined THEN config.commandPaths[cs] ELSE 1]

(* What the planning of a command reads, of a configuration without error. *)
BuildDeploymentConfig(config) ==
    LET items == ItemsOf(config)
        groups == ParsedGroups(config)
        ItemOf(t) == CHOOSE item \in items : item.name = t
        listed == {item.name : item \in items}
    IN  [parent |-> config.parent,
         rank |-> config.rank,
         active |-> [g \in Group |-> Active(config.status[g])],
         targets |-> [g \in Group |-> {t \in listed : ItemOf(t).group = g}],
         enabled |-> [t \in listed |-> Active(ItemOf(t).status)],
         labels |-> [t \in listed |-> ItemOf(t).labels \union groups[ItemOf(t).group].labels],
         configSets |-> [t \in listed |->
                            MergeConfigSetInstructions(ItemOf(t).configSets,
                                                       groups[ItemOf(t).group].configSets)],
         commandPaths |-> CommandPaths(config)]
=============================================================================
