----------------------------- MODULE StackConfig -----------------------------
(***************************************************************************)
(* The stacks, as the configuration files give them: doCreateStackGroup    *)
(* and buildStack (takomo-stacks-context/config) merge what the file of a  *)
(* stack, its blueprint and the files of the stack groups above it say.    *)
(*                                                                         *)
(* A stack is a file in a region, and is named by its place in the order   *)
(* of paths.  A command path or the path a stack depends on is a prefix,   *)
(* and stands here for the set of stacks whose path starts with it: a      *)
(* region of a file, a file, a stack group.  Relative paths stand for the  *)
(* path they are resolved to.                                              *)
(*                                                                         *)
(* BuildObsolete_Falsy is a wrong version of BuildObsolete, that a         *)
(* mutation run puts in its place.                                         *)
(***************************************************************************)
EXTENDS Integers, FiniteSets

CONSTANTS
    NumFiles,       \* number of stack configuration files
    NumRegions,     \* number of regions
    NumGroups,      \* number of stack groups; 1 is the root
    Blueprint,      \* the blueprints
    Parameter,      \* the names of parameters
    References,     \* the sets of stacks a path may stand for
    NotGiven        \* what a file says of a property it does not have

File == 1 .. NumFiles
Region == 1 .. NumRegions
Group == 1 .. NumGroups
Stack == 1 .. NumFiles * NumRegions
NoParent == 0

FileOf(s) == (s - 1) \div NumRegions + 1
RegionOf(s) == ((s - 1) % NumRegions) + 1

(* Paths are prefixes: of two sets of stacks one contains the other, or    *)
(* they are disjoint.                                                      *)
ASSUME StacksAssumption ==
    /\ NumFiles \in Nat /\ NumRegions \in Nat \ {0} /\ NumGroups \in Nat \ {0}
    /\ References \subseteq SUBSET Stack
    /\ \A r, q \in References : r \subseteq q \/ q \subseteq r \/ r \intersect q = {}

Optional(values) == values \union {NotGiven}

(* The properties of stacks, blueprints and stack groups that decide which *)
(* stacks there are, and on what they depend.                              *)
GroupFiles ==
    [parent : {NoParent} \union Group,
     ignore : Optional(BOOLEAN),
     obsolete : Optional(BOOLEAN),
     regions : Optional((SUBSET Region) \ {{}})]

Blueprints ==
    [ignore : Optional(BOOLEAN),
     obsolete : Optional(BOOLEAN),
     regions : Optional((SUBSET Region) \ {{}}),
     depends : Optional(SUBSET References),
     parameters : UNION {[names -> SUBSET References] : names \in SUBSET Parameter}]

StackFiles ==
    [group : Group,
     blueprint : Optional(Blueprint),
     ignore : Optional(BOOLEAN),
     obsolete : Optional(BOOLEAN),
     regions : Optional((SUBSET Region) \ {{}}),
     depends : Optional(SUBSET References),
     parameters : UNION {[names -> SUBSET References] : names \in SUBSET Parameter}]

(* The root has no parent, and every other group comes after its parent. *)
StackGroupTrees ==
    {groups \in [Group -> GroupFiles] :
        \A g \in Group : groups[g].parent < g /\ (groups[g].parent = NoParent <=> g = 1)}

Configs ==
    [groups : StackGroupTrees,
     blueprints : [Blueprint -> Blueprints],
     files : [File -> StackFiles]]

-----------------------------------------------------------------------------
(* value ?? default *)
Given(value, default) == IF value = NotGiven THEN default ELSE value

(* createRootStackGroup *)
RootStackGroup == [ignore |-> FALSE, obsolete |-> FALSE, regions |-> NotGiven]

(* createStackGroupFromParent and populatePropertiesFromConfigFile: the    *)
(* file of a group, if there is one, changes what its parent has.          *)
StackGroups(config) ==
    LET StackGroup[g \in Group] ==
            LET file == config.groups[g]
                parent == IF file.parent = NoParent THEN RootStackGroup
                          ELSE StackGroup[file.parent]
            IN  [ignore |-> Given(file.ignore, parent.ignore),
                 obsolete |-> Given(file.obsolete, parent.obsolete),
                 regions |-> Given(file.regions, parent.regions)]
    IN  StackGroup

(* A file without a blueprint. *)
NoBlueprint ==
    [ignore |-> NotGiven, obsolete |-> NotGiven, regions |-> NotGiven, depends |-> NotGiven,
     parameters |-> <<>>]

BlueprintOf(config, file) ==
    IF file.blueprint = NotGiven THEN NoBlueprint ELSE config.blueprints[file.blueprint]

BuildIgnore(file, blueprint, group) == Given(file.ignore, Given(blueprint.ignore, group.ignore))

(* A file cannot take back what its group says. *)
BuildObsolete_Falsy(file, blueprint, group) ==
    file.obsolete = TRUE \/ blueprint.obsolete = TRUE \/ group.obsolete

BuildObsolete(file, blueprint, group) ==
    Given(file.obsolete, Given(blueprint.obsolete, group.obsolete))

BuildRegions(file, blueprint, group) ==
    Given(file.regions, Given(blueprint.regions, group.regions))

(* mergeMaps *)
MergeMaps(first, second) ==
    [name \in DOMAIN first \union DOMAIN second |->
        IF name \in DOMAIN second THEN second[name] ELSE first[name]]

(* Stack groups have no dependencies.  The parameters of the file come in  *)
(* place of those of the blueprint with the same name, and a stack depends *)
(* on what their resolvers depend on.                                      *)
BuildDependencies(file, blueprint) ==
    LET parameters == MergeMaps(blueprint.parameters, file.parameters)
    IN  Given(file.depends, Given(blueprint.depends, {}))
            \union UNION {parameters[p] : p \in DOMAIN parameters}

(* What buildStack makes of all the files.  The stacks of an ignored stack *)
(* group are not built; those that are ignored themselves are, and are     *)
(* left out afterwards.  A file without regions ends the command when its  *)
(* turn comes.                                                             *)
BuildProject(config) ==
    LET groups == StackGroups(config)
        FileAt(s) == config.files[FileOf(s)]
        BlueprintAt(s) == BlueprintOf(config, FileAt(s))
        GroupAt(s) == groups[FileAt(s).group]
        RegionsAt(s) == BuildRegions(FileAt(s), BlueprintAt(s), GroupAt(s))
        live == {s \in Stack : ~GroupAt(s).ignore}
        nowhere == {s \in live : RegionsAt(s) = NotGiven}
    IN  [nowhere |-> nowhere,
         built |-> {s \in live \ nowhere : RegionOf(s) \in RegionsAt(s)},
         ignored |-> {s \in Stack : BuildIgnore(FileAt(s), BlueprintAt(s), GroupAt(s))},
         obsolete |-> {s \in Stack : BuildObsolete(FileAt(s), BlueprintAt(s), GroupAt(s))},
         depends |-> [s \in Stack |-> BuildDependencies(FileAt(s), BlueprintAt(s))]]
=============================================================================
