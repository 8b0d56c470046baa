---------------------------- MODULE MCStackPlan ----------------------------
(***************************************************************************)
(* Constants of the TLC runs of StackPlan.                                 *)
(*                                                                         *)
(* Three files in three stack groups below the root, the second below the  *)
(* first: stacks 1 and 2 are a.yml in two regions, 3 and 4 of the group    *)
(* below, 5 and 6 of the third group.                                      *)
(***************************************************************************)
EXTENDS StackPlan

One == {1, 2}
Two == {3, 4}
Three == {5, 6}
OneAndTwo == {1, 2, 3, 4}

(* With a region of a file, and a path that no stack has. *)
MCReferences == {{}, {1}, One, Two, Three, OneAndTwo}

GroupFile(parent, ignore) ==
    [parent |-> parent, ignore |-> ignore, obsolete |-> NotGiven, regions |-> NotGiven]

StackFile(home, ignore, obsolete, depends) ==
    [group |-> home, blueprint |-> NotGiven, ignore |-> ignore, obsolete |-> obsolete,
     regions |-> NotGiven, depends |-> depends, parameters |-> <<>>]

Project(ignoreGroups, ignore, obsolete, depends) ==
    [groups |-> <<[GroupFile(NoParent, NotGiven) EXCEPT !.regions = {1}],
                  GroupFile(1, ignoreGroups[1]), GroupFile(2, ignoreGroups[2]),
                  GroupFile(1, ignoreGroups[3])>>,
     blueprints |-> [b \in Blueprint |-> NoBlueprint],
     files |-> [f \in File |-> StackFile(f + 1, ignore[f], obsolete[f], depends[f])]]

Silent == [f \in File |-> NotGiven]
Said == [File -> {TRUE, NotGiven}]

(* Every graph of dependencies on at most one file or stack group each. *)
Graphs == [File -> {NotGiven} \union {{r} : r \in {{}, One, Three, OneAndTwo}}]

(* Stacks that are ignored or obsolete, in groups that say nothing. *)
Plain ==
    {Project(Silent, ignore, obsolete, depends) :
        ignore \in Said, obsolete \in {Silent} \union {[Silent EXCEPT ![f] = TRUE] : f \in File},
        depends \in Graphs}

(* Stack groups that are ignored, one of them with a group that is not, or *)
(* with a stack that says it is not.                                       *)
IgnoredGroups ==
    {Project(groups, ignore, Silent, depends) :
        groups \in {<<TRUE, NotGiven, NotGiven>>, <<TRUE, FALSE, NotGiven>>,
                    <<NotGiven, TRUE, NotGiven>>, <<NotGiven, NotGiven, TRUE>>},
        ignore \in {Silent, [Silent EXCEPT ![2] = FALSE], [Silent EXCEPT ![1] = TRUE]},
        depends \in Graphs}

(* The second file depends on the first, and the third on one region of    *)
(* it; what the second says, its blueprint and the groups above it.        *)
Base ==
    LET depends == [Silent EXCEPT ![2] = {One}, ![3] = {{1}}]
    IN  [Project(Silent, Silent, Silent, depends) EXCEPT
            !.files[2].blueprint = CHOOSE b \in Blueprint : TRUE]

Inherited ==
    {[Base EXCEPT !.groups[2].obsolete = above, !.groups[3].obsolete = group,
                  !.blueprints = [b \in Blueprint |-> [NoBlueprint EXCEPT !.obsolete = blueprint]],
                  !.files[2].obsolete = file] :
        above \in Optional(BOOLEAN), group \in Optional(BOOLEAN),
        blueprint \in Optional(BOOLEAN), file \in Optional(BOOLEAN)}
    \union
    {[Base EXCEPT !.groups[1].regions = root, !.groups[3].regions = group,
                  !.blueprints = [b \in Blueprint |-> [NoBlueprint EXCEPT !.regions = blueprint]],
                  !.files[2].regions = file] :
        root \in {NotGiven, {1}, {1, 2}}, group \in {NotGiven, {2}},
        blueprint \in {NotGiven, {1, 2}}, file \in {NotGiven, {1}}}
    \union
    {[Base EXCEPT !.blueprints = [b \in Blueprint |->
                    [NoBlueprint EXCEPT !.ignore = ignore, !.depends = blueprint,
                                        !.parameters = [p \in Parameter |-> {Three}]]],
                  !.files[2].depends = file, !.files[2].parameters = parameters] :
        ignore \in Optional(BOOLEAN), blueprint \in {NotGiven, {{1}}},
        file \in {NotGiven, {}, {One}},
        parameters \in {<<>>} \union [Parameter -> {{}, {One}}]}

NoOption == [kind |-> "deploy", path |-> OneAndTwo, interactive |-> FALSE,
             ignoreDependencies |-> FALSE]

AllCommands ==
    {NoOption, [NoOption EXCEPT !.path = Three],
     [NoOption EXCEPT !.interactive = TRUE],
     [NoOption EXCEPT !.ignoreDependencies = TRUE],
     [NoOption EXCEPT !.kind = "undeploy"],
     [NoOption EXCEPT !.kind = "undeploy", !.path = One],
     [NoOption EXCEPT !.kind = "undeploy", !.ignoreDependencies = TRUE],
     [NoOption EXCEPT !.kind = "prune"]}

MCInputs == [config : Plain \union IgnoredGroups \union Inherited, command : AllCommands]

(* Nothing is obsolete. *)
NotObsolete ==
    {Project(Silent, ignore, Silent, depends) : ignore \in Said, depends \in Graphs}

MCDeploy == [config : NotObsolete, command : {[NoOption EXCEPT !.path = One]}]

MCUndeploy == [config : NotObsolete, command : {[NoOption EXCEPT !.kind = "undeploy", !.path = One]}]
=============================================================================
