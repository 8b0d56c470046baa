------------------------ MODULE MCDeploymentTargets ------------------------
(***************************************************************************)
(* Constants of the TLC runs of DeploymentTargets.                         *)
(***************************************************************************)
EXTENDS DeploymentTargets

MCLabel == {"test", "prod"}
MCConfigSet == {"networking", "logging"}

Item(name, home, labels, configSets) ==
    [name |-> name, group |-> home, status |-> NotGiven,
     labels |-> labels, configSets |-> configSets]

(* A root group with two groups below it, the second of higher priority.   *)
Tree ==
    [parent |-> <<NoParent, 1, 1>>,
     rank |-> <<3, 2, 1>>,
     status |-> <<NotGiven, "active", NotGiven>>,
     labels |-> <<{}, {"prod"}, {"test"}>>,
     configSets |-> << <<"networking">>, <<>>, <<>> >>,
     targets |-> <<Item(2, 1, {"test"}, <<>>), Item(1, 1, {}, <<"logging">>),
                   Item(4, 3, {"prod"}, <<"networking">>)>>,
     repositories |-> <<Item(3, 2, {}, <<>>)>>,
     commandPaths |-> [cs \in MCConfigSet |-> IF cs = "networking" THEN 1 ELSE 2],
     directories |-> {}]

(* Two root groups, the second with a group below it. *)
Forest ==
    [Tree EXCEPT !.parent = <<NoParent, NoParent, 2>>, !.rank = <<2, 1, 3>>,
                 !.configSets = << <<"networking">>, <<"networking">>, <<>> >>]

(* A group that no bulkhead of one target has room for. *)
Wide ==
    [Tree EXCEPT !.targets = <<Item(2, 1, {}, <<>>), Item(1, 1, {}, <<"logging">>)>>,
                 !.repositories = <<Item(4, 2, {}, <<>>), Item(3, 1, {}, <<>>)>>]

Networking(n) == [cs \in MCConfigSet |-> IF cs = "networking" THEN n ELSE NotDefined]

(* A config set without command paths, one with a directory as well, one   *)
(* that nobody defines, and targets without config sets.                   *)
ConfigSets ==
    {[Tree EXCEPT !.commandPaths = Networking(0), !.directories = {"logging"}],
     [Tree EXCEPT !.commandPaths = Networking(2),
                  !.directories = MCConfigSet, !.configSets[3] = <<"logging">>,
                  !.targets = Tail(@)],
     [Tree EXCEPT !.commandPaths = Networking(NotDefined), !.directories = {"networking"}],
     [Tree EXCEPT !.configSets = [g \in 1 .. 3 |-> <<>>]]}

(* A target that two repositories list, in groups of their own. *)
Repositories ==
    {[Tree EXCEPT !.labels[2] = {},
                  !.repositories =
        <<[Item(3, 2, {"prod"}, <<"logging">>) EXCEPT !.status = first],
          Item(4, 1, {"test"}, <<>>),
          [Item(3, home, {"test"}, <<"networking">>) EXCEPT !.status = second]>>,
                  !.targets = SubSeq(@, 1, 2)] :
        first \in {"active", "disabled", NotGiven}, second \in {"active", "disabled", NotGiven},
        home \in {1, 3}}

(* A group that is not in the file, a target in the file and a repository, *)
(* and a target in the file twice.                                         *)
Errors ==
    {[Tree EXCEPT !.repositories = <<Item(3, 4, {}, <<>>)>>],
     [Tree EXCEPT !.repositories = <<Item(2, 2, {}, <<>>)>>],
     [Tree EXCEPT !.targets = Append(@, Item(2, 2, {}, <<>>))]}

Deploy ==
    [kind |-> "deploy", groups |-> <<>>, targets |-> {}, excludeTargets |-> {},
     labels |-> {}, excludeLabels |-> {}, configSetName |-> NotGiven,
     commandPath |-> FALSE, concurrentTargets |-> 2, autoConfirmEnabled |-> FALSE,
     reduce |-> FALSE]
Undeploy == [Deploy EXCEPT !.kind = "undeploy"]
Run == [Deploy EXCEPT !.kind = "run", !.reduce = TRUE]
OneAtATime == [Run EXCEPT !.concurrentTargets = 1, !.autoConfirmEnabled = TRUE,
                          !.reduce = FALSE]

(* What is executed, and how. *)
Executions ==
    [config : {Tree, Wide}, command : {Deploy, Undeploy, Run, [OneAtATime EXCEPT !.reduce = TRUE]}]
    \union [config : ConfigSets,
            command : {[Deploy EXCEPT !.autoConfirmEnabled = TRUE],
                       [Undeploy EXCEPT !.configSetName = "logging"],
                       [Deploy EXCEPT !.configSetName = "networking", !.commandPath = TRUE]}]

(* What is selected: groups, then targets. *)
Groups == {<<>>, <<2>>, <<1, 3>>, <<3, 1>>, <<4>>}

Selections ==
    [config : {[c EXCEPT !.status = s] : c \in {Tree, Forest},
                                         s \in [1 .. 3 -> {"disabled", NotGiven}]},
     command : {[OneAtATime EXCEPT !.groups = gs] : gs \in Groups}]
    \union [config : {[Tree EXCEPT !.targets[1].status = s] : s \in {"active", "disabled"}},
            command : {[OneAtATime EXCEPT !.targets = ts, !.excludeTargets = xs,
                                          !.labels = ls, !.excludeLabels = ys] :
                          ts \in {{}, {{1}, {2, 3}}}, xs \in {{}, {{3}}},
                          ls \in SUBSET MCLabel, ys \in SUBSET MCLabel}]
    \union [config : Repositories \union Errors,
            command : {OneAtATime,
                       [OneAtATime EXCEPT !.excludeLabels = {"test"}],
                       [Deploy EXCEPT !.configSetName = "logging", !.concurrentTargets = 1]}]
    \union [config : {Tree},
            command : {[Deploy EXCEPT !.configSetName = "unknown"],
                       [Deploy EXCEPT !.commandPath = TRUE]}]

MCInputs == Executions \union Selections
=============================================================================
