----------------------------- MODULE StackPlan -----------------------------
(***************************************************************************)
(* From the configuration to the plan of a deployment or an undeployment:  *)
(* processConfigTree (takomo-stacks-context/config/process-config-tree.ts) *)
(* loads the stacks of the command path and, pass after pass, those they   *)
(* depend on; dependencies.ts resolves the dependencies, rejects cycles    *)
(* and sorts; deploy/plan.ts and undeploy/plan.ts select the operations.   *)
(*                                                                         *)
(* A definition whose name ends in _Something is a wrong version of the    *)
(* one after it, that the mutation runs put in its place.                  *)
(***************************************************************************)
EXTENDS StackConfig, Orders

CONSTANT Inputs     \* the configurations and the commands, with their options

Kinds == {"deploy", "undeploy", "prune"}

Commands ==
    [kind : Kinds, path : References, interactive : BOOLEAN, ignoreDependencies : BOOLEAN]

ASSUME InputsAssumption == Inputs \subseteq [config : Configs, command : Commands]

VARIABLES
    config,         \* the configuration files; constant
    project,        \* the stacks they describe; constant
    command,        \* the command; constant
    phase,          \* where the command is
    paths,          \* commandPaths still to be processed in this pass
    loaded,         \* ProcessStatus.stacks
    fresh,          \* ProcessStatus.newStacks
    dependencies,   \* the resolved dependencies of the loaded stacks
    unsorted,       \* of sortStacks
    operations,     \* the sorted stacks, then the plan's operations
    error           \* why there is no plan

vars == <<config, project, command, phase, paths, loaded, fresh, dependencies, unsorted,
          operations, error>>

None == "none"
Errors == {"no regions", "unknown dependency", "cyclic", "obsolete dependency", "missing stack"}

(* Only the deployment of a path given on the command line restricts what  *)
(* is loaded: an undeployment has to know every dependent.                 *)
InitialPath_CommandPath(cmd) == IF cmd.interactive THEN Stack ELSE cmd.path

InitialPath(cmd) ==
    IF cmd.kind = "deploy" /\ ~cmd.interactive THEN cmd.path ELSE Stack

Init ==
    /\ \E input \in Inputs : config = input.config /\ command = input.command
    /\ project = BuildProject(config)
    /\ phase = "load"
    /\ paths = {InitialPath(command)}
    /\ loaded = {}
    /\ fresh = {}
    /\ dependencies = [s \in Stack |-> {}]
    /\ unsorted = {}
    /\ operations = <<>>
    /\ error = None

Fail(reason) ==
    /\ phase' = "done"
    /\ error' = reason

-----------------------------------------------------------------------------
(* processConfigTree. *)
ProcessCommandPath ==
    /\ phase = "load"
    /\ \E path \in paths :
          /\ path \intersect project.nowhere = {}
          /\ paths' = paths \ {path}
          /\ loaded' = loaded \union (path \intersect project.built)
          /\ fresh' = fresh \union ((path \intersect project.built) \ loaded)
    /\ UNCHANGED <<config, project, command, phase, dependencies, unsorted, operations, error>>

FileHasNoRegions ==
    /\ phase = "load"
    /\ \E path \in paths : path \intersect project.nowhere # {}
    /\ Fail("no regions")
    /\ UNCHANGED <<config, project, command, paths, loaded, fresh, dependencies, unsorted, operations>>

PathsOf(stacks) == UNION {project.depends[s] : s \in stacks \ project.ignored}

NextPass_NoReset ==
    /\ phase = "load"
    /\ paths = {}
    /\ paths' = PathsOf(fresh)
    /\ phase' = IF paths' = {} THEN "resolve" ELSE "load"
    /\ UNCHANGED <<config, project, command, loaded, fresh, dependencies, unsorted, operations, error>>

NextPass ==
    /\ phase = "load"
    /\ paths = {}
    /\ paths' = PathsOf(fresh)
    /\ fresh' = {}
    /\ phase' = IF paths' = {} THEN "resolve" ELSE "load"
    /\ UNCHANGED <<config, project, command, loaded, dependencies, unsorted, operations, error>>

ResolveDependencies_NotLoaded ==
    /\ phase = "resolve"
    /\ dependencies' = [s \in Stack |-> IF s \in loaded THEN UNION project.depends[s] ELSE {}]
    /\ phase' = "check"
    /\ UNCHANGED <<config, project, command, paths, loaded, fresh, unsorted, operations, error>>

(* processStackDependencies. *)
ResolveDependencies ==
    /\ phase = "resolve"
    /\ IF \E s \in loaded : \E path \in project.depends[s] : path \intersect loaded = {}
       THEN Fail("unknown dependency") /\ UNCHANGED dependencies
       ELSE /\ dependencies' = [s \in Stack |->
                    IF s \in loaded THEN loaded \intersect UNION project.depends[s] ELSE {}]
            /\ phase' = "check"
            /\ UNCHANGED error
    /\ UNCHANGED <<config, project, command, paths, loaded, fresh, unsorted, operations>>

(* populateDependents. *)
Dependents(s) == {t \in loaded \ {s} : s \in dependencies[t]}

Cyclic_Diamond ==
    \E s \in loaded : \E d, e \in dependencies[s] :
        d # e /\ (d \in dependencies[e] \/ dependencies[d] \intersect dependencies[e] # {})

(* checkCyclicDependenciesForStack: the stacks that the chains of          *)
(* dependencies from a stack meet again, chain being what led to it.       *)
MetAgain[chain \in SUBSET Stack] ==
    [s \in Stack |->
        (dependencies[s] \intersect chain)
            \union UNION {MetAgain[chain \union {d}][d] : d \in dependencies[s] \ chain}]

(* checkCyclicDependencies *)
Cyclic == \E s \in loaded : MetAgain[{s}][s] # {}

(* checkObsoleteDependencies. *)
DependsOnObsolete ==
    \E s \in loaded \ project.obsolete : dependencies[s] \intersect project.obsolete # {}

CheckDependencies ==
    /\ phase = "check"
    /\ CASE Cyclic -> Fail("cyclic")
         [] ~Cyclic /\ DependsOnObsolete -> Fail("obsolete dependency")
         [] OTHER -> phase' = "select" /\ UNCHANGED error
    /\ UNCHANGED <<config, project, command, paths, loaded, fresh, dependencies, unsorted, operations>>

-----------------------------------------------------------------------------
(* ctx.stacks, after populateChildrenAndStacks and collectStacks. *)
Known == loaded \ project.ignored

(* The stacks the operation of s follows. *)
Precedes(s) == IF command.kind = "deploy" THEN dependencies[s] ELSE Dependents(s)

(* collectStackDependencies and collectStackDependents: all that a walk    *)
(* from the stacks within the command path reaches.                        *)
Collected ==
    LET Closed(stacks) ==
            /\ Known \intersect command.path \subseteq stacks
            /\ \A s \in stacks : Precedes(s) \subseteq stacks
    IN  {s \in loaded : \A stacks \in SUBSET loaded : Closed(stacks) => s \in stacks}

(* isObsolete for a pruning, isNotObsolete otherwise. *)
Selected(s) == s \in project.obsolete <=> command.kind = "prune"

(* A stack the walk reaches must be one of ctx.stacks. *)
SelectStacks ==
    /\ phase = "select"
    /\ IF Collected \subseteq Known
       THEN /\ unsorted' = {s \in Collected : Selected(s)}
            /\ phase' = "sort"
            /\ UNCHANGED error
       ELSE Fail("missing stack") /\ UNCHANGED unsorted
    /\ UNCHANGED <<config, project, command, paths, loaded, fresh, dependencies, operations>>

Wave_DependenciesFirst == {s \in unsorted : dependencies[s] \intersect unsorted = {}}

(* One iteration of the loop of sortStacks: all the stacks that follow     *)
(* none of the unsorted ones, in the order of their paths.                 *)
Wave == {s \in unsorted : Precedes(s) \intersect unsorted = {}}

SortWave ==
    /\ phase = "sort"
    /\ unsorted # {}
    /\ operations' = operations \o InOrder(Wave)
    /\ unsorted' = unsorted \ Wave
    /\ UNCHANGED <<config, project, command, phase, paths, loaded, fresh, dependencies, error>>

(* The operations of the stacks within the command path. *)
OperationsWithin ==
    Part(operations, {i \in DOMAIN operations : operations[i] \in command.path})

FinishPlan ==
    /\ phase = "sort"
    /\ unsorted = {}
    /\ operations' = IF command.ignoreDependencies THEN OperationsWithin ELSE operations
    /\ phase' = "done"
    /\ UNCHANGED <<config, project, command, paths, loaded, fresh, dependencies, unsorted, error>>

Done == phase = "done" /\ UNCHANGED vars

Next ==
    \/ ProcessCommandPath
    \/ FileHasNoRegions
    \/ NextPass
    \/ ResolveDependencies
    \/ CheckDependencies
    \/ SelectStacks
    \/ SortWave
    \/ FinishPlan
    \/ Done

Spec == Init /\ [][Next]_vars

(* The program goes on. *)
FairSpec == Spec /\ WF_vars(Next)

-----------------------------------------------------------------------------
(* The types of the variables. *)
TypeOK ==
    /\ config \in Configs /\ command \in Commands
    /\ project = BuildProject(config)
    /\ phase \in {"load", "resolve", "check", "select", "sort", "done"}
    /\ paths \subseteq References \union {Stack}
    /\ loaded \subseteq Stack
    /\ fresh \subseteq loaded
    /\ dependencies \in [Stack -> SUBSET loaded]
    /\ unsorted \subseteq loaded
    /\ operations \in Seq(Stack)
    /\ error \in {None} \union Errors

Planned == phase = "done" /\ error = None

(* What the operation of s waits for: operation.dependents of an           *)
(* undeployment leaves out those of the other kind of obsolescence.        *)
Needs(s) ==
    CASE command.ignoreDependencies -> {}
      [] ~command.ignoreDependencies /\ command.kind = "deploy" -> dependencies[s]
      [] OTHER -> {t \in Dependents(s) : Selected(t)}

(* The plan is one of the Plans of DeployStacks and UndeployStacks: each   *)
(* operation comes once, after all those it waits for.  executeDeploy- and *)
(* executeUndeployContext look the promises of those up in a map that the  *)
(* earlier operations have filled.                                         *)
PlanRunnable ==
    Planned =>
        \A i \in DOMAIN operations :
            LET before == {operations[j] : j \in 1 .. i - 1}
            IN  operations[i] \notin before /\ Needs(operations[i]) \subseteq before

(* What the files say of a property: the file of the stack, else its       *)
(* blueprint, else the nearest stack group that says anything.             *)
GroupsAbove(g) ==
    {h \in Group :
        \A c \in SUBSET Group :
            g \in c /\ (\A i \in c : config.groups[i].parent \in c \union {NoParent}) => h \in c}

GroupSays(g, property, otherwise) ==
    LET givers == {h \in GroupsAbove(g) : config.groups[h][property] # NotGiven}
    IN  IF givers = {} THEN otherwise
        ELSE LET nearest == CHOOSE h \in givers : givers \subseteq GroupsAbove(h)
             IN  config.groups[nearest][property]

Says(s, property, otherwise) ==
    LET file == config.files[FileOf(s)]
        byBlueprint == file.blueprint # NotGiven /\ config.blueprints[file.blueprint][property] # NotGiven
    IN  CASE file[property] # NotGiven -> file[property]
          [] file[property] = NotGiven /\ byBlueprint -> config.blueprints[file.blueprint][property]
          [] OTHER -> GroupSays(file.group, property, otherwise)

(* The stacks the files define for the command, were everything loaded. *)
Meant(s) ==
    /\ RegionOf(s) \in Says(s, "regions", {})
    /\ ~GroupSays(config.files[FileOf(s)].group, "ignore", FALSE)
    /\ ~Says(s, "ignore", FALSE)
    /\ Says(s, "obsolete", FALSE) <=> command.kind = "prune"

(* The plan has every stack of the command path the files define for the   *)
(* command, obsolete ones for a pruning and the others otherwise, no stack *)
(* of the other kind and none that is ignored; with --ignore-dependencies  *)
(* it has no stack outside the command path.                               *)
PlanExact ==
    Planned =>
        LET planned == {operations[i] : i \in DOMAIN operations}
        IN  /\ \A s \in planned : Meant(s)
            /\ \A s \in command.path : Meant(s) => s \in planned
            /\ command.ignoreDependencies => planned \subseteq command.path

-----------------------------------------------------------------------------
(* The dependencies of s as the configuration files state them, whatever   *)
(* was loaded.                                                             *)
Configured(s) == project.built \intersect UNION project.depends[s]

(* Although a deployment loads only what its command path leads to, its    *)
(* plan is as complete as if everything had been loaded: no dependency of  *)
(* a deployed stack and no dependent of an undeployed one is left out.     *)
NothingLeftOut ==
    Planned /\ ~command.ignoreDependencies =>
        LET planned == {operations[i] : i \in DOMAIN operations}
        IN  \A s \in planned :
              /\ command.kind = "deploy" => Configured(s) \subseteq planned
              /\ command.kind # "deploy" =>
                    \A t \in project.built : s \in Configured(t) /\ Selected(t) => t \in planned

(* A configuration is rejected as cyclic only if it has a cycle: a set of  *)
(* stacks each of which depends on one of them.                            *)
CyclicRejectedRightly ==
    error = "cyclic" =>
        \E cycle \in (SUBSET Stack) \ {{}} :
            \A s \in cycle : Configured(s) \intersect cycle # {}

(* The loading of the configuration and the sort come to an end, whatever  *)
(* depends on what.                                                        *)
Terminates == <>(phase = "done")

-----------------------------------------------------------------------------
(* processStackDependencies: "Dependency ... in stack ... refers to a      *)
(* non-existing stack".  The stack does not exist then.                    *)
UnknownDependencyIsUnknown ==
    error = "unknown dependency" =>
        \E s \in Stack : \E path \in project.depends[s] :
            path \intersect project.built = {}

(* collectStackDependents: "Expected stack with path ... to exist".  The   *)
(* walk over the dependents of the stacks of an undeployment only meets    *)
(* stacks of ctx.stacks.                                                   *)
DependentsExist == command.kind # "deploy" => error # "missing stack"
=============================================================================
