-------------------------- MODULE StackPlanProofs --------------------------
(***************************************************************************)
(* Theorems about StackPlan, for every number of files, regions and stack  *)
(* groups, every set of paths and every configuration and command.  Lemmas *)
(* about the operators come first: what buildStack makes of the files, and *)
(* the search for cycles.                                                  *)
(*                                                                         *)
(* StackGroups and MetAgain are recursive, and a recursive function is     *)
(* only what its equation says if some function satisfies the equation.    *)
(* There is one because the recursion ends: a group comes after its        *)
(* parent, and a chain of dependencies has no stack twice.                 *)
(***************************************************************************)
EXTENDS StackPlan, OrdersProofs

-----------------------------------------------------------------------------
(* The project. *)
LEMMA FileOfType ==
    ASSUME NEW s \in Stack
    PROVE  FileOf(s) \in File
<1> DEFINE i == s - 1
           d == i \div NumRegions
<1>1. /\ NumFiles \in Int /\ NumRegions \in Int /\ NumRegions > 0
      /\ i \in Int /\ 0 <= i
  BY StacksAssumption DEF Stack
<1>2. i < NumFiles * NumRegions
  <2>1. NumFiles * NumRegions \in Int
    BY <1>1
  <2>2. QED
    BY <1>1, <2>1 DEF Stack
<1> HIDE DEF i
<1>3. d \in Int /\ d * NumRegions <= i /\ 0 <= d
  BY <1>1
<1> HIDE DEF d
<1>4. d < NumFiles
  <2>1. SUFFICES ASSUME d >= NumFiles PROVE FALSE
    BY <1>1, <1>3
  <2>2. d * NumRegions >= NumFiles * NumRegions
    BY <1>1, <1>3, <2>1
  <2>3. QED
    BY <1>1, <1>2, <1>3, <2>2
<1>5. FileOf(s) = d + 1
  BY DEF FileOf, d, i
<1>6. QED
  BY <1>1, <1>3, <1>4, <1>5 DEF File

ProjectOK ==
    /\ project.built \subseteq Stack
    /\ \A s \in Stack : project.depends[s] \subseteq References

LEMMA DependenciesAreReferences ==
    ASSUME config \in Configs, NEW file \in StackFiles
    PROVE  BuildDependencies(file, BlueprintOf(config, file)) \subseteq References
<1> DEFINE blueprint == BlueprintOf(config, file)
           parameters == MergeMaps(blueprint.parameters, file.parameters)
<1>1. /\ file.depends \in Optional(SUBSET References)
      /\ \A p \in DOMAIN file.parameters : file.parameters[p] \subseteq References
  BY DEF StackFiles
<1>2. /\ blueprint.depends \in Optional(SUBSET References)
      /\ \A p \in DOMAIN blueprint.parameters : blueprint.parameters[p] \subseteq References
  <2>1. CASE file.blueprint = NotGiven
    BY <2>1 DEF BlueprintOf, NoBlueprint, Optional
  <2>2. CASE file.blueprint # NotGiven
    <3>1. file.blueprint \in Blueprint
      BY <2>2 DEF StackFiles, Optional
    <3>2. blueprint \in Blueprints
      BY <2>2, <3>1 DEF BlueprintOf, Configs
    <3>3. QED
      BY <3>2 DEF Blueprints
  <2>3. QED
    BY <2>1, <2>2
<1>3. \A p \in DOMAIN parameters : parameters[p] \subseteq References
  BY <1>1, <1>2 DEF MergeMaps
<1>4. Given(file.depends, Given(blueprint.depends, {})) \subseteq References
  BY <1>1, <1>2 DEF Given, Optional
<1>5. QED
  BY <1>3, <1>4 DEF BuildDependencies

LEMMA ProjectType ==
    ASSUME config \in Configs, project = BuildProject(config)
    PROVE  ProjectOK
<1>1. project.built \subseteq Stack
  BY DEF BuildProject
<1>2. ASSUME NEW s \in Stack PROVE project.depends[s] \subseteq References
  <2> DEFINE file == config.files[FileOf(s)]
  <2>1. file \in StackFiles
    BY FileOfType DEF Configs
  <2>2. project.depends[s] = BuildDependencies(file, BlueprintOf(config, file))
    BY DEF BuildProject
  <2>3. QED
    BY <2>1, <2>2, DependenciesAreReferences
<1>3. QED
  BY <1>1, <1>2 DEF ProjectOK

-----------------------------------------------------------------------------
(* What the files of the stack groups say. *)
FileOfGroup(g) == config.groups[g]

LEMMA ParentOf ==
    ASSUME config \in Configs, NEW g \in Group
    PROVE  /\ g \in Nat /\ FileOfGroup(g) \in GroupFiles
           /\ FileOfGroup(g).parent \in Group \union {NoParent}
           /\ FileOfGroup(g).parent < g
<1>1. config.groups \in StackGroupTrees
  BY DEF Configs
<1>2. FileOfGroup(g) \in GroupFiles /\ FileOfGroup(g).parent < g
  BY <1>1 DEF FileOfGroup, StackGroupTrees
<1>3. FileOfGroup(g).parent \in Group \union {NoParent}
  BY <1>2 DEF GroupFiles
<1>4. QED
  BY <1>2, <1>3 DEF Group

(* createStackGroupFromParent *)
FromParent(groups, g) ==
    LET parent == IF FileOfGroup(g).parent = NoParent THEN RootStackGroup
                  ELSE groups[FileOfGroup(g).parent]
    IN  [ignore |-> Given(FileOfGroup(g).ignore, parent.ignore),
         obsolete |-> Given(FileOfGroup(g).obsolete, parent.obsolete),
         regions |-> Given(FileOfGroup(g).regions, parent.regions)]

LEMMA StackGroupsDef ==
    ASSUME config \in Configs
    PROVE  \A g \in Group : StackGroups(config)[g] = FromParent(StackGroups(config), g)
<1> DEFINE Agrees(f, n) == \A g \in Group : g < n => f[g] = FromParent(f, g)
           Without == {n \in Nat : ~ \E f : Agrees(f, n)}
           Unfold(f) == [g \in Group |-> FromParent(f, g)]
<1>1. Without = {}
  <2>1. SUFFICES ASSUME Without # {} PROVE FALSE
    OBVIOUS
  <2> HIDE DEF Agrees
  <2>2. PICK n \in Without : \A i \in Without : ~(i < n)
    <3>1. Without \subseteq Nat
      OBVIOUS
    <3>2. QED
      BY <2>1, <3>1, LeastMember, Zenon
  <2>3. n # 0
    <3>1. ASSUME n = 0 PROVE Agrees(config, n)
      BY <3>1 DEF Agrees, Group
    <3>2. QED
      BY <2>2, <3>1
  <2>4. n \in Nat /\ n - 1 \in Nat /\ n - 1 < n
    BY <2>2, <2>3
  <2>5. PICK f : Agrees(f, n - 1)
    BY <2>2, <2>4
  <2>6. Agrees(Unfold(f), n)
    <3> DEFINE h == Unfold(f)
    <3>1. SUFFICES ASSUME NEW g \in Group, g < n PROVE h[g] = FromParent(h, g)
      BY DEF Agrees
    <3>2. h[g] = FromParent(f, g)
      OBVIOUS
    <3>3. ASSUME FileOfGroup(g).parent # NoParent
          PROVE  h[FileOfGroup(g).parent] = f[FileOfGroup(g).parent]
      <4> DEFINE p == FileOfGroup(g).parent
      <4>1. p \in Group /\ p < g /\ g \in Nat
        BY <3>3, ParentOf
      <4> HIDE DEF p
      <4>2. p < n - 1
        BY <2>4, <3>1, <4>1 DEF Group
      <4>3. f[p] = FromParent(f, p)
        BY <2>5, <4>1, <4>2 DEF Agrees
      <4>4. h[p] = f[p]
        BY <4>1, <4>3
      <4>5. QED
        BY <4>4 DEF p
    <3> HIDE DEF h
    <3>4. FromParent(h, g) = FromParent(f, g)
      BY <3>3, Zenon DEF FromParent
    <3>5. QED
      BY <3>2, <3>4
  <2>7. QED
    BY <2>2, <2>6
<1>2. PICK f : \A g \in Group : f[g] = FromParent(f, g)
  <2>1. NumGroups + 1 \in Nat /\ \A g \in Group : g < NumGroups + 1
    BY StacksAssumption DEF Group
  <2>2. PICK f : Agrees(f, NumGroups + 1)
    BY <1>1, <2>1
  <2>3. QED
    BY <2>1, <2>2
<1> HIDE DEF Agrees, Without
<1> DEFINE Fixed(h) == h = Unfold(h)
<1>3. Fixed(Unfold(f))
  <2> DEFINE h == Unfold(f)
  <2>1. \A g \in Group : h[g] = f[g]
    BY <1>2
  <2> HIDE DEF h
  <2>2. ASSUME NEW g \in Group PROVE FromParent(h, g) = FromParent(f, g)
    <3>1. FileOfGroup(g).parent # NoParent => h[FileOfGroup(g).parent] = f[FileOfGroup(g).parent]
      BY <2>1, ParentOf
    <3>2. QED
      BY <3>1, Zenon DEF FromParent
  <2>3. Unfold(h) = Unfold(f)
    BY <2>2
  <2>4. QED
    BY <2>3 DEF h
<1>4. StackGroups(config) = CHOOSE h : Fixed(h)
  BY DEF StackGroups, FromParent, FileOfGroup
<1> HIDE DEF Fixed
<1>5. Fixed(StackGroups(config))
  BY <1>3, <1>4
<1>6. QED
  BY <1>5 DEF Fixed

(* The groups above a group are the group and those above its parent. *)
Upward(c) == \A i \in c : FileOfGroup(i).parent \in c \union {NoParent}

LEMMA AboveDef ==
    ASSUME config \in Configs, NEW g \in Group
    PROVE  /\ g \in GroupsAbove(g)
           /\ \A h \in GroupsAbove(g) : h \in Group /\ h <= g
           /\ FileOfGroup(g).parent = NoParent => GroupsAbove(g) = {g}
           /\ FileOfGroup(g).parent # NoParent =>
                  GroupsAbove(g) = {g} \union GroupsAbove(FileOfGroup(g).parent)
<1> DEFINE p == FileOfGroup(g).parent
<1>1. \A k \in Group : GroupsAbove(k) = {h \in Group : \A c \in SUBSET Group : k \in c /\ Upward(c) => h \in c}
  BY DEF GroupsAbove, Upward, FileOfGroup
<1>2. g \in GroupsAbove(g)
  BY <1>1
<1>3. ASSUME NEW h \in GroupsAbove(g) PROVE h \in Group /\ h <= g
  <2> DEFINE c == {i \in Group : i <= g}
  <2>1. Upward(c)
    <3>1. SUFFICES ASSUME NEW i \in c PROVE FileOfGroup(i).parent \in c \union {NoParent}
      BY DEF Upward
    <3>2. FileOfGroup(i).parent \in Group \union {NoParent} /\ FileOfGroup(i).parent < i
      BY ParentOf
    <3>3. QED
      BY <3>2 DEF Group
  <2>2. g \in c
    BY DEF Group
  <2>3. h \in c
    BY <1>1, <2>1, <2>2
  <2>4. QED
    BY <2>3
<1>4. ASSUME p = NoParent PROVE GroupsAbove(g) = {g}
  <2>1. Upward({g})
    BY <1>4 DEF Upward
  <2>2. QED
    BY <1>1, <1>2, <2>1
<1>5. ASSUME p # NoParent PROVE GroupsAbove(g) = {g} \union GroupsAbove(p)
  <2>1. p \in Group
    BY <1>5, ParentOf
  <2>2. ASSUME NEW h \in GroupsAbove(p) PROVE h \in GroupsAbove(g)
    <3>1. \A c \in SUBSET Group : g \in c /\ Upward(c) => p \in c
      BY <1>5 DEF Upward
    <3>2. QED
      BY <1>1, <2>1, <3>1
  <2>3. ASSUME NEW h \in GroupsAbove(g), h # g PROVE h \in GroupsAbove(p)
    <3>1. SUFFICES ASSUME NEW c \in SUBSET Group, p \in c, Upward(c) PROVE h \in c
      BY <1>1, <2>1, <2>3
    <3>2. Upward(c \union {g})
      BY <3>1 DEF Upward
    <3>3. QED
      BY <1>1, <2>3, <3>2
  <2>4. QED
    BY <1>2, <2>2, <2>3
<1>6. QED
  BY <1>2, <1>3, <1>4, <1>5

(* GroupSays, group by group. *)
LEMMA GroupSaysDef ==
    ASSUME config \in Configs, NEW g \in Group, NEW property, NEW otherwise
    PROVE  GroupSays(g, property, otherwise) =
               Given(FileOfGroup(g)[property],
                     IF FileOfGroup(g).parent = NoParent THEN otherwise
                     ELSE GroupSays(FileOfGroup(g).parent, property, otherwise))
<1> DEFINE Givers(k) == {h \in GroupsAbove(k) : config.groups[h][property] # NotGiven}
           Nearest(S) == config.groups[CHOOSE h \in S : S \subseteq GroupsAbove(h)][property]
           p == FileOfGroup(g).parent
<1>1. \A k : GroupSays(k, property, otherwise) =
                 IF Givers(k) = {} THEN otherwise ELSE Nearest(Givers(k))
  BY DEF GroupSays
<1>2. CASE FileOfGroup(g)[property] # NotGiven
  <2>1. g \in Givers(g) /\ Givers(g) \subseteq GroupsAbove(g)
    BY <1>2, AboveDef DEF FileOfGroup
  <2> DEFINE h == CHOOSE h \in Givers(g) : Givers(g) \subseteq GroupsAbove(h)
  <2>2. h \in Givers(g) /\ Givers(g) \subseteq GroupsAbove(h)
    BY <2>1
  <2> HIDE DEF h
  <2>3. h \in Group /\ h <= g /\ g <= h
    BY <2>1, <2>2, AboveDef
  <2>4. h = g
    BY <2>3 DEF Group
  <2>5. QED
    BY <1>1, <1>2, <2>1, <2>4 DEF h, Given, FileOfGroup
<1>3. CASE FileOfGroup(g)[property] = NotGiven /\ p = NoParent
  <2>1. Givers(g) = {}
    BY <1>3, AboveDef DEF FileOfGroup
  <2>2. QED
    BY <1>1, <1>3, <2>1 DEF Given
<1>4. CASE FileOfGroup(g)[property] = NotGiven /\ p # NoParent
  <2>1. Givers(g) = Givers(p)
    BY <1>4, AboveDef DEF FileOfGroup
  <2> HIDE DEF Givers, Nearest
  <2>2. QED
    BY <1>1, <1>4, <2>1 DEF Given
<1>5. QED
  BY <1>2, <1>3, <1>4

(* Whether any group above says it does not depend on the default. *)
LEMMA GroupSaysNothing ==
    ASSUME config \in Configs, NEW g \in Group, NEW property, NEW otherwise
    PROVE  GroupSays(g, property, otherwise) =
               IF GroupSays(g, property, NotGiven) = NotGiven THEN otherwise
               ELSE GroupSays(g, property, NotGiven)
<1> DEFINE With(k, o) == GroupSays(k, property, o)
           Wrong == {k \in Group : With(k, otherwise) #
                        IF With(k, NotGiven) = NotGiven THEN otherwise ELSE With(k, NotGiven)}
<1>1. \A k \in Group : \A o :
          With(k, o) = Given(FileOfGroup(k)[property],
                             IF FileOfGroup(k).parent = NoParent THEN o
                             ELSE With(FileOfGroup(k).parent, o))
  BY GroupSaysDef
<1> HIDE DEF With
<1>2. SUFFICES ASSUME Wrong # {} PROVE FALSE
  BY DEF With
<1>3. PICK k \in Wrong : \A i \in Wrong : ~(i < k)
  <2>1. Wrong \subseteq Nat
    BY DEF Group
  <2>2. QED
    BY <1>2, <2>1, LeastMember, Zenon
<1>4. k \in Group
  BY <1>3
<1> DEFINE p == FileOfGroup(k).parent
<1>5. p = NoParent \/ (p \in Group /\ p \notin Wrong)
  BY <1>3, <1>4, ParentOf
<1> HIDE DEF p
<1>6. \A o : With(k, o) = Given(FileOfGroup(k)[property], IF p = NoParent THEN o ELSE With(p, o))
  BY <1>1, <1>4 DEF p
<1>7. QED
  BY <1>3, <1>4, <1>5, <1>6 DEF Given

(* What createStackGroupFromParent hands down is what the nearest group    *)
(* above says.                                                             *)
LEMMA GroupsSay ==
    ASSUME config \in Configs, NEW g \in Group
    PROVE  StackGroups(config)[g] =
               [ignore |-> GroupSays(g, "ignore", FALSE),
                obsolete |-> GroupSays(g, "obsolete", FALSE),
                regions |-> GroupSays(g, "regions", NotGiven)]
<1> DEFINE Said(k) == [ignore |-> GroupSays(k, "ignore", FALSE),
                       obsolete |-> GroupSays(k, "obsolete", FALSE),
                       regions |-> GroupSays(k, "regions", NotGiven)]
           groups == StackGroups(config)
           Wrong == {k \in Group : groups[k] # Said(k)}
<1> HIDE DEF groups, Said
<1>1. SUFFICES ASSUME Wrong # {} PROVE FALSE
  BY DEF groups, Said
<1>2. PICK k \in Wrong : \A i \in Wrong : ~(i < k)
  <2>1. Wrong \subseteq Nat
    BY DEF Group
  <2>2. QED
    BY <1>1, <2>1, LeastMember, Zenon
<1>3. k \in Group /\ groups[k] # Said(k)
  BY <1>2
<1> DEFINE p == FileOfGroup(k).parent
<1>4. p = NoParent \/ (p \in Group /\ groups[p] = Said(p))
  BY <1>2, <1>3, ParentOf
<1>5. /\ Said(k).ignore = Given(FileOfGroup(k).ignore, IF p = NoParent THEN FALSE ELSE GroupSays(p, "ignore", FALSE))
      /\ Said(k).obsolete = Given(FileOfGroup(k).obsolete, IF p = NoParent THEN FALSE ELSE GroupSays(p, "obsolete", FALSE))
      /\ Said(k).regions = Given(FileOfGroup(k).regions, IF p = NoParent THEN NotGiven ELSE GroupSays(p, "regions", NotGiven))
  BY <1>3, GroupSaysDef, Zenon DEF Said
<1>6. groups[k] = FromParent(groups, k)
  BY <1>3, StackGroupsDef DEF groups
<1> HIDE DEF p
<1>7. Said(k) = [ignore |-> Said(k).ignore, obsolete |-> Said(k).obsolete, regions |-> Said(k).regions]
  BY Zenon DEF Said
<1> DEFINE parent == IF p = NoParent THEN RootStackGroup ELSE groups[p]
<1>8. groups[k] = [ignore |-> Given(FileOfGroup(k).ignore, parent.ignore),
                   obsolete |-> Given(FileOfGroup(k).obsolete, parent.obsolete),
                   regions |-> Given(FileOfGroup(k).regions, parent.regions)]
  BY <1>6, Zenon DEF FromParent, p
<1>9. /\ parent.ignore = IF p = NoParent THEN FALSE ELSE GroupSays(p, "ignore", FALSE)
      /\ parent.obsolete = IF p = NoParent THEN FALSE ELSE GroupSays(p, "obsolete", FALSE)
      /\ parent.regions = IF p = NoParent THEN NotGiven ELSE GroupSays(p, "regions", NotGiven)
  <2>1. CASE p = NoParent
    <3>1. parent = RootStackGroup
      BY <2>1
    <3> HIDE DEF parent
    <3>2. parent.ignore = FALSE /\ parent.obsolete = FALSE /\ parent.regions = NotGiven
      BY <3>1 DEF RootStackGroup
    <3>3. QED
      BY <2>1, <3>2
  <2>2. CASE p # NoParent
    <3>1. parent = Said(p)
      BY <1>4, <2>2
    <3> HIDE DEF parent
    <3>2. /\ parent.ignore = GroupSays(p, "ignore", FALSE)
          /\ parent.obsolete = GroupSays(p, "obsolete", FALSE)
          /\ parent.regions = GroupSays(p, "regions", NotGiven)
      BY <3>1 DEF Said
    <3>3. QED
      BY <2>2, <3>2, Zenon
  <2>3. QED
    BY <2>1, <2>2
<1> HIDE DEF parent
<1>10. groups[k] = [ignore |-> Said(k).ignore, obsolete |-> Said(k).obsolete, regions |-> Said(k).regions]
  BY <1>5, <1>8, <1>9, Zenon
<1>11. QED
  BY <1>3, <1>7, <1>10, Zenon

-----------------------------------------------------------------------------
(* What a file says of a stack, in the order in which buildStack asks. *)
LEMMA SaysDef ==
    ASSUME config \in Configs, NEW s \in Stack, NEW property \in {"ignore", "obsolete", "regions"},
           NEW otherwise
    PROVE  LET file == config.files[FileOf(s)]
           IN  Says(s, property, otherwise) =
                   Given(file[property], Given(BlueprintOf(config, file)[property],
                                               GroupSays(file.group, property, otherwise)))
<1> DEFINE file == config.files[FileOf(s)]
<1>1. CASE file.blueprint = NotGiven
  <2>1. BlueprintOf(config, file)[property] = NotGiven
    BY <1>1 DEF BlueprintOf, NoBlueprint
  <2>2. QED
    BY <1>1, <2>1 DEF Says, Given
<1>2. CASE file.blueprint # NotGiven
  <2>1. BlueprintOf(config, file)[property] = config.blueprints[file.blueprint][property]
    BY <1>2 DEF BlueprintOf
  <2>2. QED
    BY <1>2, <2>1, Zenon DEF Says, Given
<1>3. QED
  BY <1>1, <1>2

(* buildStack makes of the files what they say. *)
LEMMA ProjectSays ==
    ASSUME config \in Configs, project = BuildProject(config), NEW s \in Stack
    PROVE  /\ s \in project.ignored <=> Says(s, "ignore", FALSE)
           /\ s \in project.obsolete <=> Says(s, "obsolete", FALSE)
           /\ s \in project.built <=>
                  /\ RegionOf(s) \in Says(s, "regions", {})
                  /\ ~GroupSays(config.files[FileOf(s)].group, "ignore", FALSE)
<1> DEFINE file == config.files[FileOf(s)]
           blueprint == BlueprintOf(config, file)
           group == StackGroups(config)[file.group]
           regions == BuildRegions(file, blueprint, group)
<1>1. file.group \in Group
  BY FileOfType DEF Configs, StackFiles
<1>2. /\ group.ignore = GroupSays(file.group, "ignore", FALSE)
      /\ group.obsolete = GroupSays(file.group, "obsolete", FALSE)
      /\ group.regions = GroupSays(file.group, "regions", NotGiven)
  <2>1. group = [ignore |-> GroupSays(file.group, "ignore", FALSE),
                 obsolete |-> GroupSays(file.group, "obsolete", FALSE),
                 regions |-> GroupSays(file.group, "regions", NotGiven)]
    BY <1>1, GroupsSay, Zenon
  <2> HIDE DEF group
  <2>2. QED
    BY <2>1
<1>3. /\ s \in project.ignored <=> BuildIgnore(file, blueprint, group)
      /\ s \in project.obsolete <=> BuildObsolete(file, blueprint, group)
      /\ s \in project.built <=>
            ~group.ignore /\ regions # NotGiven /\ RegionOf(s) \in regions
  BY DEF BuildProject
<1> HIDE DEF group
<1>4. Says(s, "ignore", FALSE) = BuildIgnore(file, blueprint, group)
  BY <1>2, SaysDef DEF BuildIgnore
<1>5. Says(s, "obsolete", FALSE) = BuildObsolete(file, blueprint, group)
  BY <1>2, SaysDef DEF BuildObsolete
<1>6. Says(s, "regions", NotGiven) = regions
  BY <1>2, SaysDef DEF BuildRegions
<1>7. Says(s, "regions", {}) = IF regions = NotGiven THEN {} ELSE regions
  <2> DEFINE above(o) == GroupSays(file.group, "regions", o)
  <2>1. above({}) = IF above(NotGiven) = NotGiven THEN {} ELSE above(NotGiven)
    BY <1>1, GroupSaysNothing
  <2> HIDE DEF above
  <2>2. /\ Says(s, "regions", {}) = Given(file.regions, Given(blueprint.regions, above({})))
        /\ regions = Given(file.regions, Given(blueprint.regions, above(NotGiven)))
    BY <1>6, SaysDef DEF above
  <2>3. QED
    BY <2>1, <2>2 DEF Given
<1>8. group.ignore = GroupSays(config.files[FileOf(s)].group, "ignore", FALSE)
  BY <1>2
<1> HIDE DEF regions, file, blueprint
<1>9. s \in project.ignored <=> Says(s, "ignore", FALSE)
  BY <1>3, <1>4, Zenon
<1>10. s \in project.obsolete <=> Says(s, "obsolete", FALSE)
  BY <1>3, <1>5, Zenon
<1>11. regions # NotGiven /\ RegionOf(s) \in regions <=> RegionOf(s) \in Says(s, "regions", {})
  BY <1>7
<1>12. QED
  BY <1>3, <1>8, <1>9, <1>10, <1>11, Zenon

-----------------------------------------------------------------------------
(* Cycles. *)
(* MetAgain is a function of the chain, as its definition says: each step  *)
(* lengthens the chain by a stack it did not have.                         *)
Left(chain) == Cardinality(Stack \ chain)

LEMMA LeftDecreases ==
    ASSUME NEW chain \in SUBSET Stack
    PROVE  /\ Left(chain) \in Nat /\ Left({}) \in Nat /\ Left(chain) <= Left({})
           /\ \A d \in Stack \ chain : Left(chain \union {d}) \in Nat /\ Left(chain \union {d}) < Left(chain)
<1>1. IsFiniteSet(Stack)
  <2>1. NumFiles * NumRegions \in Int
    BY StacksAssumption
  <2>2. QED
    BY <2>1, FS_Interval DEF Stack
<1>2. IsFiniteSet(Stack \ chain)
  BY <1>1, FS_Difference, Zenon
<1>3. Left(chain) \in Nat
  BY <1>2, FS_CardinalityType DEF Left
<1>4. ASSUME NEW d \in Stack \ chain
      PROVE  Left(chain \union {d}) \in Nat /\ Left(chain \union {d}) < Left(chain)
  <2>1. Stack \ (chain \union {d}) = (Stack \ chain) \ {d}
    OBVIOUS
  <2>2. Left(chain \union {d}) = Left(chain) - 1
    BY <1>2, <2>1, FS_RemoveElement DEF Left
  <2>3. Left(chain) # 0
    BY <1>2, FS_EmptySet DEF Left
  <2>4. QED
    BY <1>3, <2>2, <2>3
<1>5. Left({}) \in Nat /\ Left(chain) <= Left({})
  <2>1. Stack \ {} = Stack
    OBVIOUS
  <2>2. Left({}) \in Nat
    BY <1>1, <2>1, FS_CardinalityType DEF Left
  <2>3. Cardinality(Stack \ chain) <= Cardinality(Stack)
    BY <1>1, FS_Subset
  <2>4. QED
    BY <2>1, <2>2, <2>3 DEF Left
<1>6. QED
  BY <1>3, <1>4, <1>5

Again(f, chain, s) ==
    (dependencies[s] \intersect chain) \union UNION {f[chain \union {d}][d] : d \in dependencies[s] \ chain}

LEMMA NothingMetAgain ==
    ASSUME NEW f, NEW chain, NEW s
    PROVE  Again(f, chain, s) = {} <=>
               /\ dependencies[s] \intersect chain = {}
               /\ \A d \in dependencies[s] \ chain : f[chain \union {d}][d] = {}
<1>1. ASSUME Again(f, chain, s) = {}, NEW d \in dependencies[s] \ chain, f[chain \union {d}][d] # {}
      PROVE  FALSE
  <2>1. PICK x : x \in f[chain \union {d}][d]
    BY <1>1
  <2>2. x \in UNION {f[chain \union {e}][e] : e \in dependencies[s] \ chain}
    BY <2>1
  <2>3. QED
    BY <1>1, <2>2 DEF Again
<1>2. Again(f, chain, s) = {} => dependencies[s] \intersect chain = {}
  BY DEF Again
<1>3. ASSUME dependencies[s] \intersect chain = {},
             \A d \in dependencies[s] \ chain : f[chain \union {d}][d] = {}
      PROVE  Again(f, chain, s) = {}
  BY <1>3 DEF Again
<1>4. QED
  BY <1>1, <1>2, <1>3

LEMMA MetAgainDef ==
    ASSUME dependencies \in [Stack -> SUBSET Stack]
    PROVE  \A chain \in SUBSET Stack : \A s \in Stack : MetAgain[chain][s] = Again(MetAgain, chain, s)
<1> DEFINE Agrees(f, n) ==
              \A chain \in SUBSET Stack :
                  Left(chain) < n => \A s \in Stack : f[chain][s] = Again(f, chain, s)
           Without == {n \in Nat : ~ \E f : Agrees(f, n)}
           Unfold(f) == [chain \in SUBSET Stack |-> [s \in Stack |-> Again(f, chain, s)]]
<1>1. Without = {}
  <2>1. SUFFICES ASSUME Without # {} PROVE FALSE
    OBVIOUS
  <2> HIDE DEF Agrees
  <2>2. PICK n \in Without : \A i \in Without : ~(i < n)
    <3>1. Without \subseteq Nat
      OBVIOUS
    <3>2. QED
      BY <2>1, <3>1, LeastMember, Zenon
  <2>3. n # 0
    <3>1. ASSUME n = 0 PROVE Agrees(dependencies, n)
      BY <3>1, LeftDecreases DEF Agrees
    <3>2. QED
      BY <2>2, <3>1
  <2>4. n \in Nat /\ n - 1 \in Nat /\ n - 1 < n
    BY <2>2, <2>3
  <2>5. PICK f : Agrees(f, n - 1)
    BY <2>2, <2>4
  <2>6. Agrees(Unfold(f), n)
    <3> DEFINE g == Unfold(f)
    <3>1. SUFFICES ASSUME NEW chain \in SUBSET Stack, Left(chain) < n, NEW s \in Stack
                   PROVE  g[chain][s] = Again(g, chain, s)
      BY DEF Agrees
    <3>2. g[chain][s] = Again(f, chain, s)
      OBVIOUS
    <3>3. ASSUME NEW d \in dependencies[s] \ chain
          PROVE  g[chain \union {d}][d] = f[chain \union {d}][d]
      <4>1. d \in Stack \ chain /\ chain \union {d} \in SUBSET Stack
        OBVIOUS
      <4>2. Left(chain \union {d}) < n - 1
        BY <2>4, <3>1, <4>1, LeftDecreases
      <4>3. f[chain \union {d}][d] = Again(f, chain \union {d}, d)
        BY <2>5, <4>1, <4>2 DEF Agrees
      <4>4. QED
        BY <4>1, <4>3
    <3> HIDE DEF g
    <3>4. Again(g, chain, s) = Again(f, chain, s)
      BY <3>3 DEF Again
    <3>5. QED
      BY <3>2, <3>4
  <2>7. QED
    BY <2>2, <2>6
<1>2. PICK f : \A chain \in SUBSET Stack : \A s \in Stack : f[chain][s] = Again(f, chain, s)
  <2> DEFINE n == Left({}) + 1
  <2>1. n \in Nat
    BY LeftDecreases
  <2>2. PICK f : Agrees(f, n)
    BY <1>1, <2>1
  <2>3. ASSUME NEW chain \in SUBSET Stack PROVE Left(chain) < n
    BY <2>1, LeftDecreases
  <2>4. QED
    BY <2>2, <2>3
<1> HIDE DEF Agrees, Without
<1> DEFINE Fixed(g) == g = Unfold(g)
<1>3. Fixed(Unfold(f))
  <2> DEFINE g == Unfold(f)
  <2>1. \A chain \in SUBSET Stack : \A s \in Stack : g[chain][s] = f[chain][s]
    BY <1>2
  <2> HIDE DEF g
  <2>2. ASSUME NEW chain \in SUBSET Stack, NEW s \in Stack
        PROVE  Again(g, chain, s) = Again(f, chain, s)
    <3>1. \A d \in dependencies[s] \ chain : g[chain \union {d}][d] = f[chain \union {d}][d]
      BY <2>1
    <3>2. QED
      BY <3>1 DEF Again
  <2>3. Unfold(g) = Unfold(f)
    BY <2>2
  <2>4. QED
    BY <2>3 DEF g
<1>4. MetAgain = CHOOSE g : Fixed(g)
  BY DEF MetAgain, Again
<1> HIDE DEF Fixed
<1>5. Fixed(MetAgain)
  BY <1>3, <1>4
<1>6. QED
  BY <1>5 DEF Fixed

-----------------------------------------------------------------------------
(* A set of stacks each of which depends on one of them. *)
IsCycle(S) == S # {} /\ \A s \in S : dependencies[s] \intersect S # {}

(* What a chain meets again closes a cycle: all of the chain but its last  *)
(* stack leads back into it.                                               *)
LEMMA CycleFound ==
    ASSUME dependencies \in [Stack -> SUBSET Stack], NEW s0 \in Stack, MetAgain[{s0}][s0] # {}
    PROVE  \E S \in SUBSET Stack : IsCycle(S)
<1> DEFINE Led(chain, s) ==
              /\ s \in chain
              /\ \A c \in chain \ {s} : dependencies[c] \intersect chain # {}
              /\ MetAgain[chain][s] # {}
           Lengths == {n \in Nat : \E chain \in SUBSET Stack : \E s \in Stack :
                          Led(chain, s) /\ Left(chain) = n}
<1>1. Led({s0}, s0)
  OBVIOUS
<1>2. Lengths # {}
  BY <1>1, LeftDecreases
<1> HIDE DEF Led
<1>3. PICK n \in Lengths : \A i \in Lengths : ~(i < n)
  <2>1. Lengths \subseteq Nat
    OBVIOUS
  <2>2. QED
    BY <1>2, <2>1, LeastMember, Zenon
<1>4. PICK chain \in SUBSET Stack, s \in Stack : Led(chain, s) /\ Left(chain) = n
  BY <1>3
<1>5. MetAgain[chain][s] = Again(MetAgain, chain, s)
  BY MetAgainDef
<1>6. ASSUME NEW d \in dependencies[s] \ chain
      PROVE  MetAgain[chain \union {d}][d] = {}
  <2>1. d \in Stack \ chain /\ chain \union {d} \in SUBSET Stack
    OBVIOUS
  <2>2. Left(chain \union {d}) \in Nat /\ Left(chain \union {d}) < n
    BY <1>4, <2>1, LeftDecreases
  <2>3. ~Led(chain \union {d}, d)
    BY <1>3, <2>1, <2>2
  <2>4. \A c \in (chain \union {d}) \ {d} : dependencies[c] \intersect (chain \union {d}) # {}
    BY <1>4, <1>6 DEF Led
  <2>5. QED
    BY <2>3, <2>4 DEF Led
<1>7. dependencies[s] \intersect chain # {}
  BY <1>4, <1>5, <1>6, NothingMetAgain DEF Led
<1>8. IsCycle(chain)
  BY <1>4, <1>7 DEF Led, IsCycle
<1>9. QED
  BY <1>8

(* And a cycle is met by the chains from each of its stacks. *)
LEMMA CycleMet ==
    ASSUME dependencies \in [Stack -> SUBSET Stack], NEW S \in SUBSET Stack, IsCycle(S),
           NEW s0 \in S
    PROVE  MetAgain[{s0}][s0] # {}
<1> DEFINE Lengths == {n \in Nat : \E chain \in SUBSET Stack : \E s \in S :
                          MetAgain[chain][s] = {} /\ Left(chain) = n}
<1>1. SUFFICES ASSUME MetAgain[{s0}][s0] = {} PROVE FALSE
  OBVIOUS
<1>2. Lengths # {}
  BY <1>1, LeftDecreases
<1>3. PICK n \in Lengths : \A i \in Lengths : ~(i < n)
  <2>1. Lengths \subseteq Nat
    OBVIOUS
  <2>2. QED
    BY <1>2, <2>1, LeastMember, Zenon
<1>4. PICK chain \in SUBSET Stack, s \in S : MetAgain[chain][s] = {} /\ Left(chain) = n
  BY <1>3
<1>5. {} = Again(MetAgain, chain, s)
  BY <1>4, MetAgainDef
<1>6. PICK d \in dependencies[s] : d \in S
  BY DEF IsCycle
<1>7. d \in Stack \ chain
  BY <1>5, <1>6, NothingMetAgain
<1>8. MetAgain[chain \union {d}][d] = {}
  BY <1>5, <1>6, <1>7, NothingMetAgain
<1>9. Left(chain \union {d}) \in Nat /\ Left(chain \union {d}) < n
  BY <1>4, <1>7, LeftDecreases
<1>10. Left(chain \union {d}) \in Lengths
  <2>1. chain \union {d} \in SUBSET Stack
    BY <1>7
  <2>2. QED
    BY <1>6, <1>8, <1>9, <2>1
<1>11. QED
  BY <1>3, <1>9, <1>10

(* A set of stacks on each of which one of them depends contains a cycle:  *)
(* the smallest such set is one.                                           *)
LEMMA ReversedCycle ==
    ASSUME dependencies \in [Stack -> SUBSET Stack], NEW U \in SUBSET Stack, U # {},
           \A s \in U : \E t \in U : s \in dependencies[t]
    PROVE  \E S \in SUBSET Stack : S \subseteq U /\ IsCycle(S)
<1> DEFINE Reversed(S) == S # {} /\ \A s \in S : \E t \in S : s \in dependencies[t]
           Sizes == {n \in Nat : \E S \in SUBSET U : Reversed(S) /\ Cardinality(S) = n}
<1>1. \A S \in SUBSET U : IsFiniteSet(S) /\ Cardinality(S) \in Nat
  <2>1. IsFiniteSet(Stack)
    <3>1. NumFiles * NumRegions \in Int
      BY StacksAssumption
    <3>2. QED
      BY <3>1, FS_Interval DEF Stack
  <2>2. ASSUME NEW S \in SUBSET U PROVE IsFiniteSet(S)
    <3>1. S \subseteq Stack
      OBVIOUS
    <3>2. QED
      BY <2>1, <3>1, FS_Subset, Zenon
  <2>3. QED
    BY <2>2, FS_CardinalityType
<1>2. Reversed(U)
  OBVIOUS
<1> HIDE DEF Reversed
<1>3. Sizes # {}
  BY <1>1, <1>2
<1>4. PICK n \in Sizes : \A i \in Sizes : ~(i < n)
  <2>1. Sizes \subseteq Nat
    OBVIOUS
  <2>2. QED
    BY <1>3, <2>1, LeastMember, Zenon
<1>5. PICK S \in SUBSET U : Reversed(S) /\ Cardinality(S) = n
  BY <1>4
<1>6. ASSUME NEW s \in S, dependencies[s] \intersect S = {} PROVE FALSE
  <2> DEFINE R == S \ {s}
  <2>1. \A r \in R : \E t \in R : r \in dependencies[t]
    BY <1>5, <1>6 DEF Reversed
  <2>2. R # {}
    BY <1>5, <1>6 DEF Reversed
  <2>3. Reversed(R) /\ R \in SUBSET U
    BY <2>1, <2>2 DEF Reversed
  <2>4. Cardinality(R) \in Nat /\ Cardinality(R) < n
    <3>1. Cardinality(R) = Cardinality(S) - 1
      BY <1>1, FS_RemoveElement
    <3>2. QED
      BY <1>1, <1>5, <2>3, <3>1
  <2>5. QED
    BY <1>4, <2>3, <2>4
<1>7. IsCycle(S)
  BY <1>5, <1>6 DEF Reversed, IsCycle
<1>8. QED
  BY <1>7

-----------------------------------------------------------------------------
(* The inductive invariant. *)

(* What was loaded is closed under what its stacks depend on, but for the  *)
(* fresh stacks and the paths still to be processed: NothingLeftOut does   *)
(* not know why a part of the configuration is enough.                     *)
LoadOK ==
    /\ loaded \subseteq project.built
    /\ \A s \in loaded \ (project.ignored \union fresh) :
          \A r \in project.depends[s] : r \in paths \/ r \intersect project.built \subseteq loaded
    /\ \/ InitialPath(command) \in paths
       \/ InitialPath(command) \intersect project.built \subseteq loaded
    /\ phase # "load" /\ error # "no regions" => paths = {} /\ fresh = {}

(* The command goes on as long as it has found no error. *)
ErrorOK == phase # "done" => error = None

Resolved(s) == IF s \in loaded THEN loaded \intersect UNION project.depends[s] ELSE {}

DependenciesOK ==
    /\ phase \in {"check", "select", "sort"} \/ Planned =>
          \A s \in Stack : dependencies[s] = Resolved(s)
    /\ phase \in {"select", "sort"} \/ Planned => ~DependsOnObsolete

(* The stacks of the plan, before --ignore-dependencies. *)
Chosen == {s \in Collected : Selected(s)}

Listed == {operations[i] : i \in DOMAIN operations}

ListedOnce == \A i, j \in DOMAIN operations : operations[i] = operations[j] => i = j

ListedInOrder ==
    \A i \in DOMAIN operations : \A s \in Precedes(operations[i]) \intersect Chosen :
        \E j \in 1 .. i - 1 : operations[j] = s

(* Each stack of the plan is listed or unsorted, and those it follows are  *)
(* listed before it.                                                       *)
SortOK ==
    /\ Collected \subseteq Known
    /\ Listed \union unsorted = Chosen
    /\ Listed \intersect unsorted = {}
    /\ ListedOnce
    /\ ListedInOrder

PlanOK ==
    /\ phase \in {"load", "resolve", "check", "select"} => operations = <<>>
    /\ phase = "sort" \/ (Planned /\ ~command.ignoreDependencies) => SortOK
    /\ Planned => unsorted = {} /\ ListedOnce

IInv == TypeOK /\ LoadOK /\ ErrorOK /\ DependenciesOK /\ PlanOK

-----------------------------------------------------------------------------
(* What the plan is chosen from does not change while it is sorted. *)
LEMMA ChosenFrame ==
    ASSUME UNCHANGED <<project, command, loaded, dependencies>>
    PROVE  /\ Known' = Known /\ Collected' = Collected /\ Chosen' = Chosen
           /\ \A s : Precedes(s)' = Precedes(s)
<1>1. \A s : Dependents(s)' = Dependents(s)
  BY DEF Dependents
<1>2. \A s : Precedes(s)' = Precedes(s)
  BY <1>1 DEF Precedes
<1>3. Known' = Known
  BY DEF Known
<1>4. Collected' = Collected
  BY <1>2, <1>3 DEF Collected
<1>5. Chosen' = Chosen
  BY <1>4 DEF Chosen, Selected
<1>6. QED
  BY <1>2, <1>3, <1>4, <1>5

(* The walk stays within what was loaded and follows every step. *)
LEMMA CollectedClosed ==
    ASSUME TypeOK
    PROVE  /\ Collected \subseteq loaded
           /\ Known \intersect command.path \subseteq Collected
           /\ \A s \in Collected : Precedes(s) \subseteq Collected
<1>1. Collected \subseteq loaded
  BY DEF Collected
<1>2. Known \intersect command.path \subseteq Collected
  BY DEF Collected, Known
<1>3. \A s \in loaded : Precedes(s) \subseteq loaded
  BY DEF TypeOK, Precedes, Dependents
<1>4. ASSUME NEW s \in Collected, NEW t \in Precedes(s) PROVE t \in Collected
  <2>1. t \in loaded
    BY <1>1, <1>3, <1>4
  <2>2. QED
    BY <1>4, <2>1 DEF Collected
<1>5. QED
  BY <1>1, <1>2, <1>4

LEMMA InitialInvariant == Init => IInv
<1> SUFFICES ASSUME Init PROVE IInv
  OBVIOUS
<1> USE DEF Init
<1>1. config \in Configs /\ command \in Commands
  BY InputsAssumption
<1>2. InitialPath(command) \in References \union {Stack}
  BY <1>1 DEF InitialPath, Commands
<1>3. TypeOK
  BY <1>1, <1>2 DEF TypeOK, Errors
<1>4. LoadOK
  BY DEF LoadOK
<1>5. ErrorOK /\ DependenciesOK /\ PlanOK
  BY DEF ErrorOK, DependenciesOK, PlanOK, Planned
<1>6. QED
  BY <1>3, <1>4, <1>5 DEF IInv

-----------------------------------------------------------------------------
(* The steps. *)
LEMMA ProcessCommandPathStep ==
    ASSUME IInv, ProcessCommandPath
    PROVE  IInv'
<1> USE DEF IInv
<1>1. PICK path \in paths :
        /\ paths' = paths \ {path}
        /\ loaded' = loaded \union (path \intersect project.built)
        /\ fresh' = fresh \union ((path \intersect project.built) \ loaded)
  BY DEF ProcessCommandPath
<1>2. /\ phase = "load" /\ error = None
      /\ UNCHANGED <<config, project, command, phase, dependencies, unsorted, operations, error>>
  BY DEF ProcessCommandPath, ErrorOK
<1>3. ProjectOK
  BY ProjectType DEF TypeOK
<1>4. TypeOK'
  BY <1>1, <1>2, <1>3 DEF TypeOK, ProjectOK
<1>5. LoadOK'
  <2>1. loaded' \subseteq project.built
    BY <1>1 DEF LoadOK
  <2>2. ASSUME NEW s \in loaded' \ (project.ignored \union fresh'), NEW r \in project.depends[s]
        PROVE  r \in paths' \/ r \intersect project.built \subseteq loaded'
    <3>1. s \in loaded \ (project.ignored \union fresh)
      BY <1>1
    <3>2. r \in paths \/ r \intersect project.built \subseteq loaded
      BY <3>1 DEF LoadOK
    <3>3. QED
      BY <1>1, <3>2
  <2>3. InitialPath(command) \in paths' \/ InitialPath(command) \intersect project.built \subseteq loaded'
    BY <1>1 DEF LoadOK
  <2>4. QED
    BY <1>2, <2>1, <2>2, <2>3 DEF LoadOK, InitialPath
<1>6. QED
  BY <1>2, <1>4, <1>5 DEF ErrorOK, DependenciesOK, PlanOK, Planned

LEMMA FileHasNoRegionsStep ==
    ASSUME IInv, FileHasNoRegions
    PROVE  IInv'
<1> USE DEF IInv
<1>1. /\ phase' = "done" /\ error' = "no regions"
      /\ UNCHANGED <<config, project, command, paths, loaded, fresh, dependencies, unsorted, operations>>
  BY DEF FileHasNoRegions, Fail
<1>2. TypeOK'
  BY <1>1 DEF TypeOK, Errors
<1>3. LoadOK'
  BY <1>1 DEF LoadOK, InitialPath
<1>4. QED
  BY <1>1, <1>2, <1>3 DEF ErrorOK, DependenciesOK, PlanOK, Planned, None

LEMMA NextPassStep ==
    ASSUME IInv, NextPass
    PROVE  IInv'
<1> USE DEF IInv
<1>1. /\ phase = "load" /\ error = None /\ paths = {}
      /\ paths' = PathsOf(fresh) /\ fresh' = {}
      /\ phase' = IF paths' = {} THEN "resolve" ELSE "load"
      /\ UNCHANGED <<config, project, command, loaded, dependencies, unsorted, operations, error>>
  BY DEF NextPass, ErrorOK
<1>2. ProjectOK
  BY ProjectType DEF TypeOK
<1>3. paths' \subseteq References
  BY <1>1, <1>2 DEF PathsOf, ProjectOK, TypeOK
<1>4. TypeOK'
  BY <1>1, <1>3 DEF TypeOK
<1>5. LoadOK'
  <2>1. ASSUME NEW s \in loaded \ project.ignored, NEW r \in project.depends[s]
        PROVE  r \in paths' \/ r \intersect project.built \subseteq loaded
    <3>1. CASE s \in fresh
      BY <1>1, <3>1 DEF PathsOf
    <3>2. CASE s \notin fresh
      BY <1>1, <3>2 DEF LoadOK
    <3>3. QED
      BY <3>1, <3>2
  <2>2. QED
    BY <1>1, <2>1 DEF LoadOK, InitialPath
<1>6. QED
  BY <1>1, <1>4, <1>5 DEF ErrorOK, DependenciesOK, PlanOK, Planned

LEMMA ResolveDependenciesStep ==
    ASSUME IInv, ResolveDependencies
    PROVE  IInv'
<1> USE DEF IInv
<1>1. /\ phase = "resolve" /\ error = None
      /\ UNCHANGED <<config, project, command, paths, loaded, fresh, unsorted, operations>>
  BY DEF ResolveDependencies, ErrorOK
<1>2. CASE Fail("unknown dependency") /\ UNCHANGED dependencies
  <2>1. TypeOK'
    BY <1>1, <1>2 DEF TypeOK, Fail, Errors
  <2>2. LoadOK'
    BY <1>1, <1>2 DEF LoadOK, InitialPath, Fail, None
  <2>3. QED
    BY <1>1, <1>2, <2>1, <2>2 DEF Fail, ErrorOK, DependenciesOK, PlanOK, Planned, None
<1>3. CASE /\ dependencies' = [s \in Stack |->
                  IF s \in loaded THEN loaded \intersect UNION project.depends[s] ELSE {}]
           /\ phase' = "check"
           /\ UNCHANGED error
  <2>1. TypeOK'
    BY <1>1, <1>3 DEF TypeOK
  <2>2. LoadOK'
    BY <1>1, <1>3 DEF LoadOK, InitialPath
  <2>3. DependenciesOK'
    BY <1>1, <1>3 DEF DependenciesOK, Resolved, Planned
  <2>4. QED
    BY <1>1, <1>3, <2>1, <2>2, <2>3 DEF ErrorOK, PlanOK, Planned
<1>4. QED
  BY <1>2, <1>3 DEF ResolveDependencies

LEMMA CheckDependenciesStep ==
    ASSUME IInv, CheckDependencies
    PROVE  IInv'
<1> USE DEF IInv
<1>1. /\ phase = "check" /\ error = None
      /\ UNCHANGED <<config, project, command, paths, loaded, fresh, dependencies, unsorted,
                     operations>>
  BY DEF CheckDependencies, ErrorOK
<1>2. ASSUME NEW reason \in {"cyclic", "obsolete dependency"}, Fail(reason) PROVE IInv'
  <2>1. TypeOK'
    BY <1>1, <1>2 DEF TypeOK, Fail, Errors
  <2>2. LoadOK'
    BY <1>1, <1>2 DEF LoadOK, InitialPath, Fail, None
  <2>3. QED
    BY <1>1, <1>2, <2>1, <2>2 DEF Fail, ErrorOK, DependenciesOK, PlanOK, Planned, None
<1>3. CASE ~DependsOnObsolete /\ phase' = "select" /\ UNCHANGED error
  <2>1. TypeOK'
    BY <1>1, <1>3 DEF TypeOK
  <2>2. LoadOK'
    BY <1>1, <1>3 DEF LoadOK, InitialPath
  <2>3. DependenciesOK'
    BY <1>1, <1>3 DEF DependenciesOK, Resolved, Planned, DependsOnObsolete
  <2>4. QED
    BY <1>1, <1>3, <2>1, <2>2, <2>3 DEF ErrorOK, PlanOK, Planned
<1>4. \/ Fail("cyclic")
      \/ Fail("obsolete dependency")
      \/ ~DependsOnObsolete /\ phase' = "select" /\ UNCHANGED error
  BY DEF CheckDependencies
<1>5. QED
  BY <1>2, <1>3, <1>4

LEMMA SelectStacksStep ==
    ASSUME IInv, SelectStacks
    PROVE  IInv'
<1> USE DEF IInv
<1>1. /\ phase = "select" /\ error = None /\ operations = <<>>
      /\ UNCHANGED <<config, project, command, paths, loaded, fresh, dependencies, operations>>
  BY DEF SelectStacks, ErrorOK, PlanOK
<1>2. CASE Fail("missing stack") /\ UNCHANGED unsorted
  <2>1. TypeOK'
    BY <1>1, <1>2 DEF TypeOK, Fail, Errors
  <2>2. LoadOK'
    BY <1>1, <1>2 DEF LoadOK, InitialPath, Fail, None
  <2>3. QED
    BY <1>1, <1>2, <2>1, <2>2 DEF Fail, ErrorOK, DependenciesOK, PlanOK, Planned, None
<1>3. CASE Collected \subseteq Known /\ unsorted' = Chosen /\ phase' = "sort" /\ UNCHANGED error
  <2>1. TypeOK'
    <3>1. unsorted' \subseteq loaded
      BY <1>3, CollectedClosed DEF Chosen
    <3>2. QED
      BY <1>1, <1>3, <3>1 DEF TypeOK
  <2>2. LoadOK'
    BY <1>1, <1>3 DEF LoadOK, InitialPath
  <2>3. DependenciesOK'
    BY <1>1, <1>3 DEF DependenciesOK, Resolved, Planned, DependsOnObsolete
  <2>4. SortOK'
    <3>1. Collected' \subseteq Known' /\ Chosen' = Chosen
      BY <1>1, <1>3, ChosenFrame
    <3>2. Listed' = {} /\ ListedOnce' /\ ListedInOrder'
      BY <1>1 DEF Listed, ListedOnce, ListedInOrder
    <3>3. QED
      BY <1>3, <3>1, <3>2 DEF SortOK
  <2>5. PlanOK'
    BY <1>1, <1>3, <2>4 DEF PlanOK, Planned
  <2>6. QED
    BY <1>1, <1>3, <2>1, <2>2, <2>3, <2>5 DEF ErrorOK
<1>4. QED
  BY <1>2, <1>3 DEF SelectStacks, Chosen

(* The order of a wave. *)
LEMMA WaveInOrder ==
    ASSUME TypeOK
    PROVE  /\ Cardinality(Wave) \in Nat
           /\ InOrder(Wave) \in [1 .. Cardinality(Wave) -> Wave]
           /\ \A i, j \in 1 .. Cardinality(Wave) : InOrder(Wave)[i] = InOrder(Wave)[j] => i = j
           /\ \A s \in Wave : \E i \in 1 .. Cardinality(Wave) : InOrder(Wave)[i] = s
<1>1. NumFiles * NumRegions \in Nat
  BY StacksAssumption
<1>2. Wave \in SUBSET (1 .. NumFiles * NumRegions)
  BY DEF Wave, TypeOK, Stack
<1>3. QED
  BY <1>1, <1>2, InOrderType, Zenon

LEMMA SortWaveStep ==
    ASSUME IInv, SortWave
    PROVE  IInv'
<1> USE DEF IInv
<1> DEFINE wave == Wave
           q == InOrder(wave)
           c == Cardinality(wave)
           n == Len(operations)
<1>1. /\ phase = "sort" /\ error = None
      /\ operations' = operations \o q
      /\ unsorted' = unsorted \ wave
      /\ UNCHANGED <<config, project, command, phase, paths, loaded, fresh, dependencies, error>>
  BY DEF SortWave, ErrorOK
<1>2. /\ c \in Nat
      /\ q \in [1 .. c -> wave]
      /\ \A i, j \in 1 .. c : q[i] = q[j] => i = j
      /\ \A s \in wave : \E i \in 1 .. c : q[i] = s
  BY WaveInOrder
<1>3. /\ wave \subseteq unsorted
      /\ \A s \in wave : Precedes(s) \intersect unsorted = {}
  BY DEF Wave
<1>4. SortOK
  BY <1>1 DEF PlanOK
<1> HIDE DEF wave, q, c
<1>5. operations \in Seq(Stack) /\ q \in Seq(Stack) /\ Len(q) = c
  <2>1. operations \in Seq(Stack) /\ wave \subseteq Stack
    BY <1>3 DEF TypeOK
  <2>2. QED
    BY <1>2, <2>1
<1>6. /\ n \in Nat /\ DOMAIN operations = 1 .. n
      /\ operations' \in Seq(Stack)
      /\ DOMAIN operations' = 1 .. n + c
      /\ \A i \in 1 .. n : operations'[i] = operations[i]
      /\ \A i \in 1 .. c : operations'[n + i] = q[i]
  BY <1>1, <1>2, <1>5
<1> HIDE DEF n
<1>7. \A i \in DOMAIN operations' : i \in 1 .. n \/ (i - n \in 1 .. c /\ operations'[i] = q[i - n])
  <2>1. SUFFICES ASSUME NEW i \in 1 .. n + c, i \notin 1 .. n
                 PROVE  i - n \in 1 .. c /\ operations'[i] = q[i - n]
    BY <1>6
  <2>2. i - n \in 1 .. c /\ n + (i - n) = i
    BY <1>2, <1>6, <2>1
  <2>3. QED
    BY <1>6, <2>2
<1>8. Listed' = Listed \union wave
  <2>1. \A i \in 1 .. n : i \in DOMAIN operations'
    BY <1>2, <1>6
  <2>2. \A i \in 1 .. c : n + i \in DOMAIN operations'
    BY <1>2, <1>6
  <2>3. Listed' \subseteq Listed \union wave
    BY <1>2, <1>6, <1>7 DEF Listed
  <2>4. Listed \subseteq Listed'
    BY <1>6, <2>1 DEF Listed
  <2>5. wave \subseteq Listed'
    BY <1>2, <1>6, <2>2 DEF Listed
  <2>6. QED
    BY <2>3, <2>4, <2>5
<1>9. ListedOnce'
  <2>1. SUFFICES ASSUME NEW i \in DOMAIN operations', NEW j \in DOMAIN operations',
                        operations'[i] = operations'[j]
                 PROVE  i = j
    BY DEF ListedOnce
  <2>2. \A k \in 1 .. n, m \in 1 .. c : operations[k] # q[m]
    <3>1. \A k \in 1 .. n : operations[k] \in Listed
      BY <1>6 DEF Listed
    <3>2. \A m \in 1 .. c : q[m] \in unsorted
      BY <1>2, <1>3
    <3>3. QED
      BY <1>4, <3>1, <3>2 DEF SortOK
  <2>3. CASE i \in 1 .. n /\ j \in 1 .. n
    BY <1>4, <1>6, <2>1, <2>3 DEF SortOK, ListedOnce
  <2>4. CASE i \notin 1 .. n /\ j \notin 1 .. n
    <3>1. i - n = j - n
      BY <1>2, <1>7, <2>1, <2>4
    <3>2. QED
      BY <1>6, <3>1
  <2>5. CASE (i \in 1 .. n /\ j \notin 1 .. n) \/ (i \notin 1 .. n /\ j \in 1 .. n)
    BY <1>6, <1>7, <2>1, <2>2, <2>5
  <2>6. QED
    BY <2>3, <2>4, <2>5
<1>10. Chosen' = Chosen /\ Collected' = Collected /\ Known' = Known /\ \A s : Precedes(s)' = Precedes(s)
  BY <1>1, ChosenFrame
<1>11. ListedInOrder'
  <2>1. SUFFICES ASSUME NEW i \in DOMAIN operations',
                        NEW s \in Precedes(operations'[i]) \intersect Chosen
                 PROVE  \E j \in 1 .. i - 1 : operations'[j] = s
    BY <1>10 DEF ListedInOrder
  <2>2. CASE i \in 1 .. n
    <3>1. PICK j \in 1 .. i - 1 : operations[j] = s
      BY <1>4, <1>6, <2>1, <2>2 DEF SortOK, ListedInOrder
    <3>2. QED
      BY <1>6, <2>2, <3>1
  <2>3. CASE i \notin 1 .. n
    <3>1. i - n \in 1 .. c /\ operations'[i] = q[i - n] /\ q[i - n] \in wave
      BY <1>2, <1>7, <2>3
    <3>2. s \in Listed
      BY <1>3, <1>4, <2>1, <3>1 DEF SortOK
    <3>3. PICK j \in 1 .. n : operations[j] = s
      BY <1>6, <3>2 DEF Listed
    <3>4. j \in 1 .. i - 1
      BY <1>2, <1>6, <3>1
    <3>5. QED
      BY <1>6, <3>3, <3>4
  <2>4. QED
    BY <2>2, <2>3
<1>12. SortOK'
  <2>1. /\ Listed' \union unsorted' = Chosen
        /\ Listed' \intersect unsorted' = {}
    BY <1>1, <1>3, <1>4, <1>8 DEF SortOK
  <2>2. Collected' \subseteq Known'
    BY <1>4, <1>10 DEF SortOK
  <2>3. QED
    BY <1>9, <1>10, <1>11, <2>1, <2>2 DEF SortOK
<1>13. TypeOK'
  BY <1>1, <1>6 DEF TypeOK
<1>14. LoadOK'
  BY <1>1 DEF LoadOK, InitialPath
<1>15. DependenciesOK'
  BY <1>1 DEF DependenciesOK, Resolved, Planned, DependsOnObsolete
<1>16. QED
  BY <1>1, <1>12, <1>13, <1>14, <1>15 DEF ErrorOK, PlanOK, Planned

(* OperationsWithin takes each operation at most once. *)
LEMMA WithinOnce ==
    ASSUME TypeOK, ListedOnce
    PROVE  /\ OperationsWithin \in Seq(Stack)
           /\ \A i, j \in DOMAIN OperationsWithin :
                 OperationsWithin[i] = OperationsWithin[j] => i = j
<1> DEFINE positions == {i \in DOMAIN operations : operations[i] \in command.path}
<1>1. operations \in Seq(Stack) /\ positions \in SUBSET DOMAIN operations
  BY DEF TypeOK
<1>2. OperationsWithin = Part(operations, positions)
  BY DEF OperationsWithin
<1> HIDE DEF positions
<1>3. /\ OperationsWithin \in Seq(Stack)
      /\ \A n \in DOMAIN OperationsWithin :
            InOrder(positions)[n] \in positions
                /\ OperationsWithin[n] = operations[InOrder(positions)[n]]
      /\ \A m, n \in DOMAIN OperationsWithin :
            InOrder(positions)[m] = InOrder(positions)[n] => m = n
  BY <1>1, <1>2, PartType
<1>4. QED
  BY <1>1, <1>3 DEF ListedOnce

LEMMA FinishPlanStep ==
    ASSUME IInv, FinishPlan
    PROVE  IInv'
<1> USE DEF IInv
<1>1. /\ phase = "sort" /\ error = None /\ unsorted = {} /\ phase' = "done"
      /\ operations' = IF command.ignoreDependencies THEN OperationsWithin ELSE operations
      /\ UNCHANGED <<config, project, command, paths, loaded, fresh, dependencies, unsorted, error>>
  BY DEF FinishPlan, ErrorOK
<1>2. SortOK
  BY <1>1 DEF PlanOK
<1>3. /\ OperationsWithin \in Seq(Stack)
      /\ \A i, j \in DOMAIN OperationsWithin :
            OperationsWithin[i] = OperationsWithin[j] => i = j
  BY <1>2, WithinOnce DEF SortOK
<1>4. TypeOK'
  <2>1. operations' \in Seq(Stack)
    BY <1>1, <1>3 DEF TypeOK
  <2>2. QED
    BY <1>1, <2>1 DEF TypeOK
<1>5. LoadOK'
  BY <1>1 DEF LoadOK, InitialPath
<1>6. DependenciesOK'
  BY <1>1 DEF DependenciesOK, Resolved, Planned, DependsOnObsolete
<1>7. ListedOnce'
  <2>1. CASE command.ignoreDependencies
    <3>1. operations' = OperationsWithin
      BY <1>1, <2>1
    <3>2. QED
      BY <1>3, <3>1 DEF ListedOnce
  <2>2. CASE ~command.ignoreDependencies
    <3>1. operations' = operations
      BY <1>1, <2>2
    <3>2. QED
      BY <1>2, <3>1 DEF SortOK, ListedOnce
  <2>3. QED
    BY <2>1, <2>2
<1>8. ~command'.ignoreDependencies => SortOK'
  <2>1. SUFFICES ASSUME ~command.ignoreDependencies PROVE SortOK'
    BY <1>1
  <2>2. operations' = operations
    BY <1>1, <2>1
  <2>3. Chosen' = Chosen /\ Collected' = Collected /\ Known' = Known /\ \A s : Precedes(s)' = Precedes(s)
    BY <1>1, ChosenFrame
  <2>4. Listed' = Listed /\ ListedInOrder'
    BY <1>2, <2>2, <2>3 DEF SortOK, Listed, ListedInOrder
  <2>5. QED
    BY <1>1, <1>2, <1>7, <2>3, <2>4 DEF SortOK
<1>9. QED
  BY <1>1, <1>4, <1>5, <1>6, <1>7, <1>8 DEF ErrorOK, PlanOK, Planned

LEMMA StutteringStep ==
    ASSUME IInv, UNCHANGED vars
    PROVE  IInv'
<1> USE DEF IInv, vars
<1>1. TypeOK' /\ LoadOK' /\ ErrorOK'
  <2>1. TypeOK'
    BY DEF TypeOK
  <2>2. LoadOK'
    BY DEF LoadOK, InitialPath
  <2>3. ErrorOK'
    BY DEF ErrorOK
  <2>4. QED
    BY <2>1, <2>2, <2>3
<1>2. DependenciesOK'
  BY DEF DependenciesOK, Resolved, Planned, DependsOnObsolete
<1>3. PlanOK'
  <2>1. Chosen' = Chosen /\ Collected' = Collected /\ Known' = Known /\ \A s : Precedes(s)' = Precedes(s)
    BY ChosenFrame
  <2>2. Listed' = Listed /\ ListedOnce' = ListedOnce /\ ListedInOrder' = ListedInOrder
    BY <2>1 DEF Listed, ListedOnce, ListedInOrder
  <2>3. SortOK' = SortOK
    BY <2>1, <2>2 DEF SortOK
  <2>4. QED
    BY <2>2, <2>3 DEF PlanOK, Planned
<1>4. QED
  BY <1>1, <1>2, <1>3

LEMMA InvariantStep == IInv /\ [Next]_vars => IInv'
<1> SUFFICES ASSUME IInv, [Next]_vars PROVE IInv'
  OBVIOUS
<1>1. CASE ProcessCommandPath
  BY <1>1, ProcessCommandPathStep
<1>2. CASE FileHasNoRegions
  BY <1>2, FileHasNoRegionsStep
<1>3. CASE NextPass
  BY <1>3, NextPassStep
<1>4. CASE ResolveDependencies
  BY <1>4, ResolveDependenciesStep
<1>5. CASE CheckDependencies
  BY <1>5, CheckDependenciesStep
<1>6. CASE SelectStacks
  BY <1>6, SelectStacksStep
<1>7. CASE SortWave
  BY <1>7, SortWaveStep
<1>8. CASE FinishPlan
  BY <1>8, FinishPlanStep
<1>9. CASE Done \/ UNCHANGED vars
  BY <1>9, StutteringStep DEF Done
<1>10. QED
  BY <1>1, <1>2, <1>3, <1>4, <1>5, <1>6, <1>7, <1>8, <1>9 DEF Next

LEMMA Invariant == Spec => []IInv
  BY InitialInvariant, InvariantStep, PTL DEF Spec

-----------------------------------------------------------------------------
(* The variables of the loading and the sort keep their types. *)
THEOREM TypeCorrect == Spec => []TypeOK
<1>1. IInv => TypeOK
  BY DEF IInv
<1>2. QED
  BY <1>1, Invariant, PTL

(* What the stacks of a plan follow is chosen for the plan as well: no     *)
(* stack that is kept depends on an obsolete one.                          *)
LEMMA FollowedAreChosen ==
    ASSUME IInv, Planned, NEW s \in Chosen, NEW t \in Precedes(s),
           command.kind = "deploy" \/ Selected(t)
    PROVE  t \in Chosen
<1> USE DEF IInv
<1>1. t \in Collected /\ s \in loaded
  BY CollectedClosed DEF Chosen
<1>2. Selected(t)
  <2>1. SUFFICES ASSUME command.kind = "deploy" PROVE Selected(t)
    OBVIOUS
  <2>2. t \in dependencies[s] /\ s \notin project.obsolete
    BY <2>1 DEF Precedes, Chosen, Selected
  <2>3. t \notin project.obsolete
    BY <1>1, <2>2 DEF DependenciesOK, DependsOnObsolete
  <2>4. QED
    BY <2>1, <2>3 DEF Selected
<1>3. QED
  BY <1>1, <1>2 DEF Chosen

(* Whatever depends on whatever, and however little of the configuration   *)
(* was loaded, no operation of a plan comes twice or before one it waits   *)
(* for.                                                                    *)
THEOREM AlwaysRunnable == Spec => []PlanRunnable
<1>1. IInv => PlanRunnable
  <2> SUFFICES ASSUME IInv, Planned, NEW i \in DOMAIN operations
               PROVE  LET before == {operations[j] : j \in 1 .. i - 1}
                      IN  operations[i] \notin before /\ Needs(operations[i]) \subseteq before
    BY DEF PlanRunnable
  <2> DEFINE s == operations[i]
             before == {operations[j] : j \in 1 .. i - 1}
  <2>1. ListedOnce /\ unsorted = {} /\ i \in Nat /\ \A j \in 1 .. i - 1 : j \in DOMAIN operations /\ j # i
    BY DEF IInv, PlanOK, TypeOK
  <2>2. s \notin before
    BY <2>1 DEF ListedOnce
  <2>3. Needs(s) \subseteq before
    <3>1. CASE command.ignoreDependencies
      BY <3>1 DEF Needs
    <3>2. CASE ~command.ignoreDependencies
      <4>1. SortOK
        BY <3>2 DEF IInv, PlanOK
      <4>2. s \in Chosen
        BY <2>1, <4>1 DEF SortOK, Listed
      <4>3. \A t \in Needs(s) : t \in Precedes(s) /\ (command.kind = "deploy" \/ Selected(t))
        BY <3>2 DEF Needs, Precedes
      <4>4. \A t \in Needs(s) : t \in Precedes(s) \intersect Chosen
        BY <4>2, <4>3, FollowedAreChosen
      <4>5. \A t \in Needs(s) : \E j \in 1 .. i - 1 : operations[j] = t
        BY <4>1, <4>4 DEF SortOK, ListedInOrder
      <4>6. QED
        BY <4>5
    <3>3. QED
      BY <3>1, <3>2
  <2>4. QED
    BY <2>2, <2>3
<1>2. QED
  BY <1>1, Invariant, PTL

(* A deployment that loads only what its command path leads to leaves no   *)
(* dependency out, and an undeployment no dependent.                       *)
THEOREM NothingEverLeftOut == Spec => []NothingLeftOut
<1>1. IInv => NothingLeftOut
  <2> SUFFICES ASSUME IInv, Planned, ~command.ignoreDependencies, NEW s \in Listed
               PROVE  /\ command.kind = "deploy" => Configured(s) \subseteq Listed
                      /\ command.kind # "deploy" =>
                            \A t \in project.built :
                                s \in Configured(t) /\ Selected(t) => t \in Listed
    BY DEF NothingLeftOut, Listed
  <2>1. SortOK /\ unsorted = {}
    BY DEF IInv, PlanOK
  <2>2. Listed = Chosen
    BY <2>1 DEF SortOK
  <2>3. /\ Collected \subseteq Known
        /\ phase = "done" /\ error = None
        /\ paths = {} /\ fresh = {}
    BY <2>1 DEF SortOK, Planned, IInv, LoadOK, None
  <2>4. s \in loaded \ project.ignored /\ loaded \subseteq Stack
    BY <2>2, <2>3 DEF Chosen, Known, IInv, TypeOK
  <2>5. \A t \in loaded : dependencies[t] = loaded \intersect UNION project.depends[t]
    BY <2>4 DEF IInv, DependenciesOK, Resolved
  <2>6. ASSUME command.kind = "deploy" PROVE Configured(s) \subseteq Listed
    <3>1. Configured(s) \subseteq loaded
      BY <2>3, <2>4 DEF Configured, IInv, LoadOK
    <3>2. Configured(s) \subseteq Precedes(s)
      BY <2>4, <2>5, <2>6, <3>1 DEF Configured, Precedes
    <3>3. QED
      BY <2>2, <2>6, <3>2, FollowedAreChosen
  <2>7. ASSUME command.kind # "deploy", NEW t \in project.built, s \in Configured(t), Selected(t)
        PROVE  t \in Listed
    <3>1. InitialPath(command) = Stack
      BY <2>7 DEF InitialPath
    <3>2. project.built \subseteq loaded
      <4>1. project.built \subseteq Stack
        BY ProjectType DEF IInv, TypeOK, ProjectOK
      <4>2. QED
        BY <2>3, <3>1, <4>1 DEF IInv, LoadOK
    <3>3. s \in dependencies[t]
      BY <2>4, <2>5, <2>7, <3>2 DEF Configured
    <3>4. CASE t = s
      BY <3>4
    <3>5. CASE t # s
      <4>1. t \in Precedes(s)
        BY <2>7, <3>2, <3>3, <3>5 DEF Precedes, Dependents
      <4>2. QED
        BY <2>2, <2>7, <4>1, FollowedAreChosen
    <3>6. QED
      BY <3>4, <3>5
  <2>8. QED
    BY <2>6, <2>7
<1>2. QED
  BY <1>1, Invariant, PTL

-----------------------------------------------------------------------------
(* Cycles. *)

(* checkCyclicDependencies finds a cycle if and only if there is one. *)
THEOREM CyclicExactly ==
    ASSUME TypeOK
    PROVE  Cyclic <=> \E S \in SUBSET Stack : IsCycle(S)
<1>1. /\ dependencies \in [Stack -> SUBSET Stack] /\ loaded \subseteq Stack
      /\ \A s \in Stack : dependencies[s] \subseteq loaded
  BY DEF TypeOK
<1>2. ASSUME NEW s \in loaded, MetAgain[{s}][s] # {} PROVE \E S \in SUBSET Stack : IsCycle(S)
  BY <1>1, <1>2, CycleFound
<1>3. ASSUME NEW S \in SUBSET Stack, IsCycle(S) PROVE \E s \in loaded : MetAgain[{s}][s] # {}
  <2>1. PICK s \in S : s \in loaded
    BY <1>1, <1>3 DEF IsCycle
  <2>2. MetAgain[{s}][s] # {}
    BY <1>1, <1>3, CycleMet
  <2>3. QED
    BY <2>1, <2>2
<1>4. QED
  BY <1>2, <1>3 DEF Cyclic

(* What is rejected as cyclic has a cycle, and what is sorted has none. *)
CycleOK ==
    /\ CyclicRejectedRightly
    /\ phase \in {"select", "sort"} => \A S \in SUBSET Stack : ~IsCycle(S)

LEMMA CycleStep ==
    ASSUME IInv, CycleOK, [Next]_vars
    PROVE  CycleOK'
<1>1. ErrorOK /\ TypeOK /\ DependenciesOK
  BY DEF IInv
<1>2. CASE CheckDependencies
  <2>1. phase = "check" /\ error = None /\ UNCHANGED <<project, loaded, dependencies>>
    BY <1>1, <1>2 DEF CheckDependencies, ErrorOK
  <2>2. CASE Cyclic
    <3>1. error' = "cyclic" /\ phase' = "done"
      BY <1>2, <2>2 DEF CheckDependencies, Fail
    <3>2. PICK S \in SUBSET Stack : IsCycle(S)
      BY <1>1, <2>2, CyclicExactly
    <3>3. \A s \in S : dependencies[s] \subseteq Configured(s)
      <4>1. loaded \subseteq project.built
        BY DEF IInv, LoadOK
      <4>2. \A s \in S : dependencies[s] = Resolved(s)
        BY <1>1, <2>1 DEF DependenciesOK
      <4>3. \A s : Resolved(s) \subseteq Configured(s)
        BY <4>1 DEF Resolved, Configured
      <4>4. QED
        BY <4>2, <4>3
    <3>4. S \in (SUBSET Stack) \ {{}}
      BY <3>2 DEF IsCycle
    <3>5. \A s \in S : Configured(s) \intersect S # {}
      <4>1. \A s \in S : dependencies[s] \intersect S # {}
        BY <3>2 DEF IsCycle
      <4>2. QED
        BY <3>3, <4>1
    <3>6. \A s : Configured(s)' = Configured(s)
      BY <2>1 DEF Configured
    <3>7. QED
      BY <3>1, <3>4, <3>5, <3>6 DEF CycleOK, CyclicRejectedRightly
  <2>3. CASE ~Cyclic
    <3>1. error' # "cyclic"
      BY <1>2, <2>1, <2>3 DEF CheckDependencies, Fail, None
    <3>2. \A S \in SUBSET Stack : ~IsCycle(S)
      BY <1>1, <2>3, CyclicExactly
    <3>3. \A S : IsCycle(S)' = IsCycle(S)
      BY <2>1 DEF IsCycle
    <3>4. QED
      BY <3>1, <3>2, <3>3 DEF CycleOK, CyclicRejectedRightly
  <2>4. QED
    BY <2>2, <2>3
<1>3. CASE phase \in {"load", "resolve"} /\ [Next]_vars /\ ~CheckDependencies
  <2>1. phase' \notin {"select", "sort"} /\ error = None
    BY <1>1, <1>3 DEF ErrorOK, Next, vars, ProcessCommandPath, FileHasNoRegions, NextPass,
       ResolveDependencies, SelectStacks, SortWave, FinishPlan, Done, Fail
  <2>2. error' # "cyclic"
    BY <1>3, <2>1 DEF Next, vars, ProcessCommandPath, FileHasNoRegions, NextPass,
       ResolveDependencies, SelectStacks, SortWave, FinishPlan, Done, Fail, None
  <2>3. QED
    BY <2>1, <2>2 DEF CycleOK, CyclicRejectedRightly
<1>4. CASE SelectStacks \/ SortWave \/ FinishPlan
  <2>1. phase \in {"select", "sort"} /\ error = None /\ UNCHANGED dependencies
    BY <1>1, <1>4 DEF ErrorOK, SelectStacks, SortWave, FinishPlan
  <2>2. error' # "cyclic"
    BY <1>4, <2>1 DEF SelectStacks, SortWave, FinishPlan, Fail, None
  <2>3. \A S : IsCycle(S)' = IsCycle(S)
    BY <2>1 DEF IsCycle
  <2>4. QED
    BY <2>1, <2>2, <2>3 DEF CycleOK, CyclicRejectedRightly
<1>5. CASE Done \/ UNCHANGED vars
  <2>1. UNCHANGED <<project, phase, dependencies, error>>
    BY <1>5 DEF Done, vars
  <2>2. \A s : Configured(s)' = Configured(s) /\ IsCycle(s)' = IsCycle(s)
    BY <2>1 DEF Configured, IsCycle
  <2>3. QED
    BY <2>1, <2>2 DEF CycleOK, CyclicRejectedRightly
<1>6. QED
  BY <1>2, <1>3, <1>4, <1>5 DEF Next, ProcessCommandPath, FileHasNoRegions, NextPass, ResolveDependencies

LEMMA CycleInvariant == Spec => []CycleOK
<1>1. Init => CycleOK
  BY DEF Init, CycleOK, CyclicRejectedRightly, None
<1>2. IInv /\ CycleOK /\ [Next]_vars => CycleOK'
  BY CycleStep
<1>3. QED
  BY <1>1, <1>2, Invariant, PTL DEF Spec

(* Only configurations with a cycle are rejected as cyclic: a stack that   *)
(* different chains reach is none.                                         *)
THEOREM RejectedRightly == Spec => []CyclicRejectedRightly
<1>1. CycleOK => CyclicRejectedRightly
  BY DEF CycleOK
<1>2. QED
  BY <1>1, CycleInvariant, PTL

(* sortStacks never loops for ever: as long as a stack is unsorted there   *)
(* is one that follows no unsorted stack.                                  *)
SortGoesOn == phase = "sort" /\ unsorted # {} => Wave # {}

THEOREM SortAlwaysGoesOn == Spec => []SortGoesOn
<1>1. IInv /\ CycleOK => SortGoesOn
  <2> SUFFICES ASSUME IInv, CycleOK, phase = "sort", unsorted # {}, Wave = {}
               PROVE  FALSE
    BY DEF SortGoesOn
  <2>1. /\ dependencies \in [Stack -> SUBSET Stack] /\ unsorted \in SUBSET Stack
        /\ \A S \in SUBSET Stack : ~IsCycle(S)
    BY DEF IInv, TypeOK, CycleOK
  <2>2. \A s \in unsorted : Precedes(s) \intersect unsorted # {}
    BY DEF Wave
  <2>3. CASE command.kind = "deploy"
    <3>1. IsCycle(unsorted)
      BY <2>2, <2>3 DEF Precedes, IsCycle
    <3>2. QED
      BY <2>1, <3>1
  <2>4. CASE command.kind # "deploy"
    <3>1. \A s \in unsorted : \E t \in unsorted : s \in dependencies[t]
      BY <2>2, <2>4 DEF Precedes, Dependents
    <3>2. \E S \in SUBSET Stack : S \subseteq unsorted /\ IsCycle(S)
      BY <2>1, <3>1, ReversedCycle
    <3>3. QED
      BY <2>1, <3>2
  <2>5. QED
    BY <2>3, <2>4
<1>2. QED
  BY <1>1, Invariant, CycleInvariant, PTL

-----------------------------------------------------------------------------
(* The exact plan. *)

(* --ignore-dependencies keeps the operations within the command path. *)
LEMMA WithinExactly ==
    ASSUME TypeOK
    PROVE  {OperationsWithin[i] : i \in DOMAIN OperationsWithin} = Listed \intersect command.path
<1> DEFINE positions == {i \in DOMAIN operations : operations[i] \in command.path}
<1>1. operations \in Seq(Stack) /\ positions \in SUBSET DOMAIN operations
  BY DEF TypeOK
<1>2. OperationsWithin = Part(operations, positions)
  BY DEF OperationsWithin
<1>3. \A i \in DOMAIN operations : i \in positions <=> operations[i] \in command.path
  OBVIOUS
<1> HIDE DEF positions
<1>4. /\ \A n \in DOMAIN OperationsWithin :
            InOrder(positions)[n] \in positions
                /\ OperationsWithin[n] = operations[InOrder(positions)[n]]
      /\ \A i \in positions : \E n \in DOMAIN OperationsWithin : InOrder(positions)[n] = i
  BY <1>1, <1>2, PartType
<1>5. ASSUME NEW n \in DOMAIN OperationsWithin
      PROVE  OperationsWithin[n] \in Listed \intersect command.path
  BY <1>1, <1>3, <1>4 DEF Listed
<1>6. ASSUME NEW i \in DOMAIN operations, operations[i] \in command.path
      PROVE  \E n \in DOMAIN OperationsWithin : OperationsWithin[n] = operations[i]
  BY <1>3, <1>4, <1>6
<1>7. QED
  BY <1>5, <1>6 DEF Listed

Exact ==
    Planned =>
        /\ Collected \subseteq Known
        /\ Listed = IF command.ignoreDependencies THEN Chosen \intersect command.path ELSE Chosen

LEMMA ExactStep ==
    ASSUME IInv, Exact, [Next]_vars
    PROVE  Exact'
<1>1. CASE FinishPlan
  <2>1. /\ phase = "sort" /\ unsorted = {}
        /\ operations' = IF command.ignoreDependencies THEN OperationsWithin ELSE operations
        /\ UNCHANGED <<project, command, loaded, dependencies>>
    BY <1>1 DEF FinishPlan
  <2>2. Collected \subseteq Known /\ Listed = Chosen
    BY <2>1 DEF IInv, PlanOK, SortOK
  <2>3. Collected' \subseteq Known' /\ Chosen' = Chosen
    BY <2>1, <2>2, ChosenFrame
  <2>4. CASE command.ignoreDependencies
    <3>1. Listed' = {OperationsWithin[i] : i \in DOMAIN OperationsWithin}
      BY <2>1, <2>4 DEF Listed
    <3>2. Listed' = Chosen \intersect command.path
      BY <2>2, <3>1, WithinExactly DEF IInv
    <3>3. QED
      BY <2>1, <2>3, <2>4, <3>2 DEF Exact
  <2>5. CASE ~command.ignoreDependencies
    <3>1. Listed' = Listed
      BY <2>1, <2>5 DEF Listed
    <3>2. QED
      BY <2>1, <2>2, <2>3, <2>5, <3>1 DEF Exact
  <2>6. QED
    BY <2>4, <2>5
<1>2. CASE Done \/ UNCHANGED vars
  <2>1. UNCHANGED <<project, command, phase, loaded, dependencies, operations, error>>
    BY <1>2 DEF Done, vars
  <2>2. Collected' = Collected /\ Known' = Known /\ Chosen' = Chosen /\ Listed' = Listed /\ Planned' = Planned
    BY <2>1, ChosenFrame DEF Listed, Planned
  <2>3. QED
    BY <2>1, <2>2 DEF Exact
<1>3. CASE [Next]_vars /\ ~FinishPlan /\ ~Done /\ ~UNCHANGED vars
  <2>1. phase # "done" /\ error = None
    BY <1>3 DEF IInv, ErrorOK, Next, ProcessCommandPath, FileHasNoRegions, NextPass,
       ResolveDependencies, CheckDependencies, SelectStacks, SortWave
  <2>2. phase' = "done" => error' # None
    BY <1>3, <2>1 DEF Next, ProcessCommandPath, FileHasNoRegions, NextPass, ResolveDependencies,
       CheckDependencies, SelectStacks, SortWave, Fail, None
  <2>3. QED
    BY <2>2 DEF Exact, Planned
<1>4. QED
  BY <1>1, <1>2, <1>3

LEMMA ExactInvariant == Spec => []Exact
<1>1. Init => Exact
  BY DEF Init, Exact, Planned
<1>2. IInv /\ Exact /\ [Next]_vars => Exact'
  BY ExactStep
<1>3. QED
  BY <1>1, <1>2, Invariant, PTL DEF Spec

(* The plan has every stack of the command path the files define for the   *)
(* command and no stack they do not define for it, whichever of the file,  *)
(* its blueprint and the stack groups say so.                              *)
THEOREM AlwaysExact == Spec => []PlanExact
<1>1. IInv /\ Exact => PlanExact
  <2> SUFFICES ASSUME IInv, Exact, Planned
               PROVE  /\ \A s \in Listed : Meant(s)
                      /\ \A s \in command.path : Meant(s) => s \in Listed
                      /\ command.ignoreDependencies => Listed \subseteq command.path
    BY DEF PlanExact, Listed
  <2>1. /\ TypeOK /\ loaded \subseteq project.built /\ loaded \subseteq Stack
        /\ InitialPath(command) \intersect project.built \subseteq loaded
    BY DEF IInv, TypeOK, LoadOK, Planned, None
  <2>2. \A s \in Stack :
            /\ s \in project.ignored <=> Says(s, "ignore", FALSE)
            /\ s \in project.obsolete <=> Says(s, "obsolete", FALSE)
            /\ s \in project.built <=>
                   /\ RegionOf(s) \in Says(s, "regions", {})
                   /\ ~GroupSays(config.files[FileOf(s)].group, "ignore", FALSE)
    BY <2>1, ProjectSays DEF TypeOK
  <2>3. ASSUME NEW s \in Stack
        PROVE  Meant(s) <=> s \in project.built \ project.ignored /\ Selected(s)
    BY <2>2 DEF Meant, Selected
  <2>4. ASSUME NEW s \in Listed PROVE Meant(s)
    <3>1. s \in Chosen
      BY DEF Exact
    <3>2. s \in loaded \ project.ignored /\ Selected(s)
      BY <3>1 DEF Exact, Chosen, Known
    <3>3. QED
      BY <2>1, <2>3, <3>2
  <2>5. ASSUME NEW s \in command.path, Meant(s) PROVE s \in Listed
    <3>1. s \in Stack
      BY <2>1, StacksAssumption DEF TypeOK, Commands
    <3>2. s \in InitialPath(command)
      BY <3>1 DEF InitialPath
    <3>3. s \in Known /\ Selected(s)
      BY <2>1, <2>3, <2>5, <3>1, <3>2 DEF Known
    <3>4. s \in Chosen
      BY <2>1, <3>3, CollectedClosed DEF Chosen
    <3>5. QED
      BY <3>4 DEF Exact
  <2>6. command.ignoreDependencies => Listed \subseteq command.path
    BY DEF Exact
  <2>7. QED
    BY <2>4, <2>5, <2>6
<1>2. QED
  BY <1>1, Invariant, ExactInvariant, PTL
=============================================================================
