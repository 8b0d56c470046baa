----------------------- MODULE TargetSelectionProofs -----------------------
(***************************************************************************)
(* Lemmas about the plan of a command over deployment targets: what the    *)
(* files give to groups and targets, how the groups are collected, and     *)
(* that the plan holds what the files and the options ask for, once and in *)
(* order, for every configuration and command.                             *)
(*                                                                         *)
(* The definitions of ParsedGroups, ExternalTarget and                     *)
(* CollectFromHierarchy are recursive functions, and such a function is    *)
(* what its equation says only if there is one that satisfies it: there is *)
(* because a group comes after its parent in the file, and an item of a    *)
(* target after those merged before it.                                    *)
(***************************************************************************)
EXTENDS DeploymentTargets, OrdersProofs

-----------------------------------------------------------------------------
(* The groups above a group. *)
LEMMA ParentOf ==
    ASSUME config \in Configs, NEW g \in Group
    PROVE  /\ g \in Nat /\ g # NoParent
           /\ config.parent[g] \in Group \union {NoParent}
           /\ config.parent[g] < g
<1>1. config.parent \in [Group -> {NoParent} \union Group] /\ config.parent[g] < g
  BY DEF Configs
<1>2. NumGroups \in Nat
  BY InputsAssumption
<1>3. g \in Nat /\ g # NoParent
  BY <1>2 DEF Group, NoParent
<1>4. config.parent[g] \in Group \union {NoParent}
  BY <1>1
<1>5. QED
  BY <1>1, <1>3, <1>4

Upward(groups) == \A i \in groups : config.parent[i] \in groups \union {NoParent}

LEMMA AboveDef ==
    ASSUME config \in Configs, NEW g \in Group
    PROVE  /\ g \in Above(g)
           /\ \A h \in Above(g) : h \in Group /\ h <= g
           /\ config.parent[g] = NoParent => Above(g) = {g}
           /\ config.parent[g] # NoParent => Above(g) = {g} \union Above(config.parent[g])
<1> DEFINE p == config.parent[g]
<1>1. \A k \in Group :
          Above(k) = {h \in Group : \A c \in SUBSET Group : k \in c /\ Upward(c) => h \in c}
  BY DEF Above, Upward
<1>2. g \in Above(g)
  BY <1>1
<1>3. ASSUME NEW h \in Above(g) PROVE h \in Group /\ h <= g
  <2> DEFINE c == {i \in Group : i <= g}
  <2>1. Upward(c)
    <3>1. SUFFICES ASSUME NEW i \in c PROVE config.parent[i] \in c \union {NoParent}
      BY DEF Upward
    <3>2. config.parent[i] \in Group \union {NoParent} /\ config.parent[i] < i
      BY ParentOf
    <3>3. QED
      BY <3>2 DEF Group
  <2>2. g \in c
    BY DEF Group
  <2>3. h \in c
    BY <1>1, <2>1, <2>2
  <2>4. QED
    BY <2>3
<1>4. ASSUME p = NoParent PROVE Above(g) = {g}
  <2>1. Upward({g})
    BY <1>4 DEF Upward
  <2>2. QED
    BY <1>1, <1>2, <2>1
<1>5. ASSUME p # NoParent PROVE Above(g) = {g} \union Above(p)
  <2>1. p \in Group
    BY <1>5, ParentOf
  <2>2. ASSUME NEW h \in Above(p) PROVE h \in Above(g)
    <3>1. \A c \in SUBSET Group : g \in c /\ Upward(c) => p \in c
      BY <1>5 DEF Upward
    <3>2. QED
      BY <1>1, <2>1, <3>1
  <2>3. ASSUME NEW h \in Above(g), h # g PROVE h \in Above(p)
    <3>1. SUFFICES ASSUME NEW c \in SUBSET Group, p \in c, Upward(c) PROVE h \in c
      BY <1>1, <2>1, <2>3
    <3>2. Upward(c \union {g})
      BY <3>1 DEF Upward
    <3>3. QED
      BY <1>1, <2>3, <3>2
  <2>4. QED
    BY <1>2, <2>2, <2>3
<1>6. QED
  BY <1>2, <1>3, <1>4, <1>5

LEMMA AboveAbove ==
    ASSUME config \in Configs, NEW g \in Group, NEW h \in Above(g), NEW i \in Above(h)
    PROVE  i \in Above(g)
<1>1. h \in Group
  BY AboveDef
<1>2. \A k \in Group :
          Above(k) = {j \in Group : \A c \in SUBSET Group : k \in c /\ Upward(c) => j \in c}
  BY DEF Above, Upward
<1>3. QED
  BY <1>1, <1>2

(* The groups above a group are a chain. *)
LEMMA AboveChain ==
    ASSUME config \in Configs, NEW g \in Group, NEW h \in Above(g), NEW i \in Above(g)
    PROVE  h \in Above(i) \/ i \in Above(h)
<1> DEFINE Chain(k) == \A a, b \in Above(k) : a \in Above(b) \/ b \in Above(a)
           Wrong == {k \in Group : ~Chain(k)}
<1>1. SUFFICES ASSUME Wrong # {} PROVE FALSE
  OBVIOUS
<1>2. PICK k \in Wrong : \A j \in Wrong : ~(j < k)
  <2>1. Wrong \subseteq Nat
    BY DEF Group
  <2>2. QED
    BY <1>1, <2>1, LeastMember, Zenon
<1>3. k \in Group /\ ~Chain(k)
  BY <1>2
<1>4. PICK a \in Above(k), b \in Above(k) : a \notin Above(b) /\ b \notin Above(a)
  BY <1>3
<1>5. a # k /\ b # k
  BY <1>4
<1>6. CASE config.parent[k] = NoParent
  BY <1>3, <1>4, <1>5, <1>6, AboveDef
<1>7. CASE config.parent[k] # NoParent
  <2> DEFINE p == config.parent[k]
  <2>1. p \in Group /\ p < k
    BY <1>3, <1>7, ParentOf
  <2>2. a \in Above(p) /\ b \in Above(p)
    BY <1>3, <1>4, <1>5, <1>7, AboveDef
  <2>3. Chain(p)
    BY <1>2, <2>1
  <2>4. QED
    BY <1>4, <2>2, <2>3
<1>8. QED
  BY <1>6, <1>7

(* A group has at most one group above it, or itself, below another. *)
LEMMA AboveOnce ==
    ASSUME config \in Configs, NEW g \in Group, NEW h \in Above(g), NEW i \in Above(g),
           config.parent[h] = config.parent[i]
    PROVE  h = i
<1>1. ASSUME NEW a \in Group, NEW b \in Group, a \in Above(b), config.parent[a] = config.parent[b]
      PROVE  a = b
  <2>1. SUFFICES ASSUME a # b PROVE FALSE
    OBVIOUS
  <2>2. config.parent[b] # NoParent /\ a \in Above(config.parent[b])
    BY <1>1, <2>1, AboveDef
  <2>3. config.parent[b] \in Group
    BY <2>2, ParentOf
  <2>4. a <= config.parent[a]
    BY <1>1, <2>2, <2>3, AboveDef
  <2>5. config.parent[a] < a /\ config.parent[a] \in Nat /\ a \in Nat
    BY <1>1, <2>3, ParentOf
  <2>6. QED
    BY <2>4, <2>5
<1>2. h \in Group /\ i \in Group
  BY AboveDef
<1>3. CASE h \in Above(i)
  BY <1>1, <1>2, <1>3
<1>4. CASE i \in Above(h)
  BY <1>1, <1>2, <1>4
<1>5. QED
  BY <1>3, <1>4, AboveChain

(* x is below c, or c itself, and y below its sibling d: what is above x   *)
(* and above y and below the same group is the same, or c and d.           *)
LEMMA Branches ==
    ASSUME config \in Configs, NEW c \in Group, NEW d \in Group, c # d,
           config.parent[c] = config.parent[d],
           NEW x \in Group, NEW y \in Group, c \in Above(x), d \in Above(y)
    PROVE  /\ y \notin Above(x)
           /\ \A g \in Above(x), h \in Above(y) :
                 config.parent[g] = config.parent[h] /\ config.parent[g] # NoParent =>
                     g = h \/ (g = c /\ h = d)
<1>1. d \notin Above(x) /\ c \notin Above(y)
  BY AboveOnce
<1>2. y \notin Above(x)
  BY <1>1, AboveAbove
<1>3. ASSUME NEW g \in Above(x), NEW h \in Above(y),
             config.parent[g] = config.parent[h], config.parent[g] # NoParent
      PROVE  g = h \/ (g = c /\ h = d)
  <2> DEFINE p == config.parent[g]
  <2>1. g \in Group /\ h \in Group /\ p \in Group
    BY <1>3, AboveDef, ParentOf
  <2>2. CASE g = c
    <3>1. h = d
      BY <1>3, <2>2, AboveOnce
    <3>2. QED
      BY <2>2, <3>1
  <2>3. CASE g # c /\ g \in Above(c)
    <3>1. config.parent[c] # NoParent /\ g \in Above(config.parent[c])
      BY <2>3, AboveDef
    <3>2. g \in Above(d)
      BY <3>1, AboveDef
    <3>3. g \in Above(y)
      BY <3>2, AboveAbove
    <3>4. QED
      BY <1>3, <3>3, AboveOnce
  <2>4. CASE g # c /\ c \in Above(g)
    <3>1. c \in Above(p)
      BY <1>3, <2>1, <2>4, AboveDef
    <3>2. p \in Above(h)
      BY <1>3, <2>1, AboveDef
    <3>3. c \in Above(h)
      BY <2>1, <3>1, <3>2, AboveAbove
    <3>4. c \in Above(y)
      BY <3>3, AboveAbove
    <3>5. QED
      BY <1>1, <3>4
  <2>5. QED
    BY <2>2, <2>3, <2>4, AboveChain
<1>4. QED
  BY <1>2, <1>3

-----------------------------------------------------------------------------
(* FlattenSeq puts sequences one behind the other. *)
AllOf(ss, q, n) ==
    \A k \in 1 .. n : \A m \in DOMAIN ss[k] : \E i \in DOMAIN q : q[i] = ss[k][m]

OnlyOf(ss, q, n) ==
    \A i \in DOMAIN q : \E k \in 1 .. n : \E m \in DOMAIN ss[k] : q[i] = ss[k][m]

InTurn(ss, q, n) ==
    \A i, j \in DOMAIN q : i < j =>
        \E k, l \in 1 .. n : \E m \in DOMAIN ss[k], o \in DOMAIN ss[l] :
            q[i] = ss[k][m] /\ q[j] = ss[l][o] /\ (k < l \/ (k = l /\ m < o))

LEMMA OneMore ==
    ASSUME NEW A, NEW ss \in Seq(Seq(A)), NEW n \in 1 .. Len(ss), NEW q \in Seq(A),
           AllOf(ss, q, n - 1), OnlyOf(ss, q, n - 1), InTurn(ss, q, n - 1)
    PROVE  LET r == q \o ss[n] IN /\ r \in Seq(A)
                                  /\ AllOf(ss, r, n) /\ OnlyOf(ss, r, n) /\ InTurn(ss, r, n)
<1> DEFINE s == ss[n]
           r == q \o s
<1>1. s \in Seq(A) /\ n \in Nat /\ n > 0
  OBVIOUS
<1> HIDE DEF s
<1>2. /\ r \in Seq(A)
      /\ DOMAIN q = 1 .. Len(q) /\ Len(q) \in Nat
      /\ DOMAIN s = 1 .. Len(s) /\ Len(s) \in Nat
      /\ DOMAIN r = 1 .. Len(q) + Len(s)
  BY <1>1
<1>3. \A i \in DOMAIN q : i \in DOMAIN r /\ r[i] = q[i]
  BY <1>1, <1>2
<1>4. \A i \in DOMAIN s : Len(q) + i \in DOMAIN r /\ r[Len(q) + i] = s[i]
  BY <1>1, <1>2
<1>5. \A i \in DOMAIN r : i \in DOMAIN q \/ (i - Len(q) \in DOMAIN s /\ r[i] = s[i - Len(q)])
  BY <1>1, <1>2
<1> HIDE DEF r
<1>6. AllOf(ss, r, n)
  <2>1. SUFFICES ASSUME NEW k \in 1 .. n, NEW m \in DOMAIN ss[k]
                 PROVE  \E i \in DOMAIN r : r[i] = ss[k][m]
    BY DEF AllOf
  <2>2. CASE k = n
    BY <1>4, <2>2 DEF s
  <2>3. CASE k # n
    <3>1. k \in 1 .. n - 1
      BY <1>1, <2>3
    <3>2. \E i \in DOMAIN q : q[i] = ss[k][m]
      BY <3>1 DEF AllOf
    <3>3. QED
      BY <1>3, <3>2
  <2>4. QED
    BY <2>2, <2>3
<1>7. OnlyOf(ss, r, n)
  <2>1. SUFFICES ASSUME NEW i \in DOMAIN r
                 PROVE  \E k \in 1 .. n : \E m \in DOMAIN ss[k] : r[i] = ss[k][m]
    BY DEF OnlyOf
  <2>2. CASE i \in DOMAIN q
    <3>1. PICK k \in 1 .. n - 1 : \E m \in DOMAIN ss[k] : q[i] = ss[k][m]
      BY <2>2 DEF OnlyOf
    <3>2. k \in 1 .. n
      BY <1>1
    <3>3. QED
      BY <1>3, <2>2, <3>1, <3>2
  <2>3. CASE i \notin DOMAIN q
    <3>1. i - Len(q) \in DOMAIN ss[n] /\ r[i] = ss[n][i - Len(q)]
      BY <1>5, <2>3 DEF s
    <3>2. n \in 1 .. n
      BY <1>1
    <3>3. QED
      BY <3>1, <3>2
  <2>4. QED
    BY <2>2, <2>3
<1>8. InTurn(ss, r, n)
  <2> DEFINE Found(i, j) ==
        \E k, l \in 1 .. n : \E m \in DOMAIN ss[k], o \in DOMAIN ss[l] :
            r[i] = ss[k][m] /\ r[j] = ss[l][o] /\ (k < l \/ (k = l /\ m < o))
  <2>1. SUFFICES ASSUME NEW i \in DOMAIN r, NEW j \in DOMAIN r, i < j PROVE Found(i, j)
    BY DEF InTurn
  <2>2. CASE j \in DOMAIN q
    <3>1. i \in DOMAIN q
      BY <1>2, <2>1, <2>2
    <3>2. PICK k \in 1 .. n - 1, l \in 1 .. n - 1 :
            \E m \in DOMAIN ss[k], o \in DOMAIN ss[l] :
                q[i] = ss[k][m] /\ q[j] = ss[l][o] /\ (k < l \/ (k = l /\ m < o))
      BY <2>1, <2>2, <3>1 DEF InTurn
    <3>3. k \in 1 .. n /\ l \in 1 .. n
      BY <1>1
    <3>4. r[i] = q[i] /\ r[j] = q[j]
      BY <1>3, <2>2, <3>1
    <3>5. QED
      BY <3>2, <3>3, <3>4
  <2>3. CASE j \notin DOMAIN q /\ i \in DOMAIN q
    <3>1. PICK k \in 1 .. n - 1 : \E m \in DOMAIN ss[k] : q[i] = ss[k][m]
      BY <2>3 DEF OnlyOf
    <3>2. k \in 1 .. n /\ n \in 1 .. n /\ k < n
      BY <1>1
    <3>3. j - Len(q) \in DOMAIN ss[n] /\ r[j] = ss[n][j - Len(q)]
      BY <1>5, <2>3 DEF s
    <3>4. r[i] = q[i]
      BY <1>3, <2>3
    <3>5. QED
      BY <3>1, <3>2, <3>3, <3>4
  <2>4. CASE j \notin DOMAIN q /\ i \notin DOMAIN q
    <3>1. j - Len(q) \in DOMAIN ss[n] /\ r[j] = ss[n][j - Len(q)]
      BY <1>5, <2>4 DEF s
    <3>2. i - Len(q) \in DOMAIN ss[n] /\ r[i] = ss[n][i - Len(q)]
      BY <1>5, <2>4 DEF s
    <3>3. i - Len(q) < j - Len(q)
      BY <1>2, <2>1
    <3>4. n \in 1 .. n
      BY <1>1
    <3>5. QED
      BY <3>1, <3>2, <3>3, <3>4
  <2>5. QED
    BY <2>2, <2>3, <2>4
<1>9. QED
  BY <1>2, <1>6, <1>7, <1>8 DEF r, s

LEMMA Flattened ==
    ASSUME NEW A, NEW ss \in Seq(Seq(A))
    PROVE  /\ FlattenSeq(ss) \in Seq(A)
           /\ AllOf(ss, FlattenSeq(ss), Len(ss))
           /\ OnlyOf(ss, FlattenSeq(ss), Len(ss))
           /\ InTurn(ss, FlattenSeq(ss), Len(ss))
<1> DEFINE N == Len(ss)
           Step(f, i) == IF i = 1 THEN ss[i] ELSE f[i - 1] \o ss[i]
           Unfold(f) == [i \in 1 .. N |-> Step(f, i)]
           Agrees(f, n) == \A i \in 1 .. N : i < n => f[i] = Step(f, i)
           Without == {n \in Nat : ~ \E f : Agrees(f, n)}
<1>1. N \in Nat /\ DOMAIN ss = 1 .. N /\ \A i \in 1 .. N : ss[i] \in Seq(A)
  OBVIOUS
<1> HIDE DEF N
<1>2. CASE N = 0
  <2>1. Len(ss) = 0
    BY <1>2 DEF N
  <2>2. FlattenSeq(ss) = ss
    BY <2>1, Zenon DEF FlattenSeq
  <2> DEFINE q == FlattenSeq(ss)
  <2>3. q = <<>>
    BY <2>1, <2>2
  <2> HIDE DEF q
  <2>4. q \in Seq(A) /\ DOMAIN q = {}
    BY <2>3
  <2>5. AllOf(ss, q, 0) /\ OnlyOf(ss, q, 0) /\ InTurn(ss, q, 0)
    BY <2>4 DEF AllOf, OnlyOf, InTurn
  <2>6. QED
    BY <2>1, <2>4, <2>5 DEF q
<1>3. CASE N # 0
  <2>1. Without = {}
    <3>1. SUFFICES ASSUME Without # {} PROVE FALSE
      OBVIOUS
    <3> HIDE DEF Agrees
    <3>2. PICK n \in Without : \A i \in Without : ~(i < n)
      <4>1. Without \subseteq Nat
        OBVIOUS
      <4>2. QED
        BY <3>1, <4>1, LeastMember, Zenon
    <3>3. n # 0
      <4>1. ASSUME n = 0 PROVE Agrees(ss, n)
        BY <4>1 DEF Agrees
      <4>2. QED
        BY <3>2, <4>1
    <3>4. n \in Nat /\ n - 1 \in Nat /\ n - 1 < n
      BY <3>2, <3>3
    <3>5. PICK f : Agrees(f, n - 1)
      BY <3>2, <3>4
    <3>6. Agrees(Unfold(f), n)
      <4> DEFINE h == Unfold(f)
      <4>1. SUFFICES ASSUME NEW i \in 1 .. N, i < n PROVE h[i] = Step(h, i)
        BY DEF Agrees
      <4>2. h[i] = Step(f, i)
        OBVIOUS
      <4>3. ASSUME i # 1 PROVE h[i - 1] = f[i - 1]
        <5>1. i - 1 \in 1 .. N /\ i - 1 < n - 1
          BY <1>1, <3>4, <4>1, <4>3
        <5>2. f[i - 1] = Step(f, i - 1)
          BY <3>5, <5>1 DEF Agrees
        <5>3. QED
          BY <5>1, <5>2
      <4> HIDE DEF h
      <4>4. QED
        BY <4>2, <4>3
    <3>7. QED
      BY <3>2, <3>6
  <2>2. PICK f : \A i \in 1 .. N : f[i] = Step(f, i)
    <3>1. N + 1 \in Nat /\ \A i \in 1 .. N : i < N + 1
      BY <1>1
    <3>2. PICK f : Agrees(f, N + 1)
      BY <2>1, <3>1
    <3>3. QED
      BY <3>1, <3>2
  <2> HIDE DEF Agrees, Without
  <2> DEFINE Fixed(h) == h = Unfold(h)
  <2>3. Fixed(Unfold(f))
    <3> DEFINE h == Unfold(f)
    <3>1. \A i \in 1 .. N : h[i] = f[i]
      BY <2>2
    <3> HIDE DEF h
    <3>2. ASSUME NEW i \in 1 .. N PROVE Step(h, i) = Step(f, i)
      <4>1. i # 1 => h[i - 1] = f[i - 1]
        BY <1>1, <3>1
      <4>2. QED
        BY <4>1
    <3>3. Unfold(h) = Unfold(f)
      BY <3>2
    <3>4. QED
      BY <3>3 DEF h
  <2> DEFINE F == CHOOSE h : Fixed(h)
  <2>4. FlattenSeq(ss) = F[N]
    BY <1>3 DEF FlattenSeq, N
  <2> HIDE DEF Fixed
  <2>5. Fixed(F)
    BY <2>3
  <2> HIDE DEF F
  <2>6. \A i \in 1 .. N : F[i] = Step(F, i)
    <3>1. F = Unfold(F)
      BY <2>5 DEF Fixed
    <3>2. QED
      BY <3>1
  <2> DEFINE Good(n) == /\ F[n] \in Seq(A) /\ AllOf(ss, F[n], n)
                        /\ OnlyOf(ss, F[n], n) /\ InTurn(ss, F[n], n)
             Wrong == {n \in 1 .. N : ~Good(n)}
  <2>7. Good(1)
    <3>1. 1 \in 1 .. N /\ F[1] = ss[1] /\ ss[1] \in Seq(A)
      BY <1>1, <1>3, <2>6
    <3>2. \A k \in 1 .. 1 : k = 1
      OBVIOUS
    <3>3. AllOf(ss, F[1], 1) /\ OnlyOf(ss, F[1], 1)
      BY <3>1, <3>2 DEF AllOf, OnlyOf
    <3>4. InTurn(ss, F[1], 1)
      <4>1. 1 \in 1 .. 1
        OBVIOUS
      <4>2. QED
        BY <3>1, <4>1 DEF InTurn
    <3>5. QED
      BY <3>1, <3>3, <3>4
  <2>8. ASSUME NEW n \in 1 .. N, n # 1, Good(n - 1) PROVE Good(n)
    <3>1. F[n] = F[n - 1] \o ss[n] /\ n \in 1 .. Len(ss)
      BY <2>6, <2>8 DEF N
    <3>2. QED
      BY <2>8, <3>1, OneMore
  <2> HIDE DEF Good
  <2>9. Good(N)
    <3>1. SUFFICES ASSUME Wrong # {} PROVE FALSE
      BY <1>1, <1>3
    <3>2. PICK n \in Wrong : \A i \in Wrong : ~(i < n)
      <4>1. Wrong \subseteq Nat
        BY <1>1
      <4>2. QED
        BY <3>1, <4>1, LeastMember, Zenon
    <3>3. n \in 1 .. N /\ ~Good(n) /\ n # 1
      BY <2>7, <3>2
    <3>4. n - 1 \in 1 .. N /\ n - 1 < n
      BY <1>1, <3>3
    <3>5. Good(n - 1)
      BY <3>2, <3>4
    <3>6. QED
      BY <2>8, <3>3, <3>5
  <2>10. QED
    BY <2>4, <2>9 DEF Good, N
<1>4. QED
  BY <1>2, <1>3

-----------------------------------------------------------------------------
(* The groups of the selection, in the order they are collected. *)
Hierarchy ==
    /\ config \in Configs
    /\ project.parent = config.parent
    /\ project.rank = config.rank
    /\ project.active = [g \in Group |-> Active(config.status[g])]

Before(x, y) ==
    /\ y \notin Above(x)
    /\ \A g \in Above(x), h \in Above(y) :
          config.parent[g] = config.parent[h] /\ config.parent[g] # NoParent
              => config.rank[g] <= config.rank[h]

GroupsOrdered(q) == \A i, j \in DOMAIN q : i < j => Before(q[i], q[j])

LEMMA RankOf ==
    ASSUME config \in Configs, NEW g \in Group
    PROVE  /\ config.rank[g] \in Group /\ config.rank[g] \in Nat
           /\ \A h \in Group : config.rank[g] = config.rank[h] => g = h
<1>1. config.rank \in [Group -> Group] /\ \A h \in Group : config.rank[g] = config.rank[h] => g = h
  BY DEF Configs
<1>2. config.rank[g] \in Group
  BY <1>1
<1>3. QED
  BY <1>1, <1>2, ParentOf

LEMMA BeforeBelow ==
    ASSUME config \in Configs, NEW x \in Group, NEW g \in Above(x), g # x
    PROVE  Before(g, x)
<1>1. g \in Group /\ g <= x /\ g \in Nat /\ x \in Nat
  BY AboveDef, ParentOf
<1>2. x \notin Above(g)
  <2>1. ASSUME x \in Above(g) PROVE x <= g
    BY <1>1, <2>1, AboveDef
  <2>2. QED
    BY <1>1, <2>1
<1>3. ASSUME NEW a \in Above(g), NEW h \in Above(x), config.parent[a] = config.parent[h]
      PROVE  config.rank[a] <= config.rank[h]
  <2>1. a \in Above(x)
    BY <1>1, AboveAbove
  <2>2. a = h
    BY <1>3, <2>1, AboveOnce
  <2>3. a \in Group
    BY <2>1, AboveDef
  <2>4. QED
    BY <2>2, <2>3, RankOf
<1>4. QED
  BY <1>2, <1>3 DEF Before

LEMMA BeforeBranches ==
    ASSUME config \in Configs, NEW c \in Group, NEW d \in Group, c # d,
           config.parent[c] = config.parent[d],
           config.parent[c] = NoParent \/ config.rank[c] < config.rank[d],
           NEW x \in Group, NEW y \in Group, c \in Above(x), d \in Above(y)
    PROVE  Before(x, y)
<1>1. /\ y \notin Above(x)
      /\ \A g \in Above(x), h \in Above(y) :
            config.parent[g] = config.parent[h] /\ config.parent[g] # NoParent =>
                g = h \/ (g = c /\ h = d)
  BY Branches
<1>2. \A g \in Above(x) : config.rank[g] \in Nat
  BY AboveDef, RankOf
<1>3. config.rank[c] \in Nat /\ config.rank[d] \in Nat
  BY RankOf
<1>4. QED
  BY <1>1, <1>2, <1>3 DEF Before

LEMMA ChildBetween ==
    ASSUME config \in Configs, NEW x \in Group, NEW g \in Above(x), g # x
    PROVE  \E c \in Above(x) : config.parent[c] = g /\ g \in Above(c)
<1> DEFINE Between(k) == g \in Above(k) /\ g # k => \E c \in Above(k) : config.parent[c] = g
           Wrong == {k \in Group : ~Between(k)}
<1>1. Wrong = {}
  <2>1. SUFFICES ASSUME Wrong # {} PROVE FALSE
    OBVIOUS
  <2>2. PICK k \in Wrong : \A j \in Wrong : ~(j < k)
    <3>1. Wrong \subseteq Nat
      BY ParentOf
    <3>2. QED
      BY <2>1, <3>1, LeastMember, Zenon
  <2>3. k \in Group /\ g \in Above(k) /\ g # k /\ ~ \E c \in Above(k) : config.parent[c] = g
    BY <2>2
  <2> DEFINE p == config.parent[k]
  <2>4. p # NoParent /\ g \in Above(p) /\ Above(k) = {k} \union Above(p)
    BY <2>3, AboveDef
  <2>5. p \in Group /\ p < k
    BY <2>3, <2>4, ParentOf
  <2>6. Between(p)
    BY <2>2, <2>5
  <2>7. g # p
    BY <2>3, <2>4
  <2>8. QED
    BY <2>3, <2>4, <2>6, <2>7
<1>2. PICK c \in Above(x) : config.parent[c] = g
  BY <1>1
<1>3. c \in Group /\ g \in Group
  BY AboveDef
<1>4. g \in Above(g) /\ g # NoParent
  BY <1>3, AboveDef, ParentOf
<1>5. g \in Above(c)
  BY <1>2, <1>3, <1>4, AboveDef
<1>6. QED
  BY <1>2, <1>5

LEMMA ChildrenSorted ==
    ASSUME Hierarchy, NEW g \in Group
    PROVE  /\ SortedChildren(project, g) \in Seq(Group)
           /\ \A i \in DOMAIN SortedChildren(project, g) :
                 /\ config.parent[SortedChildren(project, g)[i]] = g
                 /\ Active(config.status[SortedChildren(project, g)[i]])
           /\ \A c \in Group : config.parent[c] = g /\ Active(config.status[c]) =>
                 \E i \in DOMAIN SortedChildren(project, g) : SortedChildren(project, g)[i] = c
           /\ \A i, j \in DOMAIN SortedChildren(project, g) : i < j =>
                 config.rank[SortedChildren(project, g)[i]] < config.rank[SortedChildren(project, g)[j]]
<1> DEFINE children == {c \in Group : config.parent[c] = g /\ Active(config.status[c])}
           keys == {config.rank[c] : c \in children}
           ranks == InOrder(keys)
           n == Cardinality(keys)
           ChildOf(r) == CHOOSE c \in children : config.rank[c] = r
           q == SortedChildren(project, g)
<1>1. config \in Configs /\ NumGroups \in Nat
  BY InputsAssumption DEF Hierarchy
<1>2. \A c \in children : config.rank[c] \in Group /\ config.rank[c] \in Nat
  BY <1>1, RankOf
<1>3. /\ n \in Nat
      /\ ranks \in [1 .. n -> keys]
      /\ \A i, j \in 1 .. n : i < j => ranks[i] < ranks[j]
      /\ \A r \in keys : \E i \in 1 .. n : ranks[i] = r
  <2>1. keys \in SUBSET (1 .. NumGroups)
    BY <1>2 DEF Group
  <2> HIDE DEF keys
  <2>2. QED
    BY <1>1, <2>1, InOrderType, Zenon
<1>4. q = [i \in DOMAIN ranks |-> ChildOf(ranks[i])]
  <2> DEFINE selected == {c \in Group : project.parent[c] = g /\ project.active[c]}
  <2>1. selected = children
    BY DEF Hierarchy
  <2>2. project.rank = config.rank
    BY DEF Hierarchy
  <2>3. q = [i \in DOMAIN InOrder({project.rank[c] : c \in selected}) |->
                CHOOSE c \in selected :
                    project.rank[c] = InOrder({project.rank[d] : d \in selected})[i]]
    BY DEF SortedChildren
  <2> HIDE DEF selected, children, q
  <2>4. QED
    BY <2>1, <2>2, <2>3
<1>5. \A r \in keys : ChildOf(r) \in children /\ config.rank[ChildOf(r)] = r
  OBVIOUS
<1>6. \A c \in children : config.rank[c] \in keys /\ ChildOf(config.rank[c]) = c
  <2>1. SUFFICES ASSUME NEW c \in children PROVE config.rank[c] \in keys /\ ChildOf(config.rank[c]) = c
    OBVIOUS
  <2>2. config.rank[c] \in keys
    OBVIOUS
  <2>3. config.rank[ChildOf(config.rank[c])] = config.rank[c] /\ ChildOf(config.rank[c]) \in Group /\ c \in Group
    BY <1>5, <2>2
  <2> HIDE DEF ChildOf
  <2>4. QED
    BY <1>1, <2>2, <2>3, RankOf
<1> HIDE DEF ChildOf, ranks, n, q, keys
<1>7. DOMAIN q = 1 .. n /\ \A i \in 1 .. n : q[i] = ChildOf(ranks[i]) /\ ranks[i] \in keys
  BY <1>3, <1>4
<1>8. \A i \in 1 .. n : q[i] \in children /\ config.rank[q[i]] = ranks[i]
  BY <1>5, <1>7
<1>9. \A c \in children : \E i \in 1 .. n : q[i] = c
  <2>1. SUFFICES ASSUME NEW c \in children PROVE \E i \in 1 .. n : q[i] = c
    OBVIOUS
  <2>2. PICK i \in 1 .. n : ranks[i] = config.rank[c]
    BY <1>3, <1>6
  <2>3. QED
    BY <1>6, <1>7, <2>2
<1>10. q \in Seq(Group)
  <2>1. \A i \in 1 .. n : ChildOf(ranks[i]) \in Group
    BY <1>7, <1>8
  <2>2. q \in [1 .. n -> Group]
    BY <1>3, <1>4, <2>1
  <2>3. QED
    BY <1>3, <2>2
<1>11. \A i, j \in 1 .. n : i < j => config.rank[q[i]] < config.rank[q[j]]
  BY <1>3, <1>8
<1>12. QED
  BY <1>7, <1>8, <1>9, <1>10, <1>11 DEF q

BelowFrom(below, g) ==
    <<g>> \o FlattenSeq([i \in DOMAIN SortedChildren(project, g) |->
                            below[SortedChildren(project, g)[i]]])

LEMMA CollectDef ==
    ASSUME Hierarchy
    PROVE  \E below :
               /\ \A g \in Group : below[g] = BelowFrom(below, g)
               /\ \A root : CollectFromHierarchy(project, root) =
                                IF project.active[root] THEN below[root] ELSE <<>>
<1> DEFINE Agrees(f, n) == \A g \in Group : NumGroups - g < n => f[g] = BelowFrom(f, g)
           Without == {n \in Nat : ~ \E f : Agrees(f, n)}
           Unfold(f) == [g \in Group |-> BelowFrom(f, g)]
<1>1. NumGroups \in Nat /\ config \in Configs
  BY InputsAssumption DEF Hierarchy
<1>2. \A g \in Group : NumGroups - g \in Nat
  BY <1>1 DEF Group
<1>3. ASSUME NEW g \in Group, NEW i \in DOMAIN SortedChildren(project, g)
      PROVE  /\ SortedChildren(project, g)[i] \in Group
             /\ NumGroups - SortedChildren(project, g)[i] < NumGroups - g
  <2> DEFINE c == SortedChildren(project, g)[i]
  <2>1. c \in Group /\ config.parent[c] = g
    BY ChildrenSorted
  <2> HIDE DEF c
  <2>2. g < c /\ c \in Nat /\ g \in Nat
    BY <1>1, <2>1, ParentOf
  <2>3. QED
    BY <1>1, <2>1, <2>2 DEF c
<1>4. ASSUME NEW f, NEW h, NEW g \in Group,
             \A i \in DOMAIN SortedChildren(project, g) :
                 f[SortedChildren(project, g)[i]] = h[SortedChildren(project, g)[i]]
      PROVE  BelowFrom(f, g) = BelowFrom(h, g)
  <2>1. [i \in DOMAIN SortedChildren(project, g) |-> f[SortedChildren(project, g)[i]]]
            = [i \in DOMAIN SortedChildren(project, g) |-> h[SortedChildren(project, g)[i]]]
    BY <1>4
  <2>2. QED
    BY <2>1, Zenon DEF BelowFrom
<1>5. Without = {}
  <2>1. SUFFICES ASSUME Without # {} PROVE FALSE
    OBVIOUS
  <2> HIDE DEF Agrees
  <2>2. PICK n \in Without : \A i \in Without : ~(i < n)
    <3>1. Without \subseteq Nat
      OBVIOUS
    <3>2. QED
      BY <2>1, <3>1, LeastMember, Zenon
  <2>3. n # 0
    <3>1. ASSUME n = 0 PROVE Agrees(config, n)
      BY <1>2, <3>1 DEF Agrees
    <3>2. QED
      BY <2>2, <3>1
  <2>4. n \in Nat /\ n - 1 \in Nat /\ n - 1 < n
    BY <2>2, <2>3
  <2>5. PICK f : Agrees(f, n - 1)
    BY <2>2, <2>4
  <2>6. Agrees(Unfold(f), n)
    <3> DEFINE h == Unfold(f)
    <3>1. SUFFICES ASSUME NEW g \in Group, NumGroups - g < n PROVE h[g] = BelowFrom(h, g)
      BY DEF Agrees
    <3>2. h[g] = BelowFrom(f, g)
      OBVIOUS
    <3>3. ASSUME NEW i \in DOMAIN SortedChildren(project, g)
          PROVE  h[SortedChildren(project, g)[i]] = f[SortedChildren(project, g)[i]]
      <4> DEFINE c == SortedChildren(project, g)[i]
      <4>1. c \in Group /\ NumGroups - c < NumGroups - g
        BY <1>3
      <4> HIDE DEF c
      <4>2. NumGroups - c < n - 1
        BY <1>2, <2>4, <3>1, <4>1
      <4>3. f[c] = BelowFrom(f, c)
        BY <2>5, <4>1, <4>2 DEF Agrees
      <4>4. h[c] = f[c]
        BY <4>1, <4>3
      <4>5. QED
        BY <4>4 DEF c
    <3> HIDE DEF h
    <3>4. BelowFrom(h, g) = BelowFrom(f, g)
      BY <1>4, <3>3
    <3>5. QED
      BY <3>2, <3>4
  <2>7. QED
    BY <2>2, <2>6
<1>6. PICK f : \A g \in Group : f[g] = BelowFrom(f, g)
  <2>1. NumGroups + 1 \in Nat /\ \A g \in Group : NumGroups - g < NumGroups + 1
    BY <1>1 DEF Group
  <2>2. PICK f : Agrees(f, NumGroups + 1)
    BY <1>5, <2>1
  <2>3. QED
    BY <2>1, <2>2
<1> HIDE DEF Agrees, Without
<1> DEFINE Fixed(h) == h = Unfold(h)
<1>7. Fixed(Unfold(f))
  <2> DEFINE h == Unfold(f)
  <2>1. \A g \in Group : h[g] = f[g]
    BY <1>6
  <2> HIDE DEF h
  <2>2. \A g \in Group : BelowFrom(h, g) = BelowFrom(f, g)
    BY <1>3, <1>4, <2>1
  <2>3. Unfold(h) = Unfold(f)
    BY <2>2
  <2>4. QED
    BY <2>3 DEF h
<1> DEFINE F == CHOOSE h : Fixed(h)
<1>8. \A root : CollectFromHierarchy(project, root) =
                    IF project.active[root] THEN F[root] ELSE <<>>
  BY DEF CollectFromHierarchy, BelowFrom
<1> HIDE DEF Fixed
<1>9. Fixed(F)
  BY <1>7
<1> HIDE DEF F
<1>10. \A g \in Group : F[g] = BelowFrom(F, g)
  <2>1. F = Unfold(F)
    BY <1>9 DEF Fixed
  <2>2. QED
    BY <2>1
<1>11. QED
  BY <1>8, <1>10

Lists(q, x) == \E i \in DOMAIN q : q[i] = x

ActiveBetween(g, x) ==
    /\ g \in Above(x)
    /\ \A h \in Above(x) : g \in Above(h) /\ h # g => Active(config.status[h])

BelowOK(q, g) ==
    /\ q \in Seq(Group)
    /\ \A x \in Group : Lists(q, x) <=> ActiveBetween(g, x)
    /\ GroupsOrdered(q)

LEMMA BetweenChild ==
    ASSUME config \in Configs, NEW g \in Group, NEW c \in Group, config.parent[c] = g,
           NEW x \in Group
    PROVE  /\ ActiveBetween(c, x) /\ Active(config.status[c]) => ActiveBetween(g, x) /\ g # x
           /\ ActiveBetween(g, x) /\ c \in Above(x) => ActiveBetween(c, x) /\ Active(config.status[c])
<1>1. g < c /\ g \in Nat /\ c \in Nat /\ g # NoParent
  BY ParentOf
<1>2. Above(c) = {c} \union Above(g) /\ g \in Above(c)
  <2>1. g \in Above(g)
    BY AboveDef
  <2>2. QED
    BY <1>1, <2>1, AboveDef
<1>3. ASSUME ActiveBetween(c, x), Active(config.status[c])
      PROVE  ActiveBetween(g, x) /\ g # x
  <2>1. c \in Above(x)
    BY <1>3 DEF ActiveBetween
  <2>2. g \in Above(x)
    BY <1>2, <2>1, AboveAbove
  <2>3. c <= x /\ x \in Nat
    BY <2>1, AboveDef, ParentOf
  <2>4. ASSUME NEW h \in Above(x), g \in Above(h), h # g PROVE Active(config.status[h])
    <3>1. h \in Group /\ h \in Nat
      BY AboveDef, ParentOf
    <3>2. CASE h = c
      BY <1>3, <3>2
    <3>3. CASE h # c /\ c \in Above(h)
      BY <1>3, <3>3 DEF ActiveBetween
    <3>4. CASE h # c /\ h \in Above(c)
      <4>1. h \in Above(g)
        BY <1>2, <3>4
      <4>2. h <= g /\ g <= h
        BY <2>4, <3>1, <4>1, AboveDef
      <4>3. QED
        BY <1>1, <2>4, <3>1, <4>2
    <3>5. QED
      BY <2>1, <3>2, <3>3, <3>4, AboveChain
  <2>5. QED
    BY <1>1, <2>2, <2>3, <2>4 DEF ActiveBetween
<1>4. ASSUME ActiveBetween(g, x), c \in Above(x)
      PROVE  ActiveBetween(c, x) /\ Active(config.status[c])
  <2>1. Active(config.status[c])
    BY <1>1, <1>2, <1>4 DEF ActiveBetween
  <2>2. ASSUME NEW h \in Above(x), c \in Above(h), h # c PROVE Active(config.status[h])
    <3>1. h \in Group /\ h \in Nat
      BY AboveDef, ParentOf
    <3>2. g \in Above(h)
      BY <1>2, <2>2, <3>1, AboveAbove
    <3>3. c <= h
      BY <2>2, <3>1, AboveDef
    <3>4. h # g
      BY <1>1, <3>1, <3>3
    <3>5. QED
      BY <1>4, <3>2, <3>4 DEF ActiveBetween
  <2>3. QED
    BY <1>4, <2>1, <2>2 DEF ActiveBetween
<1>5. QED
  BY <1>3, <1>4

LEMMA BetweenSelf ==
    ASSUME config \in Configs, NEW g \in Group
    PROVE  ActiveBetween(g, g)
<1>1. g \in Above(g) /\ g \in Nat
  BY AboveDef, ParentOf
<1>2. ASSUME NEW h \in Above(g), g \in Above(h) PROVE h = g
  <2>1. h \in Group /\ h <= g /\ h \in Nat
    BY AboveDef, ParentOf
  <2>2. g <= h
    BY <1>2, <2>1, AboveDef
  <2>3. QED
    BY <1>1, <2>1, <2>2
<1>3. QED
  BY <1>1, <1>2 DEF ActiveBetween

LEMMA BelowStep ==
    ASSUME Hierarchy, NEW g \in Group, NEW below,
           \A i \in DOMAIN SortedChildren(project, g) :
               BelowOK(below[SortedChildren(project, g)[i]], SortedChildren(project, g)[i])
    PROVE  BelowOK(BelowFrom(below, g), g)
<1> DEFINE children == SortedChildren(project, g)
           ss == [i \in DOMAIN children |-> below[children[i]]]
           flat == FlattenSeq(ss)
           q == <<g>> \o flat
<1>1. /\ children \in Seq(Group)
      /\ \A i \in DOMAIN children : /\ children[i] \in Group
                                    /\ config.parent[children[i]] = g
                                    /\ Active(config.status[children[i]])
      /\ \A c \in Group : config.parent[c] = g /\ Active(config.status[c]) =>
            \E i \in DOMAIN children : children[i] = c
      /\ \A i, j \in DOMAIN children :
            i < j => config.rank[children[i]] < config.rank[children[j]]
  BY ChildrenSorted
<1>2. config \in Configs
  BY DEF Hierarchy
<1>3. q = BelowFrom(below, g)
  BY DEF BelowFrom
<1>4. \A i \in DOMAIN children : BelowOK(below[children[i]], children[i])
  OBVIOUS
<1> HIDE DEF children
<1>5. /\ ss \in Seq(Seq(Group)) /\ Len(ss) \in Nat
      /\ DOMAIN ss = 1 .. Len(ss) /\ DOMAIN children = 1 .. Len(ss)
      /\ \A i \in 1 .. Len(ss) : ss[i] = below[children[i]]
  <2>1. \A i \in DOMAIN children : below[children[i]] \in Seq(Group)
    BY <1>4 DEF BelowOK
  <2>2. DOMAIN children = 1 .. Len(children) /\ Len(children) \in Nat
    BY <1>1
  <2>3. ss \in [1 .. Len(children) -> Seq(Group)]
    BY <2>1, <2>2
  <2>4. ss \in Seq(Seq(Group)) /\ Len(ss) = Len(children)
    BY <2>2, <2>3
  <2>5. QED
    BY <2>2, <2>4
<1> HIDE DEF ss
<1>6. /\ flat \in Seq(Group)
      /\ AllOf(ss, flat, Len(ss)) /\ OnlyOf(ss, flat, Len(ss)) /\ InTurn(ss, flat, Len(ss))
  BY <1>5, Flattened
<1> HIDE DEF flat
<1>7. /\ q \in Seq(Group) /\ DOMAIN q = 1 .. Len(flat) + 1 /\ Len(flat) \in Nat
      /\ q[1] = g /\ \A i \in DOMAIN flat : i + 1 \in DOMAIN q /\ q[i + 1] = flat[i]
      /\ \A i \in DOMAIN q : i # 1 => i - 1 \in DOMAIN flat /\ q[i] = flat[i - 1]
      /\ DOMAIN flat = 1 .. Len(flat)
  BY <1>6
<1> HIDE DEF q
<1>8. ASSUME NEW x \in Group
      PROVE  Lists(flat, x) <=> \E i \in DOMAIN children : ActiveBetween(children[i], x)
  <2>1. ASSUME Lists(flat, x) PROVE \E i \in DOMAIN children : ActiveBetween(children[i], x)
    <3>1. PICK j \in DOMAIN flat : flat[j] = x
      BY <2>1 DEF Lists
    <3>2. PICK i \in 1 .. Len(ss) : \E m \in DOMAIN ss[i] : flat[j] = ss[i][m]
      BY <1>6 DEF OnlyOf
    <3>3. Lists(below[children[i]], x)
      BY <1>5, <3>1, <3>2 DEF Lists
    <3>4. QED
      BY <1>4, <1>5, <3>3 DEF BelowOK
  <2>2. ASSUME NEW i \in DOMAIN children, ActiveBetween(children[i], x) PROVE Lists(flat, x)
    <3>1. Lists(below[children[i]], x)
      BY <1>4, <2>2 DEF BelowOK
    <3>2. i \in 1 .. Len(ss)
      BY <1>5
    <3>3. PICK m \in DOMAIN ss[i] : ss[i][m] = x
      BY <1>5, <3>1, <3>2 DEF Lists
    <3>4. QED
      BY <1>6, <3>2, <3>3 DEF AllOf, Lists
  <2>3. QED
    BY <2>1, <2>2
<1>9. ASSUME NEW x \in Group PROVE Lists(q, x) <=> ActiveBetween(g, x)
  <2>1. Lists(q, x) <=> x = g \/ Lists(flat, x)
    <3>1. ASSUME NEW i \in DOMAIN q, q[i] = x PROVE x = g \/ Lists(flat, x)
      BY <1>7, <3>1 DEF Lists
    <3>2. ASSUME NEW i \in DOMAIN flat, flat[i] = x PROVE Lists(q, x)
      BY <1>7, <3>2 DEF Lists
    <3>3. x = g => Lists(q, x)
      BY <1>7 DEF Lists
    <3>4. QED
      BY <3>1, <3>2, <3>3 DEF Lists
  <2>2. ASSUME Lists(flat, x) PROVE ActiveBetween(g, x)
    <3>1. PICK i \in DOMAIN children : ActiveBetween(children[i], x)
      BY <1>8, <2>2
    <3>2. QED
      BY <1>1, <1>2, <3>1, BetweenChild
  <2>3. ASSUME ActiveBetween(g, x), x # g PROVE Lists(flat, x)
    <3>1. PICK c \in Above(x) : config.parent[c] = g
      BY <1>2, <2>3, ChildBetween DEF ActiveBetween
    <3>2. c \in Group
      BY <1>2, AboveDef
    <3>3. ActiveBetween(c, x) /\ Active(config.status[c])
      BY <1>2, <2>3, <3>1, <3>2, BetweenChild
    <3>4. PICK i \in DOMAIN children : children[i] = c
      BY <1>1, <3>1, <3>2, <3>3
    <3>5. QED
      BY <1>8, <3>3, <3>4
  <2>4. QED
    BY <1>2, <2>1, <2>2, <2>3, BetweenSelf
<1>10. GroupsOrdered(q)
  <2>1. SUFFICES ASSUME NEW i \in DOMAIN q, NEW j \in DOMAIN q, i < j PROVE Before(q[i], q[j])
    BY DEF GroupsOrdered
  <2>2. i \in Nat /\ j \in Nat /\ j # 1 /\ q[j] \in Group
    BY <1>7, <2>1
  <2>3. j - 1 \in DOMAIN flat /\ q[j] = flat[j - 1]
    BY <1>7, <2>2
  <2>4. CASE i = 1
    <3>1. Lists(flat, q[j])
      BY <2>3 DEF Lists
    <3>2. PICK k \in DOMAIN children : ActiveBetween(children[k], q[j])
      BY <1>8, <2>2, <3>1
    <3>3. ActiveBetween(g, q[j]) /\ g # q[j]
      BY <1>1, <1>2, <2>2, <3>2, BetweenChild
    <3>4. Before(g, q[j])
      BY <1>2, <2>2, <3>3, BeforeBelow DEF ActiveBetween
    <3>5. QED
      BY <1>7, <2>4, <3>4
  <2>5. CASE i # 1
    <3>1. i - 1 \in DOMAIN flat /\ q[i] = flat[i - 1] /\ i - 1 < j - 1
      BY <1>7, <2>1, <2>2, <2>5
    <3>2. PICK k \in 1 .. Len(ss), l \in 1 .. Len(ss) :
            \E m \in DOMAIN ss[k], o \in DOMAIN ss[l] :
                q[i] = ss[k][m] /\ q[j] = ss[l][o] /\ (k < l \/ (k = l /\ m < o))
      BY <1>6, <2>3, <3>1 DEF InTurn
    <3>3. PICK m \in DOMAIN ss[k], o \in DOMAIN ss[l] :
                q[i] = ss[k][m] /\ q[j] = ss[l][o] /\ (k < l \/ (k = l /\ m < o))
      BY <3>2
    <3>4. /\ k \in DOMAIN children /\ l \in DOMAIN children
          /\ ss[k] = below[children[k]] /\ ss[l] = below[children[l]]
      BY <1>5
    <3>5. CASE k = l
      <4>1. GroupsOrdered(ss[k])
        BY <1>4, <3>4 DEF BelowOK
      <4>2. QED
        BY <3>3, <3>5, <4>1 DEF GroupsOrdered
    <3>6. CASE k < l
      <4>1. Lists(ss[k], q[i]) /\ Lists(ss[l], q[j]) /\ q[i] \in Group
        BY <1>7, <3>3 DEF Lists
      <4>2. children[k] \in Above(q[i]) /\ children[l] \in Above(q[j])
        BY <1>4, <2>2, <3>4, <4>1 DEF BelowOK, ActiveBetween
      <4>3. /\ children[k] \in Group /\ children[l] \in Group
            /\ config.parent[children[k]] = g /\ config.parent[children[l]] = g
            /\ config.rank[children[k]] < config.rank[children[l]]
        BY <1>1, <3>4, <3>6
      <4>4. config.rank[children[k]] \in Nat
        BY <1>2, <4>3, RankOf
      <4>5. children[k] # children[l]
        BY <4>3, <4>4
      <4>6. QED
        BY <1>2, <2>2, <4>1, <4>2, <4>3, <4>5, BeforeBranches
    <3>7. QED
      BY <3>3, <3>5, <3>6
  <2>6. QED
    BY <2>4, <2>5
<1>11. QED
  BY <1>3, <1>7, <1>9, <1>10 DEF BelowOK

(* collectFromHierarchy has the groups below an active group that no       *)
(* disabled group separates from it, in order.                             *)
LEMMA CollectedBelow ==
    ASSUME Hierarchy, NEW root \in Group
    PROVE  /\ CollectFromHierarchy(project, root) \in Seq(Group)
           /\ \A x \in Group :
                 Lists(CollectFromHierarchy(project, root), x) <=>
                     /\ root \in Above(x)
                     /\ \A h \in Above(x) : root \in Above(h) => Active(config.status[h])
           /\ GroupsOrdered(CollectFromHierarchy(project, root))
<1>1. PICK below :
        /\ \A g \in Group : below[g] = BelowFrom(below, g)
        /\ \A r : CollectFromHierarchy(project, r) = IF project.active[r] THEN below[r] ELSE <<>>
  BY CollectDef
<1>2. config \in Configs /\ NumGroups \in Nat
  BY InputsAssumption DEF Hierarchy
<1> DEFINE OK(g) == BelowOK(below[g], g)
           Wrong == {n \in Nat : \E g \in Group : n = NumGroups - g /\ ~OK(g)}
<1>3. \A g \in Group : OK(g)
  <2>1. SUFFICES ASSUME NEW g \in Group, ~OK(g) PROVE FALSE
    OBVIOUS
  <2> HIDE DEF OK
  <2>2. Wrong # {}
    <3>1. NumGroups - g \in Nat
      BY <1>2 DEF Group
    <3>2. QED
      BY <2>1, <3>1
  <2>3. PICK n \in Wrong : \A i \in Wrong : ~(i < n)
    <3>1. Wrong \subseteq Nat
      OBVIOUS
    <3>2. QED
      BY <2>2, <3>1, LeastMember, Zenon
  <2>4. PICK k \in Group : n = NumGroups - k /\ ~OK(k)
    BY <2>3
  <2>5. ASSUME NEW i \in DOMAIN SortedChildren(project, k) PROVE OK(SortedChildren(project, k)[i])
    <3> DEFINE c == SortedChildren(project, k)[i]
    <3>1. c \in Group /\ config.parent[c] = k
      BY ChildrenSorted
    <3> HIDE DEF c
    <3>2. k < c /\ c \in Nat /\ k \in Nat
      BY <1>2, <3>1, ParentOf
    <3>3. NumGroups - c \in Nat /\ NumGroups - c < NumGroups - k
      BY <1>2, <3>1, <3>2 DEF Group
    <3>4. OK(c)
      BY <2>3, <2>4, <3>1, <3>3
    <3>5. QED
      BY <3>4 DEF c
  <2>6. BelowOK(BelowFrom(below, k), k)
    BY <2>5, BelowStep DEF OK
  <2>7. QED
    BY <1>1, <2>4, <2>6 DEF OK
<1> HIDE DEF OK
<1> DEFINE q == CollectFromHierarchy(project, root)
<1>4. project.active[root] = Active(config.status[root])
  BY DEF Hierarchy
<1>5. CASE Active(config.status[root])
  <2>1. q = below[root]
    BY <1>1, <1>4, <1>5, Zenon
  <2>2. BelowOK(q, root)
    BY <1>3, <2>1 DEF OK
  <2> HIDE DEF q
  <2>3. ASSUME NEW x \in Group
        PROVE  ActiveBetween(root, x) <=>
                   /\ root \in Above(x)
                   /\ \A h \in Above(x) : root \in Above(h) => Active(config.status[h])
    BY <1>5 DEF ActiveBetween
  <2>4. QED
    BY <2>2, <2>3 DEF BelowOK, q
<1>6. CASE ~Active(config.status[root])
  <2>1. q = <<>>
    BY <1>1, <1>4, <1>6, Zenon
  <2> HIDE DEF q
  <2>2. q \in Seq(Group) /\ DOMAIN q = {}
    BY <2>1
  <2>3. root \in Above(root)
    BY <1>2, AboveDef
  <2>4. QED
    BY <1>6, <2>2, <2>3 DEF Lists, GroupsOrdered, q
<1>7. QED
  BY <1>5, <1>6

(* R.uniqBy keeps the first of the groups that are the same. *)
LEMMA UniqueIs ==
    ASSUME NEW A, NEW q \in Seq(A)
    PROVE  /\ Unique(q) \in Seq(A)
           /\ \A x : Lists(Unique(q), x) <=> Lists(q, x)
           /\ \A m, n \in DOMAIN Unique(q) : Unique(q)[m] = Unique(q)[n] => m = n
           /\ \A m, n \in DOMAIN Unique(q) : m < n =>
                 \E i, j \in DOMAIN q : i < j /\ Unique(q)[m] = q[i] /\ Unique(q)[n] = q[j]
<1> DEFINE first == {i \in DOMAIN q : \A j \in 1 .. i - 1 : q[j] # q[i]}
           u == Unique(q)
           at == InOrder(first)
<1>1. first \in SUBSET DOMAIN q /\ DOMAIN q \subseteq Nat \ {0}
  OBVIOUS
<1>2. u = Part(q, first)
  BY DEF Unique
<1>3. \A i \in first : \A j \in DOMAIN q : j < i => q[j] # q[i]
  <2>1. SUFFICES ASSUME NEW i \in first, NEW j \in DOMAIN q, j < i PROVE q[j] # q[i]
    OBVIOUS
  <2>2. j \in 1 .. i - 1
    BY <1>1, <2>1
  <2>3. QED
    BY <2>2
<1>4. ASSUME NEW i \in DOMAIN q PROVE \E j \in first : q[j] = q[i]
  <2> DEFINE same == {j \in DOMAIN q : q[j] = q[i]}
  <2>1. PICK j \in same : \A k \in same : ~(k < j)
    <3>1. same \subseteq Nat /\ same # {}
      BY <1>1
    <3> HIDE DEF same
    <3>2. QED
      BY <3>1, LeastMember, Zenon
  <2>2. j \in DOMAIN q /\ q[j] = q[i]
    BY <2>1
  <2>3. ASSUME NEW k \in 1 .. j - 1 PROVE q[k] # q[j]
    <3>1. k \in DOMAIN q /\ k < j
      BY <2>2
    <3>2. QED
      BY <2>1, <2>2, <3>1
  <2>4. QED
    BY <2>2, <2>3
<1> HIDE DEF first, u
<1>5. /\ u \in Seq(A)
      /\ \A n \in DOMAIN u : at[n] \in first /\ u[n] = q[at[n]]
      /\ \A i \in first : \E n \in DOMAIN u : at[n] = i
      /\ \A m, n \in DOMAIN u : m < n => at[m] < at[n]
      /\ \A m, n \in DOMAIN u : at[m] = at[n] => m = n
  BY <1>1, <1>2, PartType
<1> HIDE DEF at
<1>6. ASSUME NEW x PROVE Lists(u, x) <=> Lists(q, x)
  <2>1. Lists(u, x) => Lists(q, x)
    BY <1>1, <1>5 DEF Lists
  <2>2. ASSUME NEW i \in DOMAIN q, q[i] = x PROVE Lists(u, x)
    <3>1. PICK j \in first : q[j] = x
      BY <1>4, <2>2
    <3>2. PICK n \in DOMAIN u : at[n] = j
      BY <1>5
    <3>3. QED
      BY <1>5, <3>1, <3>2 DEF Lists
  <2>3. QED
    BY <2>1, <2>2 DEF Lists
<1>7. ASSUME NEW m \in DOMAIN u, NEW n \in DOMAIN u, u[m] = u[n] PROVE m = n
  <2>1. at[m] \in first /\ at[n] \in first /\ q[at[m]] = q[at[n]]
    BY <1>5, <1>7
  <2>2. at[m] \in DOMAIN q /\ at[n] \in DOMAIN q /\ at[m] \in Nat /\ at[n] \in Nat
    BY <1>1, <2>1
  <2>3. ~(at[m] < at[n]) /\ ~(at[n] < at[m])
    BY <1>3, <2>1, <2>2
  <2>4. at[m] = at[n]
    BY <2>2, <2>3
  <2>5. QED
    BY <1>5, <2>4
<1>8. ASSUME NEW m \in DOMAIN u, NEW n \in DOMAIN u, m < n
      PROVE  \E i, j \in DOMAIN q : i < j /\ u[m] = q[i] /\ u[n] = q[j]
  <2>1. at[m] \in DOMAIN q /\ at[n] \in DOMAIN q
    BY <1>1, <1>5
  <2>2. QED
    BY <1>5, <1>8, <2>1
<1>9. QED
  BY <1>5, <1>6, <1>7, <1>8 DEF u

LEMMA RootsAre ==
    ASSUME Hierarchy, command \in Commands, ~SelectionError(project, command)
    PROVE  /\ RootGroups(project, command) \in Seq(Group)
           /\ \A r \in Group :
                 Lists(RootGroups(project, command), r) <=>
                     IF command.groups = <<>> THEN config.parent[r] = NoParent
                     ELSE r \in ToSet(command.groups)
           /\ command.groups = <<>> =>
                 \A i, j \in DOMAIN RootGroups(project, command) : i < j =>
                     RootGroups(project, command)[i] # RootGroups(project, command)[j]
<1> DEFINE roots == RootGroups(project, command)
<1>1. CASE command.groups # <<>>
  <2>1. roots = command.groups
    BY <1>1 DEF RootGroups
  <2>2. command.groups \in Seq(Nat)
    BY DEF Commands
  <2>3. \A i \in DOMAIN command.groups : command.groups[i] \in Group
    BY DEF SelectionError
  <2>4. command.groups \in Seq(Group)
    BY <2>2, <2>3
  <2>5. \A r : r \in ToSet(command.groups) <=> \E i \in DOMAIN command.groups : command.groups[i] = r
    BY DEF ToSet
  <2>6. QED
    BY <1>1, <2>1, <2>4, <2>5 DEF Lists
<1>2. CASE command.groups = <<>>
  <2> DEFINE S == {g \in Group : config.parent[g] = NoParent}
             n == Cardinality(S)
  <2>1. roots = InOrder(S)
    BY <1>2 DEF RootGroups, Hierarchy
  <2>2. \A r \in Group : r \in S <=> config.parent[r] = NoParent
    OBVIOUS
  <2>3. S \in SUBSET (1 .. NumGroups) /\ S \subseteq Group /\ NumGroups \in Nat
    BY InputsAssumption DEF Group
  <2> HIDE DEF S
  <2>4. /\ n \in Nat
        /\ roots \in [1 .. n -> S]
        /\ \A i, j \in 1 .. n : roots[i] = roots[j] => i = j
        /\ \A s \in S : \E i \in 1 .. n : roots[i] = s
    BY <2>1, <2>3, InOrderType, Zenon
  <2> HIDE DEF n, roots
  <2>5. roots \in Seq(Group) /\ DOMAIN roots = 1 .. n
    <3>1. roots \in [1 .. n -> Group]
      BY <2>3, <2>4
    <3>2. QED
      BY <2>4, <3>1
  <2>6. \A r \in Group : Lists(roots, r) <=> config.parent[r] = NoParent
    BY <2>2, <2>4, <2>5 DEF Lists
  <2>7. \A i, j \in DOMAIN roots : i < j => roots[i] # roots[j]
    BY <2>4, <2>5
  <2>8. QED
    BY <1>2, <2>5, <2>6, <2>7 DEF roots
<1>3. QED
  BY <1>1, <1>2

(* The groups of the selection are those that are reached, each once and,  *)
(* if they are not named, in order.                                        *)
LEMMA FlattenedAre ==
    ASSUME Hierarchy, command \in Commands, ~SelectionError(project, command)
    PROVE  /\ FlattenedGroups(project, command) \in Seq(Group)
           /\ \A g \in Group : Lists(FlattenedGroups(project, command), g) <=> Reached(g)
           /\ \A i, j \in DOMAIN FlattenedGroups(project, command) :
                 FlattenedGroups(project, command)[i] = FlattenedGroups(project, command)[j] => i = j
           /\ command.groups = <<>> => GroupsOrdered(FlattenedGroups(project, command))
<1> DEFINE roots == RootGroups(project, command)
           Collect(r) == CollectFromHierarchy(project, r)
           ss == [i \in DOMAIN roots |-> Collect(roots[i])]
           flat == FlattenSeq(ss)
           u == FlattenedGroups(project, command)
           Root(r) == IF command.groups = <<>> THEN config.parent[r] = NoParent
                      ELSE r \in ToSet(command.groups)
<1>1. /\ roots \in Seq(Group)
      /\ \A r \in Group : Lists(roots, r) <=> Root(r)
      /\ command.groups = <<>> => \A i, j \in DOMAIN roots : i < j => roots[i] # roots[j]
  BY RootsAre
<1>2. u = Unique(flat)
  BY DEF FlattenedGroups
<1>3. ASSUME NEW r \in Group
      PROVE  /\ Collect(r) \in Seq(Group)
             /\ \A x \in Group :
                   Lists(Collect(r), x) <=>
                       /\ r \in Above(x)
                       /\ \A h \in Above(x) : r \in Above(h) => Active(config.status[h])
             /\ GroupsOrdered(Collect(r))
  BY CollectedBelow
<1>4. \A g \in Group : Reached(g) <=>
          \E r \in Above(g) : Root(r) /\ \A h \in Above(g) : r \in Above(h) => Active(config.status[h])
  BY DEF Reached, Active
<1>5. config \in Configs
  BY DEF Hierarchy
<1> HIDE DEF roots, Collect, u, Root
<1>6. /\ ss \in Seq(Seq(Group)) /\ Len(ss) \in Nat
      /\ DOMAIN ss = 1 .. Len(ss) /\ DOMAIN roots = 1 .. Len(ss)
      /\ \A i \in 1 .. Len(ss) : ss[i] = Collect(roots[i]) /\ roots[i] \in Group
  <2>1. \A i \in DOMAIN roots : Collect(roots[i]) \in Seq(Group) /\ roots[i] \in Group
    BY <1>1, <1>3
  <2>2. DOMAIN roots = 1 .. Len(roots) /\ Len(roots) \in Nat
    BY <1>1
  <2>3. ss \in [1 .. Len(roots) -> Seq(Group)]
    BY <2>1, <2>2
  <2>4. ss \in Seq(Seq(Group)) /\ Len(ss) = Len(roots)
    BY <2>2, <2>3
  <2>5. QED
    BY <2>1, <2>2, <2>4
<1> HIDE DEF ss
<1>7. /\ flat \in Seq(Group)
      /\ AllOf(ss, flat, Len(ss)) /\ OnlyOf(ss, flat, Len(ss)) /\ InTurn(ss, flat, Len(ss))
  BY <1>6, Flattened
<1> HIDE DEF flat
<1>8. /\ u \in Seq(Group)
      /\ \A x : Lists(u, x) <=> Lists(flat, x)
      /\ \A m, n \in DOMAIN u : u[m] = u[n] => m = n
      /\ \A m, n \in DOMAIN u : m < n =>
            \E i, j \in DOMAIN flat : i < j /\ u[m] = flat[i] /\ u[n] = flat[j]
  BY <1>2, <1>7, UniqueIs
<1>9. ASSUME NEW g \in Group PROVE Lists(flat, g) <=> Reached(g)
  <2>1. ASSUME Lists(flat, g) PROVE Reached(g)
    <3>1. PICK j \in DOMAIN flat : flat[j] = g
      BY <2>1 DEF Lists
    <3>2. PICK i \in 1 .. Len(ss) : \E m \in DOMAIN ss[i] : flat[j] = ss[i][m]
      BY <1>7 DEF OnlyOf
    <3>3. Lists(Collect(roots[i]), g) /\ roots[i] \in Group
      BY <1>6, <3>1, <3>2 DEF Lists
    <3>4. Lists(roots, roots[i])
      BY <1>6, <3>2 DEF Lists
    <3>5. Root(roots[i])
      BY <1>1, <3>3, <3>4
    <3>6. QED
      BY <1>3, <1>4, <3>3, <3>5
  <2>2. ASSUME Reached(g) PROVE Lists(flat, g)
    <3>1. PICK r \in Above(g) :
            Root(r) /\ \A h \in Above(g) : r \in Above(h) => Active(config.status[h])
      BY <1>4, <2>2
    <3>2. r \in Group
      BY <1>5, AboveDef
    <3>3. Lists(Collect(r), g) /\ Lists(roots, r)
      BY <1>1, <1>3, <3>1, <3>2
    <3>4. PICK i \in 1 .. Len(ss) : roots[i] = r
      BY <1>6, <3>3 DEF Lists
    <3>5. PICK m \in DOMAIN ss[i] : ss[i][m] = g
      BY <1>6, <3>3, <3>4 DEF Lists
    <3>6. QED
      BY <1>7, <3>5 DEF AllOf, Lists
  <2>3. QED
    BY <2>1, <2>2
<1>10. ASSUME command.groups = <<>> PROVE GroupsOrdered(u)
  <2>1. SUFFICES ASSUME NEW i \in DOMAIN flat, NEW j \in DOMAIN flat, i < j
                 PROVE  Before(flat[i], flat[j])
    <3>1. SUFFICES ASSUME NEW m \in DOMAIN u, NEW n \in DOMAIN u, m < n
                   PROVE  Before(u[m], u[n])
      BY DEF GroupsOrdered
    <3>2. \E i, j \in DOMAIN flat : i < j /\ u[m] = flat[i] /\ u[n] = flat[j]
      BY <1>8, <3>1
    <3>3. QED
      BY <2>1, <3>2
  <2>2. PICK k \in 1 .. Len(ss), l \in 1 .. Len(ss) :
          \E m \in DOMAIN ss[k], o \in DOMAIN ss[l] :
              flat[i] = ss[k][m] /\ flat[j] = ss[l][o] /\ (k < l \/ (k = l /\ m < o))
    BY <1>7, <2>1 DEF InTurn
  <2>3. PICK m \in DOMAIN ss[k], o \in DOMAIN ss[l] :
              flat[i] = ss[k][m] /\ flat[j] = ss[l][o] /\ (k < l \/ (k = l /\ m < o))
    BY <2>2
  <2>4. /\ roots[k] \in Group /\ roots[l] \in Group
        /\ ss[k] = Collect(roots[k]) /\ ss[l] = Collect(roots[l])
    BY <1>6
  <2>5. CASE k = l
    <3>1. GroupsOrdered(ss[k])
      BY <1>3, <2>4
    <3>2. QED
      BY <2>3, <2>5, <3>1 DEF GroupsOrdered
  <2>6. CASE k < l
    <3>1. flat[i] \in Group /\ flat[j] \in Group
      BY <1>7
    <3>2. Lists(ss[k], flat[i]) /\ Lists(ss[l], flat[j])
      BY <2>3 DEF Lists
    <3>3. roots[k] \in Above(flat[i]) /\ roots[l] \in Above(flat[j])
      BY <1>3, <2>4, <3>1, <3>2
    <3>4. roots[k] # roots[l] /\ Lists(roots, roots[k]) /\ Lists(roots, roots[l])
      BY <1>1, <1>6, <1>10, <2>6 DEF Lists
    <3>5. config.parent[roots[k]] = NoParent /\ config.parent[roots[l]] = NoParent
      BY <1>1, <1>10, <2>4, <3>4 DEF Root
    <3>6. QED
      BY <1>5, <2>4, <3>1, <3>3, <3>4, <3>5, BeforeBranches
  <2>7. QED
    BY <2>3, <2>5, <2>6
<1>11. QED
  BY <1>8, <1>9, <1>10 DEF u

-----------------------------------------------------------------------------
(* What the files give to the groups and the targets. *)
LEMMA MergedIs ==
    ASSUME NEW A, NEW first \in Seq(A), NEW second \in Seq(A)
    PROVE  /\ Merged(first, second) \in Seq(A)
           /\ \A x : x \in ToSet(Merged(first, second)) <=>
                        x \in ToSet(first) \/ x \in ToSet(second)
<1> DEFINE positions == {i \in DOMAIN second : second[i] \notin ToSet(first)}
           p == Part(second, positions)
           m == Merged(first, second)
<1>1. positions \in SUBSET DOMAIN second
  OBVIOUS
<1>2. m = first \o p
  BY DEF Merged
<1>3. \A i \in DOMAIN second : i \in positions <=> second[i] \notin ToSet(first)
  OBVIOUS
<1> HIDE DEF positions
<1>4. /\ p \in Seq(A)
      /\ \A n \in DOMAIN p : InOrder(positions)[n] \in positions /\ p[n] = second[InOrder(positions)[n]]
      /\ \A i \in positions : \E n \in DOMAIN p : InOrder(positions)[n] = i
  BY <1>1, PartType
<1> HIDE DEF p, m
<1>5. /\ m \in Seq(A)
      /\ \A i \in DOMAIN m : (\E j \in DOMAIN first : m[i] = first[j])
                                 \/ (\E j \in DOMAIN p : m[i] = p[j])
      /\ \A j \in DOMAIN first : \E i \in DOMAIN m : m[i] = first[j]
      /\ \A j \in DOMAIN p : \E i \in DOMAIN m : m[i] = p[j]
  <2>1. /\ m \in Seq(A) /\ Len(first) \in Nat /\ Len(p) \in Nat
        /\ DOMAIN m = 1 .. Len(first) + Len(p)
        /\ DOMAIN first = 1 .. Len(first) /\ DOMAIN p = 1 .. Len(p)
    BY <1>2, <1>4
  <2>2. \A j \in DOMAIN first : j \in DOMAIN m /\ m[j] = first[j]
    BY <1>2, <1>4, <2>1
  <2>3. \A j \in DOMAIN p : Len(first) + j \in DOMAIN m /\ m[Len(first) + j] = p[j]
    BY <1>2, <1>4, <2>1
  <2>4. \A i \in DOMAIN m : i \in DOMAIN first \/ (i - Len(first) \in DOMAIN p /\ m[i] = p[i - Len(first)])
    BY <1>2, <1>4, <2>1
  <2>5. QED
    BY <2>1, <2>2, <2>3, <2>4
<1>6. \A j \in DOMAIN p : p[j] \in ToSet(second)
  BY <1>1, <1>4 DEF ToSet
<1>7. \A i \in DOMAIN second : second[i] \in ToSet(first) \/ \E j \in DOMAIN p : p[j] = second[i]
  BY <1>3, <1>4
<1>8. ASSUME NEW x PROVE x \in ToSet(m) <=> x \in ToSet(first) \/ x \in ToSet(second)
  <2>1. ASSUME x \in ToSet(m) PROVE x \in ToSet(first) \/ x \in ToSet(second)
    BY <1>5, <1>6, <2>1 DEF ToSet
  <2>2. ASSUME x \in ToSet(first) PROVE x \in ToSet(m)
    BY <1>5, <2>2 DEF ToSet
  <2>3. ASSUME x \in ToSet(second), x \notin ToSet(first) PROVE x \in ToSet(m)
    <3>1. PICK i \in DOMAIN second : second[i] = x
      BY <2>3 DEF ToSet
    <3>2. PICK j \in DOMAIN p : p[j] = x
      BY <1>7, <2>3, <3>1
    <3>3. QED
      BY <1>5, <3>2 DEF ToSet
  <2>4. QED
    BY <2>1, <2>2, <2>3
<1>9. QED
  BY <1>5, <1>8 DEF m

Inherited(parsed, g) ==
    IF config.parent[g] = NoParent THEN [labels |-> {}, configSets |-> <<>>]
    ELSE parsed[config.parent[g]]

ParsedFrom(parsed, g) ==
    [labels |-> config.labels[g] \union Inherited(parsed, g).labels,
     configSets |-> MergeConfigSetInstructions(config.configSets[g],
                                               Inherited(parsed, g).configSets)]

LEMMA ParsedGroupsDef ==
    ASSUME config \in Configs
    PROVE  \A g \in Group : ParsedGroups(config)[g] = ParsedFrom(ParsedGroups(config), g)
<1> DEFINE Agrees(f, n) == \A g \in Group : g < n => f[g] = ParsedFrom(f, g)
           Without == {n \in Nat : ~ \E f : Agrees(f, n)}
           Unfold(f) == [g \in Group |-> ParsedFrom(f, g)]
<1>1. ASSUME NEW f, NEW h, NEW g \in Group,
             config.parent[g] # NoParent => f[config.parent[g]] = h[config.parent[g]]
      PROVE  ParsedFrom(f, g) = ParsedFrom(h, g)
  <2>1. Inherited(f, g) = Inherited(h, g)
    BY <1>1, Zenon DEF Inherited
  <2>2. QED
    BY <2>1, Zenon DEF ParsedFrom
<1>2. Without = {}
  <2>1. SUFFICES ASSUME Without # {} PROVE FALSE
    OBVIOUS
  <2> HIDE DEF Agrees
  <2>2. PICK n \in Without : \A i \in Without : ~(i < n)
    <3>1. Without \subseteq Nat
      OBVIOUS
    <3>2. QED
      BY <2>1, <3>1, LeastMember, Zenon
  <2>3. n # 0
    <3>1. ASSUME n = 0 PROVE Agrees(config, n)
      BY <3>1, ParentOf DEF Agrees
    <3>2. QED
      BY <2>2, <3>1
  <2>4. n \in Nat /\ n - 1 \in Nat /\ n - 1 < n
    BY <2>2, <2>3
  <2>5. PICK f : Agrees(f, n - 1)
    BY <2>2, <2>4
  <2>6. Agrees(Unfold(f), n)
    <3> DEFINE h == Unfold(f)
    <3>1. SUFFICES ASSUME NEW g \in Group, g < n PROVE h[g] = ParsedFrom(h, g)
      BY DEF Agrees
    <3>2. h[g] = ParsedFrom(f, g)
      OBVIOUS
    <3>3. ASSUME config.parent[g] # NoParent PROVE h[config.parent[g]] = f[config.parent[g]]
      <4> DEFINE p == config.parent[g]
      <4>1. p \in Group /\ p < g /\ g \in Nat /\ p \in Nat
        BY <3>3, ParentOf
      <4> HIDE DEF p
      <4>2. p < n - 1
        BY <2>4, <3>1, <4>1
      <4>3. f[p] = ParsedFrom(f, p)
        BY <2>5, <4>1, <4>2 DEF Agrees
      <4>4. h[p] = f[p]
        BY <4>1, <4>3
      <4>5. QED
        BY <4>4 DEF p
    <3> HIDE DEF h
    <3>4. ParsedFrom(h, g) = ParsedFrom(f, g)
      BY <1>1, <3>3
    <3>5. QED
      BY <3>2, <3>4
  <2>7. QED
    BY <2>2, <2>6
<1>3. PICK f : \A g \in Group : f[g] = ParsedFrom(f, g)
  <2>1. NumGroups + 1 \in Nat /\ \A g \in Group : g < NumGroups + 1
    BY InputsAssumption DEF Group
  <2>2. PICK f : Agrees(f, NumGroups + 1)
    BY <1>2, <2>1
  <2>3. QED
    BY <2>1, <2>2
<1> HIDE DEF Agrees, Without
<1> DEFINE Fixed(h) == h = Unfold(h)
<1>4. Fixed(Unfold(f))
  <2> DEFINE h == Unfold(f)
  <2>1. \A g \in Group : h[g] = f[g]
    BY <1>3
  <2> HIDE DEF h
  <2>2. ASSUME NEW g \in Group PROVE ParsedFrom(h, g) = ParsedFrom(f, g)
    <3>1. config.parent[g] # NoParent => h[config.parent[g]] = f[config.parent[g]]
      BY <2>1, ParentOf
    <3>2. QED
      BY <1>1, <3>1
  <2>3. Unfold(h) = Unfold(f)
    BY <2>2
  <2>4. QED
    BY <2>3 DEF h
<1>5. ParsedGroups(config) = CHOOSE h : Fixed(h)
  BY DEF ParsedGroups, ParsedFrom, Inherited
<1> HIDE DEF Fixed
<1>6. Fixed(ParsedGroups(config))
  BY <1>4, <1>5
<1> DEFINE F == ParsedGroups(config)
<1> HIDE DEF F
<1>7. F = Unfold(F)
  BY <1>6 DEF Fixed, F
<1>8. \A g \in Group : F[g] = ParsedFrom(F, g)
  BY <1>7
<1>9. QED
  BY <1>8 DEF F

LEMMA ParsedGroupsAre ==
    ASSUME config \in Configs, NEW g \in Group
    PROVE  /\ \A label : label \in ParsedGroups(config)[g].labels <=>
                            \E h \in Above(g) : label \in config.labels[h]
           /\ ParsedGroups(config)[g].configSets \in Seq(ConfigSet)
           /\ \A cs : cs \in ToSet(ParsedGroups(config)[g].configSets) <=>
                         \E h \in Above(g) : cs \in ToSet(config.configSets[h])
<1> DEFINE P(k) == ParsedGroups(config)[k]
           OK(k) == /\ \A label : label \in P(k).labels <=>
                                     \E h \in Above(k) : label \in config.labels[h]
                    /\ P(k).configSets \in Seq(ConfigSet)
                    /\ \A cs : cs \in ToSet(P(k).configSets) <=>
                                  \E h \in Above(k) : cs \in ToSet(config.configSets[h])
           Wrong == {k \in Group : ~OK(k)}
<1>1. \A k \in Group : config.configSets[k] \in Seq(ConfigSet)
  <2>1. config.configSets \in [Group -> Seq(ConfigSet)]
    BY DEF Configs
  <2>2. QED
    BY <2>1
<1>2. ASSUME NEW k \in Group, config.parent[k] # NoParent => OK(config.parent[k])
      PROVE  OK(k)
  <2> DEFINE i == Inherited(ParsedGroups(config), k)
             Strictly(h) == config.parent[k] # NoParent /\ h \in Above(config.parent[k])
  <2>1. P(k) = ParsedFrom(ParsedGroups(config), k)
    BY ParsedGroupsDef
  <2>2. /\ \A label : label \in i.labels <=> \E h : Strictly(h) /\ label \in config.labels[h]
        /\ i.configSets \in Seq(ConfigSet)
        /\ \A cs : cs \in ToSet(i.configSets) <=>
                      \E h : Strictly(h) /\ cs \in ToSet(config.configSets[h])
    <3>1. CASE config.parent[k] = NoParent
      <4>1. i = [labels |-> {}, configSets |-> <<>>]
        BY <3>1 DEF Inherited
      <4> HIDE DEF i
      <4>2. i.labels = {} /\ i.configSets = <<>>
        BY <4>1
      <4>3. ToSet(i.configSets) = {} /\ i.configSets \in Seq(ConfigSet)
        BY <4>2 DEF ToSet
      <4>4. QED
        BY <3>1, <4>2, <4>3
    <3>2. CASE config.parent[k] # NoParent
      <4>1. i = P(config.parent[k])
        BY <3>2 DEF Inherited
      <4>2. OK(config.parent[k])
        BY <1>2, <3>2
      <4> HIDE DEF i, P
      <4>3. QED
        BY <3>2, <4>1, <4>2
    <3>3. QED
      BY <3>1, <3>2
  <2>3. \A h : h \in Above(k) <=> h = k \/ Strictly(h)
    BY AboveDef
  <2> HIDE DEF i, Strictly
  <2>4. /\ P(k).labels = config.labels[k] \union i.labels
        /\ P(k).configSets = Merged(config.configSets[k], i.configSets)
    BY <2>1 DEF ParsedFrom, MergeConfigSetInstructions, i
  <2> HIDE DEF P
  <2>5. \A label : label \in P(k).labels <=> \E h \in Above(k) : label \in config.labels[h]
    BY <2>2, <2>3, <2>4
  <2>6. /\ P(k).configSets \in Seq(ConfigSet)
        /\ \A cs : cs \in ToSet(P(k).configSets) <=>
                      cs \in ToSet(config.configSets[k]) \/ cs \in ToSet(i.configSets)
    BY <1>1, <2>2, <2>4, MergedIs
  <2>7. \A cs : cs \in ToSet(P(k).configSets) <=>
                   \E h \in Above(k) : cs \in ToSet(config.configSets[h])
    BY <2>2, <2>3, <2>6
  <2>8. QED
    BY <2>5, <2>6, <2>7
<1> HIDE DEF OK
<1>3. OK(g)
  <2>1. SUFFICES ASSUME Wrong # {} PROVE FALSE
    OBVIOUS
  <2>2. PICK k \in Wrong : \A j \in Wrong : ~(j < k)
    <3>1. Wrong \subseteq Nat
      BY ParentOf
    <3>2. QED
      BY <2>1, <3>1, LeastMember, Zenon
  <2>3. k \in Group /\ ~OK(k)
    BY <2>2
  <2>4. config.parent[k] # NoParent => OK(config.parent[k])
    BY <2>2, <2>3, ParentOf
  <2>5. QED
    BY <1>2, <2>3, <2>4
<1>4. QED
  BY <1>3 DEF OK

(* The items of a target, merged one after another. *)
NamedItems(t) ==
    Part(config.repositories,
         {i \in DOMAIN config.repositories : config.repositories[i].name = t})

MergeOf(named, merged, n) ==
    IF n = 1 THEN named[n] ELSE MergeTargets(merged[n - 1], named[n])

LEMMA ExternalTargetDef ==
    ASSUME NEW t, NamedItems(t) \in Seq(Items(Group \union {NotConfigured}))
    PROVE  \E merged :
               /\ \A n \in DOMAIN NamedItems(t) : merged[n] = MergeOf(NamedItems(t), merged, n)
               /\ ExternalTarget(config, t) = merged[Len(NamedItems(t))]
<1> DEFINE named == NamedItems(t)
           N == Len(named)
           Agrees(f, n) == \A i \in DOMAIN named : i < n => f[i] = MergeOf(named, f, i)
           Without == {n \in Nat : ~ \E f : Agrees(f, n)}
           Unfold(f) == [n \in DOMAIN named |-> MergeOf(named, f, n)]
<1>1. DOMAIN named = 1 .. N /\ N \in Nat
  OBVIOUS
<1> HIDE DEF named, N
<1>2. ASSUME NEW f, NEW h, NEW n, n # 1 => f[n - 1] = h[n - 1]
      PROVE  MergeOf(named, f, n) = MergeOf(named, h, n)
  BY <1>2, Zenon DEF MergeOf
<1>3. Without = {}
  <2>1. SUFFICES ASSUME Without # {} PROVE FALSE
    OBVIOUS
  <2> HIDE DEF Agrees
  <2>2. PICK n \in Without : \A i \in Without : ~(i < n)
    <3>1. Without \subseteq Nat
      OBVIOUS
    <3>2. QED
      BY <2>1, <3>1, LeastMember, Zenon
  <2>3. n # 0
    <3>1. ASSUME n = 0 PROVE Agrees(config, n)
      BY <1>1, <3>1 DEF Agrees
    <3>2. QED
      BY <2>2, <3>1
  <2>4. n \in Nat /\ n - 1 \in Nat /\ n - 1 < n
    BY <2>2, <2>3
  <2>5. PICK f : Agrees(f, n - 1)
    BY <2>2, <2>4
  <2>6. Agrees(Unfold(f), n)
    <3> DEFINE h == Unfold(f)
    <3>1. SUFFICES ASSUME NEW i \in DOMAIN named, i < n PROVE h[i] = MergeOf(named, h, i)
      BY DEF Agrees
    <3>2. h[i] = MergeOf(named, f, i)
      OBVIOUS
    <3>3. ASSUME i # 1 PROVE h[i - 1] = f[i - 1]
      <4>1. i - 1 \in DOMAIN named /\ i - 1 < n - 1
        BY <1>1, <2>4, <3>1, <3>3
      <4>2. f[i - 1] = MergeOf(named, f, i - 1)
        BY <2>5, <4>1 DEF Agrees
      <4>3. QED
        BY <4>1, <4>2
    <3> HIDE DEF h
    <3>4. QED
      BY <1>2, <3>2, <3>3
  <2>7. QED
    BY <2>2, <2>6
<1>4. PICK f : \A i \in DOMAIN named : f[i] = MergeOf(named, f, i)
  <2>1. N + 1 \in Nat /\ \A i \in DOMAIN named : i < N + 1
    BY <1>1
  <2>2. PICK f : Agrees(f, N + 1)
    BY <1>3, <2>1
  <2>3. QED
    BY <2>1, <2>2
<1> HIDE DEF Agrees, Without
<1> DEFINE Fixed(h) == h = Unfold(h)
<1>5. Fixed(Unfold(f))
  <2> DEFINE h == Unfold(f)
  <2>1. \A i \in DOMAIN named : h[i] = f[i]
    BY <1>4
  <2> HIDE DEF h
  <2>2. ASSUME NEW i \in DOMAIN named PROVE MergeOf(named, h, i) = MergeOf(named, f, i)
    <3>1. i # 1 => h[i - 1] = f[i - 1]
      BY <1>1, <2>1
    <3>2. QED
      BY <1>2, <3>1
  <2>3. Unfold(h) = Unfold(f)
    BY <2>2
  <2>4. QED
    BY <2>3 DEF h
<1> DEFINE F == CHOOSE h : Fixed(h)
<1>6. ExternalTarget(config, t) = F[Len(NamedItems(t))]
  BY DEF ExternalTarget, NamedItems, MergeOf, named
<1> HIDE DEF Fixed
<1>7. Fixed(F)
  BY <1>5
<1> HIDE DEF F
<1>8. \A n \in DOMAIN named : F[n] = MergeOf(named, F, n)
  <2>1. F = Unfold(F)
    BY <1>7 DEF Fixed
  <2>2. QED
    BY <2>1
<1>9. QED
  BY <1>6, <1>8 DEF named

(* What the last of the first n items that gives a status says. *)
DisabledBy(named, n) ==
    \E i \in 1 .. n : /\ named[i].status = "disabled"
                      /\ \A j \in i + 1 .. n : named[j].status = NotGiven

MergedOK(named, item, n) ==
    /\ item \in Items(Group \union {NotConfigured})
    /\ item.name = named[n].name
    /\ item.group = named[n].group
    /\ item.status = "disabled" <=> DisabledBy(named, n)
    /\ \A label : label \in item.labels <=> \E i \in 1 .. n : label \in named[i].labels
    /\ \A cs : cs \in ToSet(item.configSets) <=>
                  \E i \in 1 .. n : cs \in ToSet(named[i].configSets)

LEMMA MergedItems ==
    ASSUME NEW named \in Seq(Items(Group \union {NotConfigured})), NEW merged,
           \A n \in DOMAIN named : merged[n] = MergeOf(named, merged, n)
    PROVE  \A n \in DOMAIN named : MergedOK(named, merged[n], n)
<1> DEFINE OK(n) == MergedOK(named, merged[n], n)
           Wrong == {n \in DOMAIN named : ~OK(n)}
<1>1. /\ Len(named) \in Nat /\ DOMAIN named = 1 .. Len(named)
      /\ \A n \in DOMAIN named : named[n] \in Items(Group \union {NotConfigured})
  OBVIOUS
<1>2. ASSUME 1 \in DOMAIN named PROVE OK(1)
  <2>1. merged[1] = named[1]
    BY <1>2 DEF MergeOf
  <2>2. \A i \in 1 .. 1 : i = 1
    OBVIOUS
  <2>3. 1 \in 1 .. 1 /\ 1 + 1 .. 1 = {}
    OBVIOUS
  <2>4. named[1].status = "disabled" <=> DisabledBy(named, 1)
    BY <2>2, <2>3 DEF DisabledBy
  <2>5. QED
    BY <1>1, <1>2, <2>1, <2>2, <2>3, <2>4 DEF MergedOK
<1>3. ASSUME NEW n \in DOMAIN named, n # 1, OK(n - 1) PROVE OK(n)
  <2> DEFINE first == merged[n - 1]
             second == named[n]
             item == merged[n]
             cs == Merged(first.configSets, second.configSets)
             st == IF second.status = NotGiven THEN first.status ELSE second.status
  <2>1. first \in Items(Group \union {NotConfigured}) /\ second \in Items(Group \union {NotConfigured})
    BY <1>1, <1>3 DEF MergedOK
  <2>2. item = [second EXCEPT !.status = st, !.labels = first.labels \union second.labels,
                              !.configSets = cs]
    <3>1. item = MergeTargets(first, second)
      BY <1>3 DEF MergeOf
    <3> HIDE DEF item, first, second
    <3>2. QED
      BY <2>1, <3>1 DEF MergeTargets, Items
  <2>3. /\ second.name = named[n].name
        /\ second.configSets \in Seq(ConfigSet) /\ first.configSets \in Seq(ConfigSet)
        /\ MergedOK(named, first, n - 1)
    BY <1>3, <2>1 DEF Items
  <2> HIDE DEF first
  <2>4. cs \in Seq(ConfigSet) /\ \A x : x \in ToSet(cs) <=>
                                      x \in ToSet(first.configSets) \/ x \in ToSet(second.configSets)
    BY <2>3, MergedIs
  <2> HIDE DEF cs
  <2>5. st \in {"active", "disabled", NotGiven}
    BY <2>1 DEF Items
  <2> HIDE DEF st, second, item
  <2>6. /\ item \in Items(Group \union {NotConfigured})
        /\ item.name = second.name /\ item.group = second.group /\ item.status = st
        /\ item.labels = first.labels \union second.labels /\ item.configSets = cs
    BY <2>1, <2>2, <2>4, <2>5 DEF Items
  <2>7. n \in Nat /\ n > 1
    BY <1>1, <1>3
  <2>8. 1 .. n = (1 .. n - 1) \union {n}
    BY <2>7
  <2>9. st = "disabled" <=> DisabledBy(named, n)
    <3>1. CASE second.status = NotGiven
      <4>1. st = first.status /\ named[n].status = NotGiven /\ NotGiven # "disabled"
        BY <3>1 DEF st, second, NotGiven
      <4>2. \A i \in 1 .. n - 1 : (i + 1 .. n) = (i + 1 .. n - 1) \union {n}
        BY <2>7
      <4>3. DisabledBy(named, n) <=> DisabledBy(named, n - 1)
        <5>1. ASSUME DisabledBy(named, n) PROVE DisabledBy(named, n - 1)
          <6>1. PICK i \in 1 .. n : /\ named[i].status = "disabled"
                                    /\ \A j \in i + 1 .. n : named[j].status = NotGiven
            BY <5>1 DEF DisabledBy
          <6>2. i \in 1 .. n - 1
            BY <2>8, <4>1, <6>1
          <6>3. QED
            BY <4>2, <6>1, <6>2 DEF DisabledBy
        <5>2. ASSUME DisabledBy(named, n - 1) PROVE DisabledBy(named, n)
          <6>1. PICK i \in 1 .. n - 1 : /\ named[i].status = "disabled"
                                        /\ \A j \in i + 1 .. n - 1 : named[j].status = NotGiven
            BY <5>2 DEF DisabledBy
          <6>2. i \in 1 .. n /\ \A j \in i + 1 .. n : named[j].status = NotGiven
            BY <2>8, <4>1, <4>2, <6>1
          <6>3. QED
            BY <6>1, <6>2 DEF DisabledBy
        <5>3. QED
          BY <5>1, <5>2
      <4>4. QED
        BY <2>3, <4>1, <4>3 DEF MergedOK
    <3>2. CASE second.status # NotGiven
      <4>1. st = named[n].status /\ named[n].status # NotGiven
        BY <3>2 DEF st, second
      <4>2. n \in 1 .. n /\ n + 1 .. n = {} /\ \A i \in 1 .. n - 1 : n \in i + 1 .. n
        BY <2>7
      <4>3. ASSUME DisabledBy(named, n) PROVE named[n].status = "disabled"
        <5>1. PICK i \in 1 .. n : /\ named[i].status = "disabled"
                                  /\ \A j \in i + 1 .. n : named[j].status = NotGiven
          BY <4>3 DEF DisabledBy
        <5>2. i = n
          BY <2>8, <4>1, <4>2, <5>1
        <5>3. QED
          BY <5>1, <5>2
      <4>4. named[n].status = "disabled" => DisabledBy(named, n)
        BY <4>2 DEF DisabledBy
      <4>5. QED
        BY <4>1, <4>3, <4>4
    <3>3. QED
      BY <3>1, <3>2
  <2>10. \A label : label \in item.labels <=> \E i \in 1 .. n : label \in named[i].labels
    BY <2>3, <2>6, <2>8 DEF MergedOK, second
  <2>11. \A x : x \in ToSet(item.configSets) <=> \E i \in 1 .. n : x \in ToSet(named[i].configSets)
    BY <2>3, <2>4, <2>6, <2>8 DEF MergedOK, second
  <2>12. MergedOK(named, item, n)
    BY <2>3, <2>6, <2>9, <2>10, <2>11 DEF MergedOK, second
  <2>13. QED
    BY <2>12 DEF item
<1> HIDE DEF OK
<1>4. Wrong = {}
  <2>1. SUFFICES ASSUME Wrong # {} PROVE FALSE
    OBVIOUS
  <2>2. PICK n \in Wrong : \A i \in Wrong : ~(i < n)
    <3>1. Wrong \subseteq Nat
      BY <1>1
    <3>2. QED
      BY <2>1, <3>1, LeastMember, Zenon
  <2>3. n \in DOMAIN named /\ ~OK(n) /\ n # 1
    BY <1>2, <2>2
  <2>4. n - 1 \in DOMAIN named /\ n - 1 < n
    BY <1>1, <2>3
  <2>5. OK(n - 1)
    BY <2>2, <2>4
  <2>6. QED
    BY <1>3, <2>3, <2>5
<1>5. QED
  BY <1>4 DEF OK

(* An item is what the items at the positions come to. *)
ItemOK(item, items, positions) ==
    /\ \E last \in positions :
          (\A i \in positions : i <= last) /\ item.group = items[last].group
    /\ item.status = "disabled" <=>
          \E i \in positions : /\ items[i].status = "disabled"
                               /\ \A j \in positions : i < j => items[j].status = NotGiven
    /\ \A label : label \in item.labels <=> \E i \in positions : label \in items[i].labels
    /\ \A cs : cs \in ToSet(item.configSets) <=>
                  \E i \in positions : cs \in ToSet(items[i].configSets)

NamedAt(t) == {i \in DOMAIN config.repositories : config.repositories[i].name = t}

LEMMA ExternalTargetIs ==
    ASSUME config \in Configs, NEW t, NamedAt(t) # {}
    PROVE  /\ ExternalTarget(config, t) \in Items(Group \union {NotConfigured})
           /\ ExternalTarget(config, t).name = t
           /\ ItemOK(ExternalTarget(config, t), config.repositories, NamedAt(t))
<1> DEFINE repos == config.repositories
           R == NamedAt(t)
           named == NamedItems(t)
           at == InOrder(R)
           N == Len(named)
           item == ExternalTarget(config, t)
<1>1. repos \in Seq(Items(Group \union {NotConfigured})) /\ R \in SUBSET DOMAIN repos
  BY DEF Configs, NamedAt
<1>2. named = Part(repos, R)
  BY DEF NamedItems, NamedAt
<1>3. \A i \in R : repos[i].name = t /\ i \in Nat
  BY <1>1 DEF NamedAt
<1> HIDE DEF repos, R, named
<1>4. /\ named \in Seq(Items(Group \union {NotConfigured}))
      /\ DOMAIN named = 1 .. Cardinality(R) /\ Cardinality(R) \in Nat
      /\ \A n \in DOMAIN named : at[n] \in R /\ named[n] = repos[at[n]]
      /\ \A i \in R : \E n \in DOMAIN named : at[n] = i
      /\ \A m, n \in DOMAIN named : m < n => at[m] < at[n]
  BY <1>1, <1>2, PartType
<1> HIDE DEF at
<1>5. N \in DOMAIN named /\ DOMAIN named = 1 .. N /\ N \in Nat
  <2>1. DOMAIN named = 1 .. N /\ N \in Nat
    BY <1>4
  <2>2. DOMAIN named # {}
    BY <1>4 DEF R
  <2>3. QED
    BY <2>1, <2>2
<1>6. PICK merged : /\ \A n \in DOMAIN named : merged[n] = MergeOf(named, merged, n)
                    /\ item = merged[N]
  BY <1>4, ExternalTargetDef DEF named
<1>7. MergedOK(named, item, N)
  BY <1>4, <1>5, <1>6, MergedItems
<1> HIDE DEF item, N
<1>8. \A m, n \in DOMAIN named : m < n <=> at[m] < at[n]
  BY <1>3, <1>4
<1>9. item \in Items(Group \union {NotConfigured}) /\ item.name = t
  BY <1>3, <1>4, <1>5, <1>7 DEF MergedOK
<1>10. \E last \in R : (\A i \in R : i <= last) /\ item.group = repos[last].group
  <2>1. at[N] \in R /\ item.group = repos[at[N]].group
    BY <1>4, <1>5, <1>7 DEF MergedOK
  <2>2. ASSUME NEW i \in R PROVE i <= at[N]
    <3>1. PICK n \in DOMAIN named : at[n] = i
      BY <1>4
    <3>2. n = N \/ n < N
      BY <1>5
    <3>3. QED
      BY <1>3, <1>4, <1>5, <2>1, <3>1, <3>2
  <2>3. QED
    BY <2>1, <2>2
<1>11. item.status = "disabled" <=>
           \E i \in R : /\ repos[i].status = "disabled"
                        /\ \A j \in R : i < j => repos[j].status = NotGiven
  <2>1. ASSUME DisabledBy(named, N)
        PROVE  \E i \in R : /\ repos[i].status = "disabled"
                            /\ \A j \in R : i < j => repos[j].status = NotGiven
    <3>1. PICK n \in 1 .. N : /\ named[n].status = "disabled"
                              /\ \A m \in n + 1 .. N : named[m].status = NotGiven
      BY <2>1 DEF DisabledBy
    <3>2. at[n] \in R /\ repos[at[n]].status = "disabled"
      BY <1>4, <1>5, <3>1
    <3>3. ASSUME NEW j \in R, at[n] < j PROVE repos[j].status = NotGiven
      <4>1. PICK m \in DOMAIN named : at[m] = j
        BY <1>4
      <4>2. n < m
        BY <1>5, <1>8, <3>3, <4>1
      <4>3. m \in n + 1 .. N
        BY <1>5, <4>2
      <4>4. QED
        BY <1>4, <3>1, <4>1, <4>3
    <3>4. QED
      BY <3>2, <3>3
  <2>2. ASSUME NEW i \in R, repos[i].status = "disabled",
               \A j \in R : i < j => repos[j].status = NotGiven
        PROVE  DisabledBy(named, N)
    <3>1. PICK n \in DOMAIN named : at[n] = i
      BY <1>4
    <3>2. n \in 1 .. N /\ named[n].status = "disabled"
      BY <1>4, <1>5, <2>2, <3>1
    <3>3. ASSUME NEW m \in n + 1 .. N PROVE named[m].status = NotGiven
      <4>1. m \in DOMAIN named /\ n < m
        BY <1>5, <3>2
      <4>2. at[m] \in R /\ i < at[m]
        BY <1>4, <3>1, <4>1
      <4>3. QED
        BY <1>4, <2>2, <4>1, <4>2
    <3>4. QED
      BY <3>2, <3>3 DEF DisabledBy
  <2>3. QED
    BY <1>7, <2>1, <2>2 DEF MergedOK
<1>12. \A label : label \in item.labels <=> \E i \in R : label \in repos[i].labels
  BY <1>4, <1>5, <1>7 DEF MergedOK
<1>13. \A cs : cs \in ToSet(item.configSets) <=> \E i \in R : cs \in ToSet(repos[i].configSets)
  BY <1>4, <1>5, <1>7 DEF MergedOK
<1>14. QED
  BY <1>9, <1>10, <1>11, <1>12, <1>13 DEF ItemOK, item, repos, R

(* The item of a target, in a configuration without error. *)
LEMMA ItemIs ==
    ASSUME config \in Configs, ~ConfigError(config), NEW t
    PROVE  /\ Listings(t) # {} <=> \E item \in ItemsOf(config) : item.name = t
           /\ \A item \in ItemsOf(config) : item.name = t =>
                 /\ item.configSets \in Seq(ConfigSet)
                 /\ item.group \in Group
                 /\ t \in Target
                 /\ ItemOK(item, Listed, Listings(t))
<1> DEFINE files == config.targets
           repos == config.repositories
           F == Len(files)
<1>1. /\ files \in Seq(Items(Group)) /\ repos \in Seq(Items(Group \union {NotConfigured}))
      /\ F \in Nat /\ Len(repos) \in Nat
      /\ DOMAIN files = 1 .. F /\ DOMAIN repos = 1 .. Len(repos)
  BY DEF Configs
<1>2. Listed = files \o repos
  BY DEF Listed
<1> HIDE DEF files, repos
<1>3. /\ DOMAIN Listed = 1 .. F + Len(repos)
      /\ \A i \in DOMAIN files : i \in DOMAIN Listed /\ Listed[i] = files[i]
      /\ \A i \in DOMAIN repos : F + i \in DOMAIN Listed /\ Listed[F + i] = repos[i]
      /\ \A i \in DOMAIN Listed :
            i \in DOMAIN files \/ (i - F \in DOMAIN repos /\ Listed[i] = repos[i - F])
  <2>1. DOMAIN Listed = 1 .. F + Len(repos)
    BY <1>1, <1>2
  <2>2. \A i \in DOMAIN files : i \in DOMAIN Listed /\ Listed[i] = files[i]
    BY <1>1, <1>2, <2>1
  <2>3. \A i \in DOMAIN repos : F + i \in DOMAIN Listed /\ Listed[F + i] = repos[i]
    BY <1>1, <1>2, <2>1
  <2>4. \A i \in DOMAIN Listed :
            i \in DOMAIN files \/ (i - F \in DOMAIN repos /\ Listed[i] = repos[i - F])
    BY <1>1, <1>2, <2>1
  <2>5. QED
    BY <2>1, <2>2, <2>3, <2>4
<1> HIDE DEF F
<1>4. /\ \A item : item \in ItemsOf(config) <=>
            (\E i \in DOMAIN files : item = files[i]) \/ item \in ExternalTargets(config)
      /\ \A i \in NamedAt(t) : i \in DOMAIN repos /\ repos[i].name = t
      /\ \A i \in DOMAIN repos : repos[i].name = t => i \in NamedAt(t)
  BY DEF ItemsOf, ToSet, NamedAt, files, repos
<1>5. \A item \in ExternalTargets(config) :
          /\ item.name = t => NamedAt(t) # {} /\ item = ExternalTarget(config, t)
          /\ item.group # NotConfigured
  <2>1. SUFFICES ASSUME NEW item \in ExternalTargets(config)
                 PROVE  /\ item.name = t => NamedAt(t) # {} /\ item = ExternalTarget(config, t)
                        /\ item.group # NotConfigured
    OBVIOUS
  <2>2. PICK i \in DOMAIN repos : item = ExternalTarget(config, repos[i].name)
    BY <2>1 DEF ExternalTargets, ToSet, repos
  <2>3. NamedAt(repos[i].name) # {}
    BY <2>2 DEF NamedAt, repos
  <2>4. item.name = repos[i].name
    BY <2>2, <2>3, ExternalTargetIs
  <2>5. item.group # NotConfigured
    BY <2>1 DEF ConfigError, GroupNotConfigured
  <2>6. QED
    BY <2>2, <2>3, <2>4, <2>5
<1>6. ASSUME NamedAt(t) # {}
      PROVE  /\ ExternalTarget(config, t) \in ExternalTargets(config)
             /\ ExternalTarget(config, t).name = t
  <2>1. PICK i \in DOMAIN repos : repos[i].name = t
    BY <1>4, <1>6
  <2>2. ExternalTarget(config, t) \in ExternalTargets(config)
    BY <2>1 DEF ExternalTargets, ToSet, repos
  <2>3. QED
    BY <1>6, <2>2, ExternalTargetIs
<1>7. /\ \A i \in DOMAIN files, item \in ExternalTargets(config) : files[i].name # item.name
      /\ \A i, j \in DOMAIN files : files[i].name = files[j].name => i = j
  BY DEF ConfigError, NotUnique, ToSet, files
<1>8. Listings(t) # {} <=> \E item \in ItemsOf(config) : item.name = t
  <2>1. ASSUME NEW i \in Listings(t) PROVE \E item \in ItemsOf(config) : item.name = t
    <3>1. i \in DOMAIN Listed /\ Listed[i].name = t
      BY DEF Listings
    <3>2. CASE i \in DOMAIN files
      BY <1>3, <1>4, <3>1, <3>2
    <3>3. CASE i \notin DOMAIN files
      <4>1. i - F \in NamedAt(t)
        BY <1>3, <1>4, <3>1, <3>3
      <4>2. QED
        BY <1>4, <1>6, <4>1
    <3>4. QED
      BY <3>2, <3>3
  <2>2. ASSUME NEW item \in ItemsOf(config), item.name = t PROVE Listings(t) # {}
    <3>1. CASE \E i \in DOMAIN files : item = files[i]
      BY <1>3, <2>2, <3>1 DEF Listings
    <3>2. CASE item \in ExternalTargets(config)
      <4>1. PICK i \in DOMAIN repos : repos[i].name = t
        BY <1>4, <1>5, <2>2, <3>2
      <4>2. F + i \in Listings(t)
        BY <1>3, <4>1 DEF Listings
      <4>3. QED
        BY <4>2
    <3>3. QED
      BY <1>4, <3>1, <3>2
  <2>3. QED
    BY <2>1, <2>2
<1>9. ASSUME NEW item \in ItemsOf(config), item.name = t
      PROVE  /\ item.configSets \in Seq(ConfigSet)
             /\ item.group \in Group
             /\ t \in Target
             /\ ItemOK(item, Listed, Listings(t))
  <2>1. CASE \E i \in DOMAIN files : item = files[i]
    <3>1. PICK i \in DOMAIN files : item = files[i]
      BY <2>1
    <3>2. item \in Items(Group)
      BY <1>1, <3>1
    <3>3. NamedAt(t) = {}
      BY <1>6, <1>7, <1>9, <3>1
    <3>4. Listings(t) = {i} /\ Listed[i] = item
      <4>1. i \in Listings(t) /\ Listed[i] = item
        BY <1>3, <1>9, <3>1 DEF Listings
      <4>2. ASSUME NEW j \in Listings(t) PROVE j = i
        <5>1. j \in DOMAIN Listed /\ Listed[j].name = t
          BY DEF Listings
        <5>2. j \in DOMAIN files
          BY <1>3, <1>4, <3>3, <5>1
        <5>3. QED
          BY <1>3, <1>7, <1>9, <3>1, <5>1, <5>2
      <4>3. QED
        BY <4>1, <4>2
    <3>5. i \in Nat
      BY <1>1
    <3>6. ItemOK(item, Listed, {i})
      BY <3>4, <3>5 DEF ItemOK
    <3>7. item.configSets \in Seq(ConfigSet) /\ item.group \in Group /\ item.name \in Target
      BY <3>2 DEF Items
    <3>8. QED
      BY <1>9, <3>4, <3>6, <3>7
  <2>2. CASE item \in ExternalTargets(config)
    <3>1. NamedAt(t) # {} /\ item = ExternalTarget(config, t) /\ item.group # NotConfigured
      BY <1>5, <1>9, <2>2
    <3>2. item \in Items(Group \union {NotConfigured}) /\ ItemOK(item, repos, NamedAt(t))
      BY <3>1, ExternalTargetIs DEF repos
    <3>3. item.configSets \in Seq(ConfigSet) /\ item.group \in Group /\ item.name \in Target
      BY <3>1, <3>2 DEF Items
    <3>4. \A i \in NamedAt(t) : F + i \in Listings(t) /\ Listed[F + i] = repos[i]
      BY <1>3, <1>4 DEF Listings
    <3>5. ASSUME NEW j \in Listings(t) PROVE \E i \in NamedAt(t) : j = F + i
      <4>1. j \in DOMAIN Listed /\ Listed[j].name = t
        BY DEF Listings
      <4>2. j \notin DOMAIN files
        BY <1>3, <1>7, <1>9, <2>2, <4>1
      <4>3. j - F \in NamedAt(t)
        BY <1>3, <1>4, <4>1, <4>2
      <4>4. j = F + (j - F)
        BY <1>1, <1>3, <4>1 DEF F
      <4>5. QED
        BY <4>3, <4>4
    <3>6. F \in Nat /\ \A i \in NamedAt(t) : i \in Nat
      BY <1>1, <1>4 DEF F
    <3>7. ItemOK(item, Listed, Listings(t))
      <4>1. \E last \in Listings(t) :
                (\A i \in Listings(t) : i <= last) /\ item.group = Listed[last].group
        <5>1. PICK last \in NamedAt(t) :
                (\A i \in NamedAt(t) : i <= last) /\ item.group = repos[last].group
          BY <3>2 DEF ItemOK
        <5>2. \A i \in Listings(t) : i <= F + last
          BY <3>5, <3>6, <5>1
        <5>3. QED
          BY <3>4, <5>1, <5>2
      <4>2. item.status = "disabled" <=>
                \E i \in Listings(t) : /\ Listed[i].status = "disabled"
                                       /\ \A j \in Listings(t) : i < j => Listed[j].status = NotGiven
        <5>1. ASSUME NEW i \in NamedAt(t), repos[i].status = "disabled",
                     \A j \in NamedAt(t) : i < j => repos[j].status = NotGiven
              PROVE  \E k \in Listings(t) : /\ Listed[k].status = "disabled"
                         /\ \A j \in Listings(t) : k < j => Listed[j].status = NotGiven
          <6>1. \A j \in Listings(t) : F + i < j => Listed[j].status = NotGiven
            BY <3>4, <3>5, <3>6, <5>1
          <6>2. QED
            BY <3>4, <5>1, <6>1
        <5>2. ASSUME NEW k \in Listings(t), Listed[k].status = "disabled",
                     \A j \in Listings(t) : k < j => Listed[j].status = NotGiven
              PROVE  \E i \in NamedAt(t) : /\ repos[i].status = "disabled"
                         /\ \A j \in NamedAt(t) : i < j => repos[j].status = NotGiven
          <6>1. PICK i \in NamedAt(t) : k = F + i
            BY <3>5
          <6>2. \A j \in NamedAt(t) : i < j => repos[j].status = NotGiven
            BY <3>4, <3>6, <5>2, <6>1
          <6>3. QED
            BY <3>4, <5>2, <6>1, <6>2
        <5>3. QED
          BY <3>2, <5>1, <5>2 DEF ItemOK
      <4>3. \A label : label \in item.labels <=>
                          \E i \in Listings(t) : label \in Listed[i].labels
        BY <3>2, <3>4, <3>5 DEF ItemOK
      <4>4. \A cs : cs \in ToSet(item.configSets) <=>
                       \E i \in Listings(t) : cs \in ToSet(Listed[i].configSets)
        BY <3>2, <3>4, <3>5 DEF ItemOK
      <4>5. QED
        BY <4>1, <4>2, <4>3, <4>4 DEF ItemOK
    <3>8. QED
      BY <1>9, <3>3, <3>7
  <2>3. QED
    BY <1>4, <2>1, <2>2
<1>10. QED
  BY <1>8, <1>9

(* What a target of the file or of the repositories comes to. *)
LEMMA ListedAs ==
    ASSUME config \in Configs, ~ConfigError(config), NEW t, NEW item \in ItemsOf(config), item.name = t
    PROVE  /\ t \in Target /\ HomeOf(t) = item.group /\ item.group \in Group
           /\ item.configSets \in Seq(ConfigSet)
           /\ item.status = "disabled" <=> Disabled(t)
           /\ \A label : Has(t, label) <=>
                 \/ label \in item.labels
                 \/ \E g \in Above(item.group) : label \in config.labels[g]
           /\ \A cs : Uses(t, cs) <=>
                 \/ cs \in ToSet(item.configSets)
                 \/ \E g \in Above(item.group) : cs \in ToSet(config.configSets[g])
<1>1. /\ item.configSets \in Seq(ConfigSet) /\ item.group \in Group /\ t \in Target
      /\ ItemOK(item, Listed, Listings(t))
  BY ItemIs
<1>2. Listings(t) \subseteq Nat
  <2> DEFINE files == Len(config.targets)
             repos == Len(config.repositories)
  <2>1. /\ config.targets \in Seq(Items(Group))
        /\ config.repositories \in Seq(Items(Group \union {NotConfigured}))
    BY DEF Configs
  <2>2. DOMAIN Listed = 1 .. files + repos
    BY <2>1 DEF Listed
  <2>3. files \in Nat /\ repos \in Nat
    BY <2>1
  <2> HIDE DEF files, repos
  <2>4. DOMAIN Listed \subseteq Nat
    BY <2>2, <2>3
  <2>5. QED
    BY <2>4 DEF Listings
<1>3. PICK last \in Listings(t) :
        (\A i \in Listings(t) : i <= last) /\ item.group = Listed[last].group
  BY <1>1 DEF ItemOK
<1>4. LastListing(t) = last
  <2>1. ASSUME NEW i \in Listings(t), \A j \in Listings(t) : j <= i PROVE i = last
    BY <1>2, <1>3, <2>1
  <2>2. QED
    BY <1>3, <2>1 DEF LastListing
<1>5. HomeOf(t) = item.group
  BY <1>3, <1>4 DEF HomeOf
<1>6. item.status = "disabled" <=> Disabled(t)
  BY <1>1 DEF ItemOK, Disabled
<1>7. /\ \A label : label \in item.labels <=> \E i \in Listings(t) : label \in Listed[i].labels
      /\ \A cs : cs \in ToSet(item.configSets) <=>
                    \E i \in Listings(t) : cs \in ToSet(Listed[i].configSets)
  BY <1>1 DEF ItemOK
<1>8. QED
  BY <1>1, <1>5, <1>6, <1>7 DEF Has, Uses

(* What the planning reads is what the files come to. *)
ProjectOK ==
    /\ Hierarchy
    /\ \A g \in Group : project.targets[g] = {t \in Target : Listings(t) # {} /\ HomeOf(t) = g}
    /\ \A t \in Target : Listings(t) # {} =>
          /\ HomeOf(t) \in Group
          /\ project.enabled[t] <=> ~Disabled(t)
          /\ \A label : label \in project.labels[t] <=> Has(t, label)
          /\ project.configSets[t] \in Seq(ConfigSet)
          /\ \A cs : cs \in ToSet(project.configSets[t]) <=> Uses(t, cs)
    /\ \A cs \in DOMAIN project.commandPaths : project.commandPaths[cs] \in Nat

LEMMA ProjectIs ==
    ASSUME config \in Configs, ~ConfigError(config), project = BuildDeploymentConfig(config)
    PROVE  ProjectOK
<1> DEFINE items == ItemsOf(config)
           groups == ParsedGroups(config)
           ItemOf(t) == CHOOSE item \in items : item.name = t
           listed == {item.name : item \in items}
<1>1. /\ project.parent = config.parent /\ project.rank = config.rank
      /\ project.active = [g \in Group |-> Active(config.status[g])]
      /\ project.targets = [g \in Group |-> {t \in listed : ItemOf(t).group = g}]
      /\ project.enabled = [t \in listed |-> Active(ItemOf(t).status)]
      /\ project.labels = [t \in listed |-> ItemOf(t).labels \union groups[ItemOf(t).group].labels]
      /\ project.configSets = [t \in listed |->
                                  MergeConfigSetInstructions(ItemOf(t).configSets,
                                                             groups[ItemOf(t).group].configSets)]
      /\ project.commandPaths = CommandPaths(config)
  BY DEF BuildDeploymentConfig
<1>2. \A t : t \in listed <=> \E item \in items : item.name = t
  OBVIOUS
<1>3. \A t \in listed : ItemOf(t) \in items /\ ItemOf(t).name = t
  BY <1>2
<1> HIDE DEF items, listed, ItemOf
<1>4. ASSUME NEW t \in listed
      PROVE  /\ t \in Target /\ Listings(t) # {}
             /\ HomeOf(t) = ItemOf(t).group /\ HomeOf(t) \in Group
             /\ ItemOf(t).configSets \in Seq(ConfigSet)
             /\ ItemOf(t).status = "disabled" <=> Disabled(t)
             /\ \A label : Has(t, label) <=>
                   label \in ItemOf(t).labels \/ \E g \in Above(HomeOf(t)) : label \in config.labels[g]
             /\ \A cs : Uses(t, cs) <=>
                   \/ cs \in ToSet(ItemOf(t).configSets)
                   \/ \E g \in Above(HomeOf(t)) : cs \in ToSet(config.configSets[g])
  <2>1. ItemOf(t) \in ItemsOf(config) /\ ItemOf(t).name = t
    BY <1>3 DEF items
  <2>2. Listings(t) # {}
    BY <2>1, ItemIs
  <2>3. QED
    BY <2>1, <2>2, ListedAs
<1>5. \A t : Listings(t) # {} => t \in listed
  BY <1>2, ItemIs DEF items
<1>6. Hierarchy
  BY <1>1 DEF Hierarchy
<1>7. ASSUME NEW g \in Group
      PROVE  project.targets[g] = {t \in Target : Listings(t) # {} /\ HomeOf(t) = g}
  BY <1>1, <1>4, <1>5
<1>8. ASSUME NEW t \in Target, Listings(t) # {}
      PROVE  /\ HomeOf(t) \in Group
             /\ project.enabled[t] <=> ~Disabled(t)
             /\ \A label : label \in project.labels[t] <=> Has(t, label)
             /\ project.configSets[t] \in Seq(ConfigSet)
             /\ \A cs : cs \in ToSet(project.configSets[t]) <=> Uses(t, cs)
  <2> DEFINE g == HomeOf(t)
  <2>1. t \in listed /\ g \in Group /\ ItemOf(t).group = g /\ ItemOf(t).configSets \in Seq(ConfigSet)
    BY <1>4, <1>5, <1>8
  <2>2. project.enabled[t] <=> ~Disabled(t)
    <3>1. project.enabled[t] = (ItemOf(t).status # "disabled")
      BY <1>1, <2>1 DEF Active
    <3>2. QED
      BY <1>4, <2>1, <3>1, Zenon
  <2>3. /\ \A label : label \in groups[g].labels <=> \E h \in Above(g) : label \in config.labels[h]
        /\ groups[g].configSets \in Seq(ConfigSet)
        /\ \A cs : cs \in ToSet(groups[g].configSets) <=>
                      \E h \in Above(g) : cs \in ToSet(config.configSets[h])
    BY <2>1, ParsedGroupsAre
  <2> HIDE DEF groups
  <2>4. project.labels[t] = ItemOf(t).labels \union groups[g].labels
    BY <1>1, <2>1
  <2>5. project.configSets[t] = Merged(ItemOf(t).configSets, groups[g].configSets)
    BY <1>1, <2>1 DEF MergeConfigSetInstructions
  <2>6. \A label : label \in project.labels[t] <=> Has(t, label)
    BY <1>4, <2>1, <2>3, <2>4
  <2>7. /\ project.configSets[t] \in Seq(ConfigSet)
        /\ \A cs : cs \in ToSet(project.configSets[t]) <=>
                 cs \in ToSet(ItemOf(t).configSets) \/ cs \in ToSet(groups[g].configSets)
    BY <2>1, <2>3, <2>5, MergedIs
  <2>8. \A cs : cs \in ToSet(project.configSets[t]) <=> Uses(t, cs)
    BY <1>4, <2>1, <2>3, <2>7
  <2>9. QED
    BY <2>1, <2>2, <2>6, <2>7, <2>8
<1>9. \A cs \in DOMAIN project.commandPaths : project.commandPaths[cs] \in Nat
  <2>1. config.commandPaths \in [ConfigSet -> Nat \union {NotDefined}]
    BY DEF Configs
  <2>2. QED
    BY <1>1, <2>1 DEF CommandPaths
<1>10. QED
  BY <1>6, <1>7, <1>8, <1>9 DEF ProjectOK


-----------------------------------------------------------------------------
(* The targets selected of a group. *)
LEMMA ChosenAre ==
    ASSUME ProjectOK, NEW t \in Target, Listings(t) # {}
    PROVE  /\ ChosenConfigSets(project, command, t) \in Seq(ConfigSet)
           /\ \A cs : cs \in ToSet(ChosenConfigSets(project, command, t)) <=>
                 Uses(t, cs) /\ command.configSetName \in {NotGiven, cs}
<1> DEFINE names == project.configSets[t]
           positions == {i \in DOMAIN names : command.configSetName \in {NotGiven, names[i]}}
           chosen == ChosenConfigSets(project, command, t)
<1>1. names \in Seq(ConfigSet) /\ \A cs : cs \in ToSet(names) <=> Uses(t, cs)
  BY DEF ProjectOK
<1>2. chosen = Part(names, positions)
  BY DEF ChosenConfigSets
<1>3. /\ positions \in SUBSET DOMAIN names
      /\ \A i \in DOMAIN names : i \in positions <=> command.configSetName \in {NotGiven, names[i]}
  OBVIOUS
<1> HIDE DEF names, positions, chosen
<1>4. /\ chosen \in Seq(ConfigSet)
      /\ \A n \in DOMAIN chosen :
            InOrder(positions)[n] \in positions /\ chosen[n] = names[InOrder(positions)[n]]
      /\ \A i \in positions : \E n \in DOMAIN chosen : InOrder(positions)[n] = i
  BY <1>1, <1>2, <1>3, PartType
<1>5. ASSUME NEW cs
      PROVE  cs \in ToSet(chosen) <=>
                 cs \in ToSet(names) /\ command.configSetName \in {NotGiven, cs}
  <2>1. ASSUME NEW n \in DOMAIN chosen, chosen[n] = cs
        PROVE  cs \in ToSet(names) /\ command.configSetName \in {NotGiven, cs}
    BY <1>3, <1>4, <2>1 DEF ToSet
  <2>2. ASSUME NEW i \in DOMAIN names, names[i] = cs, command.configSetName \in {NotGiven, cs}
        PROVE  \E n \in DOMAIN chosen : chosen[n] = cs
    BY <1>3, <1>4, <2>2
  <2>3. QED
    BY <2>1, <2>2 DEF ToSet
<1>6. QED
  BY <1>1, <1>4, <1>5 DEF chosen

LEMMA SelectedTargetsAre ==
    ASSUME ProjectOK, command \in Commands, NEW g \in Group
    PROVE  /\ SelectedTargets(project, command, g) \in Seq(Target)
           /\ \A t : t \in ToSet(SelectedTargets(project, command, g)) <=>
                 t \in Target /\ Listings(t) # {} /\ HomeOf(t) = g /\ Wanted(t)
           /\ \A m, n \in DOMAIN SelectedTargets(project, command, g) : m < n =>
                 SelectedTargets(project, command, g)[m] < SelectedTargets(project, command, g)[n]
<1> DEFINE Selects(t) ==
               /\ project.enabled[t]
               /\ ConfigSetsMatch(project, command, t)
               /\ TargetNameMatches(command, t)
               /\ LabelMatches(project, command, t)
               /\ command.kind = "run" \/ ChosenConfigSets(project, command, t) # <<>>
           S == {t \in project.targets[g] : Selects(t)}
           ts == SelectedTargets(project, command, g)
<1>1. ts = InOrder(S)
  BY DEF SelectedTargets
<1>2. project.targets[g] = {t \in Target : Listings(t) # {} /\ HomeOf(t) = g}
  BY DEF ProjectOK
<1>3. ASSUME NEW t \in Target, Listings(t) # {}
      PROVE  Selects(t) <=> Wanted(t)
  <2> DEFINE names == project.configSets[t]
  <2>1. /\ project.enabled[t] <=> ~Disabled(t)
        /\ \A label : label \in project.labels[t] <=> Has(t, label)
        /\ \A cs : cs \in ToSet(names) <=> Uses(t, cs)
        /\ names \in Seq(ConfigSet)
    BY <1>3 DEF ProjectOK
  <2>2. TargetNameMatches(command, t) <=>
            /\ command.targets # {} => \E pattern \in command.targets : t \in pattern
            /\ \A pattern \in command.excludeTargets : t \notin pattern
    BY DEF TargetNameMatches
  <2>3. LabelMatches(project, command, t) <=>
            /\ command.labels # {} => \E label \in command.labels : Has(t, label)
            /\ \A label \in command.excludeLabels : ~Has(t, label)
    BY <2>1 DEF LabelMatches
  <2> DEFINE Chosen == \E cs \in ConfigSet : Uses(t, cs) /\ command.configSetName \in {NotGiven, cs}
  <2>4. \A cs \in ToSet(names) : cs \in ConfigSet
    BY <2>1 DEF ToSet
  <2>5. ConfigSetsMatch(project, command, t) <=> command.kind = "run" \/ Chosen
    BY <2>1, <2>4 DEF ConfigSetsMatch, ConfigSetNames
  <2>6. ChosenConfigSets(project, command, t) # <<>> <=> Chosen
    <3> DEFINE chosen == ChosenConfigSets(project, command, t)
    <3>1. /\ chosen \in Seq(ConfigSet)
          /\ \A cs : cs \in ToSet(chosen) <=> Uses(t, cs) /\ command.configSetName \in {NotGiven, cs}
      BY <1>3, ChosenAre
    <3> HIDE DEF chosen
    <3>2. chosen = <<>> <=> ToSet(chosen) = {}
      BY <3>1 DEF ToSet
    <3>3. \A cs \in ToSet(chosen) : cs \in ConfigSet
      BY <3>1 DEF ToSet
    <3>4. QED
      BY <3>1, <3>2, <3>3 DEF chosen
  <2> HIDE DEF Chosen
  <2>7. QED
    BY <2>1, <2>2, <2>3, <2>5, <2>6 DEF Wanted, Chosen
<1> HIDE DEF Selects
<1>4. \A t : t \in S <=> t \in Target /\ Listings(t) # {} /\ HomeOf(t) = g /\ Wanted(t)
  BY <1>2, <1>3
<1>5. S \in SUBSET (1 .. NumTargets) /\ NumTargets \in Nat /\ S \subseteq Target
  BY <1>4, InputsAssumption DEF Target
<1> HIDE DEF S, ts
<1>6. /\ Cardinality(S) \in Nat
      /\ ts \in [1 .. Cardinality(S) -> S]
      /\ \A i, j \in 1 .. Cardinality(S) : i < j => ts[i] < ts[j]
      /\ \A s \in S : \E i \in 1 .. Cardinality(S) : ts[i] = s
  BY <1>1, <1>5, InOrderType
<1>7. ts \in Seq(Target) /\ DOMAIN ts = 1 .. Cardinality(S)
  <2>1. ts \in [1 .. Cardinality(S) -> Target]
    BY <1>5, <1>6
  <2>2. QED
    BY <1>6, <2>1
<1>8. \A t : t \in ToSet(ts) <=> t \in S
  BY <1>6, <1>7 DEF ToSet
<1>9. QED
  BY <1>4, <1>6, <1>7, <1>8 DEF ts

(* The groups of the plan. *)
LEMMA SelectedGroupsAre ==
    ASSUME ProjectOK, command \in Commands, ~SelectionError(project, command)
    PROVE  LET groups == SelectedGroups(project, command)
           IN  /\ groups \in Seq([group : Group, targets : Seq(Target)])
               /\ \A i \in DOMAIN groups :
                     /\ groups[i].group \in Group /\ Reached(groups[i].group)
                     /\ groups[i].targets = SelectedTargets(project, command, groups[i].group)
                     /\ groups[i].targets # <<>>
               /\ \A i, j \in DOMAIN groups : groups[i].group = groups[j].group => i = j
               /\ \A g \in Group : Reached(g) /\ SelectedTargets(project, command, g) # <<>> =>
                     \E i \in DOMAIN groups : groups[i].group = g
               /\ command.groups = <<>> => \A i, j \in DOMAIN groups :
                     i < j => Before(groups[i].group, groups[j].group)
<1> DEFINE f == FlattenedGroups(project, command)
           Ts(g) == SelectedTargets(project, command, g)
           positions == {i \in DOMAIN f : Ts(f[i]) # <<>>}
           p == Part(f, positions)
           groups == SelectedGroups(project, command)
<1>1. /\ f \in Seq(Group)
      /\ \A g \in Group : Lists(f, g) <=> Reached(g)
      /\ \A i, j \in DOMAIN f : f[i] = f[j] => i = j
      /\ command.groups = <<>> => GroupsOrdered(f)
  BY FlattenedAre DEF ProjectOK
<1>2. \A g \in Group : Ts(g) \in Seq(Target)
  BY SelectedTargetsAre
<1>3. groups = [i \in DOMAIN p |-> [group |-> p[i], targets |-> Ts(p[i])]]
  BY DEF SelectedGroups
<1>4. /\ positions \in SUBSET DOMAIN f
      /\ \A i \in DOMAIN f : i \in positions <=> Ts(f[i]) # <<>>
  OBVIOUS
<1> HIDE DEF f, Ts, positions, groups
<1>5. /\ p \in Seq(Group)
      /\ \A n \in DOMAIN p : InOrder(positions)[n] \in positions /\ p[n] = f[InOrder(positions)[n]]
      /\ \A i \in positions : \E n \in DOMAIN p : InOrder(positions)[n] = i
      /\ \A m, n \in DOMAIN p : m < n => InOrder(positions)[m] < InOrder(positions)[n]
      /\ \A m, n \in DOMAIN p : InOrder(positions)[m] = InOrder(positions)[n] => m = n
  BY <1>1, <1>4, PartType
<1> HIDE DEF p
<1>6. \A i \in DOMAIN p : p[i] \in Group /\ Lists(f, p[i]) /\ Ts(p[i]) # <<>>
  <2>1. \A i \in DOMAIN p : p[i] \in Group
    BY <1>5
  <2>2. QED
    BY <1>4, <1>5, <2>1 DEF Lists
<1>7. /\ DOMAIN groups = DOMAIN p
      /\ \A i \in DOMAIN p : groups[i].group = p[i] /\ groups[i].targets = Ts(p[i])
  BY <1>3
<1>8. groups \in Seq([group : Group, targets : Seq(Target)])
  <2> DEFINE Entries == [group : Group, targets : Seq(Target)]
  <2>1. DOMAIN p = 1 .. Len(p) /\ Len(p) \in Nat
    BY <1>5
  <2>2. \A i \in DOMAIN p : [group |-> p[i], targets |-> Ts(p[i])] \in Entries
    BY <1>2, <1>6
  <2> HIDE DEF Entries
  <2>3. groups \in [1 .. Len(p) -> Entries]
    BY <1>3, <2>1, <2>2
  <2>4. groups \in Seq(Entries)
    BY <2>1, <2>3
  <2>5. QED
    BY <2>4 DEF Entries
<1>9. \A i \in DOMAIN groups :
          /\ groups[i].group \in Group /\ Reached(groups[i].group)
          /\ groups[i].targets = Ts(groups[i].group) /\ groups[i].targets # <<>>
  BY <1>1, <1>6, <1>7
<1>10. \A i, j \in DOMAIN groups : groups[i].group = groups[j].group => i = j
  BY <1>1, <1>4, <1>5, <1>7
<1>11. ASSUME NEW g \in Group, Reached(g), Ts(g) # <<>>
       PROVE  \E i \in DOMAIN groups : groups[i].group = g
  <2>1. PICK i \in DOMAIN f : f[i] = g
    BY <1>1, <1>11 DEF Lists
  <2>2. PICK n \in DOMAIN p : InOrder(positions)[n] = i
    BY <1>4, <1>5, <1>11, <2>1
  <2>3. QED
    BY <1>5, <1>7, <2>1, <2>2
<1>12. ASSUME command.groups = <<>>, NEW i \in DOMAIN groups, NEW j \in DOMAIN groups, i < j
       PROVE  Before(groups[i].group, groups[j].group)
  <2>1. Before(p[i], p[j])
    BY <1>1, <1>4, <1>5, <1>7, <1>12 DEF GroupsOrdered
  <2>2. QED
    BY <1>7, <1>12, <2>1
<1>13. QED
  BY <1>8, <1>9, <1>10, <1>11, <1>12 DEF groups, Ts

-----------------------------------------------------------------------------
(* The plan. *)
LEMMA InputsAre == Init => config \in Configs /\ command \in Commands
  BY InputsAssumption DEF Init

(* The number of the command paths of a target of the plan is known. *)
LEMMA WorkKnown ==
    ASSUME ProjectOK, NEW t \in Target, Listings(t) # {},
           \/ command.kind = "run"
           \/ ToSet(ChosenConfigSets(project, command, t)) \subseteq DOMAIN project.commandPaths
    PROVE  Work(t) \in Seq(Nat)
<1>1. CASE command.kind = "run"
  <2>1. Work(t) = <<1>>
    BY <1>1 DEF Work, ConfigSetsToExecute
  <2>2. QED
    BY <2>1
<1>2. CASE command.kind # "run"
  <2> DEFINE chosen == ChosenConfigSets(project, command, t)
             Paths(cs) == IF command.commandPath THEN 1 ELSE project.commandPaths[cs]
  <2>1. chosen \in Seq(ConfigSet)
    BY ChosenAre
  <2>2. \A i \in DOMAIN chosen : Paths(chosen[i]) \in Nat
    BY <1>2 DEF ProjectOK, ToSet
  <2>3. Work(t) = [i \in DOMAIN chosen |-> Paths(chosen[i])]
    BY <1>2 DEF Work, ConfigSetsToExecute
  <2> HIDE DEF chosen, Paths
  <2>4. QED
    BY <2>1, <2>2, <2>3
<1>3. QED
  BY <1>1, <1>2

LEMMA PlanIs ==
    ASSUME ProjectOK, command \in Commands, ~PlanError(project, command),
           plan = SelectedGroups(project, command)
    PROVE  PlanOK /\ Selection
<1> DEFINE Ts(g) == SelectedTargets(project, command, g)
<1>1. ~SelectionError(project, command) /\ ~UndefinedConfigSet(project, command)
  BY DEF PlanError
<1>2. /\ plan \in Seq([group : Group, targets : Seq(Target)])
      /\ \A i \in DOMAIN plan :
            /\ plan[i].group \in Group /\ Reached(plan[i].group)
            /\ plan[i].targets = Ts(plan[i].group)
            /\ plan[i].targets # <<>>
      /\ \A i, j \in DOMAIN plan : plan[i].group = plan[j].group => i = j
      /\ \A g \in Group : Reached(g) /\ Ts(g) # <<>> => \E i \in DOMAIN plan : plan[i].group = g
      /\ command.groups = <<>> => \A i, j \in DOMAIN plan :
            i < j => Before(plan[i].group, plan[j].group)
  BY <1>1, SelectedGroupsAre
<1>3. \A g \in Group :
          /\ Ts(g) \in Seq(Target)
          /\ \A t : t \in ToSet(Ts(g)) <=>
                t \in Target /\ Listings(t) # {} /\ HomeOf(t) = g /\ Wanted(t)
          /\ \A m, n \in DOMAIN Ts(g) : m < n => Ts(g)[m] < Ts(g)[n]
  BY SelectedTargetsAre
<1> HIDE DEF Ts
<1>4. ASSUME NEW i \in DOMAIN plan
      PROVE  /\ \A t : t \in TargetsOf(i) <=>
                   t \in Target /\ Listings(t) # {} /\ HomeOf(t) = plan[i].group /\ Wanted(t)
             /\ \A m, n \in DOMAIN plan[i].targets : m < n => plan[i].targets[m] < plan[i].targets[n]
             /\ plan[i].targets \in Seq(Target)
  BY <1>2, <1>3 DEF TargetsOf
<1>5. \A i, j \in DOMAIN plan : i # j => TargetsOf(i) \intersect TargetsOf(j) = {}
  <2>1. SUFFICES ASSUME NEW i \in DOMAIN plan, NEW j \in DOMAIN plan,
                        NEW t \in TargetsOf(i), t \in TargetsOf(j)
                 PROVE  i = j
    OBVIOUS
  <2>2. plan[i].group = HomeOf(t) /\ plan[j].group = HomeOf(t)
    BY <1>4, <2>1
  <2>3. QED
    BY <1>2, <2>2
<1>6. ASSUME NEW i \in DOMAIN plan, NEW j \in DOMAIN plan,
             NEW m \in DOMAIN plan[i].targets, NEW n \in DOMAIN plan[j].targets,
             plan[i].targets[m] = plan[j].targets[n]
      PROVE  i = j /\ m = n
  <2>1. i = j
    BY <1>5, <1>6 DEF TargetsOf, ToSet
  <2>2. plan[i].targets \in Seq(Target) /\ \A k \in Target : k \in Int
    BY <1>4, InputsAssumption DEF Target
  <2>3. m \in Nat /\ n \in Nat /\ plan[i].targets[m] \in Int /\ plan[i].targets[n] \in Int
    BY <2>1, <2>2
  <2>4. ~(m < n) /\ ~(n < m)
    BY <1>4, <1>6, <2>1, <2>3
  <2>5. QED
    BY <2>1, <2>3, <2>4
<1>7. ASSUME NEW t \in Planned PROVE Work(t) \in Seq(Nat)
  <2>1. PICK i \in DOMAIN plan : t \in TargetsOf(i)
    BY DEF Planned
  <2>2. t \in Target /\ Listings(t) # {}
    BY <1>4, <2>1
  <2>3. \/ command.kind = "run"
        \/ ToSet(ChosenConfigSets(project, command, t)) \subseteq DOMAIN project.commandPaths
    BY <1>1, <2>1 DEF UndefinedConfigSet, TargetsOf
  <2>4. QED
    BY <2>2, <2>3, WorkKnown
<1>8. PlanOK
  BY <1>2, <1>6, <1>7 DEF PlanOK
<1>9. ASSUME NEW t \in Target
      PROVE  t \in Planned <=> Listings(t) # {} /\ Reached(HomeOf(t)) /\ Wanted(t)
  <2>1. ASSUME t \in Planned PROVE Listings(t) # {} /\ Reached(HomeOf(t)) /\ Wanted(t)
    <3>1. PICK i \in DOMAIN plan : t \in TargetsOf(i)
      BY <2>1 DEF Planned
    <3>2. QED
      BY <1>2, <1>4, <3>1
  <2>2. ASSUME Listings(t) # {}, Reached(HomeOf(t)), Wanted(t) PROVE t \in Planned
    <3>1. HomeOf(t) \in Group /\ t \in ToSet(Ts(HomeOf(t)))
      BY <1>3, <2>2 DEF ProjectOK
    <3>2. Ts(HomeOf(t)) # <<>>
      BY <3>1 DEF ToSet
    <3>3. PICK i \in DOMAIN plan : plan[i].group = HomeOf(t)
      BY <1>2, <2>2, <3>1, <3>2
    <3>4. t \in TargetsOf(i)
      BY <1>4, <2>2, <3>3
    <3>5. QED
      BY <3>4 DEF Planned
  <2>3. QED
    BY <2>1, <2>2
<1>10. command.groups = <<>> => Sorted
  BY <1>2 DEF Sorted, Before
<1>11. Selection
  BY <1>4, <1>5, <1>9, <1>10 DEF Selection
<1>12. QED
  BY <1>8, <1>11

LEMMA EmptyPlan == plan = <<>> => PlanOK
  BY DEF PlanOK, Planned

(* The plan a command begins with. *)
LEMMA InitPlan == Init => PlanOK /\ (~rejected => Selection)
<1> SUFFICES ASSUME Init PROVE PlanOK /\ (~rejected => Selection)
  OBVIOUS
<1>1. config \in Configs /\ command \in Commands
  BY InputsAre
<1>2. rejected <=> ConfigError(config) \/ PlanError(project, command)
  BY Zenon DEF Init
<1>3. CASE ConfigError(config)
  <2>1. plan = <<>> /\ rejected
    BY <1>2, <1>3 DEF Init
  <2>2. QED
    BY <2>1, EmptyPlan
<1>4. CASE ~ConfigError(config)
  <2>1. project = BuildDeploymentConfig(config) /\ plan = CreateExecutionPlan(project, command)
    BY <1>4 DEF Init
  <2>2. ProjectOK
    BY <1>1, <1>4, <2>1, ProjectIs
  <2>3. CASE PlanError(project, command)
    <3>1. plan = <<>> /\ rejected
      BY <1>2, <2>1, <2>3 DEF CreateExecutionPlan
    <3>2. QED
      BY <3>1, EmptyPlan
  <2>4. CASE ~PlanError(project, command)
    <3>1. plan = SelectedGroups(project, command)
      BY <2>1, <2>4 DEF CreateExecutionPlan
    <3>2. QED
      BY <1>1, <2>2, <2>4, <3>1, PlanIs
  <2>5. QED
    BY <2>3, <2>4
<1>5. QED
  BY <1>3, <1>4

LEMMA InputsKept == [Next]_vars => UNCHANGED inputVars
  BY DEF Next, PlanTargets, AutoConfirm, CancelOperation, ContinueAndReview, ContinueNoReview,
         BeginGroup, RejectGroup, TargetStep, BeginTarget, BeginConfigSet, CancelCommandPath,
         ExecuteCommandPath, CommandPathReturns, RecordResult, CompleteTarget, FinishTargets,
         Reduce, Throw, Exited, vars

LEMMA PlanKept ==
    ASSUME PlanOK, UNCHANGED inputVars
    PROVE  PlanOK'
<1>1. plan' = plan /\ project' = project /\ command' = command
  BY DEF inputVars
<1>2. Planned' = Planned
  BY <1>1 DEF Planned, TargetsOf
<1>3. \A t : Work(t)' = Work(t)
  BY <1>1 DEF Work
<1>4. QED
  BY <1>1, <1>2, <1>3 DEF PlanOK

(* Whatever the files and the options are, the groups of the plan and      *)
(* their targets are listed once each, and createExecutionPlan finds the   *)
(* command paths of every config set it is to execute.                     *)
THEOREM PlanAlwaysOK == Spec => []PlanOK
<1>1. Init => PlanOK
  BY InitPlan
<1>2. PlanOK /\ [Next]_vars => PlanOK'
  BY InputsKept, PlanKept
<1>3. QED
  BY <1>1, <1>2, PTL DEF Spec

(* A plan that is shown to the user or begun was not rejected. *)
SelectionInv ==
    /\ phase \notin {"plan", "done"} \/ group # 0 => ~rejected
    /\ ~rejected => Selection

(* The plan is the selection, from the moment it is made to the end.       *)
THEOREM SelectionAlwaysKept == Spec => []SelectionInv
<1>1. Init => SelectionInv
  BY InitPlan DEF SelectionInv, Init
<1>2. SelectionInv /\ [Next]_vars => SelectionInv'
  <2>1. SUFFICES ASSUME SelectionInv, [Next]_vars PROVE SelectionInv'
    OBVIOUS
  <2>2. /\ config' = config /\ project' = project /\ command' = command
        /\ rejected' = rejected /\ plan' = plan
    BY <2>1, InputsKept DEF inputVars
  <2>3. ~rejected' => Selection'
    <3>1. \A g : Above(g)' = Above(g)
      BY <2>2 DEF Above
    <3>2. /\ Listed' = Listed
          /\ \A t : Listings(t)' = Listings(t)
          /\ \A t : HomeOf(t)' = HomeOf(t)
      BY <2>2 DEF Listed, Listings, HomeOf, LastListing
    <3>3. \A g : Reached(g)' <=> Reached(g)
      BY <2>2, <3>1 DEF Reached
    <3>4. \A t : Wanted(t)' <=> Wanted(t)
      <4>1. \A t : Disabled(t)' <=> Disabled(t)
        BY <3>2 DEF Disabled
      <4>2. \A t, x : (Has(t, x)' <=> Has(t, x)) /\ (Uses(t, x)' <=> Uses(t, x))
        BY <2>2, <3>1, <3>2 DEF Has, Uses
      <4>3. QED
        BY <2>2, <4>1, <4>2 DEF Wanted
    <3>5. Planned' = Planned /\ (\A i : TargetsOf(i)' = TargetsOf(i)) /\ (Sorted' <=> Sorted)
      BY <2>2, <3>1 DEF Planned, TargetsOf, Sorted
    <3>6. Selection => Selection'
      BY <2>2, <3>2, <3>3, <3>4, <3>5 DEF Selection
    <3>7. QED
      BY <2>1, <2>2, <3>6 DEF SelectionInv
  <2>4. phase' \notin {"plan", "done"} \/ group' # 0 => ~rejected'
    BY <2>1, <2>2
       DEF SelectionInv, Next, PlanTargets, AutoConfirm, CancelOperation, ContinueAndReview,
           ContinueNoReview, BeginGroup, RejectGroup, TargetStep, BeginTarget, BeginConfigSet,
           CancelCommandPath, ExecuteCommandPath, CommandPathReturns, RecordResult,
           CompleteTarget, FinishTargets, Reduce, Throw, Exited, Finish, vars
  <2>5. QED
    BY <2>3, <2>4 DEF SelectionInv
<1>3. QED
  BY <1>1, <1>2, PTL DEF Spec

(* The plan shown to the user has exactly the targets that the files and   *)
(* the options ask for, each in the group its last listing names, below no *)
(* disabled group, and in order: what buildDeploymentConfig merges and     *)
(* inherits, collectFromHierarchy walks down and the filters of            *)
(* createExecutionPlan keep comes to that, for any hierarchy of groups.    *)
THEOREM SelectionAlwaysExact == Spec => []SelectionExact
<1>1. SelectionInv => SelectionExact
  BY DEF SelectionInv, SelectionExact
<1>2. QED
  BY <1>1, SelectionAlwaysKept, PTL
=============================================================================
