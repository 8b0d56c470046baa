---------------------------- MODULE OrdersProofs ----------------------------
(***************************************************************************)
(* Lemmas about Orders, and about the least number of a set.               *)
(***************************************************************************)
EXTENDS Orders, FiniteSetTheorems, WellFoundedInduction, TLAPS

-----------------------------------------------------------------------------
LEMMA LeastMember ==
    ASSUME NEW S \in SUBSET Nat, S # {}
    PROVE  \E n \in S : \A i \in S : ~(i < n)
<1>1. PICK n \in S : \A i \in S : <<i, n>> \notin OpToRel(<, Nat)
  BY NatLessThanWellFounded, WFMin, Zenon
<1>2. QED
  BY <1>1 DEF OpToRel

-----------------------------------------------------------------------------
(* InOrder. *)
Increasing(q) == \A i, j \in DOMAIN q : i < j => q[i] < q[j]

OrderOf(S) == {q \in [1 .. Cardinality(S) -> S] : Increasing(q)}

(* Every set of numbers up to n has an order. *)
LEMMA OrderExists ==
    ASSUME NEW n \in Nat, NEW S \in SUBSET (1 .. n)
    PROVE  OrderOf(S) # {}
<1> DEFINE Without == {k \in Nat : \E T \in SUBSET (1 .. k) : OrderOf(T) = {}}
<1>1. SUFFICES ASSUME Without # {} PROVE FALSE
  OBVIOUS
<1>2. PICK k \in Without : \A i \in Without : ~(i < k)
  <2>1. Without \subseteq Nat
    OBVIOUS
  <2>2. QED
    BY <1>1, <2>1, LeastMember, Zenon
<1>3. PICK T \in SUBSET (1 .. k) : OrderOf(T) = {}
  BY <1>2
<1>4. k \in Nat
  BY <1>2
<1>5. CASE k = 0
  <2>1. T = {}
    BY <1>5
  <2>2. Cardinality(T) = 0
    BY <2>1, FS_EmptySet
  <2>3. [i \in 1 .. 0 |-> i] \in OrderOf(T)
    BY <2>1, <2>2 DEF OrderOf, Increasing
  <2>4. QED
    BY <1>3, <2>3
<1>6. CASE k # 0 /\ k \notin T
  <2>1. k - 1 \in Nat /\ T \in SUBSET (1 .. k - 1)
    BY <1>4, <1>6
  <2>2. k - 1 \in Without
    BY <1>3, <2>1
  <2>3. QED
    BY <1>2, <1>4, <2>2
<1>7. CASE k # 0 /\ k \in T
  <2> DEFINE R == T \ {k}
             c == Cardinality(R)
  <2>1. k - 1 \in Nat /\ R \in SUBSET (1 .. k - 1)
    BY <1>4, <1>7
  <2>2. OrderOf(R) # {}
    BY <1>2, <1>4, <2>1
  <2>3. PICK q \in [1 .. c -> R] : Increasing(q)
    BY <2>2 DEF OrderOf
  <2>4. IsFiniteSet(R)
    <3>1. IsFiniteSet(1 .. k - 1)
      BY <2>1, FS_Interval
    <3>2. QED
      BY <2>1, <3>1, FS_Subset, Zenon
  <2>5. c \in Nat
    BY <2>4, FS_CardinalityType
  <2>6. Cardinality(T) = c + 1
    <3>1. T = R \union {k}
      BY <1>7
    <3>2. QED
      BY <2>4, <3>1, FS_AddElement
  <2> DEFINE p == [i \in 1 .. c + 1 |-> IF i = c + 1 THEN k ELSE q[i]]
  <2> HIDE DEF R, c
  <2>7. \A i \in 1 .. c : q[i] \in T /\ q[i] < k
    <3>1. \A i \in 1 .. c : q[i] \in R
      BY <2>3
    <3>2. \A r \in R : r \in T /\ r < k
      BY <1>4, <2>1 DEF R
    <3>3. QED
      BY <3>1, <3>2
  <2>8. p \in [1 .. c + 1 -> T]
    BY <1>7, <2>5, <2>7
  <2>9. Increasing(p)
    <3>1. SUFFICES ASSUME NEW i \in 1 .. c + 1, NEW j \in 1 .. c + 1, i < j
                   PROVE  p[i] < p[j]
      BY DEF Increasing
    <3>2. i \in 1 .. c /\ p[i] = q[i]
      BY <2>5, <3>1
    <3>3. CASE j = c + 1
      BY <2>7, <3>2, <3>3
    <3>4. CASE j # c + 1
      <4>1. j \in 1 .. c /\ p[j] = q[j]
        BY <2>5, <3>4
      <4>2. QED
        BY <2>3, <3>1, <3>2, <4>1 DEF Increasing
    <3>5. QED
      BY <3>3, <3>4
  <2>10. p \in OrderOf(T)
    BY <2>6, <2>8, <2>9 DEF OrderOf
  <2>11. QED
    BY <1>3, <2>10
<1>8. QED
  BY <1>5, <1>6, <1>7

(* InOrder lists every member of its set once, in order. *)
LEMMA InOrderType ==
    ASSUME NEW n \in Nat, NEW S \in SUBSET (1 .. n)
    PROVE  /\ Cardinality(S) \in Nat
           /\ InOrder(S) \in [1 .. Cardinality(S) -> S]
           /\ \A i, j \in 1 .. Cardinality(S) : i < j => InOrder(S)[i] < InOrder(S)[j]
           /\ \A i, j \in 1 .. Cardinality(S) : InOrder(S)[i] = InOrder(S)[j] => i = j
           /\ \A s \in S : \E i \in 1 .. Cardinality(S) : InOrder(S)[i] = s
<1> DEFINE c == Cardinality(S)
           q == InOrder(S)
<1>1. IsFiniteSet(S) /\ c \in Nat
  <2>1. IsFiniteSet(1 .. n)
    BY FS_Interval
  <2>2. IsFiniteSet(S)
    BY <2>1, FS_Subset, Zenon
  <2>3. QED
    BY <2>2, FS_CardinalityType, Zenon
<1>2. q \in [1 .. c -> S] /\ Increasing(q)
  <2>1. PICK r \in [1 .. c -> S] : Increasing(r)
    BY OrderExists DEF OrderOf
  <2>2. QED
    BY <2>1 DEF InOrder, Increasing
<1> HIDE DEF c, q
<1>3. \A i \in 1 .. c : q[i] \in Int
  <2>1. S \subseteq Int
    OBVIOUS
  <2>2. QED
    BY <1>2, <2>1
<1>4. \A i, j \in 1 .. c : q[i] = q[j] => i = j
  <2>1. SUFFICES ASSUME NEW i \in 1 .. c, NEW j \in 1 .. c, i < j PROVE q[i] # q[j]
    BY <1>1
  <2>2. q[i] < q[j]
    BY <1>2, <2>1 DEF Increasing
  <2>3. QED
    BY <1>3, <2>2
<1>5. q \in Injection(1 .. c, S)
  BY <1>2, <1>4 DEF Injection, IsInjective
<1>6. Cardinality(1 .. c) = c
  BY <1>1, FS_Interval
<1>7. q \in Surjection(1 .. c, S)
  BY <1>1, <1>5, <1>6, FS_Injection DEF c
<1>8. QED
  BY <1>1, <1>2, <1>4, <1>7 DEF Increasing, Surjection, c, q

-----------------------------------------------------------------------------
(* A part of a sequence has what the sequence has at the positions, once   *)
(* for each of them, and in the same order.                                *)
LEMMA PartType ==
    ASSUME NEW A, NEW s \in Seq(A), NEW positions \in SUBSET DOMAIN s
    PROVE  /\ Part(s, positions) \in Seq(A)
           /\ DOMAIN Part(s, positions) = 1 .. Cardinality(positions)
           /\ \A n \in DOMAIN Part(s, positions) :
                 InOrder(positions)[n] \in positions /\ Part(s, positions)[n] = s[InOrder(positions)[n]]
           /\ \A i \in positions : \E n \in DOMAIN Part(s, positions) : InOrder(positions)[n] = i
           /\ \A m, n \in DOMAIN Part(s, positions) :
                 m < n => InOrder(positions)[m] < InOrder(positions)[n]
           /\ \A m, n \in DOMAIN Part(s, positions) :
                 InOrder(positions)[m] = InOrder(positions)[n] => m = n
           /\ Cardinality(positions) \in Nat
<1> DEFINE at == InOrder(positions)
           c == Cardinality(positions)
           p == Part(s, positions)
<1>1. /\ c \in Nat
      /\ at \in [1 .. c -> positions]
      /\ \A i, j \in 1 .. c : i < j => at[i] < at[j]
      /\ \A i, j \in 1 .. c : at[i] = at[j] => i = j
      /\ \A i \in positions : \E n \in 1 .. c : at[n] = i
  <2>1. Len(s) \in Nat /\ positions \in SUBSET (1 .. Len(s))
    OBVIOUS
  <2>2. QED
    BY <2>1, InOrderType, Zenon
<1>2. p = [n \in DOMAIN at |-> s[at[n]]]
  BY DEF Part
<1> HIDE DEF at, c, p
<1>3. DOMAIN p = 1 .. c /\ \A n \in 1 .. c : p[n] = s[at[n]] /\ at[n] \in positions
  BY <1>1, <1>2
<1>4. p \in Seq(A)
  <2>1. \A i \in positions : s[i] \in A
    OBVIOUS
  <2>2. p \in [1 .. c -> A]
    <3>1. \A n \in 1 .. c : s[at[n]] \in A
      BY <1>3, <2>1
    <3>2. DOMAIN at = 1 .. c
      BY <1>1
    <3>3. QED
      BY <1>2, <3>1, <3>2
  <2>3. QED
    BY <1>1, <2>2
<1>5. QED
  BY <1>1, <1>3, <1>4 DEF at, c, p
=============================================================================
