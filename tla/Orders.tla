------------------------------- MODULE Orders -------------------------------
(***************************************************************************)
(* Numbers in their order, and the part of a sequence that a filter keeps. *)
(***************************************************************************)
EXTENDS Integers, FiniteSets, Sequences

(* Numbers, or the positions of a sequence, in their order. *)
InOrder(S) ==
    CHOOSE q \in [1 .. Cardinality(S) -> S] : \A i, j \in DOMAIN q : i < j => q[i] < q[j]

(* What s has at the positions, in the order of s. *)
Part(s, positions) == LET at == InOrder(positions) IN [n \in DOMAIN at |-> s[at[n]]]
=============================================================================
