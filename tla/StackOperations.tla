--------------------------- MODULE StackOperations ---------------------------
(***************************************************************************)
(* What a run over a set of stacks or deployment targets promises,         *)
(* whatever schedules it: an operation begins only when everything it      *)
(* needs has succeeded, ends at most once, and one that cannot begin never *)
(* ends as a success.  A deployment needs the stacks a stack depends on;   *)
(* an undeployment needs the stacks that depend on it; a target needs the  *)
(* targets of the groups before its own.                                   *)
(***************************************************************************)
CONSTANT Operations

VARIABLES
    needs,  \* the operations each operation has to wait for; constant
    state   \* how far each operation is

vars == <<needs, state>>

GoodEnds == {"SUCCESS", "SKIPPED"}
BadEnds == {"FAILED", "CANCELLED"}
States == {"waiting", "begun"} \union GoodEnds \union BadEnds

Init ==
    /\ needs \in [Operations -> SUBSET Operations]
    /\ state = [o \in Operations |-> "waiting"]

Ready(o) == \A d \in needs[o] : state[d] \in GoodEnds

Begin(o) ==
    /\ state[o] = "waiting"
    /\ Ready(o)
    /\ state' = [state EXCEPT ![o] = "begun"]
    /\ UNCHANGED needs

End(o) ==
    /\ state[o] = "begun"
    /\ \E end \in GoodEnds \union BadEnds : state' = [state EXCEPT ![o] = end]
    /\ UNCHANGED needs

(* Nothing to do for o. *)
PassOver(o) ==
    /\ state[o] = "waiting"
    /\ Ready(o)
    /\ state' = [state EXCEPT ![o] = "SKIPPED"]
    /\ UNCHANGED needs

(* Operations that will not begin: one whose needs failed, those left when *)
(* the user cancels, those the scheduler has no room for.                  *)
Refuse(refused) ==
    /\ \A o \in refused : state[o] = "waiting"
    /\ state' \in [Operations -> States]
    /\ \A o \in refused : state'[o] \in BadEnds
    /\ \A o \in Operations \ refused : state'[o] = state[o]
    /\ UNCHANGED needs

Next ==
    \/ \E o \in Operations : Begin(o) \/ End(o) \/ PassOver(o)
    \/ \E refused \in SUBSET Operations : Refuse(refused)

Spec == Init /\ [][Next]_vars
=============================================================================
