------------------------------ MODULE Bulkhead ------------------------------
(***************************************************************************)
(* Policy.bulkhead of the library cockatiel, as the deployment and the     *)
(* undeployment of stacks use it: a number of slots and a queue.  All the  *)
(* calls of bulkhead.execute happen in the same turn of the event loop,    *)
(* for the operations first, first + 1, ...: the first Limit of them       *)
(* start, the next QueueCapacity ones are queued in order, and the         *)
(* promises of the others are rejected.                                    *)
(***************************************************************************)
EXTENDS Integers

CONSTANTS
    Limit,          \* ctx.concurrentStacks
    QueueCapacity   \* second argument of Policy.bulkhead

ASSUME LimitAssumption == Limit \in Nat \ {0} /\ QueueCapacity \in Nat

Starts(o, first) == first <= o /\ o < first + Limit
Queued(o, first) == first + Limit <= o /\ o < first + Limit + QueueCapacity
Rejected(o, first) == first + Limit + QueueCapacity <= o

Smaller(m, n) == IF m <= n THEN m ELSE n
Larger(m, n) == IF m <= n THEN n ELSE m

(* The operations from first to last that start, and those that wait.      *)
StartedCount(first, last) == Smaller(Limit, last + 1 - first)
QueuedCount(first, last) == Smaller(QueueCapacity, Larger(0, last + 1 - first - Limit))
=============================================================================
