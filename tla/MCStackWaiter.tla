---------------------------- MODULE MCStackWaiter ----------------------------
(***************************************************************************)
(* Constants of the TLC run of StackWaiter.                                *)
(***************************************************************************)
EXTENDS StackWaiter

MCRequests ==
    {[kind |-> "UPDATE", timeout |-> TRUE]}
    \union [kind : EventKinds \union PollKinds, timeout : {FALSE}]
=============================================================================
