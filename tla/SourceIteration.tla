--------------------------- MODULE SourceIteration ---------------------------
(***************************************************************************)
(* What a source mover promises its outer reconciler (spec sections 5 and *)
(* 7, Transfer.Client), one owner at a time, with no API calls or pods:   *)
(*                                                                         *)
(*   sync:    client transfers are started; Synchronize reports Complete   *)
(*            only when none of the owner's transfers is running or still  *)
(*            to run, so the source volume is not released mid-transfer;  *)
(*   cleanup: the owner's client pods are deleted; Cleanup reports         *)
(*            Complete only when every one of them is being deleted, and   *)
(*            the next iteration (if any) begins.                          *)
(*                                                                         *)
(* It does not promise that a transfer ran in the current iteration: a    *)
(* finished pod of an earlier one can stand in (see the README).           *)
(* RsyncSource implements it (RsyncSource!SourceIterationRefined).         *)
(***************************************************************************)
EXTENDS Naturals

CONSTANTS Owners, MaxIter

VARIABLES
    phase,    \* [Owners -> "sync" | "cleanup" | "done"]
    iter,     \* [Owners -> 1..MaxIter]
    running,  \* [Owners -> a transfer of the owner is running or still to run]
    left      \* [Owners -> a client pod of the owner is not being deleted]

vars == <<phase, iter, running, left>>

Init ==
    /\ phase = [o \in Owners |-> "sync"]
    /\ iter = [o \in Owners |-> 1]
    /\ running = [o \in Owners |-> FALSE]
    /\ left = [o \in Owners |-> FALSE]

\* Synchronize starts a client transfer.
Launch(o) ==
    /\ phase[o] = "sync"
    /\ running' = [running EXCEPT ![o] = TRUE]
    /\ left' = [left EXCEPT ![o] = TRUE]
    /\ UNCHANGED <<phase, iter>>

\* The owner's last transfer ends, in any phase.
Finish(o) ==
    /\ running' = [running EXCEPT ![o] = FALSE]
    /\ UNCHANGED <<phase, iter, left>>

\* Synchronize reports Complete.
Complete(o) ==
    /\ phase[o] = "sync" /\ ~running[o]
    /\ phase' = [phase EXCEPT ![o] = "cleanup"]
    /\ UNCHANGED <<iter, running, left>>

\* Cleanup deletes the owner's client pods.
Remove(o) ==
    /\ phase[o] = "cleanup"
    /\ left' = [left EXCEPT ![o] = FALSE]
    /\ UNCHANGED <<phase, iter, running>>

\* Cleanup reports Complete; the next iteration begins.
Cleaned(o) ==
    /\ phase[o] = "cleanup" /\ ~left[o]
    /\ phase' = [phase EXCEPT ![o] = IF iter[o] < MaxIter THEN "sync" ELSE "done"]
    /\ iter' = [iter EXCEPT ![o] = IF iter[o] < MaxIter THEN @ + 1 ELSE @]
    /\ UNCHANGED <<running, left>>

Next ==
    \E o \in Owners :
        Launch(o) \/ Finish(o) \/ Complete(o) \/ Remove(o) \/ Cleaned(o)

Spec == Init /\ [][Next]_vars
=============================================================================
