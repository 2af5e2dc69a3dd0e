--------------------------- MODULE MoverIteration ---------------------------
(***************************************************************************)
(* What a destination mover promises its outer reconciler (spec sections  *)
(* 5 and 7), one owner at a time, with no API calls, pods or transports:  *)
(*                                                                         *)
(*   sync:    the owner's objects are provisioned and its address is       *)
(*            published in destinationStatus; Synchronize reports          *)
(*            Complete only once the address of this iteration is          *)
(*            published;                                                   *)
(*   cleanup: the owner's objects are removed; Cleanup reports Complete    *)
(*            only once nothing the owner created is left, and the next    *)
(*            iteration (if any) begins.                                   *)
(*                                                                         *)
(* RsyncDestination implements it (RsyncDestination!IterationRefined).     *)
(***************************************************************************)
EXTENDS Naturals

CONSTANTS Owners, MaxIter

VARIABLES
    phase,      \* [Owners -> "sync" | "cleanup" | "done"]
    iter,       \* [Owners -> 1..MaxIter]
    published,  \* [Owners -> the iteration that last published an address]
    left        \* [Owners -> some object of the owner is still there]

vars == <<phase, iter, published, left>>

Init ==
    /\ phase = [o \in Owners |-> "sync"]
    /\ iter = [o \in Owners |-> 1]
    /\ published = [o \in Owners |-> 0]
    /\ left = [o \in Owners |-> FALSE]

\* Synchronize creates some of the owner's objects.
Provision(o) ==
    /\ phase[o] = "sync"
    /\ left' = [left EXCEPT ![o] = TRUE]
    /\ UNCHANGED <<phase, iter, published>>

\* Synchronize publishes the endpoint's address for this iteration.
Publish(o) ==
    /\ phase[o] = "sync"
    /\ published' = [published EXCEPT ![o] = iter[o]]
    /\ UNCHANGED <<phase, iter, left>>

\* Synchronize reports Complete.
Complete(o) ==
    /\ phase[o] = "sync" /\ published[o] = iter[o]
    /\ phase' = [phase EXCEPT ![o] = "cleanup"]
    /\ UNCHANGED <<iter, published, left>>

\* Cleanup removes the last of the owner's objects.
Remove(o) ==
    /\ phase[o] = "cleanup"
    /\ left' = [left EXCEPT ![o] = FALSE]
    /\ UNCHANGED <<phase, iter, published>>

\* Cleanup reports Complete with nothing of the owner left (its last
\* deletions may be part of the same step); the next iteration begins.
Cleaned(o) ==
    /\ phase[o] = "cleanup"
    /\ phase' = [phase EXCEPT ![o] = IF iter[o] < MaxIter THEN "sync" ELSE "done"]
    /\ iter' = [iter EXCEPT ![o] = IF iter[o] < MaxIter THEN @ + 1 ELSE @]
    /\ left' = [left EXCEPT ![o] = FALSE]
    /\ UNCHANGED published

Next ==
    \E o \in Owners :
        Provision(o) \/ Publish(o) \/ Complete(o) \/ Remove(o) \/ Cleaned(o)

Spec == Init /\ [][Next]_vars
=============================================================================
