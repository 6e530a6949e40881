----------------------------- MODULE BufferPool -----------------------------
(***************************************************************************)
(* What blas_memory_alloc and blas_memory_free promise: a caller holds a   *)
(* region of its own, and the region stays mapped as long as it is held.   *)
(***************************************************************************)
CONSTANTS Threads, Regions, None

VARIABLES
    live,  \* regions that are mapped
    held   \* thread -> the region it holds, or None

Init == live = {} /\ held = [t \in Threads |-> None]

Grow ==
    /\ live' \in SUBSET Regions /\ live \subseteq live'
    /\ UNCHANGED held

Acquire(t) ==
    /\ held[t] = None
    /\ \E r \in live :
          /\ \A u \in Threads : held[u] # r
          /\ held' = [held EXCEPT ![t] = r]
    /\ UNCHANGED live

Release(t) ==
    /\ held[t] # None
    /\ held' = [held EXCEPT ![t] = None]
    /\ UNCHANGED live

\* The pool goes only when nobody holds a part of it, and goes as a whole.
Close ==
    /\ \A t \in Threads : held[t] = None
    /\ live' = {}
    /\ UNCHANGED held

Next == Grow \/ Close \/ \E t \in Threads : Acquire(t) \/ Release(t)

Spec == Init /\ [][Next]_<<live, held>>
=============================================================================
