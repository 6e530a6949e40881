------------------------------ MODULE Semaphore ------------------------------
(***************************************************************************)
(* What blas_level3_thread_enter and _leave promise: at most MaxSections   *)
(* threads are between the two at any time.                                *)
(***************************************************************************)
EXTENDS Integers

CONSTANTS Threads, MaxSections

VARIABLES
    left,    \* sections that are free
    inside   \* threads that are in a section

Init == left = MaxSections /\ inside = {}

Enter(t) ==
    /\ t \notin inside /\ left > 0
    /\ inside' = inside \cup {t}
    /\ left' = left - 1

Leave(t) ==
    /\ t \in inside
    /\ inside' = inside \ {t}
    /\ left' = left + 1

Next == \E t \in Threads : Enter(t) \/ Leave(t)

Spec == Init /\ [][Next]_<<left, inside>>
=============================================================================
