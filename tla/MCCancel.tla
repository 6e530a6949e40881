------------------------------ MODULE MCCancel ------------------------------
(* Model-checking instances of Cancel.                                     *)
EXTENDS Cancel, TLC

Symmetry == Permutations(Threads) \cup Permutations(Cancellers)
=============================================================================
