---------------------------- MODULE MCOmpServer -----------------------------
(* Model-checking instance of OmpServer.                                   *)
EXTENDS OmpServer

CONSTANTS a, b, c, d

\* d, which makes no level-3 call, has teams of one thread.
Teams == [t \in Threads |-> IF t = d THEN 1 ELSE 2]
=============================================================================
