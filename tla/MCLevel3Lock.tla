---------------------------- MODULE MCLevel3Lock ----------------------------
(* Model-checking instance of Level3Lock.                                  *)
EXTENDS Level3Lock
=============================================================================
