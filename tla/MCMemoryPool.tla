---------------------------- MODULE MCMemoryPool ----------------------------
(* Model-checking instance of MemoryPool.                                  *)
EXTENDS MemoryPool
=============================================================================
