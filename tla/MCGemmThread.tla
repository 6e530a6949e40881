---------------------------- MODULE MCGemmThread ----------------------------
(* Model-checking instances of GemmThread.                                 *)
EXTENDS GemmThread, TLC

\* Two threads, thread 1 with two blocks of rows.
MBlocksTwo == 0 :> 1 @@ 1 :> 2

\* Two rounds: thread 0 has two panels, then the last block of columns is so
\* narrow that thread 1 gets none.
ColumnsTwo == << 0 :> 2 @@ 1 :> 1,  0 :> 1 @@ 1 :> 0 >>
=============================================================================
