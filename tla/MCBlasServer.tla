---------------------------- MODULE MCBlasServer ----------------------------
(* Model-checking instances of BlasServer.                                 *)
EXTENDS BlasServer

\* Two servers of one slot can be told apart, a third is never created.
MCTwins == {1, 2}
=============================================================================
