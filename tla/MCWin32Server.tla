--------------------------- MODULE MCWin32Server ---------------------------
(* Model-checking instance of Win32Server.                                 *)
EXTENDS Win32Server
=============================================================================
