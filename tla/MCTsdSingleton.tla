---------------------------- MODULE MCTsdSingleton ----------------------------
(* Model-checking instances of TsdSingleton. *)
EXTENDS TsdSingleton
=============================================================================
