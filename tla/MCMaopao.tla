------------------------------- MODULE MCMaopao -------------------------------
(* Model-checking instances of Maopao. *)
EXTENDS Maopao
=============================================================================
