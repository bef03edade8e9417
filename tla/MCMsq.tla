-------------------------------- MODULE MCMsq --------------------------------
(* Model-checking instances of Msq. *)
EXTENDS Msq

CONSTANTS s1, r1, r2
=============================================================================
