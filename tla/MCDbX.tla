-------------------------------- MODULE MCDbX --------------------------------
(* Model-checking instances of DbX. *)
EXTENDS DbX
=============================================================================
