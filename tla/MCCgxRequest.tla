----------------------------- MODULE MCCgxRequest -----------------------------
(* Model-checking instances of CgxRequest. *)
EXTENDS CgxRequest
=============================================================================
