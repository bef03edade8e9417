------------------------------ MODULE MCLogFile ------------------------------
(* Model-checking instances of LogFile. *)
EXTENDS LogFile
=============================================================================
