----------------------------- MODULE MCCgxSocket -----------------------------
(* Model-checking instances of CgxSocket. *)
EXTENDS CgxSocket

CONSTANTS s1, s2, s3

SameUser == [s \in Starter |-> 0]

\* s2 is started by another user.
TwoUsers == [s \in Starter |-> IF s = s2 THEN 1 ELSE 0]
=============================================================================
