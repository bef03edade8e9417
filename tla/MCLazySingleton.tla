--------------------------- MODULE MCLazySingleton ---------------------------
(* Model-checking instances of LazySingleton. *)
EXTENDS LazySingleton
=============================================================================
