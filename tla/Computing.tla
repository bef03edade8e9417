------------------------------- MODULE Computing -------------------------------
(***************************************************************************)
(* The computing parts together, for one set of theorems.                  *)
(***************************************************************************)
EXTENDS ProcTime, CgxPage, Template, SqlText, LogSinks    \* with Codec
=============================================================================
