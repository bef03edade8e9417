----------------------------- MODULE MysqlClient -----------------------------
(***************************************************************************)
(* The MySQL client library and the server behind it, as dbx.cpp uses      *)
(* them: one session over one connection, MYSQL_OPT_RECONNECT on.          *)
(*                                                                         *)
(* A command sent on a connection that is gone opens a new session, whose  *)
(* autocommit mode is on, and is sent again, unless the last answer of the *)
(* server said that a transaction was open: then the call fails with       *)
(* CR_SERVER_GONE_ERROR, and the next one reconnects.  A connection that   *)
(* breaks while an answer is awaited gives CR_SERVER_LOST, and the server  *)
(* may or may not have executed the command.  A session that ends rolls    *)
(* its open transaction back.                                              *)
(***************************************************************************)
EXTENDS Integers

CONSTANT Stmt    \* the statements, by number

(***************************************************************************)
(* A session as seen from both ends:                                       *)
(*   link     "up", "cut": broken and not yet noticed, "closed": noticed   *)
(*   mode     autocommit of the session: "auto" or "manual"                *)
(*   pending  statements of the transaction the server has open            *)
(*   inTrans  the client's copy of SERVER_STATUS_IN_TRANS                  *)
(***************************************************************************)
Conn == [link : {"up", "cut", "closed"}, mode : {"auto", "manual"},
         pending : SUBSET Stmt, inTrans : BOOLEAN]

Closed == [link |-> "closed", mode |-> "auto", pending |-> {}, inTrans |-> FALSE]
Session == [Closed EXCEPT !.link = "up"]
Broken(c) == [Closed EXCEPT !.inTrans = c.inTrans]

\* Commands: a statement, or one of the fixed texts.
Run(s) == <<"run", s>>
Command(name) == <<name, 0>>

\* The data: how often each statement took effect.
Flush(d, S) == [s \in Stmt |-> IF s \in S THEN d[s] + 1 ELSE d[s]]

\* What the server does with a command: the session and the data after it.
Execute(c, d, cmd) ==
  CASE cmd[1] = "run" /\ c.mode = "auto" -> <<c, Flush(d, {cmd[2]})>>
    [] cmd[1] = "run" /\ c.mode = "manual" ->
         <<[c EXCEPT !.pending = @ \union {cmd[2]}], d>>
    [] cmd[1] = "set0" -> <<[c EXCEPT !.mode = "manual"], d>>
    [] cmd[1] = "set1" ->
         <<[c EXCEPT !.mode = "auto", !.pending = {}], Flush(d, c.pending)>>
    [] cmd[1] = "commit" -> <<[c EXCEPT !.pending = {}], Flush(d, c.pending)>>
    [] cmd[1] = "rollback" -> <<[c EXCEPT !.pending = {}], d>>
    [] cmd[1] \in {"ping", "stat"} -> <<c, d>>

Outcome(c, d, e) == [conn |-> c, data |-> d, err |-> e]

\* A command sent on a working connection: answered, refused by the server,
\* or the connection breaks before or after the server has executed it.
Attempt(c, d, cmd) ==
  LET after == Execute(c, d, cmd)
      answered == [after[1] EXCEPT !.inTrans = (after[1].pending # {})]
  IN  {Outcome(answered, after[2], "none"),
       Outcome(Broken(c), d, "lost"), Outcome(Broken(c), after[2], "lost")}
      \union (IF cmd[1] = "run" THEN {Outcome(c, d, "sql")} ELSE {})

\* A command on a connection found broken.
Reconnect(c, d, cmd) ==
  IF c.inTrans
    THEN {Outcome(Closed, d, "gone")}
    ELSE {Outcome(Closed, d, "refused")} \union Attempt(Session, d, cmd)

\* A library call: the set of its possible outcomes.
Call(c, d, cmd) ==
  CASE c.link = "up" -> Attempt(c, d, cmd)
    [] c.link = "closed" -> Reconnect(c, d, cmd)
    [] c.link = "cut" -> {Outcome(Broken(c), d, "lost")} \union Reconnect(c, d, cmd)
=============================================================================
