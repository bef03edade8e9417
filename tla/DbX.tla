--------------------------------- MODULE DbX ---------------------------------
(***************************************************************************)
(* neiku::DbX (src/neiku/dbx.cpp): one MySQL connection with automatic     *)
(* reconnection, a retry of queries that found the connection gone, and    *)
(* transactions through the autocommit mode of the session.                *)
(*                                                                         *)
(* The library and the server are external: see MysqlClient.               *)
(*                                                                         *)
(* The caller is a program that uses DbX as it is meant to be used: after  *)
(* a failure inside a transaction it calls rollback and gives up.          *)
(***************************************************************************)
EXTENDS Integers, FiniteSets

CONSTANTS
  MaxStmt,   \* bound: statements the caller issues, numbered from 1
  IdleCut    \* BOOLEAN: the connection may break between begin() and the
             \* first statement of the transaction

ASSUME MaxStmtAssumption == MaxStmt \in Nat
ASSUME IdleCutAssumption == IdleCut \in BOOLEAN

Stmt == 1 .. MaxStmt

INSTANCE MysqlClient WITH Stmt <- Stmt

VARIABLES
  conn,      \* the session: link, mode, pending statements, status flag
  durable,   \* statement -> how often it took effect for good
  bInit,     \* m_bInit
  bAuto,     \* m_bAutoCommit
  err,       \* m_iErrNo
  pc,        \* the library call that the running method makes next
  caller,    \* "plain", "tx": in a transaction, "abort": must roll back
  next,      \* number of statements issued
  txn,       \* statements of the current transaction
  owed,      \* statements reported as done
  void,      \* statements reported as undone
  unsure     \* transactions whose commit() failed

server == <<conn, durable>>
object == <<bInit, bAuto, err>>
ghosts == <<txn, owed, void, unsure>>
vars == <<conn, durable, bInit, bAuto, err, pc, caller, next, txn, owed, void, unsure>>

-----------------------------------------------------------------------------
\* The connection breaks while the client does not use it; the server rolls
\* the open transaction back.
Cut ==
  /\ conn.link = "up"
  /\ IdleCut \/ ~(conn.mode = "manual" /\ ~conn.inTrans)
  /\ conn' = [conn EXCEPT !.link = "cut", !.mode = "auto", !.pending = {}]
  /\ UNCHANGED <<durable, object, pc, caller, next, ghosts>>

-----------------------------------------------------------------------------
(***************************************************************************)
(* The methods of DbX.  pc is <<"idle">> between calls, or names the       *)
(* method that is under way and the library call it is about to make.      *)
(***************************************************************************)
Idle == <<"idle", 0>>

Init ==
  /\ conn = Closed
  /\ durable = [s \in Stmt |-> 0]
  /\ bInit = FALSE /\ bAuto = TRUE /\ err = "none"
  /\ pc = Idle
  /\ caller = "plain"
  /\ next = 0
  /\ txn = {} /\ owed = {} /\ void = {} /\ unsure = {}

\* DbX::init: on any failure the handle is closed and m_bInit stays false.
InitOk ==
  /\ ~bInit
  /\ bInit' = TRUE
  /\ conn' = Session
  /\ UNCHANGED <<durable, bAuto, err, pc, caller, next, ghosts>>

InitFails ==
  /\ ~bInit
  /\ err' \in {"refused", "lost"}
  /\ UNCHANGED <<server, bInit, bAuto, pc, caller, next, ghosts>>

\* DbX::query(sql), entered with a statement that was never issued before.
Query ==
  /\ bInit /\ pc = Idle
  /\ caller \in {"plain", "tx"}
  /\ next < MaxStmt
  /\ next' = next + 1
  /\ pc' = <<"query", next + 1>>
  /\ txn' = IF caller = "tx" THEN txn \union {next + 1} ELSE txn
  /\ UNCHANGED <<server, object, caller, owed, void, unsure>>

\* How a query ends, for the caller.
QuerySucceeds(s) ==
  /\ pc' = Idle
  /\ owed' = IF caller = "plain" THEN owed \union {s} ELSE owed
  /\ UNCHANGED caller

QueryFails ==
  /\ pc' = Idle
  /\ caller' = IF caller = "tx" THEN "abort" ELSE caller
  /\ UNCHANGED owed

\* mysql_real_query, the first time
RealQuery ==
  /\ pc[1] = "query"
  /\ \E o \in Call(conn, durable, Run(pc[2])) :
       /\ conn' = o.conn /\ durable' = o.data /\ err' = o.err
       /\ CASE o.err \in {"gone", "lost"} -> pc' = <<"ping", pc[2]>> /\ UNCHANGED <<caller, owed>>
            [] o.err = "none" -> pc' = <<"store", pc[2]>> /\ UNCHANGED <<caller, owed>>
            [] OTHER -> QueryFails
  /\ UNCHANGED <<bInit, bAuto, next, txn, void, unsure>>

\* A slip: the retry does not look at m_bAutoCommit.
PingAlwaysRetries ==
  /\ pc[1] = "ping"
  /\ \E o \in Call(conn, durable, Command("ping")) :
       /\ conn' = o.conn /\ durable' = o.data
       /\ IF o.err # "none"
            THEN err' = o.err /\ QueryFails
            ELSE /\ pc' = <<"again", pc[2]>>
                 /\ UNCHANGED <<err, caller, owed>>
  /\ UNCHANGED <<bInit, bAuto, next, txn, void, unsure>>

\* A slip: the ping is repeated until it succeeds.
PingForever ==
  /\ pc[1] = "ping"
  /\ \E o \in Call(conn, durable, Command("ping")) :
       /\ conn' = o.conn /\ durable' = o.data
       /\ err' = o.err
       /\ pc' = IF o.err = "none" THEN <<"again", pc[2]>> ELSE pc
  /\ UNCHANGED <<bInit, bAuto, caller, next, ghosts>>

\* mysql_ping reconnects; a transaction is lost by then and must not be
\* continued on the new session.
Ping ==
  /\ pc[1] = "ping"
  /\ \E o \in Call(conn, durable, Command("ping")) :
       /\ conn' = o.conn /\ durable' = o.data
       /\ CASE o.err # "none" -> err' = o.err /\ QueryFails
            [] o.err = "none" /\ bAuto ->
                 pc' = <<"again", pc[2]>> /\ UNCHANGED <<err, caller, owed>>
            [] o.err = "none" /\ ~bAuto -> err' = "none" /\ QueryFails
  /\ UNCHANGED <<bInit, bAuto, next, txn, void, unsure>>

\* mysql_real_query, the second time; m_iErrNo keeps the first error when it
\* succeeds.
RealQueryAgain ==
  /\ pc[1] = "again"
  /\ \E o \in Call(conn, durable, Run(pc[2])) :
       /\ conn' = o.conn /\ durable' = o.data
       /\ IF o.err = "none"
            THEN pc' = <<"store", pc[2]>> /\ UNCHANGED <<err, caller, owed>>
            ELSE err' = o.err /\ QueryFails
  /\ UNCHANGED <<bInit, bAuto, next, txn, void, unsure>>

\* mysql_store_result: the rows may fail to arrive.
StoreResult ==
  /\ pc[1] = "store"
  /\ \/ QuerySucceeds(pc[2]) /\ UNCHANGED <<err, conn>>
     \/ /\ QueryFails
        /\ err' = "lost"
        /\ conn' = Broken(conn)
  /\ UNCHANGED <<durable, bInit, bAuto, next, txn, void, unsure>>

\* DbX::begin
Begin ==
  /\ bInit /\ pc = Idle /\ caller = "plain"
  /\ next < MaxStmt
  /\ \E o \in Call(conn, durable, Command("set0")) :
       /\ conn' = o.conn /\ durable' = o.data
       /\ IF o.err = "none"
            THEN bAuto' = FALSE /\ caller' = "tx" /\ UNCHANGED err
            ELSE err' = o.err /\ UNCHANGED <<bAuto, caller>>
  /\ txn' = {}
  /\ UNCHANGED <<bInit, pc, next, owed, void, unsure>>

\* mysql_commit in DbX::commit
Commit ==
  /\ bInit /\ pc = Idle /\ caller = "tx"
  /\ \E o \in Call(conn, durable, Command("commit")) :
       /\ conn' = o.conn /\ durable' = o.data
       /\ IF o.err = "none"
            THEN /\ pc' = <<"set1", 0>> /\ owed' = owed \union txn
                 /\ UNCHANGED <<caller, err, unsure>>
            ELSE /\ caller' = "abort" /\ err' = o.err
                 /\ unsure' = unsure \union {txn}
                 /\ UNCHANGED <<pc, owed>>
  /\ UNCHANGED <<bInit, bAuto, next, txn, void>>

\* mysql_rollback in DbX::rollback: when it fails, m_bAutoCommit stays false.
\* The caller gives the transaction up either way.
Rollback ==
  /\ bInit /\ pc = Idle /\ caller \in {"tx", "abort"}
  /\ \E o \in Call(conn, durable, Command("rollback")) :
       /\ conn' = o.conn /\ durable' = o.data
       /\ IF o.err = "none"
            THEN pc' = <<"set1", 0>> /\ UNCHANGED <<caller, err>>
            ELSE caller' = "plain" /\ err' = o.err /\ UNCHANGED pc
       /\ void' = IF txn \in unsure THEN void ELSE void \union txn
  /\ UNCHANGED <<bInit, bAuto, next, txn, owed, unsure>>

\* A slip: m_bAutoCommit is reset and the session is not.
OnlyFlag ==
  /\ pc[1] = "set1"
  /\ bAuto' = TRUE
  /\ pc' = Idle
  /\ caller' = "plain"
  /\ UNCHANGED <<server, bInit, err, next, ghosts>>

\* mysql_autocommit(1) at the end of commit and rollback: its result is not
\* looked at.
AutoCommitOn ==
  /\ pc[1] = "set1"
  /\ \E o \in Call(conn, durable, Command("set1")) : conn' = o.conn /\ durable' = o.data
  /\ bAuto' = TRUE
  /\ pc' = Idle
  /\ caller' = "plain"
  /\ UNCHANGED <<bInit, err, next, ghosts>>

Step == RealQuery \/ Ping \/ RealQueryAgain \/ StoreResult \/ AutoCommitOn

\* DbX::status: an error of mysql_stat inside a transaction is one for the
\* caller.
Status ==
  /\ bInit /\ pc = Idle
  /\ \E o \in Call(conn, durable, Command("stat")) :
       /\ conn' = o.conn /\ durable' = o.data
       /\ IF o.err = "none" THEN UNCHANGED <<err, caller>>
          ELSE err' = o.err /\ caller' = IF caller = "tx" THEN "abort" ELSE caller
  /\ UNCHANGED <<bInit, bAuto, pc, next, txn, owed, void, unsure>>

\* ~DbX, or the process ends between two calls of the library; what comes
\* next is a new object.
End ==
  /\ bInit
  /\ conn' = Closed
  /\ bInit' = FALSE /\ bAuto' = TRUE /\ err' = "none"
  /\ pc' = Idle /\ caller' = "plain"
  /\ void' = IF caller = "plain" \/ pc[1] = "set1" \/ txn \in unsure THEN void ELSE void \union txn
  /\ UNCHANGED <<durable, next, txn, owed, unsure>>

\* All statements are issued and the last transaction is over.
Done ==
  /\ pc = Idle /\ caller = "plain" /\ next = MaxStmt
  /\ UNCHANGED vars

Next ==
  \/ InitOk \/ InitFails \/ Query \/ Begin \/ Commit \/ Rollback
  \/ Step \/ Status \/ End \/ Cut \/ Done

Spec == Init /\ [][Next]_vars

\* A method that was entered runs to its end.
FairSpec == Spec /\ WF_vars(Step)

-----------------------------------------------------------------------------
(***************************************************************************)
(* Properties                                                              *)
(***************************************************************************)

\* The session, the object and the caller are in states the code can reach;
\* a statement takes effect at most twice.
TypeOK ==
  /\ conn \in Conn
  /\ durable \in [Stmt -> 0 .. 2]
  /\ bInit \in BOOLEAN /\ bAuto \in BOOLEAN
  /\ err \in {"none", "lost", "gone", "sql", "refused"}
  /\ pc \in {"idle", "query", "ping", "again", "store", "set1"} \X (0 .. MaxStmt)
  /\ caller \in {"plain", "tx", "abort"}
  /\ next \in 0 .. MaxStmt
  /\ txn \subseteq Stmt /\ owed \subseteq Stmt /\ void \subseteq Stmt
  /\ unsure \in SUBSET SUBSET Stmt

\* A transaction that was rolled back, or given up after an error, left
\* nothing behind, and one whose commit failed is there as a whole or not at
\* all: no reconnection splits it.
UndoneIsGone ==
  /\ \A s \in void : durable[s] = 0
  /\ \A t \in unsure : caller = "plain" =>
       (\A s \in t : durable[s] = 1) \/ (\A s \in t : durable[s] = 0)

\* The connection that breaks, the retry, the modes and the sessions are not
\* seen: DbX does what Transactions promises.
Given == 1 .. next
Running == IF pc[1] \in {"query", "ping", "again", "store"} THEN {pc[2]} ELSE {}
CallerSees == IF pc[1] = "set1" THEN "plain" ELSE caller

Promised == INSTANCE Transactions WITH
  issued <- Given, running <- Running, caller <- CallerSees

IsTransactional == Promised!TSpec

\* An object that believes in autocommit has a session in that mode: nothing
\* the caller does outside a transaction waits for a commit that never comes.
ModeAgrees ==
  pc = Idle /\ caller = "plain" /\ bAuto /\ conn.link = "up" =>
    conn.mode = "auto" /\ conn.pending = {}

\* Every query returns: the retry is not repeated.
QueryReturns == pc[1] = "query" ~> pc = Idle
=============================================================================
