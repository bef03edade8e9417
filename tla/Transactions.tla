----------------------------- MODULE Transactions -----------------------------
(***************************************************************************)
(* What DbX promises to its caller, without sessions, retries or modes:    *)
(* a statement outside a transaction takes effect up to twice and at least *)
(* once when it is reported as done; the statements of a transaction take  *)
(* effect together, once, in commit, or never.                             *)
(***************************************************************************)
EXTENDS Integers

CONSTANT Stmt

VARIABLES
  durable,   \* statement -> how often it took effect for good
  issued,    \* statements the caller gave
  running,   \* the statement under way, as a set
  caller,    \* "plain", "tx": in a transaction, "abort": must roll back
  txn,       \* statements of the current transaction
  owed,      \* statements reported as done
  void,      \* statements reported as undone
  unsure     \* transactions whose commit failed

tvars == <<durable, issued, running, caller, txn, owed, void, unsure>>

TInit ==
  /\ durable = [s \in Stmt |-> 0]
  /\ caller = "plain"
  /\ issued = {} /\ running = {} /\ txn = {} /\ owed = {} /\ void = {} /\ unsure = {}

Effect(S) == [s \in Stmt |-> IF s \in S THEN durable[s] + 1 ELSE durable[s]]
GivenUp == IF txn \in unsure THEN void ELSE void \union txn

Issue(s) ==
  /\ running = {} /\ caller \in {"plain", "tx"} /\ s \notin issued
  /\ issued' = issued \union {s} /\ running' = {s}
  /\ txn' = IF caller = "tx" THEN txn \union {s} ELSE txn
  /\ UNCHANGED <<durable, caller, owed, void, unsure>>

\* The statement under way takes effect (not inside a transaction), or ends,
\* or both.
Work(s) ==
  /\ s \in running
  /\ \/ durable' = durable
     \/ caller = "plain" /\ durable[s] < 2 /\ durable' = Effect({s})
  /\ \/ UNCHANGED <<running, caller, owed>>
     \/ running' = {} /\ caller = "tx" /\ UNCHANGED <<caller, owed>>
     \/ running' = {} /\ caller = "plain" /\ UNCHANGED <<caller, owed>>
     \/ /\ running' = {} /\ caller = "plain" /\ durable'[s] > 0
        /\ owed' = owed \union {s} /\ UNCHANGED caller
  /\ UNCHANGED <<issued, txn, void, unsure>>

\* Any call inside a transaction may fail.
Fail ==
  /\ caller = "tx" /\ caller' = "abort" /\ running' = {}
  /\ UNCHANGED <<durable, issued, txn, owed, void, unsure>>

BeginTransaction ==
  /\ running = {} /\ caller = "plain"
  /\ caller' \in {"plain", "tx"} /\ txn' = {}
  /\ UNCHANGED <<durable, issued, running, owed, void, unsure>>

CommitSucceeds ==
  /\ running = {} /\ caller = "tx"
  /\ durable' = Effect(txn) /\ owed' = owed \union txn /\ caller' = "plain"
  /\ UNCHANGED <<issued, running, txn, void, unsure>>

CommitFails ==
  /\ running = {} /\ caller = "tx"
  /\ durable' \in {durable, Effect(txn)}
  /\ unsure' = unsure \union {txn} /\ caller' = "abort"
  /\ UNCHANGED <<issued, running, txn, owed, void>>

\* rollback, or the end of the object or of its process
Leave ==
  /\ running' = {} /\ caller' = "plain"
  /\ void' = IF caller = "plain" THEN void ELSE GivenUp
  /\ UNCHANGED <<durable, issued, txn, owed, unsure>>

TNext ==
  \/ \E s \in Stmt : Issue(s) \/ Work(s)
  \/ Fail \/ BeginTransaction \/ CommitSucceeds \/ CommitFails \/ Leave

TSpec == TInit /\ [][TNext]_tvars

-----------------------------------------------------------------------------
(***************************************************************************)
(* What follows for the data, proved in DbX_proofs                         *)
(***************************************************************************)

\* What was reported as done is done.
DoneIsDurable == \A s \in owed : durable[s] > 0

\* A transaction that was given up left nothing behind, and one whose commit
\* failed is there as a whole or not at all.
UndoneIsGone ==
  /\ \A s \in void : durable[s] = 0
  /\ \A t \in unsure : \A r, s \in t : durable[r] = durable[s]

\* A statement takes effect twice at most, and only outside of transactions.
TransactionOnce == \A s \in Stmt :
  /\ durable[s] \in 0 .. 2
  /\ durable[s] = 2 => s \notin txn /\ s \notin UNION unsure /\ s \notin void

-----------------------------------------------------------------------------
(***************************************************************************)
(* Why it follows: the inductive invariant                                 *)
(***************************************************************************)

TTypes ==
  /\ durable \in [Stmt -> 0 .. 2]
  /\ issued \in SUBSET Stmt /\ running \in SUBSET issued
  /\ caller \in {"plain", "tx", "abort"}
  /\ txn \in SUBSET issued /\ owed \in SUBSET Stmt /\ void \in SUBSET issued
  /\ unsure \in SUBSET SUBSET issued

\* A statement outside a transaction belongs to none, and one that was not
\* issued did nothing.
Apart ==
  /\ \A s \in Stmt \ issued : durable[s] = 0
  /\ caller = "plain" => \A s \in running : s \notin txn /\ s \notin UNION unsure /\ s \notin void

\* The open transaction has done nothing yet and is none of the earlier ones;
\* one that must be rolled back did nothing either, unless its commit failed.
Untouched ==
  /\ caller = "tx" => \A s \in txn : durable[s] = 0 /\ s \notin UNION unsure /\ s \notin void
  /\ caller = "abort" /\ txn \notin unsure => \A s \in txn : durable[s] = 0

TInv == TTypes /\ Apart /\ Untouched /\ DoneIsDurable /\ UndoneIsGone /\ TransactionOnce
===============================================================================
