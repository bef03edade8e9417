------------------------------ MODULE DbX_proofs ------------------------------
(***************************************************************************)
(* Proofs about DbX, for any number of statements, where the connection    *)
(* does not break between begin() and the first statement.                 *)
(***************************************************************************)
EXTENDS DbX, TLAPS

-----------------------------------------------------------------------------
(***************************************************************************)
(* What the calls of the library do.  A session that is not up has no      *)
(* transaction and is in autocommit mode.                                  *)
(***************************************************************************)
Sane(c) == c \in Conn /\ (c.link # "up" => c.mode = "auto" /\ c.pending = {})

\* A transaction is open, or the library knows that it was lost.
InTx(c) == IF c.link = "up" THEN c.mode = "manual" ELSE c.inTrans

\* Outside of transactions.
Plain(c) == c.mode = "auto" /\ c.pending = {}

Data == [Stmt -> Nat]

\* A call fails at once, or is an attempt on the session or on a new one.
LEMMA CallCases ==
  ASSUME NEW c, Sane(c), NEW d, NEW cmd, NEW o \in Call(c, d, cmd)
  PROVE  \/ o = Outcome(Closed, d, "gone") \/ o = Outcome(Closed, d, "refused")
         \/ o = Outcome(Broken(c), d, "lost")
         \/ c.link = "up" /\ o \in Attempt(c, d, cmd)
         \/ c.link # "up" /\ ~c.inTrans /\ o \in Attempt(Session, d, cmd)
<1>1. c.link \in {"up", "cut", "closed"}
  BY DEF Sane, Conn
<1>2. CASE c.link = "up"
  BY <1>2 DEF Call
<1>3. CASE c.link # "up"
  BY <1>1, <1>3 DEF Call, Reconnect
<1> QED
  BY <1>2, <1>3

\* Broken connections and new sessions are in order.
LEMMA Records ==
  /\ Closed \in Conn /\ Session \in Conn
  /\ Sane(Closed) /\ Closed.link = "closed" /\ ~Closed.inTrans /\ Plain(Closed)
  /\ Sane(Session) /\ Session.link = "up" /\ Plain(Session) /\ ~Session.inTrans
  /\ \A c : Sane(c) => Sane(Broken(c)) /\ Broken(c).link = "closed" /\ Broken(c).inTrans = c.inTrans
                       /\ Plain(Broken(c))
  /\ \A c, d, e : Outcome(c, d, e).conn = c /\ Outcome(c, d, e).data = d /\ Outcome(c, d, e).err = e
  BY DEF Closed, Session, Broken, Sane, Conn, Plain, Outcome

\* The session after an answer.
Answer(e) == [e EXCEPT !.inTrans = (e.pending # {})]

\* Only the status flag changes.
LEMMA AnswerIsSane ==
  ASSUME NEW e \in Conn, e.link = "up"
  PROVE  /\ Sane(Answer(e)) /\ Answer(e).link = "up" /\ Answer(e).mode = e.mode
         /\ Answer(e).pending = e.pending /\ (Answer(e).inTrans <=> e.pending # {})
  BY DEF Answer, Sane, Conn

Lost(o) == o.err \in {"gone", "refused", "lost"} /\ o.conn.link # "up" /\ Sane(o.conn) /\ Plain(o.conn)

\* The session a call is made in, where there is one or will be.
Used(c) == IF c.link = "up" THEN c ELSE Session

\* It is up, and plain where the old one was.
LEMMA UsedIsUp ==
  ASSUME NEW c, Sane(c)
  PROVE  Used(c) \in Conn /\ Sane(Used(c)) /\ Used(c).link = "up" /\ (Plain(c) => Plain(Used(c)))
  BY Records DEF Used, Sane

\* The outcomes of a call: it fails with nothing done; or it is made, and the
\* answer is lost, it is answered, or the statement is refused.
LEMMA Outcomes ==
  ASSUME NEW c, Sane(c), NEW d, NEW cmd, NEW o \in Call(c, d, cmd),
         NEW e \in Conn, NEW x, Execute(Used(c), d, cmd) = <<e, x>>, e.link = "up"
  PROVE  \/ Lost(o) /\ o.data = d
         \/ /\ c.link = "up" \/ ~c.inTrans
            /\ \/ Lost(o) /\ o.data = x
               \/ /\ o.err = "none" /\ o.data = x
                  /\ Sane(o.conn) /\ o.conn.link = "up" /\ o.conn.mode = e.mode
                  /\ o.conn.pending = e.pending /\ (o.conn.inTrans <=> e.pending # {})
               \/ o.err = "sql" /\ cmd[1] = "run" /\ o.conn = Used(c) /\ o.data = d
<1>1. CASE o = Outcome(Closed, d, "gone") \/ o = Outcome(Closed, d, "refused") \/ o = Outcome(Broken(c), d, "lost")
  BY <1>1, Records DEF Lost
<1>2. CASE (c.link = "up" \/ ~c.inTrans) /\ o \in Attempt(Used(c), d, cmd)
  <2>1. \/ o = Outcome(Answer(e), x, "none")
        \/ o = Outcome(Broken(Used(c)), d, "lost") \/ o = Outcome(Broken(Used(c)), x, "lost")
        \/ cmd[1] = "run" /\ o = Outcome(Used(c), d, "sql")
    BY <1>2 DEF Attempt, Answer
  <2> QED
    BY <1>2, <2>1, Records, AnswerIsSane, UsedIsUp DEF Lost
<1> QED
  BY <1>1, <1>2, CallCases DEF Used

-----------------------------------------------------------------------------
(***************************************************************************)
(* The calls one by one                                                    *)
(***************************************************************************)
Made(c) == c.link = "up" \/ ~c.inTrans

\* ping, stat and rollback change no data.
LEMMA QuietCall ==
  ASSUME NEW c, Sane(c), NEW d, NEW n \in {"ping", "stat"}, NEW o \in Call(c, d, Command(n))
  PROVE  /\ o.data = d
         /\ \/ Lost(o)
            \/ /\ Made(c) /\ o.err = "none" /\ Sane(o.conn) /\ o.conn.link = "up"
               /\ o.conn.mode = Used(c).mode /\ o.conn.pending = Used(c).pending
               /\ o.conn.inTrans <=> Used(c).pending # {}
<1>1. Execute(Used(c), d, Command(n)) = <<Used(c), d>>
  BY DEF Execute, Command
<1>2. Command(n)[1] # "run"
  BY DEF Command
<1> QED
  BY <1>1, <1>2, UsedIsUp, Outcomes DEF Made

\* A rollback leaves nothing pending, or no session.
LEMMA RollbackCall ==
  ASSUME NEW c, Sane(c), NEW d, NEW o \in Call(c, d, Command("rollback"))
  PROVE  /\ o.data = d
         /\ Lost(o) \/ (o.err = "none" /\ Sane(o.conn) /\ o.conn.pending = {})
<1> DEFINE e == [Used(c) EXCEPT !.pending = {}]
<1>1. Execute(Used(c), d, Command("rollback")) = <<e, d>>
  BY DEF Execute, Command
<1>2. Command("rollback")[1] # "run"
  BY DEF Command
<1>3. e \in Conn /\ e.link = "up" /\ e.pending = {}
  BY UsedIsUp DEF Conn
<1> HIDE DEF e
<1> QED
  BY <1>1, <1>2, <1>3, Outcomes

\* A transaction begins in a session that is up.
LEMMA BeginCall ==
  ASSUME NEW c, Sane(c), Plain(c), NEW d, NEW o \in Call(c, d, Command("set0"))
  PROVE  /\ o.data = d
         /\ \/ Lost(o)
            \/ /\ o.err = "none" /\ Sane(o.conn) /\ o.conn.link = "up" /\ o.conn.mode = "manual"
               /\ o.conn.pending = {} /\ ~o.conn.inTrans
<1> DEFINE e == [Used(c) EXCEPT !.mode = "manual"]
<1>1. Execute(Used(c), d, Command("set0")) = <<e, d>>
  BY DEF Execute, Command
<1>2. Command("set0")[1] # "run"
  BY DEF Command
<1>3. e \in Conn /\ e.link = "up" /\ e.pending = {} /\ e.mode = "manual"
  BY UsedIsUp DEF Conn, Plain
<1> HIDE DEF e
<1> QED
  BY <1>1, <1>2, <1>3, Outcomes

\* Back to autocommit, with nothing pending.
LEMMA AutoCommitCall ==
  ASSUME NEW c, Sane(c), c.pending = {}, NEW d \in Data, NEW o \in Call(c, d, Command("set1"))
  PROVE  o.data = d /\ Sane(o.conn) /\ Plain(o.conn)
<1> DEFINE e == [Used(c) EXCEPT !.mode = "auto", !.pending = {}]
<1>1. Used(c).pending = {}
  BY Records DEF Used, Plain
<1>2. Flush(d, Used(c).pending) = d
  BY <1>1 DEF Flush, Data
<1>3. Execute(Used(c), d, Command("set1")) = <<e, d>>
  BY <1>2 DEF Execute, Command
<1>4. Command("set1")[1] # "run"
  BY DEF Command
<1>5. e \in Conn
  <2>1. [Used(c) EXCEPT !.mode = "auto"] \in Conn
    BY UsedIsUp DEF Conn
  <2>2. e = [[Used(c) EXCEPT !.mode = "auto"] EXCEPT !.pending = {}]
    OBVIOUS
  <2>3. \A r \in Conn : [r EXCEPT !.pending = {}] \in Conn
    BY DEF Conn
  <2> QED
    BY <2>1, <2>2, <2>3
<1>6. e.link = "up" /\ e.pending = {} /\ e.mode = "auto"
  BY UsedIsUp DEF Conn
<1> HIDE DEF e
<1> QED
  BY <1>3, <1>4, <1>5, <1>6, Outcomes DEF Plain, Lost

\* A commit makes the transaction durable where its session is up.
LEMMA CommitCall ==
  ASSUME NEW c, Sane(c), InTx(c), NEW d, NEW o \in Call(c, d, Command("commit"))
  PROVE  \/ Lost(o) /\ (o.data = d \/ (c.link = "up" /\ o.data = Flush(d, c.pending)))
         \/ /\ o.err = "none" /\ c.link = "up" /\ o.data = Flush(d, c.pending)
            /\ Sane(o.conn) /\ o.conn.pending = {}
<1> DEFINE e == [Used(c) EXCEPT !.pending = {}]
<1>1. Execute(Used(c), d, Command("commit")) = <<e, Flush(d, Used(c).pending)>>
  BY DEF Execute, Command
<1>2. Command("commit")[1] # "run"
  BY DEF Command
<1>3. e \in Conn /\ e.link = "up" /\ e.pending = {}
  BY UsedIsUp DEF Conn
<1> HIDE DEF e
<1> QED
  BY <1>1, <1>2, <1>3, Outcomes DEF InTx, Used

\* A statement outside of transactions is durable when it is answered.
LEMMA RunPlain ==
  ASSUME NEW c, Sane(c), Plain(c), NEW d, NEW s \in Stmt, NEW o \in Call(c, d, Run(s))
  PROVE  /\ Sane(o.conn) /\ Plain(o.conn)
         /\ o.err \in {"none", "lost", "gone", "refused", "sql"}
         /\ o.data = d \/ o.data = Flush(d, {s})
         /\ o.err = "none" => o.data = Flush(d, {s})
<1>1. Execute(Used(c), d, Run(s)) = <<Used(c), Flush(d, {s})>>
  BY UsedIsUp DEF Execute, Run, Plain
<1> QED
  BY <1>1, UsedIsUp, Outcomes DEF Plain, Lost

\* A statement inside of one waits for the commit.
LEMMA RunInTx ==
  ASSUME NEW c, Sane(c), InTx(c), NEW d, NEW s \in Stmt, NEW o \in Call(c, d, Run(s))
  PROVE  /\ o.data = d /\ Sane(o.conn)
         /\ o.err \in {"none", "lost", "gone", "refused", "sql"}
         /\ o.err = "none" => /\ InTx(o.conn) /\ o.conn.link = "up" /\ c.link = "up" /\ o.conn.inTrans
                              /\ o.conn.pending = c.pending \union {s}
<1> DEFINE e == [c EXCEPT !.pending = @ \union {s}]
<1>1. CASE c.link = "up"
  <2>1. Execute(Used(c), d, Run(s)) = <<e, d>>
    BY <1>1 DEF Execute, Run, InTx, Used
  <2>2. e \in Conn /\ e.link = "up" /\ e.mode = "manual" /\ e.pending = c.pending \union {s}
    BY <1>1 DEF Conn, Sane, InTx
  <2> HIDE DEF e
  <2> QED
    BY <1>1, <2>1, <2>2, Outcomes DEF InTx, Lost, Used
<1>2. CASE c.link # "up"
  BY <1>2, CallCases, Records DEF InTx
<1> QED
  BY <1>1, <1>2

-----------------------------------------------------------------------------
(***************************************************************************)
(* The invariant                                                           *)
(***************************************************************************)
Busy == {"query", "ping", "again", "store"}

\* An object without a connection is in no call; a query that is under way is
\* of a statement that was issued, and is retried outside of transactions only.
Calls ==
  /\ ~bInit => pc = Idle /\ caller = "plain"
  /\ pc[1] \in Busy => pc[2] \in 1 .. next /\ caller \in {"plain", "tx"}
  /\ pc[1] = "again" => caller = "plain"
  /\ pc[1] = "set1" => caller # "plain" /\ conn.pending = {}

\* The mode of the session follows the caller: in a transaction it has exactly
\* the statements of the transaction pending, or the library knows that they
\* were lost; outside it has none, and is in autocommit mode.
Modes ==
  /\ Sane(conn)
  /\ caller = "plain" => Plain(conn)
  /\ caller = "tx" => ~bAuto
  /\ caller = "tx" /\ pc[1] \in {"idle", "query", "store"} =>
       /\ InTx(conn)
       /\ conn.link = "up" =>
            txn = IF pc[1] = "query" THEN conn.pending \union {pc[2]} ELSE conn.pending

\* How often the statements took effect.
Counts ==
  /\ txn \subseteq 1 .. next
  /\ \A s \in Stmt : s > next => durable[s] = 0
  /\ caller = "tx" /\ pc[1] # "set1" => \A s \in txn : durable[s] = 0
  /\ caller = "plain" =>
       /\ pc[1] = "query" => durable[pc[2]] = 0
       /\ pc[1] \in {"ping", "again"} => durable[pc[2]] \in 0 .. 1
       /\ pc[1] = "store" => durable[pc[2]] > 0

Inv == TypeOK /\ Calls /\ Modes /\ Counts

\* A step of DbX as its abstraction sees it.
Promise == [Promised!TNext]_(Promised!tvars)

\* A new object has no connection.
LEMMA InvInit == Init => Inv /\ Promised!TInit
<1> SUFFICES ASSUME Init PROVE Inv /\ Promised!TInit
  OBVIOUS
<1> USE MaxStmtAssumption DEF Init
<1>1. TypeOK
  <2>1. pc \in {"idle", "query", "ping", "again", "store", "set1"} \X (0 .. MaxStmt)
    BY DEF Idle
  <2>2. bInit \in BOOLEAN /\ bAuto \in BOOLEAN
    OBVIOUS
  <2>3. durable \in [Stmt -> 0 .. 2] /\ conn \in Conn
    BY Records
  <2> QED
    BY <2>1, <2>2, <2>3 DEF TypeOK
<1>2. Calls
  BY DEF Calls, Idle, Busy
<1>3. Modes
  BY Records DEF Modes, Idle
<1>4. Counts
  BY DEF Counts, Idle
<1>5. Promised!TInit
  BY DEF Promised!TInit, Idle, Stmt, Given, Running, CallerSees
<1> QED
  BY <1>1, <1>2, <1>3, <1>4, <1>5 DEF Inv

-----------------------------------------------------------------------------
(***************************************************************************)
(* Each action keeps the invariant and is a step of Transactions           *)
(***************************************************************************)

\* A connection that breaks in a transaction is known to have had one.
LEMMA CutStep ==
  ASSUME ~IdleCut, Inv, Cut
  PROVE  Inv' /\ Promise
<1> USE DEF Cut, server, object, ghosts
<1>1. conn' \in Conn /\ conn'.link = "cut" /\ Plain(conn') /\ conn'.inTrans = conn.inTrans
  BY DEF Inv, TypeOK, Conn, Plain
<1>2. conn.mode = "manual" => conn.inTrans
  BY DEF Inv, TypeOK, Conn
<1>3. TypeOK' /\ Calls' /\ Counts'
  BY <1>1 DEF Inv, TypeOK, Calls, Counts, Plain
<1>4. Modes'
  BY <1>1, <1>2 DEF Inv, Modes, Sane, InTx, Plain
<1>5. Promise
  BY DEF Promise, Promised!tvars, Given, Running, CallerSees
<1> QED
  BY <1>3, <1>4, <1>5 DEF Inv

\* A new session is in autocommit mode.
LEMMA InitStep ==
  ASSUME Inv, InitOk \/ InitFails
  PROVE  Inv' /\ Promise
<1> USE DEF InitOk, InitFails, server, ghosts
<1>1. conn' \in Conn /\ Sane(conn') /\ Plain(conn')
  BY Records DEF Inv, Calls, Modes, TypeOK
<1>2. TypeOK'
  <2>1. bInit' \in BOOLEAN
    BY DEF Inv, TypeOK
  <2> QED
    BY <1>1, <2>1 DEF Inv, TypeOK
<1>3. Calls'
  BY DEF Inv, Calls, Idle
<1>4. Modes' /\ Counts'
  BY <1>1 DEF Inv, Modes, Counts, Calls, Idle
<1>5. Promise
  BY DEF Promise, Promised!tvars, Given, Running, CallerSees
<1> QED
  BY <1>2, <1>3, <1>4, <1>5 DEF Inv

\* A query is of a statement that did nothing yet.
LEMMA QueryStep ==
  ASSUME Inv, Query
  PROVE  Inv' /\ Promise
<1> USE MaxStmtAssumption DEF Query, server, object, ghosts
<1> DEFINE s == next + 1
<1>1. s \in Stmt /\ s > next /\ pc'[1] = "query" /\ pc'[2] = s /\ next' = s /\ durable[s] = 0
  BY DEF Inv, TypeOK, Stmt, Counts
<1>2. TypeOK'
  BY <1>1 DEF Inv, TypeOK, Stmt
<1>3. Calls'
  BY <1>1 DEF Inv, Calls, Busy, TypeOK
<1>4. Modes'
  BY <1>1 DEF Inv, Modes, Idle, InTx
<1>5. Counts'
  BY <1>1 DEF Inv, Counts, TypeOK, Stmt, Idle
<1>6. Promised!Issue(s)
  BY <1>1 DEF Promised!Issue, Inv, TypeOK, Idle, Given, Running, CallerSees
<1> QED
  BY <1>1, <1>2, <1>3, <1>4, <1>5, <1>6 DEF Inv, Promise, Promised!TNext

\* A query that is under way
LEMMA UnderWay ==
  ASSUME Inv, pc[1] \in Busy
  PROVE  /\ pc = <<pc[1], pc[2]>> /\ pc[2] \in Stmt /\ pc[2] \in 1 .. next /\ pc[2] \in 0 .. MaxStmt
         /\ next \in 0 .. MaxStmt /\ caller \in {"plain", "tx"} /\ Sane(conn) /\ bInit
         /\ durable \in [Stmt -> 0 .. 2] /\ 0 \in 0 .. MaxStmt /\ txn \subseteq 1 .. next
<1> USE MaxStmtAssumption
<1>1. next \in 0 .. MaxStmt /\ durable \in [Stmt -> 0 .. 2] /\ Sane(conn) /\ txn \subseteq 1 .. next
  BY DEF Inv, TypeOK, Modes, Counts
<1>2. pc[2] \in 1 .. next /\ caller \in {"plain", "tx"}
  BY DEF Inv, Calls
<1>3. bInit
  BY DEF Inv, Calls, Idle, Busy
<1>4. pc = <<pc[1], pc[2]>>
  BY DEF Inv, TypeOK
<1> QED
  BY <1>1, <1>2, <1>3, <1>4 DEF Stmt

\* The statement takes effect at once outside of transactions, and not inside.
LEMMA RealQueryStep ==
  ASSUME Inv, RealQuery
  PROVE  Inv' /\ Promise
<1> DEFINE s == pc[2]
<1>1. /\ pc = <<"query", s>> /\ s \in Stmt /\ s \in 1 .. next /\ s \in 0 .. MaxStmt
      /\ next \in 0 .. MaxStmt /\ caller \in {"plain", "tx"} /\ Sane(conn) /\ bInit
      /\ durable \in [Stmt -> 0 .. 2] /\ 0 \in 0 .. MaxStmt /\ txn \subseteq 1 .. next
  BY UnderWay DEF RealQuery, Busy
<1>2. PICK o \in Call(conn, durable, Run(s)) :
        /\ conn' = o.conn /\ durable' = o.data /\ err' = o.err
        /\ CASE o.err \in {"gone", "lost"} -> pc' = <<"ping", s>> /\ UNCHANGED <<caller, owed>>
             [] o.err = "none" -> pc' = <<"store", s>> /\ UNCHANGED <<caller, owed>>
             [] OTHER -> QueryFails
  BY DEF RealQuery
<1>3. UNCHANGED <<bInit, bAuto, next, txn, void, unsure>>
  BY DEF RealQuery
<1>4. CASE caller = "plain"
  <2>1. durable[s] = 0 /\ Plain(conn)
    BY <1>1, <1>4 DEF Inv, Counts, Modes
  <2>2. /\ Sane(o.conn) /\ Plain(o.conn)
        /\ o.err \in {"none", "lost", "gone", "refused", "sql"}
        /\ o.data = durable \/ o.data = Flush(durable, {s})
        /\ o.err = "none" => o.data = Flush(durable, {s})
    BY <1>1, <2>1, RunPlain
  <2>3. /\ Flush(durable, {s}) \in [Stmt -> 0 .. 2] /\ Flush(durable, {s})[s] = 1
        /\ \A r \in Stmt \ {s} : Flush(durable, {s})[r] = durable[r]
    BY <1>1, <2>1 DEF Flush
  <2>4. caller' = "plain" /\ owed' = owed
        /\ (pc' = <<"ping", s>> \/ (o.err = "none" /\ pc' = <<"store", s>>) \/ pc' = Idle)
    BY <1>2, <1>4, <2>2 DEF QueryFails
  <2>5. TypeOK'
    <3>1. err' \in {"none", "lost", "gone", "sql", "refused"} /\ conn' \in Conn /\ durable' \in [Stmt -> 0 .. 2]
      BY <1>1, <1>2, <2>2, <2>3 DEF Sane
    <3>2. pc' \in {"idle", "query", "ping", "again", "store", "set1"} \X (0 .. MaxStmt)
      BY <1>1, <2>4 DEF Idle, Stmt
    <3> QED
      BY <1>3, <2>4, <3>1, <3>2 DEF Inv, TypeOK
  <2>6. Calls'
    BY <1>1, <1>3, <2>4 DEF Calls, Busy, Idle
  <2>7. Modes'
    BY <1>2, <2>2, <2>4 DEF Modes
  <2>8. Counts'
    <3>1. \A r \in Stmt : r > next => r # s /\ durable[r] = 0
      BY <1>1 DEF Inv, Counts
    <3>2. \A r \in Stmt : r > next => durable'[r] = 0
      BY <1>2, <2>2, <2>3, <3>1
    <3>3. durable'[s] \in 0 .. 1 /\ (o.err = "none" => durable'[s] > 0)
      BY <1>2, <2>1, <2>2, <2>3
    <3> QED
      BY <1>1, <1>3, <2>4, <3>2, <3>3 DEF Counts, Idle
  <2>9. Promised!Work(s)
    BY <1>1, <1>2, <1>3, <1>4, <2>1, <2>2, <2>4 DEF Promised!Work, Promised!Effect, Flush, Idle,
       Given, Running, CallerSees
  <2> QED
    BY <1>1, <2>5, <2>6, <2>7, <2>8, <2>9 DEF Inv, Promise, Promised!TNext
<1>5. CASE caller = "tx"
  <2>1. InTx(conn) /\ (conn.link = "up" => txn = conn.pending \union {s}) /\ ~bAuto
    BY <1>1, <1>5 DEF Inv, Modes
  <2>2. /\ o.data = durable /\ Sane(o.conn)
        /\ o.err \in {"none", "lost", "gone", "refused", "sql"}
        /\ o.err = "none" => /\ InTx(o.conn) /\ o.conn.link = "up" /\ conn.link = "up"
                             /\ o.conn.pending = conn.pending \union {s}
    BY <1>1, <2>1, RunInTx
  <2>3. /\ owed' = owed
        /\ \/ pc' = <<"ping", s>> /\ caller' = "tx"
           \/ o.err = "none" /\ pc' = <<"store", s>> /\ caller' = "tx"
           \/ pc' = Idle /\ caller' = "abort"
    BY <1>2, <1>5, <2>2 DEF QueryFails
  <2>4. TypeOK'
    <3>1. err' \in {"none", "lost", "gone", "sql", "refused"} /\ conn' \in Conn /\ durable' = durable
      BY <1>2, <2>2 DEF Sane
    <3>2. pc' \in {"idle", "query", "ping", "again", "store", "set1"} \X (0 .. MaxStmt)
      BY <1>1, <2>3 DEF Idle, Stmt
    <3> QED
      BY <1>3, <2>3, <3>1, <3>2 DEF Inv, TypeOK
  <2>5. Calls'
    BY <1>1, <1>3, <2>3 DEF Calls, Busy, Idle
  <2>6. Modes'
    BY <1>2, <1>3, <2>1, <2>2, <2>3 DEF Modes, Idle
  <2>7. Counts'
    BY <1>1, <1>2, <1>3, <1>5, <2>2, <2>3 DEF Counts, Idle, Inv
  <2>8. Promised!Work(s) \/ Promised!Fail
    BY <1>1, <1>2, <1>3, <1>5, <2>2, <2>3 DEF Promised!Work, Promised!Fail, Idle,
       Given, Running, CallerSees
  <2> QED
    BY <1>1, <2>4, <2>5, <2>6, <2>7, <2>8 DEF Inv, Promise, Promised!TNext
<1> QED
  BY <1>1, <1>4, <1>5

\* A transaction is not continued after a reconnection.
LEMMA PingStep ==
  ASSUME Inv, Ping
  PROVE  Inv' /\ Promise
<1> DEFINE s == pc[2]
<1>1. /\ pc = <<"ping", s>> /\ s \in Stmt /\ s \in 1 .. next /\ s \in 0 .. MaxStmt
      /\ next \in 0 .. MaxStmt /\ caller \in {"plain", "tx"} /\ Sane(conn) /\ bInit
      /\ 0 \in 0 .. MaxStmt
  BY UnderWay DEF Ping, Busy
<1>2. PICK o \in Call(conn, durable, Command("ping")) :
        /\ conn' = o.conn /\ durable' = o.data
        /\ CASE o.err # "none" -> err' = o.err /\ QueryFails
             [] o.err = "none" /\ bAuto -> pc' = <<"again", s>> /\ UNCHANGED <<err, caller, owed>>
             [] o.err = "none" /\ ~bAuto -> err' = "none" /\ QueryFails
  BY DEF Ping
<1>3. UNCHANGED <<bInit, bAuto, next, txn, void, unsure>>
  BY DEF Ping
<1>4. /\ o.data = durable /\ Sane(o.conn) /\ o.err \in {"none", "gone", "refused", "lost"}
      /\ Plain(conn) => Plain(o.conn)
  BY <1>1, QuietCall, UsedIsUp DEF Lost, Plain
<1>5. /\ owed' = owed
      /\ \/ pc' = Idle /\ caller' = "plain" /\ caller = "plain"
         \/ pc' = Idle /\ caller' = "abort" /\ caller = "tx"
         \/ pc' = <<"again", s>> /\ caller' = caller /\ bAuto
  BY <1>1, <1>2, <1>4 DEF QueryFails, Inv, TypeOK
<1>6. caller = "tx" => ~bAuto
  BY DEF Inv, Modes
<1>7. TypeOK'
  <2>1. err' \in {"none", "lost", "gone", "sql", "refused"} /\ conn' \in Conn /\ durable' = durable
    BY <1>2, <1>4 DEF Inv, TypeOK, QueryFails, Sane
  <2>2. pc' \in {"idle", "query", "ping", "again", "store", "set1"} \X (0 .. MaxStmt)
    BY <1>1, <1>5 DEF Idle, Stmt
  <2> QED
    BY <1>1, <1>3, <1>5, <2>1, <2>2 DEF Inv, TypeOK
<1>8. Calls'
  BY <1>1, <1>3, <1>5, <1>6 DEF Calls, Busy, Idle
<1>9. Modes'
  BY <1>1, <1>2, <1>3, <1>4, <1>5, <1>6 DEF Inv, Modes, Idle
<1>10. Counts'
  BY <1>1, <1>2, <1>3, <1>4, <1>5, <1>6 DEF Inv, Counts, Idle
<1>11. Promised!Work(s) \/ Promised!Fail
  BY <1>1, <1>2, <1>3, <1>4, <1>5, <1>6 DEF Promised!Work, Promised!Fail, Idle,
     Given, Running, CallerSees
<1> QED
  BY <1>1, <1>7, <1>8, <1>9, <1>10, <1>11 DEF Inv, Promise, Promised!TNext

\* The retry is outside of transactions, and the second effect at most.
LEMMA RealQueryAgainStep ==
  ASSUME Inv, RealQueryAgain
  PROVE  Inv' /\ Promise
<1> DEFINE s == pc[2]
<1>0. /\ pc = <<"again", s>> /\ s \in Stmt /\ s \in 1 .. next /\ s \in 0 .. MaxStmt
      /\ next \in 0 .. MaxStmt /\ Sane(conn) /\ bInit
      /\ durable \in [Stmt -> 0 .. 2] /\ 0 \in 0 .. MaxStmt /\ txn \subseteq 1 .. next
  BY UnderWay DEF RealQueryAgain, Busy
<1>1. /\ pc = <<"again", s>> /\ s \in Stmt /\ s \in 1 .. next /\ s \in 0 .. MaxStmt
      /\ next \in 0 .. MaxStmt /\ Sane(conn) /\ bInit
      /\ durable \in [Stmt -> 0 .. 2] /\ 0 \in 0 .. MaxStmt /\ txn \subseteq 1 .. next
      /\ caller = "plain" /\ Plain(conn) /\ durable[s] \in 0 .. 1
  BY <1>0 DEF Inv, Calls, Modes, Counts
<1>2. PICK o \in Call(conn, durable, Run(s)) :
        /\ conn' = o.conn /\ durable' = o.data
        /\ IF o.err = "none" THEN pc' = <<"store", s>> /\ UNCHANGED <<err, caller, owed>>
                             ELSE err' = o.err /\ QueryFails
  BY DEF RealQueryAgain
<1>3. UNCHANGED <<bInit, bAuto, next, txn, void, unsure>>
  BY DEF RealQueryAgain
<1>4. /\ Sane(o.conn) /\ Plain(o.conn)
      /\ o.err \in {"none", "lost", "gone", "refused", "sql"}
      /\ o.data = durable \/ o.data = Flush(durable, {s})
      /\ o.err = "none" => o.data = Flush(durable, {s})
  <2>1. Sane(conn) /\ Plain(conn) /\ s \in Stmt
    BY <1>1
  <2> HIDE DEF s
  <2> QED
    BY <2>1, RunPlain
<1>5. /\ Flush(durable, {s}) \in [Stmt -> 0 .. 2] /\ Flush(durable, {s})[s] > 0
      /\ \A r \in Stmt \ {s} : Flush(durable, {s})[r] = durable[r]
  BY <1>1 DEF Flush
<1>6. caller' = "plain" /\ owed' = owed
      /\ ((o.err = "none" /\ pc' = <<"store", s>>) \/ pc' = Idle)
  BY <1>1, <1>2 DEF QueryFails
<1>7. TypeOK'
  <2>1. err' \in {"none", "lost", "gone", "sql", "refused"} /\ conn' \in Conn /\ durable' \in [Stmt -> 0 .. 2]
    BY <1>1, <1>2, <1>4, <1>5 DEF Inv, TypeOK, Sane
  <2>2. pc' \in {"idle", "query", "ping", "again", "store", "set1"} \X (0 .. MaxStmt)
    BY <1>1, <1>6 DEF Idle, Stmt
  <2> QED
    BY <1>3, <1>6, <2>1, <2>2 DEF Inv, TypeOK
<1>8. Calls'
  BY <1>1, <1>3, <1>6 DEF Calls, Busy, Idle
<1>9. Modes'
  BY <1>2, <1>4, <1>6 DEF Modes
<1>10. Counts'
  <2>1. \A r \in Stmt : r > next => r # s /\ durable[r] = 0
    BY <1>1 DEF Inv, Counts
  <2>2. \A r \in Stmt : r > next => durable'[r] = 0
    BY <1>2, <1>4, <1>5, <2>1
  <2>3. o.err = "none" => durable'[s] > 0
    BY <1>2, <1>4, <1>5
  <2> QED
    BY <1>1, <1>3, <1>6, <2>2, <2>3 DEF Counts, Idle
<1>11. Promised!Work(s)
  BY <1>1, <1>2, <1>3, <1>4, <1>6 DEF Promised!Work, Promised!Effect, Flush, Idle,
     Given, Running, CallerSees
<1> QED
  BY <1>1, <1>7, <1>8, <1>9, <1>10, <1>11 DEF Inv, Promise, Promised!TNext

\* Rows that do not arrive fail the query.
LEMMA StoreResultStep ==
  ASSUME Inv, StoreResult
  PROVE  Inv' /\ Promise
<1> DEFINE s == pc[2]
<1>1. /\ pc = <<"store", s>> /\ s \in Stmt /\ 0 \in 0 .. MaxStmt
      /\ caller \in {"plain", "tx"} /\ Sane(conn) /\ bInit
  BY UnderWay DEF StoreResult, Busy
<1>2. UNCHANGED <<durable, bInit, bAuto, next, txn, void, unsure>> /\ pc' = Idle
  BY DEF StoreResult, QuerySucceeds, QueryFails
<1>3. \/ conn' = conn /\ err' = err /\ caller' = caller
         /\ owed' = IF caller = "plain" THEN owed \union {s} ELSE owed
      \/ conn' = Broken(conn) /\ err' = "lost" /\ owed' = owed
         /\ caller' = IF caller = "tx" THEN "abort" ELSE caller
  BY <1>1 DEF StoreResult, QuerySucceeds, QueryFails
<1>4. Sane(conn') /\ (Plain(conn) => Plain(conn'))
  BY <1>1, <1>3, Records
<1>5. TypeOK'
  <2>1. pc' \in {"idle", "query", "ping", "again", "store", "set1"} \X (0 .. MaxStmt)
    BY <1>1, <1>2 DEF Idle
  <2>2. conn' \in Conn /\ err' \in {"none", "lost", "gone", "sql", "refused"} /\ owed' \subseteq Stmt
        /\ caller' \in {"plain", "tx", "abort"}
    BY <1>1, <1>3, <1>4 DEF Inv, TypeOK, Sane
  <2> QED
    BY <1>2, <2>1, <2>2 DEF Inv, TypeOK
<1>6. Calls'
  BY <1>1, <1>2 DEF Calls, Busy, Idle
<1>7. Modes'
  BY <1>1, <1>2, <1>3, <1>4 DEF Inv, Modes, Idle
<1>8. Counts'
  BY <1>1, <1>2, <1>3 DEF Inv, Counts, Idle
<1>9. Promised!Work(s) \/ Promised!Fail
  BY <1>1, <1>2, <1>3 DEF Inv, Counts, Promised!Work, Promised!Fail, Idle,
     Given, Running, CallerSees
<1> QED
  BY <1>1, <1>5, <1>6, <1>7, <1>8, <1>9 DEF Inv, Promise, Promised!TNext

\* Between calls
LEMMA BetweenCalls ==
  ASSUME Inv, pc = Idle
  PROVE  /\ pc = <<"idle", 0>> /\ pc[1] = "idle" /\ 0 \in 0 .. MaxStmt
         /\ Sane(conn) /\ durable \in [Stmt -> 0 .. 2] /\ durable \in Data
         /\ caller = "plain" => Plain(conn)
         /\ caller = "tx" => /\ InTx(conn) /\ (conn.link = "up" => txn = conn.pending)
                             /\ ~bAuto /\ (\A s \in txn : durable[s] = 0)
<1>1. durable \in [Stmt -> 0 .. 2]
  BY DEF Inv, TypeOK
<1>2. durable \in Data
  BY <1>1 DEF Data
<1> QED
  BY MaxStmtAssumption, <1>1, <1>2 DEF Inv, Modes, Counts, Idle

\* A transaction begins with nothing pending, or not at all.
LEMMA BeginStep ==
  ASSUME Inv, Begin
  PROVE  Inv' /\ Promise
<1>1. /\ pc = <<"idle", 0>> /\ pc[1] = "idle" /\ Sane(conn) /\ Plain(conn) /\ caller = "plain"
  BY BetweenCalls DEF Begin
<1>2. PICK o \in Call(conn, durable, Command("set0")) :
        /\ conn' = o.conn /\ durable' = o.data
        /\ IF o.err = "none" THEN bAuto' = FALSE /\ caller' = "tx" /\ UNCHANGED err
                             ELSE err' = o.err /\ UNCHANGED <<bAuto, caller>>
  BY DEF Begin
<1>3. UNCHANGED <<bInit, pc, next, owed, void, unsure>> /\ txn' = {} /\ bInit
  BY DEF Begin
<1>4. /\ o.data = durable
      /\ \/ Lost(o)
         \/ /\ o.err = "none" /\ Sane(o.conn) /\ o.conn.link = "up" /\ o.conn.mode = "manual"
            /\ o.conn.pending = {}
  BY <1>1, BeginCall
<1>5. \/ Sane(conn') /\ Plain(conn') /\ caller' = "plain" /\ bAuto' = bAuto
      \/ Sane(conn') /\ InTx(conn') /\ conn'.pending = {} /\ caller' = "tx" /\ bAuto' = FALSE
  BY <1>1, <1>2, <1>4 DEF Lost, InTx
<1>6. TypeOK'
  <2>1. err' \in {"none", "lost", "gone", "sql", "refused"} /\ conn' \in Conn /\ durable' = durable
    BY <1>2, <1>4, <1>5 DEF Inv, TypeOK, Lost, Sane
  <2>2. bAuto' \in BOOLEAN
    BY <1>5 DEF Inv, TypeOK
  <2> QED
    BY <1>3, <1>5, <2>1, <2>2 DEF Inv, TypeOK
<1>7. Calls'
  BY <1>1, <1>3 DEF Inv, Calls, Busy
<1>8. Modes'
  BY <1>1, <1>3, <1>5 DEF Modes
<1>9. Counts'
  BY <1>1, <1>2, <1>3, <1>4 DEF Inv, Counts
<1>10. Promised!BeginTransaction
  BY <1>1, <1>2, <1>3, <1>4, <1>5 DEF Promised!BeginTransaction,
     Given, Running, CallerSees
<1> QED
  BY <1>6, <1>7, <1>8, <1>9, <1>10 DEF Inv, Promise, Promised!TNext

\* A commit that is answered has made the whole transaction durable; one that
\* is not has made it so, or nothing.
LEMMA CommitStep ==
  ASSUME Inv, Commit
  PROVE  Inv' /\ Promise
<1>1. /\ pc = <<"idle", 0>> /\ pc[1] = "idle" /\ Sane(conn) /\ caller = "tx" /\ 0 \in 0 .. MaxStmt
      /\ InTx(conn) /\ (conn.link = "up" => txn = conn.pending) /\ ~bAuto
      /\ (\A s \in txn : durable[s] = 0) /\ durable \in [Stmt -> 0 .. 2] /\ txn \subseteq Stmt
      /\ txn \subseteq 1 .. next /\ next \in Nat
  BY BetweenCalls, MaxStmtAssumption DEF Commit, Inv, TypeOK, Counts
<1>2. PICK o \in Call(conn, durable, Command("commit")) :
        /\ conn' = o.conn /\ durable' = o.data
        /\ IF o.err = "none"
             THEN pc' = <<"set1", 0>> /\ owed' = owed \union txn /\ UNCHANGED <<caller, err, unsure>>
             ELSE /\ caller' = "abort" /\ err' = o.err /\ unsure' = unsure \union {txn}
                  /\ UNCHANGED <<pc, owed>>
  BY DEF Commit
<1>3. UNCHANGED <<bInit, bAuto, next, txn, void>> /\ bInit
  BY DEF Commit
<1>4. \/ Lost(o) /\ (o.data = durable \/ o.data = Flush(durable, txn))
      \/ o.err = "none" /\ o.data = Flush(durable, txn) /\ Sane(o.conn) /\ o.conn.pending = {}
  BY <1>1, CommitCall
<1>5. Flush(durable, txn) \in [Stmt -> 0 .. 2]
  BY <1>1 DEF Flush
<1>6. \A s \in Stmt : s > next => durable[s] = 0 /\ Flush(durable, txn)[s] = 0
  <2>1. \A s \in Stmt : s > next => s \notin txn
    BY <1>1 DEF Stmt
  <2>2. \A s \in Stmt : s > next => durable[s] = 0
    BY DEF Inv, Counts
  <2> QED
    BY <2>1, <2>2 DEF Flush
<1>7. \/ /\ pc' = <<"set1", 0>> /\ caller' = "tx" /\ err' = err /\ unsure' = unsure
         /\ owed' = owed \union txn /\ durable' = Flush(durable, txn)
         /\ Sane(conn') /\ conn'.pending = {}
      \/ /\ pc' = pc /\ caller' = "abort" /\ err' \in {"lost", "gone", "refused"}
         /\ unsure' = unsure \union {txn} /\ owed' = owed
         /\ durable' = durable \/ durable' = Flush(durable, txn)
         /\ Sane(conn')
  BY <1>1, <1>2, <1>4 DEF Lost
<1>8. TypeOK'
  <2>1. pc' \in {"idle", "query", "ping", "again", "store", "set1"} \X (0 .. MaxStmt)
    BY <1>1, <1>7
  <2>2. conn' \in Conn /\ durable' \in [Stmt -> 0 .. 2]
    BY <1>1, <1>5, <1>7 DEF Sane
  <2> QED
    BY <1>1, <1>3, <1>7, <2>1, <2>2 DEF Inv, TypeOK
<1>9. Calls'
  BY <1>1, <1>3, <1>7 DEF Calls, Busy
<1>10. Modes'
  BY <1>1, <1>3, <1>7 DEF Modes
<1>11. Counts'
  BY <1>1, <1>3, <1>6, <1>7 DEF Counts
<1>12. Promised!CommitSucceeds \/ Promised!CommitFails
  BY <1>1, <1>3, <1>7 DEF Promised!CommitSucceeds, Promised!CommitFails, Promised!Effect, Flush,
     Given, Running, CallerSees
<1> QED
  BY <1>8, <1>9, <1>10, <1>11, <1>12 DEF Inv, Promise, Promised!TNext

\* A rollback gives the transaction up, whether it is answered or not.
LEMMA RollbackStep ==
  ASSUME Inv, Rollback
  PROVE  Inv' /\ Promise
<1>1. /\ pc = <<"idle", 0>> /\ pc[1] = "idle" /\ Sane(conn) /\ caller \in {"tx", "abort"}
      /\ 0 \in 0 .. MaxStmt
  BY BetweenCalls DEF Rollback
<1>2. PICK o \in Call(conn, durable, Command("rollback")) :
        /\ conn' = o.conn /\ durable' = o.data
        /\ IF o.err = "none" THEN pc' = <<"set1", 0>> /\ UNCHANGED <<caller, err>>
                             ELSE caller' = "plain" /\ err' = o.err /\ UNCHANGED pc
        /\ void' = IF txn \in unsure THEN void ELSE void \union txn
  BY DEF Rollback
<1>3. UNCHANGED <<bInit, bAuto, next, txn, owed, unsure>> /\ bInit
  BY DEF Rollback
<1>4. /\ o.data = durable
      /\ Lost(o) \/ (o.err = "none" /\ Sane(o.conn) /\ o.conn.pending = {})
  BY <1>1, RollbackCall
<1>5. /\ durable' = durable /\ Sane(conn')
      /\ \/ /\ pc' = <<"set1", 0>> /\ caller' = caller /\ err' = err /\ conn'.pending = {}
         \/ /\ pc' = pc /\ caller' = "plain" /\ err' \in {"lost", "gone", "refused"} /\ Plain(conn')
  BY <1>1, <1>2, <1>4 DEF Lost
<1>6. TypeOK'
  <2>1. pc' \in {"idle", "query", "ping", "again", "store", "set1"} \X (0 .. MaxStmt)
    BY <1>1, <1>5
  <2>2. conn' \in Conn /\ caller' \in {"plain", "tx", "abort"} /\ void' \subseteq Stmt
        /\ err' \in {"none", "lost", "gone", "sql", "refused"}
    BY <1>1, <1>2, <1>5 DEF Inv, TypeOK, Sane
  <2> QED
    BY <1>3, <1>5, <2>1, <2>2 DEF Inv, TypeOK
<1>7. Calls'
  BY <1>1, <1>3, <1>5 DEF Calls, Busy
<1>8. Modes'
  BY <1>1, <1>3, <1>5 DEF Inv, Modes
<1>9. Counts'
  BY <1>1, <1>3, <1>5 DEF Inv, Counts
<1>10. Promised!Leave
  BY <1>1, <1>2, <1>3, <1>5 DEF Promised!Leave, Promised!GivenUp,
     Given, Running, CallerSees
<1> QED
  BY <1>6, <1>7, <1>8, <1>9, <1>10 DEF Inv, Promise, Promised!TNext

\* The end of commit or rollback is not seen: nothing is pending any more, so
\* the autocommit mode makes nothing durable.
LEMMA AutoCommitOnStep ==
  ASSUME Inv, AutoCommitOn
  PROVE  Inv' /\ Promise
<1>1. /\ pc[1] = "set1" /\ Sane(conn) /\ conn.pending = {} /\ caller # "plain" /\ bInit
      /\ durable \in Data /\ 0 \in 0 .. MaxStmt
  <2>1. durable \in [Stmt -> 0 .. 2]
    BY DEF Inv, TypeOK
  <2>2. durable \in Data
    BY <2>1 DEF Data
  <2>3. pc[1] = "set1" /\ pc # Idle
    BY DEF AutoCommitOn, Idle
  <2> QED
    BY <2>2, <2>3, MaxStmtAssumption DEF Inv, Calls, Modes
<1>2. PICK o \in Call(conn, durable, Command("set1")) : conn' = o.conn /\ durable' = o.data
  BY DEF AutoCommitOn
<1>3. /\ bAuto' = TRUE /\ pc' = <<"idle", 0>> /\ caller' = "plain"
      /\ UNCHANGED <<bInit, err, next, txn, owed, void, unsure>>
  BY DEF AutoCommitOn, Idle, ghosts
<1>4. durable' = durable /\ Sane(conn') /\ Plain(conn')
  BY <1>1, <1>2, AutoCommitCall
<1>5. TypeOK'
  <2>1. pc' \in {"idle", "query", "ping", "again", "store", "set1"} \X (0 .. MaxStmt)
    BY <1>1, <1>3
  <2> QED
    BY <1>3, <1>4, <2>1 DEF Inv, TypeOK, Sane
<1>6. Calls' /\ Modes' /\ Counts'
  BY <1>1, <1>3, <1>4 DEF Inv, Calls, Modes, Counts, Busy
<1>7. Promise
  BY <1>1, <1>3, <1>4 DEF Promise, Promised!tvars, Given, Running, CallerSees
<1> QED
  BY <1>5, <1>6, <1>7 DEF Inv

\* An error of status ends the transaction for the caller.
LEMMA StatusStep ==
  ASSUME Inv, Status
  PROVE  Inv' /\ Promise
<1>1. /\ pc = <<"idle", 0>> /\ pc[1] = "idle" /\ Sane(conn) /\ (caller = "plain" => Plain(conn))
      /\ caller = "tx" => InTx(conn) /\ (conn.link = "up" => txn = conn.pending) /\ ~bAuto
  BY BetweenCalls DEF Status
<1>2. PICK o \in Call(conn, durable, Command("stat")) :
        /\ conn' = o.conn /\ durable' = o.data
        /\ IF o.err = "none" THEN UNCHANGED <<err, caller>>
           ELSE err' = o.err /\ caller' = IF caller = "tx" THEN "abort" ELSE caller
  BY DEF Status
<1>3. UNCHANGED <<bInit, bAuto, pc, next, txn, owed, void, unsure>> /\ bInit
  BY DEF Status
<1>4. /\ o.data = durable /\ Sane(o.conn)
      /\ \/ Lost(o)
         \/ /\ Made(conn) /\ o.err = "none" /\ o.conn.link = "up"
            /\ o.conn.mode = Used(conn).mode /\ o.conn.pending = Used(conn).pending
  BY <1>1, QuietCall DEF Lost
<1>5. Plain(conn) => Plain(conn')
  BY <1>1, <1>2, <1>4, UsedIsUp DEF Lost, Plain
<1>6. /\ durable' = durable /\ Sane(conn')
      /\ \/ caller' = "plain" /\ caller = "plain"
         \/ caller' = "abort" /\ caller \in {"tx", "abort"}
         \/ caller' = "tx" /\ caller = "tx" /\ InTx(conn') /\ (conn'.link = "up" => txn = conn'.pending)
  <2>1. CASE caller = "tx" /\ o.err = "none"
    BY <1>1, <1>2, <1>4, <2>1 DEF Lost, Made, InTx, Used
  <2>2. CASE ~(caller = "tx" /\ o.err = "none")
    BY <1>2, <1>4, <2>2 DEF Inv, TypeOK
  <2> QED
    BY <2>1, <2>2
<1>7. TypeOK'
  <2>1. err' \in {"none", "lost", "gone", "sql", "refused"} /\ conn' \in Conn
    BY <1>2, <1>4 DEF Inv, TypeOK, Lost, Sane
  <2> QED
    BY <1>3, <1>6, <2>1 DEF Inv, TypeOK
<1>8. Calls'
  BY <1>1, <1>3 DEF Calls, Busy
<1>9. Modes'
  BY <1>1, <1>3, <1>5, <1>6 DEF Inv, Modes
<1>10. Counts'
  BY <1>1, <1>3, <1>6 DEF Inv, Counts
<1>11. Promised!Fail \/ UNCHANGED Promised!tvars
  BY <1>1, <1>3, <1>6 DEF Promised!Fail, Promised!tvars, Given, Running, CallerSees
<1> QED
  BY <1>7, <1>8, <1>9, <1>10, <1>11 DEF Inv, Promise, Promised!TNext

\* The end of the object, or of its process, undoes the open transaction.
LEMMA EndStep ==
  ASSUME Inv, End
  PROVE  Inv' /\ Promise
<1>1. /\ conn' = Closed /\ bInit' = FALSE /\ bAuto' = TRUE /\ err' = "none"
      /\ pc' = <<"idle", 0>> /\ caller' = "plain" /\ 0 \in 0 .. MaxStmt
      /\ void' = IF caller = "plain" \/ pc[1] = "set1" \/ txn \in unsure THEN void ELSE void \union txn
      /\ UNCHANGED <<durable, next, txn, owed, unsure>>
  BY MaxStmtAssumption DEF End, Idle
<1>2. Sane(conn') /\ Plain(conn')
  BY <1>1, Records
<1>3. TypeOK'
  <2>1. pc' \in {"idle", "query", "ping", "again", "store", "set1"} \X (0 .. MaxStmt)
    BY <1>1
  <2>2. void' \subseteq Stmt
    BY <1>1 DEF Inv, TypeOK
  <2> QED
    BY <1>1, <1>2, <2>1, <2>2 DEF Inv, TypeOK, Sane
<1>4. Calls' /\ Modes' /\ Counts'
  BY <1>1, <1>2 DEF Inv, Calls, Modes, Counts, Busy, Idle
<1>5. Promised!Leave
  BY <1>1 DEF Promised!Leave, Promised!GivenUp, Given, Running, CallerSees
<1> QED
  BY <1>3, <1>4, <1>5 DEF Inv, Promise, Promised!TNext

\* Every step keeps the invariant and the promise.
LEMMA InvStep ==
  ASSUME ~IdleCut
  PROVE  Inv /\ [Next]_vars => Inv' /\ Promise
<1> SUFFICES ASSUME Inv, [Next]_vars PROVE Inv' /\ Promise
  OBVIOUS
<1>1. ASSUME UNCHANGED vars PROVE Inv' /\ Promise
  BY <1>1 DEF vars, Inv, TypeOK, Calls, Modes, Counts, Promise, Promised!tvars,
     Given, Running, CallerSees
<1>2. ASSUME Step PROVE Inv' /\ Promise
  BY <1>2, RealQueryStep, PingStep, RealQueryAgainStep, StoreResultStep, AutoCommitOnStep DEF Step
<1>3. ASSUME Begin \/ Commit \/ Rollback \/ Status PROVE Inv' /\ Promise
  BY <1>3, BeginStep, CommitStep, RollbackStep, StatusStep
<1>4. ASSUME InitOk \/ InitFails \/ Query \/ End \/ Cut PROVE Inv' /\ Promise
  BY <1>4, InitStep, QueryStep, EndStep, CutStep
<1> QED
  BY <1>1, <1>2, <1>3, <1>4 DEF Next, Done

-----------------------------------------------------------------------------
(***************************************************************************)
(* Theorems                                                                *)
(***************************************************************************)

\* The object, the session and the caller stay in their ranges, and no
\* statement takes effect more than twice.
THEOREM TypeInvariance == ASSUME ~IdleCut PROVE Spec => []TypeOK
<1>1. Inv => TypeOK
  BY DEF Inv
<1> QED
  BY <1>1, InvInit, InvStep, PTL DEF Spec

\* Outside of transactions the session is in autocommit mode whenever the
\* object thinks so, whatever broke before.
THEOREM ModesAgree == ASSUME ~IdleCut PROVE Spec => []ModeAgrees
<1>1. Inv => ModeAgrees
  BY DEF Inv, Modes, Plain, ModeAgrees
<1> QED
  BY <1>1, InvInit, InvStep, PTL DEF Spec

\* DbX does what Transactions promises: broken connections, retries and new
\* sessions are not seen by the caller.
THEOREM ImplementsTransactions == ASSUME ~IdleCut PROVE Spec => IsTransactional
<1>1. Inv /\ [Next]_vars => [Promised!TNext]_(Promised!tvars)
  BY InvStep DEF Promise
<1> QED
  BY <1>1, InvInit, InvStep, PTL DEF Spec, IsTransactional, Promised!TSpec

(***************************************************************************)
(* What the promise is worth                                               *)
(***************************************************************************)

\* Nothing given to the store has taken effect.
LEMMA PromiseInit == Promised!TInit => Promised!TInv
  BY DEF Promised!TInit, Promised!TInv, Promised!TTypes, Promised!Apart,
     Promised!Untouched, Promised!DoneIsDurable, Promised!UndoneIsGone,
     Promised!TransactionOnce

\* Each step of the store keeps what a caller relies on.
LEMMA PromiseStep == Promised!TInv /\ [Promised!TNext]_(Promised!tvars) => Promised!TInv'
<1> SUFFICES ASSUME Promised!TInv, [Promised!TNext]_(Promised!tvars)
             PROVE  Promised!TInv'
  OBVIOUS
<1> USE DEF Promised!TInv, Promised!TTypes, Promised!Apart, Promised!Untouched,
      Promised!DoneIsDurable, Promised!UndoneIsGone, Promised!TransactionOnce
<1>1. ASSUME NEW s \in Stmt, Promised!Issue(s) PROVE Promised!TInv'
  BY <1>1 DEF Promised!Issue
<1>2. ASSUME NEW s \in Stmt, Promised!Work(s) PROVE Promised!TInv'
  <2>1. CASE durable' = durable
    BY <1>2, <2>1 DEF Promised!Work
  <2>2. CASE durable[s] < 2 /\ durable' = Promised!Effect({s}) /\ durable' # durable
    BY <1>2, <2>2 DEF Promised!Work, Promised!Effect
  <2> QED
    BY <1>2, <2>1, <2>2 DEF Promised!Work
<1>3. ASSUME Promised!Fail PROVE Promised!TInv'
  BY <1>3 DEF Promised!Fail
<1>4. ASSUME Promised!BeginTransaction PROVE Promised!TInv'
  BY <1>4 DEF Promised!BeginTransaction
<1>5. ASSUME Promised!CommitSucceeds PROVE Promised!TInv'
  BY <1>5 DEF Promised!CommitSucceeds, Promised!Effect
<1>6. ASSUME Promised!CommitFails PROVE Promised!TInv'
  BY <1>6 DEF Promised!CommitFails, Promised!Effect
<1>7. ASSUME Promised!Leave PROVE Promised!TInv'
  BY <1>7 DEF Promised!Leave, Promised!GivenUp
<1>8. ASSUME UNCHANGED Promised!tvars PROVE Promised!TInv'
  BY <1>8 DEF Promised!tvars
<1> QED
  BY <1>1, <1>2, <1>3, <1>4, <1>5, <1>6, <1>7, <1>8 DEF Promised!TNext

\* Whatever keeps the promise of Transactions keeps the data right: what was
\* reported as done is done, what was reported as undone is not, and a
\* transaction takes effect once and as a whole.
THEOREM PromiseIsEnough ==
  IsTransactional =>
    [](Promised!DoneIsDurable /\ Promised!UndoneIsGone /\ Promised!TransactionOnce)
<1>1. Promised!TInv =>
        Promised!DoneIsDurable /\ Promised!UndoneIsGone /\ Promised!TransactionOnce
  BY DEF Promised!TInv
<1> QED
  BY <1>1, PromiseInit, PromiseStep, PTL DEF IsTransactional, Promised!TSpec

\* What a caller relies on: a transaction that was given up left nothing
\* behind, and one whose commit failed is there as a whole or not at all.
THEOREM TransactionsAreWhole == ASSUME ~IdleCut PROVE Spec => []UndoneIsGone
<1>1. TypeOK /\ Promised!UndoneIsGone /\ Promised!TransactionOnce => UndoneIsGone
  BY DEF TypeOK, Promised!UndoneIsGone, Promised!TransactionOnce, UndoneIsGone
<1> QED
  BY <1>1, TypeInvariance, ImplementsTransactions, PromiseIsEnough, PTL
=============================================================================
