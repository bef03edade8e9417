--------------------------- MODULE CgxSocket_proofs ---------------------------
(***************************************************************************)
(* Proofs about CgxSocket, for any number of starts, users and workers.    *)
(***************************************************************************)
EXTENDS CgxSocket, TLAPS, FiniteSetTheorems

(***************************************************************************)
(* The two calls that the directory can refuse.                            *)
(***************************************************************************)
Refused(p) ==
  /\ Exit(p, pc[p], "denied") /\ UNCHANGED <<sockets, fails>>
  /\ IF path = None THEN ~MayCreate(p) ELSE ~MayUnlink(p)

LEMMA UnlinkCases ==
  ASSUME NEW p \in Starter, Unlink(p)
  PROVE  /\ pc[p] = "unlink"
         /\ \/ path # None /\ Refused(p)
            \/ Proceed(p, "unlink", "mkdir") /\ path' = None /\ UNCHANGED <<dir, mode, listening>>
BY DEF Unlink, Refused, Exit, Proceed, Goto, sockets

LEMMA BindCases ==
  ASSUME NEW p \in Starter, Bind(p)
  PROVE  /\ pc[p] = "bind"
         /\ \/ path # None /\ Exit(p, "bind", "failed") /\ UNCHANGED <<sockets, fails>>
            \/ path = None /\ Refused(p)
            \/ /\ path = None /\ Proceed(p, "bind", "listen")
               /\ path' = p /\ UNCHANGED <<dir, mode, listening>>
BY DEF Bind, Refused, Exit, Proceed, Goto, sockets

(***************************************************************************)
(* TypeOK is inductive.  The helpers Proceed and Exit keep it for the      *)
(* variables they mention.                                                 *)
(***************************************************************************)
LEMMA TypeStep == TypeOK /\ [Next]_vars => TypeOK'
<1> SUFFICES ASSUME TypeOK, [Next]_vars PROVE TypeOK'
  OBVIOUS
<1> USE NumberAssumption, StarterAssumption DEF TypeOK, Goto, Calls, sockets, process
<1>1. ASSUME NEW p \in Starter, Start(p) PROVE TypeOK'
  BY <1>1 DEF Start
<1>2. ASSUME NEW p \in Starter, Socket(p) PROVE TypeOK'
  <2>1. CASE zero[p] = "closed"
    BY <1>2, <2>1 DEF Socket
  <2>2. CASE zero[p] # "closed"
    BY <1>2, <2>2 DEF Socket
  <2> QED BY <2>1, <2>2
<1>3. ASSUME NEW p \in Starter, Connect(p) PROVE TypeOK'
  <2>1. CASE Exit(p, "connect", "inuse")
    BY <1>3, <2>1 DEF Connect, Exit, Proceed
  <2>2. CASE Proceed(p, "connect", "unlink")
    BY <1>3, <2>2 DEF Connect, Proceed, Exit
  <2> QED BY <1>3, <2>1, <2>2 DEF Connect
<1>4. ASSUME NEW p \in Starter, Mkdir(p) \/ Listen(p) PROVE TypeOK'
  BY <1>4 DEF Mkdir, Listen, Proceed
<1>13. ASSUME NEW p \in Starter, Unlink(p) PROVE TypeOK'
  BY <1>13, UnlinkCases DEF Refused, Proceed, Exit
<1>5. ASSUME NEW p \in Starter, Bind(p) PROVE TypeOK'
  <2>1. CASE Exit(p, "bind", "failed") /\ UNCHANGED <<sockets, fails>>
    BY <2>1 DEF Exit
  <2>2. CASE Refused(p)
    BY <1>5, <2>2, BindCases DEF Refused, Exit
  <2>3. CASE Proceed(p, "bind", "listen") /\ path' = p /\ UNCHANGED <<dir, mode, listening>>
    BY <2>3 DEF Proceed
  <2> QED BY <1>5, <2>1, <2>2, <2>3, BindCases
<1>6. ASSUME NEW p \in Starter, Chmod(p) PROVE TypeOK'
  <2>1. CASE path # None /\ User[path] = User[p]
    BY <1>6, <2>1 DEF Chmod, Proceed
  <2>2. CASE ~(path # None /\ User[path] = User[p])
    BY <1>6, <2>2 DEF Chmod, Exit
  <2> QED BY <2>1, <2>2
<1>7. ASSUME NEW p \in Starter, Dup2(p) \/ Close(p) PROVE TypeOK'
  BY <1>7 DEF Dup2, Close
<1>8. ASSUME NEW p \in Starter, Fork(p) PROVE TypeOK'
  BY <1>8 DEF Fork
<1>9. ASSUME NEW p \in Starter, ForkDone(p) PROVE TypeOK'
  BY <1>9 DEF ForkDone, Exit
<1>10. ASSUME NEW p \in Starter, Fail(p) PROVE TypeOK'
  <2>1. PICK call \in Calls : Exit(p, call, "failed")
    BY <1>10 DEF Fail
  <2> QED BY <1>10, <2>1 DEF Fail, Exit
<1>11. ASSUME NEW p \in Starter, Kill(p) PROVE TypeOK'
  <2>1. kills' \in 0 .. MaxKill /\ UNCHANGED <<sockets, zero, forked, fails>>
    BY <1>11 DEF Kill
  <2>4. calm' \in BOOLEAN
    BY <1>11 DEF Kill
  <2>2. CASE /\ pc' = [pc EXCEPT ![p] = "done"]
             /\ result' = [result EXCEPT ![p] = "killed"]
             /\ fd' = [fd EXCEPT ![p] = -1]
             /\ workers' = workers
    BY <2>1, <2>2, <2>4
  <2>3. CASE /\ workers[p] > 0
             /\ workers' = [workers EXCEPT ![p] = @ - 1]
             /\ pc' = pc /\ result' = result /\ fd' = fd
    BY <2>1, <2>3, <2>4
  <2> QED BY <1>11, <2>2, <2>3, Zenon DEF Kill
<1>12. ASSUME UNCHANGED vars PROVE TypeOK'
  BY <1>12 DEF vars
<1> QED
  BY <1>1, <1>2, <1>3, <1>4, <1>5, <1>6, <1>7, <1>8, <1>9, <1>10, <1>11, <1>12, <1>13
  DEF Next, Main, Done

\* Before the first start there is no socket.
LEMMA TypeInit == Init => TypeOK
<1> SUFFICES ASSUME Init PROVE TypeOK
  OBVIOUS
<1>1. /\ dir \in Starter \union {None, Shared, Sticky}
      /\ path \in Starter \union {None} /\ mode \in [Starter -> {"bound", "open"}]
      /\ listening \subseteq Starter
      /\ pc \in [Starter -> Calls \union {"off", "done"}]
  BY DEF Init
<1>2. /\ fd \in [Starter -> {-1, 0, 3}]
      /\ zero \in [Starter -> {"stdin", "sock", "closed"}]
      /\ result \in [Starter -> {"none", "inuse", "failed", "denied", "killed", "up"}]
  BY DEF Init
<1>4. workers = [s \in Starter |-> 0] /\ forked = [s \in Starter |-> 0]
  BY DEF Init
<1>5. /\ workers \in [Starter -> 0 .. Number] /\ forked \in [Starter -> 0 .. Number]
      /\ \A p \in Starter : workers[p] <= forked[p]
  BY <1>4, NumberAssumption
<1>3. fails \in 0 .. MaxFail /\ kills \in 0 .. MaxKill
  BY NumberAssumption DEF Init
<1>6. calm \in BOOLEAN
  BY DEF Init
<1> QED BY <1>1, <1>2, <1>3, <1>5, <1>6 DEF TypeOK

\* TypeOK: no start has more than Number workers and no bound is passed.
THEOREM TypeInvariance == Spec => []TypeOK
  BY TypeInit, TypeStep, PTL DEF Spec

-----------------------------------------------------------------------------
(***************************************************************************)
(* Starts that do not overlap, with descriptor 0 open.  The invariant says *)
(* how far the socket of a start is prepared at each of its system calls,  *)
(* and that a start that is past the connect check has no living           *)
(* predecessor: the check fails to see one only if its socket is not where *)
(* EveryoneCanConnect says.                                                *)
(***************************************************************************)
Stage(p) ==
  /\ pc[p] \in {"listen", "chmod", "dup2", "close", "fork"} => path = p
  /\ pc[p] \in {"chmod", "dup2", "close", "fork"} => p \in listening
  /\ pc[p] \in {"dup2", "close", "fork"} => mode[p] = "open"
  /\ pc[p] \in {"close", "fork"} => zero[p] = "sock"
  /\ pc[p] \in (Calls \ {"fork"}) \union {"off"} => workers[p] = 0

Served(s) ==
  workers[s] > 0 =>
    path = s /\ mode[s] = "open" /\ s \in listening /\ zero[s] = "sock"

Alone(p) ==
  /\ \A q \in Starter : Running(p) /\ Running(q) => p = q
  /\ \A s \in Starter : pc[p] \in Calls \ {"socket", "connect"} /\ workers[s] > 0 => s = p

SerialInv ==
  /\ TypeOK
  /\ \A p \in Starter : zero[p] # "closed" /\ fd[p] # 0
  /\ \A p \in Starter : Stage(p) /\ Served(p) /\ Alone(p)

\* Each call of a start that is alone takes its socket one stage further.
LEMMA SerialStep ==
  ASSUME Overlap = FALSE, SerialInv, [Next]_vars
  PROVE  SerialInv'
<1> DEFINE Good == /\ \A p \in Starter : zero[p] # "closed" /\ fd[p] # 0
                   /\ \A p \in Starter : Stage(p) /\ Served(p) /\ Alone(p)
<1>0. TypeOK' /\ TypeOK
  BY TypeStep DEF SerialInv
<1> SUFFICES Good'
  BY <1>0 DEF SerialInv
<1> USE <1>0 DEF SerialInv, TypeOK, Stage, Served, Alone, Goto, Calls, Running, sockets, process
<1>1. ASSUME NEW p \in Starter, Start(p) PROVE Good'
  BY <1>1 DEF Start
<1>2. ASSUME NEW p \in Starter, Socket(p) PROVE Good'
  BY <1>2 DEF Socket
<1>3. ASSUME NEW p \in Starter, Connect(p) PROVE Good'
  <2> DEFINE InUse == path # None /\ (MayConnect(p, path) => Listens(path))
  <2>1. CASE InUse
    <3>1. Exit(p, "connect", "inuse") /\ UNCHANGED sockets
      BY <1>3, <2>1 DEF Connect
    <3> QED BY <3>1 DEF Exit
  <2>2. CASE ~InUse
    <3>1. Proceed(p, "connect", "unlink") /\ UNCHANGED sockets
      BY <1>3, <2>2 DEF Connect
    <3>2. \A s \in Starter : ~(workers[s] > 0)
      BY <2>2, StarterAssumption DEF Listens, Held, MayConnect
    <3> QED BY <3>1, <3>2 DEF Proceed
  <2> QED BY <2>1, <2>2
<1>4. ASSUME NEW p \in Starter, Mkdir(p) \/ Listen(p) PROVE Good'
  BY <1>4 DEF Mkdir, Listen, Proceed
<1>13. ASSUME NEW p \in Starter, Unlink(p) PROVE Good'
  BY <1>13, UnlinkCases DEF Refused, Exit, Proceed
<1>5. ASSUME NEW p \in Starter, Bind(p) PROVE Good'
  BY <1>5, BindCases DEF Refused, Exit, Proceed
<1>6. ASSUME NEW p \in Starter, Chmod(p) PROVE Good'
  BY <1>6 DEF Chmod, Exit, Proceed
<1>7. ASSUME NEW p \in Starter, Dup2(p) \/ Close(p) PROVE Good'
  BY <1>7 DEF Dup2, Close
<1>8. ASSUME NEW p \in Starter, Fork(p) PROVE Good'
  BY <1>8 DEF Fork
<1>9. ASSUME NEW p \in Starter, ForkDone(p) PROVE Good'
  BY <1>9 DEF ForkDone, Exit
<1>10. ASSUME NEW p \in Starter, Fail(p) PROVE Good'
  BY <1>10 DEF Fail, Exit
<1>11. ASSUME NEW p \in Starter, Kill(p) PROVE Good'
  BY <1>11 DEF Kill
<1>12. ASSUME UNCHANGED vars PROVE Good'
  BY <1>12 DEF vars
<1> QED
  BY <1>1, <1>2, <1>3, <1>4, <1>5, <1>6, <1>7, <1>8, <1>9, <1>10, <1>11, <1>12, <1>13
  DEF Next, Main, Done

\* cgx.main.cpp, "so that everone can connect me": when no two starts of the
\* program overlap and descriptor 0 was open, every worker listens on the
\* socket that the path names, after any number of failed or killed starts
\* and whoever ran them.
THEOREM SerialStartsServe ==
  ASSUME Overlap = FALSE, NoStdin = {}
  PROVE  Spec => []EveryoneCanConnect
<1>1. Init => SerialInv
  <2> SUFFICES ASSUME Init PROVE SerialInv
    OBVIOUS
  <2>1. TypeOK
    BY TypeInit
  <2>2. \A p \in Starter : /\ zero[p] = "stdin" /\ fd[p] = -1 /\ pc[p] = "off"
                           /\ workers[p] = 0
    BY DEF Init
  <2> QED
    BY <2>1, <2>2 DEF SerialInv, Stage, Served, Alone, Running, Calls
<1>2. SerialInv /\ [Next]_vars => SerialInv'
  BY SerialStep
<1>3. SerialInv => EveryoneCanConnect
  BY DEF SerialInv, Served, EveryoneCanConnect, Listens, Held
<1> QED
  BY <1>1, <1>2, <1>3, PTL DEF Spec
-----------------------------------------------------------------------------
(***************************************************************************)
(* What the starts leave to each other.  A socket file of its own is at    *)
(* the path only after a start has bound it, and bind finds none; a start  *)
(* that was not disturbed has all the workers it forked, and when nothing  *)
(* was disturbed the path is served as soon as the start is over.          *)
(***************************************************************************)
PathServed ==
  (path # None => mode[path] = "open") =>
    path # None /\ path \in listening /\ zero[path] = "sock" /\ workers[path] > 0

Before == {"off", "socket", "connect", "unlink", "mkdir", "bind"}

Left(p) ==
  /\ pc[p] \in Before => path # p
  /\ pc[p] \in {"mkdir", "bind"} => path = None
  /\ pc[p] \in Before \union {"listen", "chmod", "dup2", "close"} => forked[p] = 0
  /\ calm /\ Running(p) => workers[p] = forked[p]

Rest ==
  /\ \A p \in Starter : Left(p)
  /\ calm => (\E p \in Starter : Running(p)) \/ PathServed

LeftInv == SerialInv /\ Rest

\* Every call keeps it.
LEMMA LeftStep ==
  ASSUME Overlap = FALSE, LeftInv, [Next]_vars
  PROVE  LeftInv'
<1>0. SerialInv /\ SerialInv' /\ TypeOK /\ Rest
  BY SerialStep DEF LeftInv, SerialInv
<1> SUFFICES Rest'
  BY <1>0 DEF LeftInv
<1> USE <1>0, StarterAssumption, NumberAssumption
    DEF Rest, Left, PathServed, Before, TypeOK, Goto, Calls, Running, sockets, process
<1>1. ASSUME NEW p \in Starter, Start(p) PROVE Rest'
  BY <1>1 DEF Start, SerialInv, Stage
<1>2. ASSUME NEW p \in Starter, Socket(p) PROVE Rest'
  BY <1>2 DEF Socket
<1>3. ASSUME NEW p \in Starter, Connect(p) PROVE Rest'
  <2> DEFINE InUse == path # None /\ (MayConnect(p, path) => Listens(path))
  <2>1. CASE InUse
    <3>1. Exit(p, "connect", "inuse") /\ UNCHANGED sockets
      BY <1>3, <2>1 DEF Connect
    <3>2. path \in Starter /\ path # p
      BY <2>1, <3>1 DEF Exit
    <3>3. \A q \in Starter : Running(q) => q = p
      BY <3>1 DEF SerialInv, Alone, Exit
    <3>4. mode[path] = "open" => path \in listening /\ workers[path] > 0 /\ zero[path] = "sock"
      BY <2>1, <3>2, <3>3 DEF Listens, Held, MayConnect
    <3>5. PathServed'
      BY <3>1, <3>2, <3>4 DEF Exit
    <3>6. \A q \in Starter : Left(q)'
      BY <3>1 DEF Exit
    <3> QED BY <3>5, <3>6
  <2>2. CASE ~InUse
    BY <1>3, <2>2 DEF Connect, Proceed
  <2> QED BY <2>1, <2>2
<1>13. ASSUME NEW p \in Starter, Unlink(p) PROVE Rest'
  <2>1. \A q \in Starter : Running(q) => q = p
    BY <1>13, UnlinkCases DEF SerialInv, Alone
  <2>2. pc[p] = "unlink" /\ pc' \in [Starter -> Calls \union {"off", "done"}]
    BY <1>13, UnlinkCases DEF SerialInv
  <2>3. CASE Proceed(p, "unlink", "mkdir") /\ path' = None /\ UNCHANGED <<dir, mode, listening>>
    BY <2>1, <2>3 DEF Proceed
  <2>4. CASE Refused(p)
    BY <2>1, <2>2, <2>4 DEF Refused, Exit
  <2> QED BY <1>13, <2>3, <2>4, UnlinkCases
<1>4. ASSUME NEW p \in Starter, Mkdir(p) \/ Listen(p) PROVE Rest'
  <2>1. \A q \in Starter : Running(q) => q = p
    BY <1>4 DEF SerialInv, Alone, Mkdir, Listen, Proceed
  <2>3. CASE Mkdir(p)
    <3>1. path = None
      BY <2>3 DEF Mkdir, Proceed
    <3> QED BY <2>1, <2>3, <3>1 DEF Mkdir, Proceed
  <2>4. CASE Listen(p)
    BY <2>1, <2>4 DEF Listen, Proceed
  <2> QED BY <1>4, <2>3, <2>4
<1>5. ASSUME NEW p \in Starter, Bind(p) PROVE Rest'
  <2>1. \A q \in Starter : Running(q) => q = p
    BY <1>5, BindCases DEF SerialInv, Alone
  <2>2. path = None
    BY <1>5, BindCases
  <2>3. pc[p] = "bind" /\ pc' \in [Starter -> Calls \union {"off", "done"}]
    BY <1>5, BindCases DEF SerialInv
  <2>4. CASE Proceed(p, "bind", "listen") /\ path' = p /\ UNCHANGED <<dir, mode, listening>>
    BY <2>1, <2>4 DEF Proceed
  <2>5. CASE Refused(p)
    BY <2>1, <2>3, <2>5 DEF Refused, Exit
  <2> QED BY <1>5, <2>2, <2>4, <2>5, BindCases
<1>6. ASSUME NEW p \in Starter, Chmod(p) PROVE Rest'
  <2>1. path = p
    BY <1>6 DEF SerialInv, Stage, Chmod, Proceed, Exit
  <2>2. Proceed(p, "chmod", "dup2") /\ UNCHANGED path /\ p # None
    BY <1>6, <2>1 DEF Chmod
  <2> QED BY <2>1, <2>2 DEF Proceed
<1>7. ASSUME NEW p \in Starter, Dup2(p) \/ Close(p) PROVE Rest'
  BY <1>7 DEF Dup2, Close
<1>8. ASSUME NEW p \in Starter, Fork(p) PROVE Rest'
  BY <1>8 DEF Fork
<1>9. ASSUME NEW p \in Starter, ForkDone(p) PROVE Rest'
  <2>1. path = p /\ p \in listening /\ zero[p] = "sock" /\ mode[p] = "open"
    BY <1>9 DEF SerialInv, Stage, ForkDone, Exit
  <2>2. calm => workers[p] = Number
    BY <1>9 DEF ForkDone, Exit
  <2> QED BY <1>9, <2>1, <2>2 DEF ForkDone, Exit
<1>10. ASSUME NEW p \in Starter, Fail(p) PROVE Rest'
  BY <1>10 DEF Fail, Exit
<1>11. ASSUME NEW p \in Starter, Kill(p) PROVE Rest'
  BY <1>11 DEF Kill
<1>12. ASSUME UNCHANGED vars PROVE Rest'
  BY <1>12 DEF vars
<1> QED
  BY <1>1, <1>2, <1>3, <1>4, <1>5, <1>6, <1>7, <1>8, <1>9, <1>10, <1>11, <1>12, <1>13
  DEF Next, Main, Done
\* No start, no file.
LEMMA LeftInit ==
  ASSUME NoStdin = {}
  PROVE  Init => LeftInv
<1> SUFFICES ASSUME Init PROVE LeftInv
  OBVIOUS
<1>1. TypeOK
  BY TypeInit
<1>2. \A p \in Starter : /\ zero[p] = "stdin" /\ fd[p] = -1 /\ pc[p] = "off"
                         /\ workers[p] = 0 /\ forked[p] = 0
  BY DEF Init
<1>3. path = None /\ ~calm
  BY DEF Init
<1>4. SerialInv
  BY <1>1, <1>2 DEF SerialInv, Stage, Served, Alone, Running, Calls
<1> QED
  BY <1>2, <1>3, <1>4, StarterAssumption DEF LeftInv, Rest, Left, Before, Running, Calls

\* The end of a start that nothing disturbed is a served path, by its own
\* workers or by those of the start it gave way to: it never takes what an
\* earlier start left behind for a server.
THEOREM UndisturbedStartsServe ==
  ASSUME Overlap = FALSE, NoStdin = {}
  PROVE  Spec => []ServedAfterStart
<1>1. LeftInv => ServedAfterStart
  BY DEF LeftInv, Rest, PathServed, ServedAfterStart, Listens, Held
<1> QED
  BY <1>1, LeftInit, LeftStep, PTL DEF Spec

-----------------------------------------------------------------------------
(***************************************************************************)
(* Failures.  In serial starts bind finds no file and chmod finds its own: *)
(* the only failing calls are those that fail by themselves and those that *)
(* meet what another user has left.                                        *)
(***************************************************************************)
FailInv == LeftInv /\ LeftoversDoNotBlock

\* Starts that another user is in the way of stay so.
LEMMA ForeignStays ==
  ASSUME TypeOK, NEW s \in Starter, Foreign(s), dir # None => dir' = dir,
         \A q \in Starter : pc[q] # "off" => pc'[q] # "off"
  PROVE  Foreign(s)'
BY StarterAssumption DEF Foreign, TypeOK

\* The directory stays and every start has begun for good.
LEMMA Onwards ==
  ASSUME TypeOK, [Next]_vars
  PROVE  /\ dir # None => dir' = dir
         /\ \A q \in Starter : pc[q] # "off" => pc'[q] # "off"
<1> USE DEF TypeOK, Goto, Calls, Running, process, sockets
<1>1. ASSUME NEW p \in Starter, Start(p) \/ Socket(p) \/ Mkdir(p) \/ Listen(p)
                                \/ Dup2(p) \/ Close(p) \/ Fork(p)
      PROVE  (dir # None => dir' = dir) /\ \A q \in Starter : pc[q] # "off" => pc'[q] # "off"
  BY <1>1 DEF Start, Socket, Mkdir, Listen, Dup2, Close, Fork, Proceed
<1>2. ASSUME NEW p \in Starter, Connect(p) \/ Chmod(p) \/ ForkDone(p) \/ Fail(p)
      PROVE  dir' = dir /\ \A q \in Starter : pc[q] # "off" => pc'[q] # "off"
  BY <1>2 DEF Connect, Chmod, ForkDone, Fail, Exit, Proceed
<1>3. ASSUME NEW p \in Starter, Unlink(p) \/ Bind(p)
      PROVE  dir' = dir /\ \A q \in Starter : pc[q] # "off" => pc'[q] # "off"
  BY <1>3, UnlinkCases, BindCases DEF Refused, Exit, Proceed
<1>4. ASSUME NEW p \in Starter, Kill(p)
      PROVE  dir' = dir /\ \A q \in Starter : pc[q] # "off" => pc'[q] # "off"
  BY <1>4 DEF Kill
<1>5. ASSUME UNCHANGED vars
      PROVE  dir' = dir /\ \A q \in Starter : pc[q] # "off" => pc'[q] # "off"
  BY <1>5 DEF vars
<1> QED
  BY <1>1, <1>2, <1>3, <1>4, <1>5 DEF Next, Main, Done

\* The directory refuses a start only what another user has left.
LEMMA RefusedIsForeign ==
  ASSUME LeftInv, NEW p \in Starter, Refused(p), pc[p] \in {"unlink", "bind"},
         pc[p] = "bind" => path = None
  PROVE  Foreign(p)
<1>1. CASE dir \in Starter /\ User[dir] # User[p]
  BY <1>1 DEF Foreign
<1>2. CASE path # None /\ dir = Sticky /\ User[path] # User[p]
  <2>1. path \in Starter /\ path # p
    BY <1>2 DEF LeftInv, SerialInv, TypeOK
  <2>2. pc[path] # "off"
    BY <2>1 DEF LeftInv, Rest, Left, Before
  <2> QED BY <1>2, <2>1, <2>2 DEF Foreign
<1> QED BY <1>1, <1>2 DEF Refused, MayCreate, MayUnlink

\* A step makes a start fail only with a call that fails by itself, or with one
\* that meets what another user has left.
LEMMA FailedStep ==
  ASSUME Overlap = FALSE, LeftInv, [Next]_vars
  PROVE  \/ Failed' \subseteq Failed /\ fails' = fails
         \/ \E p \in Starter : Failed' \subseteq Failed \union {p} /\ fails' = fails + 1
<1> DEFINE Kept == (\A s \in Starter : result'[s] \in {"failed", "denied"} => result'[s] = result[s])
                     /\ fails' = fails
<1>0. TypeOK /\ SerialInv /\ Rest
  BY DEF LeftInv, SerialInv
<1>8. \A s \in Starter : Foreign(s) => Foreign(s)'
  BY <1>0, Onwards, ForeignStays
<1>9. ASSUME Kept PROVE Failed' \subseteq Failed /\ fails' = fails
  BY <1>8, <1>9 DEF Failed
<1>10. ASSUME NEW p \in Starter, Refused(p), Foreign(p)
       PROVE  Failed' \subseteq Failed /\ fails' = fails
  <2>1. /\ \A s \in Starter : result'[s] = IF s = p THEN "denied" ELSE result[s]
        /\ fails' = fails
    BY <1>0, <1>10 DEF Refused, Exit, TypeOK
  <2> QED BY <1>8, <1>10, <2>1 DEF Failed
<1> USE <1>0, StarterAssumption DEF TypeOK, Goto, process
<1>1. ASSUME NEW p \in Starter, Start(p) \/ Socket(p) \/ Mkdir(p) \/ Listen(p)
                                \/ Dup2(p) \/ Close(p) \/ Fork(p)
      PROVE  Kept
  BY <1>1 DEF Start, Socket, Mkdir, Listen, Dup2, Close, Fork, Proceed
<1>2. ASSUME NEW p \in Starter, Connect(p) \/ ForkDone(p) PROVE Kept
  BY <1>2 DEF Connect, ForkDone, Exit, Proceed
<1>11. ASSUME NEW p \in Starter, Unlink(p) PROVE Failed' \subseteq Failed /\ fails' = fails
  <2>1. CASE Proceed(p, "unlink", "mkdir")
    <3>1. Kept
      BY <2>1 DEF Proceed
    <3> QED BY <1>9, <3>1
  <2> QED BY <1>10, <1>11, <2>1, UnlinkCases, RefusedIsForeign
<1>3. ASSUME NEW p \in Starter, Bind(p) PROVE Failed' \subseteq Failed /\ fails' = fails
  <2>1. pc[p] = "bind" /\ path = None
    BY <1>3, BindCases DEF Rest, Left
  <2>2. CASE Proceed(p, "bind", "listen")
    <3>1. Kept
      BY <2>2 DEF Proceed
    <3> QED BY <1>9, <3>1
  <2> QED BY <1>3, <1>10, <2>1, <2>2, BindCases, RefusedIsForeign
<1>4. ASSUME NEW p \in Starter, Chmod(p) PROVE Kept
  <2>1. path = p /\ p # None
    BY <1>4 DEF SerialInv, Stage, Chmod, Proceed, Exit
  <2> QED BY <1>4, <2>1 DEF Chmod, Proceed
<1>5. ASSUME NEW p \in Starter, Fail(p)
      PROVE  Failed' \subseteq Failed \union {p} /\ fails' = fails + 1
  <2>1. /\ \A s \in Starter \ {p} : result'[s] = result[s]
        /\ fails' = fails + 1
    BY <1>5 DEF Fail, Exit
  <2> QED BY <1>8, <2>1 DEF Failed
<1>6. ASSUME NEW p \in Starter, Kill(p) PROVE Kept
  BY <1>6 DEF Kill
<1>7. ASSUME UNCHANGED vars PROVE Kept
  BY <1>7 DEF vars
<1> HIDE DEF Kept
<1> QED
  BY <1>1, <1>2, <1>3, <1>4, <1>5, <1>6, <1>7, <1>9, <1>11 DEF Next, Main, Done

\* Serial starts fail at most as often as calls fail by themselves, whatever
\* the starts before them left at the path, unless it is another user's and
\* the directory keeps it.
THEOREM OnlyFailuresFail ==
  ASSUME Overlap = FALSE, NoStdin = {}, IsFiniteSet(Starter)
  PROVE  Spec => []LeftoversDoNotBlock
<1>1. Init => FailInv
  <2> SUFFICES ASSUME Init PROVE LeftoversDoNotBlock
    BY LeftInit DEF FailInv
  <2>1. Failed = {} /\ fails = 0
    BY DEF Init, Failed
  <2> QED BY <2>1, FS_EmptySet DEF LeftoversDoNotBlock
<1>2. FailInv /\ [Next]_vars => FailInv'
  <2> SUFFICES ASSUME FailInv, [Next]_vars PROVE FailInv'
    OBVIOUS
  <2>1. LeftInv'
    BY LeftStep DEF FailInv
  <2>2. /\ IsFiniteSet(Failed) /\ Cardinality(Failed) \in Nat
        /\ Cardinality(Failed) <= fails /\ fails \in Nat
    <3>1. IsFiniteSet(Failed)
      BY FS_Subset DEF Failed
    <3> QED
      BY <3>1, FS_CardinalityType, NumberAssumption
      DEF FailInv, LeftoversDoNotBlock, LeftInv, SerialInv, TypeOK
  <2>3. CASE Failed' \subseteq Failed /\ fails' = fails
    <3>1. Cardinality(Failed') <= Cardinality(Failed) /\ Cardinality(Failed') \in Nat
      BY <2>2, <2>3, FS_Subset, FS_CardinalityType
    <3> QED BY <2>1, <2>2, <2>3, <3>1 DEF FailInv, LeftoversDoNotBlock
  <2>4. ASSUME NEW p \in Starter, Failed' \subseteq Failed \union {p}, fails' = fails + 1
        PROVE  FailInv'
    <3>1. Cardinality(Failed \union {p}) =
            IF p \in Failed THEN Cardinality(Failed) ELSE Cardinality(Failed) + 1
      BY <2>2, FS_AddElement, Zenon
    <3>2. Cardinality(Failed') <= fails'
      <4>1. IsFiniteSet(Failed \union {p})
        BY <2>2, FS_AddElement
      <4>2. Cardinality(Failed') <= Cardinality(Failed \union {p}) /\ Cardinality(Failed') \in Nat
        BY <2>4, <4>1, FS_Subset, FS_CardinalityType
      <4> QED BY <2>2, <2>4, <3>1, <4>2
    <3> QED BY <2>1, <3>2 DEF FailInv, LeftoversDoNotBlock
  <2> QED BY <2>3, <2>4, FailedStep DEF FailInv
<1>3. FailInv => LeftoversDoNotBlock
  BY DEF FailInv
<1> QED
  BY <1>1, <1>2, <1>3, PTL DEF Spec
=============================================================================
