------------------------------ MODULE CgxSocket ------------------------------
(***************************************************************************)
(* CgX::main (src/neiku/cgx.main.cpp): a FastCGI program started with      *)
(* --bind=<path> takes over a unix socket, puts it on descriptor 0, forks  *)
(* its workers and exits.  One step per system call, since other starts,   *)
(* and the death of any process, fall between two of them.                 *)
(*                                                                         *)
(* A start is a process that runs CgX::main once; its socket, its workers  *)
(* and the directory it makes carry its name.  No user is root, and umask  *)
(* is such that only its owner writes in a directory a start has made.     *)
(***************************************************************************)
EXTENDS Integers, FiniteSets

CONSTANTS
  Starter,    \* the starts of the program, all with the same --bind path
  User,       \* start -> the user that runs it
  NoStdin,    \* the starts whose descriptor 0 is closed at first
  Overlap,    \* BOOLEAN: a start may begin while another is under way
  Number,     \* --fork: workers of a start
  MaxFail,    \* bound: system calls that fail by themselves
  MaxKill,    \* bound: processes killed
  None,       \* no file at the path, or no directory for it
  Shared,     \* a directory in which every user may make and unlink files
  Sticky      \* the same, but unlink only their own: /tmp

ASSUME StarterAssumption ==
  /\ Starter \intersect {None, Shared, Sticky} = {} /\ NoStdin \subseteq Starter
  /\ None # Shared /\ None # Sticky /\ Shared # Sticky
ASSUME NumberAssumption  == Number \in Nat \ {0} /\ MaxFail \in Nat /\ MaxKill \in Nat
ASSUME OverlapAssumption == Overlap \in BOOLEAN

VARIABLES
  dir,        \* the directory of the path: Shared, Sticky, None, or that of a start
  path,       \* the socket the path names, or None
  mode,       \* socket -> permissions of its file: "bound", "open"
  listening,  \* the sockets on which listen was called
  pc,         \* start -> the next system call
  fd,         \* start -> the descriptor socket() returned, or -1 when closed
  zero,       \* start -> what descriptor 0 is: "stdin", "sock", "closed"
  workers,    \* start -> number of live workers
  forked,     \* start -> i, the counter of cgx_fork
  result,     \* start -> how it ended
  calm,       \* nothing was killed and nothing failed since the last Start
  fails, kills

sockets == <<dir, path, mode, listening>>
process == <<fd, zero, workers, forked>>
vars == <<dir, path, mode, listening, pc, fd, zero, workers, forked, result,
          calm, fails, kills>>

Calls == {"socket", "connect", "unlink", "mkdir", "bind", "listen", "chmod",
          "dup2", "close", "fork"}

Running(p) == pc[p] \in Calls

\* Some process has the socket of s open.
Held(s) ==
  \/ Running(s) /\ (fd[s] >= 0 \/ zero[s] = "sock")
  \/ workers[s] > 0 /\ zero[s] = "sock"

\* A connection to socket s would be queued.
Listens(s) == s \in listening /\ Held(s)

\* The permissions of the file let p connect.
MayConnect(p, s) == User[p] = User[s] \/ mode[s] = "open"

\* The permissions of the directory let p make a file, and unlink the one at
\* the path.
MayCreate(p) == dir \in Starter => User[dir] = User[p]
MayUnlink(p) == MayCreate(p) /\ (dir = Sticky => User[path] = User[p])

Goto(p, from, to) == pc[p] = from /\ pc' = [pc EXCEPT ![p] = to]

\* The start is over; its own descriptors close with it.
Exit(p, from, how) ==
  /\ Goto(p, from, "done")
  /\ result' = [result EXCEPT ![p] = how]
  /\ calm' = (calm /\ how \in {"inuse", "up"})
  /\ fd' = [fd EXCEPT ![p] = -1]
  /\ UNCHANGED <<zero, workers, forked, kills>>

\* A call that returns and changes the socket at most.
Proceed(p, from, to) ==
  /\ Goto(p, from, to)
  /\ UNCHANGED <<process, result, calm, fails, kills>>

Init ==
  /\ dir \in {None, Shared, Sticky}
  /\ path = None /\ mode = [s \in Starter |-> "bound"] /\ listening = {}
  /\ pc = [s \in Starter |-> "off"]
  /\ fd = [s \in Starter |-> -1]
  /\ zero = [s \in Starter |-> IF s \in NoStdin THEN "closed" ELSE "stdin"]
  /\ workers = [s \in Starter |-> 0] /\ forked = [s \in Starter |-> 0]
  /\ result = [s \in Starter |-> "none"]
  /\ calm = FALSE /\ fails = 0 /\ kills = 0

Start(p) ==
  /\ Overlap \/ \A q \in Starter : ~Running(q)
  /\ Goto(p, "off", "socket")
  /\ calm' = TRUE
  /\ UNCHANGED <<sockets, process, result, fails, kills>>

\* socket(): the lowest free descriptor
Socket(p) ==
  /\ Goto(p, "socket", "connect")
  /\ IF zero[p] = "closed"
       THEN fd' = [fd EXCEPT ![p] = 0] /\ zero' = [zero EXCEPT ![p] = "sock"]
       ELSE fd' = [fd EXCEPT ![p] = 3] /\ UNCHANGED zero
  /\ UNCHANGED <<sockets, workers, forked, result, calm, fails, kills>>

\* A slip: a socket file that exists is taken for a running server.
ConnectByName(p) ==
  /\ IF path # None THEN Exit(p, "connect", "inuse") /\ UNCHANGED fails
                    ELSE Proceed(p, "connect", "unlink")
  /\ UNCHANGED sockets

\* connect() in cgx_bind: 0 or EACCES means that the path is in use.
Connect(p) ==
  /\ IF path # None /\ (MayConnect(p, path) => Listens(path))
       THEN Exit(p, "connect", "inuse") /\ UNCHANGED fails
       ELSE Proceed(p, "connect", "unlink")
  /\ UNCHANGED sockets

\* A slip: the old socket file is left where it is.
UnlinkSkipped(p) == Proceed(p, "unlink", "mkdir") /\ UNCHANGED sockets

\* unlink(): EACCES or EPERM by the directory; ENOENT is no error and comes
\* before them
Unlink(p) ==
  /\ IF path # None => MayUnlink(p)
       THEN Proceed(p, "unlink", "mkdir") /\ path' = None
       ELSE Exit(p, "unlink", "denied") /\ UNCHANGED <<path, fails>>
  /\ UNCHANGED <<dir, mode, listening>>

\* cgx_mkdir: EEXIST is no error, whoever made the directory
Mkdir(p) ==
  /\ Proceed(p, "mkdir", "bind")
  /\ dir' = IF dir = None THEN p ELSE dir
  /\ UNCHANGED <<path, mode, listening>>

\* bind() creates the file; EADDRINUSE when it exists, EACCES by the directory
Bind(p) ==
  /\ CASE path # None                   -> Exit(p, "bind", "failed") /\ UNCHANGED <<path, fails>>
       [] path = None /\ ~MayCreate(p)  -> Exit(p, "bind", "denied") /\ UNCHANGED <<path, fails>>
       [] path = None /\ MayCreate(p)   -> Proceed(p, "bind", "listen") /\ path' = p
  /\ UNCHANGED <<dir, mode, listening>>

Listen(p) ==
  /\ Proceed(p, "listen", "chmod")
  /\ listening' = listening \union {p}
  /\ UNCHANGED <<dir, path, mode>>

\* A slip: the permissions stay those of umask.
ChmodSkipped(p) == Proceed(p, "chmod", "dup2") /\ UNCHANGED sockets

\* chmod(filename, 0666): whatever file the path names by now
Chmod(p) ==
  /\ IF path # None /\ User[path] = User[p]
       THEN /\ Proceed(p, "chmod", "dup2")
            /\ mode' = [mode EXCEPT ![path] = "open"]
       ELSE Exit(p, "chmod", "failed") /\ UNCHANGED <<mode, fails>>
  /\ UNCHANGED <<dir, path, listening>>

Dup2(p) ==
  /\ Goto(p, "dup2", "close")
  /\ zero' = [zero EXCEPT ![p] = "sock"]
  /\ UNCHANGED <<sockets, fd, workers, forked, result, calm, fails, kills>>

\* close(fd), also where fd is descriptor 0 itself
Close(p) ==
  /\ Goto(p, "close", "fork")
  /\ fd' = [fd EXCEPT ![p] = -1]
  /\ zero' = IF fd[p] = 0 THEN [zero EXCEPT ![p] = "closed"] ELSE zero
  /\ UNCHANGED <<sockets, workers, forked, result, calm, fails, kills>>

\* One round of cgx_fork; the parent exits after the last one.
Fork(p) ==
  /\ pc[p] = "fork" /\ forked[p] < Number
  /\ forked' = [forked EXCEPT ![p] = @ + 1]
  /\ workers' = [workers EXCEPT ![p] = @ + 1]
  /\ UNCHANGED <<sockets, pc, fd, zero, result, calm, fails, kills>>

ForkDone(p) ==
  /\ forked[p] = Number
  /\ Exit(p, "fork", "up")
  /\ UNCHANGED <<sockets, fails>>

\* A system call fails by itself: every such path closes fd and exits.
Fail(p) ==
  /\ fails < MaxFail
  /\ fails' = fails + 1
  /\ \E call \in {"socket", "unlink", "mkdir", "bind", "listen", "chmod", "dup2", "fork"} :
       /\ call = "fork" => forked[p] < Number
       /\ Exit(p, call, "failed")
  /\ UNCHANGED sockets

\* The environment kills a start, or one of its workers.
Kill(p) ==
  /\ kills < MaxKill
  /\ kills' = kills + 1
  /\ \/ /\ Running(p)
        /\ pc' = [pc EXCEPT ![p] = "done"]
        /\ result' = [result EXCEPT ![p] = "killed"]
        /\ fd' = [fd EXCEPT ![p] = -1]
        /\ UNCHANGED workers
     \/ /\ workers[p] > 0
        /\ workers' = [workers EXCEPT ![p] = @ - 1]
        /\ UNCHANGED <<pc, result, fd>>
  /\ calm' = FALSE
  /\ UNCHANGED <<sockets, zero, forked, fails>>

Main(p) ==
  \/ Socket(p) \/ Connect(p) \/ Unlink(p) \/ Mkdir(p) \/ Bind(p)
  \/ Listen(p) \/ Chmod(p) \/ Dup2(p) \/ Close(p) \/ Fork(p) \/ ForkDone(p)
  \/ Fail(p)

\* Every start is over.
Done ==
  /\ \A p \in Starter : pc[p] = "done"
  /\ UNCHANGED vars

Next == (\E p \in Starter : Start(p) \/ Main(p) \/ Kill(p)) \/ Done

Spec == Init /\ [][Next]_vars

-----------------------------------------------------------------------------
(***************************************************************************)
(* Properties                                                              *)
(***************************************************************************)

\* Types; a start has at most Number workers.
TypeOK ==
  /\ dir \in Starter \union {None, Shared, Sticky}
  /\ path \in Starter \union {None}
  /\ mode \in [Starter -> {"bound", "open"}]
  /\ listening \subseteq Starter
  /\ pc \in [Starter -> Calls \union {"off", "done"}]
  /\ fd \in [Starter -> {-1, 0, 3}]
  /\ zero \in [Starter -> {"stdin", "sock", "closed"}]
  /\ workers \in [Starter -> 0 .. Number]
  /\ forked \in [Starter -> 0 .. Number]
  /\ \A p \in Starter : workers[p] <= forked[p]
  /\ result \in [Starter -> {"none", "inuse", "failed", "denied", "killed", "up"}]
  /\ calm \in BOOLEAN
  /\ fails \in 0 .. MaxFail /\ kills \in 0 .. MaxKill

\* cgx.main.cpp, "so that everone can connect me": as long as a start has a
\* worker, the path names the socket that this worker listens on, and the
\* file lets every user connect.
EveryoneCanConnect == \A s \in Starter : workers[s] > 0 =>
  path = s /\ mode[s] = "open" /\ Listens(s)

\* Another user was here first: the directory is theirs, or keeps their files.
Foreign(p) ==
  \/ dir \in Starter /\ User[dir] # User[p]
  \/ dir = Sticky /\ \E q \in Starter : pc[q] # "off" /\ User[q] # User[p]

Failed == {s \in Starter : \/ result[s] = "failed"
                           \/ result[s] = "denied" /\ ~Foreign(s)}

\* A start fails only where a system call fails by itself, or where another
\* user's start has left a directory or a file that this user may not write
\* to: whatever the same user's starts left behind at any point of theirs, and
\* everybody's in a directory that is writable for all, does not stop it.
LeftoversDoNotBlock == Cardinality(Failed) <= fails

\* After a start that ended well, its own or somebody else's workers serve
\* the path: "already inused" is said only of a path that is.  (Of a file left
\* by a start that died before its chmod, another user's start says it too.)
ServedAfterStart ==
  (/\ calm /\ \A p \in Starter : ~Running(p)
   /\ path # None => mode[path] = "open")
  => path # None /\ Listens(path)
=============================================================================
