-------------------------------- MODULE Maopao --------------------------------
(***************************************************************************)
(* maopao: files are spread over hosts by tasks.  A task names the host to *)
(* pull from, the host it is for, the other hosts it stands for, and the   *)
(* files.  The host that receives it (mp-recv) runs mp-exec: it pulls the  *)
(* files, splits the other hosts in two halves, and sends a task to the    *)
(* first host of each half, to pull from itself.                           *)
(*                                                                         *)
(* A command of mp-exec that fails ends it with an error; what it would    *)
(* have done after that is not done by anybody else.  What mp-exec writes  *)
(* to files of its own is not looked at: on a full disk lines are missing  *)
(* and nobody is told.                                                     *)
(***************************************************************************)
EXTENDS Integers, FiniteSets

CONSTANTS
  Host,      \* the hosts to serve
  Origin,    \* the host that has the files
  File,      \* the file list of the task
  Stub,      \* a line that is no file's name: the begin of one, or a header line
  None,      \* an empty SrcHost
  MaxFail,   \* bound: commands, connections and writes that fail by themselves
  MaxKill    \* bound: mp-exec processes killed

ASSUME HostAssumption ==
  /\ IsFiniteSet(Host) /\ Host # {} /\ Origin \notin Host /\ None \notin Host \union {Origin}
  /\ File # {} /\ Stub \notin File
ASSUME BoundAssumption == MaxFail \in Nat /\ MaxKill \in Nat

Node == Host \union {Origin}

VARIABLES
  pc,      \* host -> the next command of its mp-exec, or "off": not started
  src,     \* host -> SrcHost of its task
  list,    \* host -> the file list of its task, as mp-exec has it
  oth,     \* host -> the hosts of OthHost not yet handed on
  half,    \* host -> the half of them that subtask 2 is for
  files,   \* host -> the files it has, complete
  hop,     \* host -> hand-overs between the operator and this host
  short,   \* the hosts whose mp-exec lost lines of a file it wrote
  started, \* host -> number of mp-exec processes started on it
  fails, kills

task == <<src, list, hop>>
vars == <<pc, src, list, oth, half, files, hop, short, started, fails, kills>>

Running == {"save", "mkdir", "pull", "split", "create1", "send1", "create2", "send2"}

Goto(h, from, to) == pc[h] = from /\ pc' = [pc EXCEPT ![h] = to]

Counted == fails < MaxFail /\ fails' = fails + 1

\* The command of h fails: mp-log error, exit 1.
Fails(h) == Counted /\ pc' = [pc EXCEPT ![h] = "error"]

\* What is left of a list that is cut at some byte: some of its lines, and
\* perhaps a piece of one more.
Cuts(text) == SUBSET (text \union {Stub}) \ {text, text \union {Stub}}

(***************************************************************************)
(* The operator sends one task: to a first host, to pull from Origin, or   *)
(* to Origin itself with no SrcHost.                                       *)
(***************************************************************************)
Init ==
  \E g \in Node :
    LET s == IF g = Origin THEN None ELSE Origin
    IN  /\ pc = [h \in Node |-> IF h = g THEN "save" ELSE "off"]
        /\ src = [h \in Node |-> IF h = g THEN s ELSE None]
        /\ list = [h \in Node |-> IF h = g THEN File ELSE {}]
        /\ oth = [h \in Node |-> IF h = g THEN Host \ {g} ELSE {}]
        /\ half = [h \in Node |-> {}]
        /\ files = [h \in Node |-> IF h = Origin THEN File ELSE {}]
        /\ hop = [h \in Node |-> 0]
        /\ short = {}
        /\ started = [h \in Node |-> IF h = g THEN 1 ELSE 0]
        /\ fails = 0 /\ kills = 0

\* The file list is written to a file and read from there, both times without
\* a look at the result: the task has no other list.  Without SrcHost nothing
\* is pulled, without files nothing is done.
Save(h) ==
  /\ pc[h] = "save"
  /\ \/ UNCHANGED <<list, short, fails>>
     \/ \E text \in Cuts(list[h]) :
          /\ list' = [list EXCEPT ![h] = text]
          /\ short' = short \union {h} /\ Counted
  /\ pc' = [pc EXCEPT ![h] = IF list'[h] = {} THEN "end"
                             ELSE IF src[h] = None THEN "split" ELSE "mkdir"]
  /\ UNCHANGED <<src, hop, oth, half, files, started, kills>>

\* A slip: the files are handed on before they are pulled.
MkdirOnly(h) ==
  /\ Goto(h, "mkdir", "split")
  /\ UNCHANGED <<task, oth, half, files, short, started, fails, kills>>

\* sh task_mkdir_SEQ.sh
Mkdir(h) ==
  /\ pc[h] = "mkdir"
  /\ \/ Goto(h, "mkdir", "pull") /\ UNCHANGED fails
     \/ Fails(h)
  /\ UNCHANGED <<task, oth, half, files, short, started, kills>>

\* A slip: the exit status of sftp is not looked at.
PullUnchecked(h) ==
  /\ pc[h] = "pull"
  /\ \/ /\ list[h] \subseteq files[src[h]]
        /\ files' = [files EXCEPT ![h] = @ \union list[h]]
        /\ UNCHANGED fails
     \/ \E got \in SUBSET (list[h] \intersect files[src[h]]) :
          files' = [files EXCEPT ![h] = @ \union got] /\ Counted
  /\ pc' = [pc EXCEPT ![h] = "split"]
  /\ UNCHANGED <<task, oth, half, short, started, kills>>

\* sftp -b task_pull_SEQ.sftp gets the files one after the other and stops at
\* the first that it does not get.  The script is one more file that mp-exec
\* has written: a line that is missing there is not pulled.
Pull(h) ==
  /\ pc[h] = "pull"
  /\ \E got \in SUBSET (list[h] \intersect files[src[h]]) :
       /\ files' = [files EXCEPT ![h] = @ \union got]
       /\ \/ /\ got = list[h]
             /\ pc' = [pc EXCEPT ![h] = "split"] /\ UNCHANGED <<short, fails>>
          \/ /\ ~ list[h] \subseteq files[src[h]]
             /\ pc' = [pc EXCEPT ![h] = "error"] /\ UNCHANGED <<short, fails>>
          \/ Fails(h) /\ UNCHANGED short
          \/ /\ got # list[h]
             /\ pc' = [pc EXCEPT ![h] = "split"]
             /\ short' = short \union {h} /\ Counted
  /\ UNCHANGED <<task, oth, half, started, kills>>

\* A slip: head and tail count differently, and the middle host is lost.
SplitLoses(h) ==
  /\ pc[h] = "split"
  /\ IF oth[h] = {}
       THEN Goto(h, "split", "end") /\ UNCHANGED <<oth, half>>
       ELSE /\ Goto(h, "split", "create1")
            /\ LET n == Cardinality(oth[h]) IN
               \E two \in SUBSET oth[h] : \E one \in SUBSET (oth[h] \ two) :
                 /\ Cardinality(two) = n \div 2
                 /\ Cardinality(one) = IF n = 1 THEN 1 ELSE n \div 2
                 /\ half' = [half EXCEPT ![h] = two]
                 /\ oth' = [oth EXCEPT ![h] = one \union two]
  /\ UNCHANGED <<task, files, short, started, fails, kills>>

\* A slip: the second half is one host, whatever the length.
SplitUneven(h) ==
  /\ pc[h] = "split"
  /\ IF oth[h] = {}
       THEN Goto(h, "split", "end") /\ UNCHANGED half
       ELSE /\ Goto(h, "split", "create1")
            /\ \E two \in SUBSET oth[h] :
                 /\ Cardinality(two) = IF Cardinality(oth[h]) = 1 THEN 0 ELSE 1
                 /\ half' = [half EXCEPT ![h] = two]
  /\ UNCHANGED <<task, oth, files, short, started, fails, kills>>

\* The list is shuffled and split: head -n -(count/2), tail -n -(count/2).
Split(h) ==
  /\ pc[h] = "split"
  /\ IF oth[h] = {}
       THEN Goto(h, "split", "end") /\ UNCHANGED half
       ELSE /\ Goto(h, "split", "create1")
            /\ \E two \in SUBSET oth[h] :
                 /\ Cardinality(two) = Cardinality(oth[h]) \div 2
                 /\ half' = [half EXCEPT ![h] = two]
  /\ UNCHANGED <<task, oth, files, short, started, fails, kills>>

\* mp-create, into a file of its own
Create(h, from, to) ==
  /\ pc[h] = from
  /\ \/ Goto(h, from, to) /\ UNCHANGED fails
     \/ Fails(h)
  /\ UNCHANGED <<task, oth, half, files, short, started, kills>>

\* A task of h to a host that stands for rest.
Task(h, rest, text) == [src |-> h, oth |-> rest, list |-> text]

\* What mp-recv makes of a task that it has got a part of.  Cut in the files:
\* the last name may be half a name.  Cut in the header: the header's lines
\* are the file list; OthHost may be cut, and SrcHost missing.
CutTasks(h, rest) ==
  {Task(h, rest, text) : text \in Cuts(list[h]) \ {{}}}
  \union {Task(h, some, {Stub}) : some \in SUBSET rest}
  \union {Task(None, {}, {Stub})}

\* mp-recv on g starts mp-exec with the task it read; the hosts that the task
\* names are handed on.
Receive(h, g, t) ==
  /\ src' = [src EXCEPT ![g] = t.src]
  /\ list' = [list EXCEPT ![g] = t.list]
  /\ oth' = [oth EXCEPT ![h] = @ \ (t.oth \union {g}), ![g] = t.oth]
  /\ hop' = [hop EXCEPT ![g] = hop[h] + 1]
  /\ started' = [started EXCEPT ![g] = @ + 1]

\* A slip: an mp-send that fails is repeated.
SendRepeats(h, from, part, to) ==
  /\ pc[h] = from
  /\ \E g \in part :
       LET rest == part \ {g} IN
       \/ /\ Receive(h, g, Task(h, rest, list[h]))
          /\ pc' = [pc EXCEPT ![h] = to, ![g] = "save"] /\ UNCHANGED fails
       \/ /\ Counted
          /\ pc' = [pc EXCEPT ![g] = "save"]
          /\ src' = [src EXCEPT ![g] = h]
          /\ list' = [list EXCEPT ![g] = list[h]]
          /\ oth' = [oth EXCEPT ![g] = rest]
          /\ hop' = [hop EXCEPT ![g] = hop[h] + 1]
          /\ started' = [started EXCEPT ![g] = @ + 1]
  /\ UNCHANGED <<half, files, short, kills>>

\* mp-send: ssh hands the task to mp-recv on the first host of the part, and
\* the rest of the part with it.  The connection may fail before, after, or
\* inside the task: mp-recv reads to the end of file and runs what it has got.
Send(h, from, part, to) ==
  /\ pc[h] = from
  /\ \E g \in part :
       LET rest == part \ {g}
           whole == Task(h, rest, list[h])
       IN
       \/ /\ Receive(h, g, whole)
          /\ pc' = [pc EXCEPT ![h] = to, ![g] = "save"] /\ UNCHANGED fails
       \/ \E t \in CutTasks(h, rest) \union {whole} :
            /\ Receive(h, g, t)
            /\ pc' = [pc EXCEPT ![h] = "error", ![g] = "save"] /\ Counted
       \/ Fails(h) /\ UNCHANGED <<task, oth, started>>
  /\ UNCHANGED <<half, files, short, kills>>

Create1(h) == Create(h, "create1", "send1")
Send1(h) == Send(h, "send1", oth[h] \ half[h], IF half[h] = {} THEN "end" ELSE "create2")
Create2(h) == Create(h, "create2", "send2")
Send2(h) == Send(h, "send2", half[h], "end")

\* mp-exec of h is killed: nothing is logged.
Kill(h) ==
  /\ pc[h] \in Running
  /\ kills < MaxKill
  /\ kills' = kills + 1
  /\ pc' = [pc EXCEPT ![h] = "dead"]
  /\ UNCHANGED <<task, oth, half, files, short, started, fails>>

Exec(h) ==
  \/ Save(h) \/ Mkdir(h) \/ Pull(h) \/ Split(h)
  \/ Create1(h) \/ Send1(h) \/ Create2(h) \/ Send2(h)

\* No mp-exec runs.
Done ==
  /\ \A h \in Node : pc[h] \notin Running
  /\ UNCHANGED vars

Next == (\E h \in Node : Exec(h) \/ Kill(h)) \/ Done

Spec == Init /\ [][Next]_vars

\* Every mp-exec is a process of its own host.
FairSpec == Spec /\ \A h \in Node : WF_vars(Exec(h))

-----------------------------------------------------------------------------
(***************************************************************************)
(* Properties                                                              *)
(***************************************************************************)

\* Types; what is to be handed on is a part of the destination hosts, and the
\* second half a part of that.
TypeOK ==
  /\ pc \in [Node -> Running \union {"off", "end", "error", "dead"}]
  /\ src \in [Node -> Node \union {None}]
  /\ list \in [Node -> SUBSET (File \union {Stub})]
  /\ oth \in [Node -> SUBSET Host]
  /\ half \in [Node -> SUBSET Host]
  /\ \A h \in Node : pc[h] = "pull" => src[h] \in Node
  /\ files \in [Node -> SUBSET File]
  /\ hop \in [Node -> Nat]
  /\ short \subseteq Node
  /\ started \in [Node -> Nat]
  /\ fails \in 0 .. MaxFail /\ kills \in 0 .. MaxKill

\* No host runs mp-exec twice for one task, so no two of them write the same
\* task_*_SEQ files and pull into the same files.
ExecutedOnce == \A h \in Node : started[h] <= 1

\* A host is pulled from only when it has all the files of the task it handed
\* on: the sftp script of a subtask meets no missing file, except in a line
\* that a broken connection or a full disk has cut, or where the source's own
\* list or script was cut.
SourceHasFiles == \A h \in Node : pc[h] = "pull" =>
  list[h] \subseteq files[src[h]] \union {Stub} \/ src[h] \in short

\* No host is forgotten: one that no task has reached is on the list of an
\* mp-exec that has not ended, or that ended with an error, by a kill, or
\* with its own list cut.
NobodyForgotten == \A g \in Host : pc[g] = "off" =>
  \E h \in Node : g \in oth[h] /\ (pc[h] \notin {"off", "end"} \/ h \in short)

\* A run in which no mp-exec has ended with an error, was killed, or lost a
\* line of a file it wrote has served every host.  Only the first of the three
\* is logged: the log alone does not tell that all is well.
SilenceMeansServed ==
  short = {} /\ (\A h \in Node : pc[h] \in {"off", "end"}) => \A g \in Host : files[g] = File

\* mp-exec:22, "forward (bisection)": the hosts a task stands for are halved at
\* every hand-over.
Bisection == \A h \in Node : pc[h] \in Running =>
  (Cardinality(oth[h]) + 1) * 2 ^ hop[h] <= Cardinality(Node)

\* Every host gets every file, unless a command fails or a process is killed.
Served == <>(fails > 0 \/ kills > 0 \/ \A g \in Host : files[g] = File)
=============================================================================
