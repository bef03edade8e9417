---------------------------- MODULE Maopao_proofs ----------------------------
(***************************************************************************)
(* Proofs about Maopao, for any finite set of hosts and any list of files. *)
(***************************************************************************)
EXTENDS Maopao, FiniteSetTheorems, TLAPS

(***************************************************************************)
(* The duties of the running mp-exec processes, the hosts on their lists,  *)
(* are disjoint and not reached yet; a process that ends well has none,    *)
(* unless its list was cut.                                                *)
(***************************************************************************)
Duties ==
  /\ \A h \in Node : \A g \in oth[h] : pc[g] = "off"
  /\ \A h, k \in Node : h # k => oth[h] \intersect oth[k] = {}
  /\ \A h \in Node : pc[h] = "off" => oth[h] = {} /\ started[h] = 0
  /\ \A h \in Node : pc[h] # "off" => started[h] = 1
  /\ \A h \in Node : pc[h] = "end" => oth[h] = {} \/ h \in short
  /\ \A h \in Node : pc[h] \in {"create1", "send1"} => half[h] \subseteq oth[h]
  /\ \A h \in Node : pc[h] \in {"create2", "send2"} => half[h] = oth[h]

(***************************************************************************)
(* Where the files of a task are: on its source until they are pulled,     *)
(* then on its host; but for the lines that are no names, and where the    *)
(* host has lost lines of its own.  Only a host that logs an error hands   *)
(* on less than the whole list, and only one that loses lines keeps less.  *)
(***************************************************************************)
Holds(h, text) == text \subseteq files[h] \union {Stub} \/ h \in short

Holding ==
  /\ \A h \in Node : pc[h] \in Running => list[h] # {}
  /\ \A h \in Node : pc[h] \in {"mkdir", "pull"} => src[h] \in Node
  /\ \A h \in Node : pc[h] \in {"save", "mkdir", "pull"} =>
       (src[h] \in Node /\ Holds(src[h], list[h])) \/ (src[h] = None /\ Holds(h, list[h]))
  /\ \A h \in Node : pc[h] \in (Running \ {"save", "mkdir", "pull"}) \union {"end"} =>
       Holds(h, list[h])
  /\ (\A h \in Node : pc[h] # "error") /\ short = {} =>
       \A h \in Node : pc[h] # "off" => list[h] = File

Inv == TypeOK /\ Duties /\ NobodyForgotten /\ Holding

(***************************************************************************)
(* What a hand-over does.  The first host of a part, which no task has     *)
(* reached before, gets the task and the rest of the part: the whole task, *)
(* or what it has read of it when the sender meets an error.  given are    *)
(* the hosts that leave the list of the sender.                            *)
(***************************************************************************)
IsPart(h, part) ==
  \/ pc[h] = "send1" /\ part = oth[h] \ half[h]
  \/ pc[h] = "send2" /\ part = half[h]

HandOver(h, part, given, g, t, to) ==
  /\ IsPart(h, part) /\ part \subseteq oth[h] /\ given \subseteq part /\ g \in given
  /\ t.oth = given \ {g} /\ t.list # {}
  /\ \/ t.src = h /\ t.list \subseteq list[h] \union {Stub}
     \/ t.src = None /\ t.list = {Stub}
  /\ to # "error" => given = part /\ t.list = list[h]
  /\ to = "end" => part = oth[h]
  /\ to = "create2" => half[h] = oth[h] \ part
  /\ pc' = [pc EXCEPT ![h] = to, ![g] = "save"]
  /\ src' = [src EXCEPT ![g] = t.src]
  /\ list' = [list EXCEPT ![g] = t.list]
  /\ oth' = [oth EXCEPT ![h] = @ \ given, ![g] = given \ {g}]
  /\ hop' = [hop EXCEPT ![g] = hop[h] + 1]
  /\ started' = [started EXCEPT ![g] = @ + 1]
  /\ fails' \in 0 .. MaxFail
  /\ UNCHANGED <<half, files, short, kills>>

Tasks == [src : Node \union {None}, oth : SUBSET Host, list : SUBSET (File \union {Stub})]

HandsOver(h) ==
  \E part, given \in SUBSET Host, g \in Host, t \in Tasks, to \in {"end", "create2", "error"} :
    HandOver(h, part, given, g, t, to)

NotDelivered(h) ==
  Fails(h) /\ UNCHANGED <<src, list, oth, half, files, hop, short, started, kills>>

Arrives(h, part, g, t) ==
  /\ part \in SUBSET oth[h] /\ g \in part /\ list[h] # {}
  /\ t \in CutTasks(h, part \ {g}) \union {Task(h, part \ {g}, list[h])}

\* What a task of h can be when it arrives.
LEMMA TaskFacts ==
  ASSUME Inv, NEW h \in Node, NEW part, NEW g, NEW t, Arrives(h, part, g, t)
  PROVE  /\ t \in Tasks /\ t.oth \subseteq part \ {g} /\ t.list # {}
         /\ \/ t.src = h /\ t.list \subseteq list[h] \union {Stub}
            \/ t.src = None /\ t.list = {Stub}
<1>1. /\ oth[h] \in SUBSET Host /\ list[h] \in SUBSET (File \union {Stub})
      /\ part \in SUBSET oth[h] /\ g \in part /\ list[h] # {}
  BY DEF Inv, TypeOK, Arrives
<1>2. ASSUME NEW rest \in SUBSET (part \ {g}), NEW text \in SUBSET (list[h] \union {Stub}),
             t = Task(h, rest, text), text # {}
      PROVE  /\ t \in Tasks /\ t.oth \subseteq part \ {g} /\ t.list # {}
             /\ t.src = h /\ t.list \subseteq list[h] \union {Stub}
  BY <1>1, <1>2 DEF Task, Tasks
<1>3. CASE t = Task(None, {}, {Stub})
  BY <1>3 DEF Task, Tasks
<1> QED BY <1>1, <1>2, <1>3 DEF Arrives, CutTasks, Cuts

\* mp-send hands a part of the list over, or fails and hands nothing over.
LEMMA SendCases ==
  ASSUME Inv, NEW h \in Node, Send1(h) \/ Send2(h)
  PROVE  pc[h] \in {"send1", "send2"} /\ (NotDelivered(h) \/ HandsOver(h))
<1>2. ASSUME NEW from, NEW to \in {"end", "create2"}, NEW part \in SUBSET oth[h],
             Send(h, from, part, to), IsPart(h, part),
             to = "end" => part = oth[h], to = "create2" => half[h] = oth[h] \ part
      PROVE  NotDelivered(h) \/ HandsOver(h)
  <2>0. oth[h] \in SUBSET Host /\ fails \in 0 .. MaxFail /\ UNCHANGED <<half, files, short, kills>>
    BY <1>2 DEF Inv, TypeOK, Send
  <2>1. PICK g \in part :
          \/ /\ Receive(h, g, Task(h, part \ {g}, list[h]))
             /\ pc' = [pc EXCEPT ![h] = to, ![g] = "save"] /\ UNCHANGED fails
          \/ \E t \in CutTasks(h, part \ {g}) \union {Task(h, part \ {g}, list[h])} :
               /\ Receive(h, g, t)
               /\ pc' = [pc EXCEPT ![h] = "error", ![g] = "save"] /\ Counted
          \/ Fails(h) /\ UNCHANGED <<task, oth, started>>
    BY <1>2, Zenon DEF Send
  <2>2. ASSUME NEW t \in CutTasks(h, part \ {g}) \union {Task(h, part \ {g}, list[h])},
               NEW how \in {"end", "create2", "error"}, Receive(h, g, t),
               pc' = [pc EXCEPT ![h] = how, ![g] = "save"], fails' \in 0 .. MaxFail,
               how # "error" => how = to /\ t = Task(h, part \ {g}, list[h])
        PROVE  HandsOver(h)
    <3> DEFINE given == t.oth \union {g}
    <3>1. /\ t \in Tasks /\ t.oth \subseteq part \ {g} /\ t.list # {}
          /\ \/ t.src = h /\ t.list \subseteq list[h] \union {Stub}
             \/ t.src = None /\ t.list = {Stub}
      <4>1. list[h] # {}
        BY <1>2 DEF Inv, Holding, IsPart, Running
      <4>2. Arrives(h, part, g, t)
        BY <1>2, <2>1, <2>2, <4>1 DEF Arrives
      <4> QED BY <4>2, TaskFacts
    <3>2. given \subseteq part /\ g \in given /\ t.oth = given \ {g}
      BY <3>1
    <3>3. how # "error" => given = part /\ t.list = list[h]
      BY <2>2 DEF Task
    <3>4. /\ how = "end" => part = oth[h]
          /\ how = "create2" => half[h] = oth[h] \ part
      BY <1>2, <2>2
    <3>5. /\ src' = [src EXCEPT ![g] = t.src] /\ list' = [list EXCEPT ![g] = t.list]
          /\ oth' = [oth EXCEPT ![h] = @ \ given, ![g] = given \ {g}]
          /\ hop' = [hop EXCEPT ![g] = hop[h] + 1]
          /\ started' = [started EXCEPT ![g] = @ + 1]
      BY <2>2, <3>2 DEF Receive
    <3> HIDE DEF given
    <3>6. HandOver(h, part, given, g, t, how)
      BY <1>2, <2>0, <2>2, <3>1, <3>2, <3>3, <3>4, <3>5 DEF HandOver
    <3>7. part \in SUBSET Host /\ given \in SUBSET Host /\ g \in Host
      BY <2>0, <3>2
    <3> QED BY <2>2, <3>1, <3>6, <3>7 DEF HandsOver
  <2>3. CASE /\ Receive(h, g, Task(h, part \ {g}, list[h]))
             /\ pc' = [pc EXCEPT ![h] = to, ![g] = "save"] /\ UNCHANGED fails
    BY <1>2, <2>0, <2>2, <2>3
  <2>4. ASSUME NEW t \in CutTasks(h, part \ {g}) \union {Task(h, part \ {g}, list[h])},
               Receive(h, g, t), pc' = [pc EXCEPT ![h] = "error", ![g] = "save"], Counted
        PROVE  HandsOver(h)
    <3>1. fails' \in 0 .. MaxFail
      BY <2>0, <2>4, BoundAssumption DEF Counted
    <3> QED BY <2>2, <2>4, <3>1
  <2>5. CASE Fails(h) /\ UNCHANGED <<task, oth, started>>
    BY <2>0, <2>5 DEF NotDelivered, task
  <2> QED BY <2>1, <2>3, <2>4, <2>5
<1>3. CASE Send1(h)
  <2> DEFINE to == IF half[h] = {} THEN "end" ELSE "create2"
  <2>1. pc[h] = "send1" /\ half[h] \subseteq oth[h] /\ IsPart(h, oth[h] \ half[h])
    BY <1>3 DEF Send1, Send, Inv, Duties, IsPart
  <2>2. /\ oth[h] \ half[h] \in SUBSET oth[h] /\ to \in {"end", "create2"}
        /\ to = "end" => oth[h] \ half[h] = oth[h]
        /\ to = "create2" => half[h] = oth[h] \ (oth[h] \ half[h])
    BY <2>1
  <2>3. Send(h, "send1", oth[h] \ half[h], to)
    BY <1>3 DEF Send1
  <2> HIDE DEF to
  <2> QED BY <2>1, <2>2, <2>3, <1>2
<1>4. CASE Send2(h)
  <2>1. /\ pc[h] = "send2" /\ half[h] = oth[h] /\ Send(h, "send2", oth[h], "end")
        /\ IsPart(h, oth[h])
    BY <1>4 DEF Send2, Send, Inv, Duties, IsPart
  <2> QED BY <2>1, <1>2
<1> QED BY <1>3, <1>4

\* Types, step by step.
LEMMA TypeStep == Inv /\ [Next]_vars => TypeOK'
<1> SUFFICES ASSUME Inv, [Next]_vars PROVE TypeOK'
  OBVIOUS
<1> USE BoundAssumption DEF Inv, TypeOK, Goto, Fails, Counted, Running, task
<1>1. ASSUME NEW h \in Node, Mkdir(h) PROVE TypeOK'
  BY <1>1 DEF Mkdir, Holding
<1>9. ASSUME NEW h \in Node, Save(h) PROVE TypeOK'
  <2>1. src' = src /\ pc' \in [Node -> Running \union {"off", "end", "error", "dead"}]
    BY <1>9 DEF Save
  <2>2. \A k \in Node : pc'[k] # "pull" \/ pc'[k] = pc[k]
    BY <1>9 DEF Save
  <2>3. list' \in [Node -> SUBSET (File \union {Stub})] /\ short' \subseteq Node /\ fails' \in 0 .. MaxFail
    BY <1>9 DEF Save, Cuts
  <2> QED BY <1>9, <2>1, <2>2, <2>3 DEF Save
<1>2. ASSUME NEW h \in Node, Pull(h) PROVE TypeOK'
  <2>1. PICK got \in SUBSET (list[h] \intersect files[src[h]]) :
          /\ files' = [files EXCEPT ![h] = @ \union got]
          /\ pc' = [pc EXCEPT ![h] = "split"] \/ pc' = [pc EXCEPT ![h] = "error"]
          /\ short' = short \/ short' = short \union {h}
          /\ fails' = fails \/ (fails < MaxFail /\ fails' = fails + 1)
    BY <1>2 DEF Pull
  <2>2. files[src[h]] \subseteq File
    BY <1>2 DEF Pull
  <2>3. fails' \in 0 .. MaxFail
    BY <2>1
  <2>4. short' \subseteq Node
    BY <2>1
  <2> QED BY <1>2, <2>1, <2>2, <2>3, <2>4 DEF Pull
<1>3. ASSUME NEW h \in Node, Split(h) PROVE TypeOK'
  BY <1>3 DEF Split
<1>4. ASSUME NEW h \in Node, Create1(h) \/ Create2(h) PROVE TypeOK'
  BY <1>4 DEF Create1, Create2, Create
<1>5. ASSUME NEW h \in Node, Kill(h) PROVE TypeOK'
  BY <1>5 DEF Kill
<1>6. ASSUME NEW h \in Node, HandsOver(h) PROVE TypeOK'
  <2> PICK part, given \in SUBSET Host, g \in Host, t \in Tasks,
            to \in {"end", "create2", "error"} : HandOver(h, part, given, g, t, to)
    BY <1>6 DEF HandsOver
  <2>1. pc[h] \in {"send1", "send2"}
    BY DEF HandOver, IsPart
  <2> QED BY <2>1 DEF HandOver, Tasks, Node
<1>7. ASSUME NEW h \in Node, Send1(h) \/ Send2(h) PROVE TypeOK'
  <2>1. CASE NotDelivered(h)
    BY <2>1 DEF NotDelivered
  <2> QED BY <1>6, <1>7, <2>1, SendCases DEF Inv
<1>8. ASSUME UNCHANGED vars PROVE TypeOK'
  BY <1>8 DEF vars
<1> QED
  BY <1>1, <1>2, <1>3, <1>4, <1>5, <1>7, <1>8, <1>9 DEF Next, Exec, Done

(***************************************************************************)
(* The steps of mp-exec on h that reach no other host.                     *)
(***************************************************************************)
Advance(h, to) ==
  /\ pc[h] \in Running /\ pc' = [pc EXCEPT ![h] = to]
  /\ UNCHANGED <<oth, started>>
  /\ short \subseteq short'
  /\ \A k \in Node \ {h} : half'[k] = half[k]
  /\ to = "end" => oth[h] = {} \/ h \in short'
  /\ to \in {"create1", "send1"} => half'[h] \subseteq oth[h]
  /\ to \in {"create2", "send2"} => half'[h] = oth[h]

\* A step that reaches no other host moves its mp-exec on, ends it, or stops it.
LEMMA LocalSteps ==
  ASSUME Inv, NEW h \in Node, Save(h) \/ Mkdir(h) \/ Pull(h) \/ Split(h) \/ Create1(h) \/ Create2(h)
           \/ Kill(h) \/ (NotDelivered(h) /\ pc[h] \in Running)
  PROVE  \E to \in Running \union {"end", "error", "dead"} : Advance(h, to)
<1> USE DEF Inv, TypeOK, Goto, Fails, Counted, Running, Advance, task
<1>1. CASE Mkdir(h)
  BY <1>1 DEF Mkdir
<1>7. CASE Save(h)
  <2>1. PICK to \in {"end", "split", "mkdir"} : pc' = [pc EXCEPT ![h] = to]
    BY <1>7 DEF Save
  <2>2. /\ pc[h] = "save" /\ UNCHANGED <<oth, half, started>>
        /\ short' = short \/ short' = short \union {h}
    BY <1>7 DEF Save
  <2>3. to = "end" => h \in short'
    <3>1. pc[h] \in Running /\ list[h] # {}
      BY <2>2 DEF Holding
    <3>2. to = "end" => list'[h] # list[h]
      BY <1>7, <2>1, <3>1 DEF Save
    <3> QED BY <1>7, <3>2 DEF Save
  <2> QED BY <2>1, <2>2, <2>3
<1>2. CASE Pull(h)
  BY <1>2 DEF Pull
<1>3. CASE Split(h)
  BY <1>3 DEF Split
<1>4. CASE Create1(h) \/ Create2(h)
  BY <1>4 DEF Create1, Create2, Create, Duties
<1>5. CASE Kill(h)
  BY <1>5 DEF Kill
<1>6. CASE NotDelivered(h) /\ pc[h] \in Running
  BY <1>6 DEF NotDelivered
<1> QED
  BY <1>1, <1>2, <1>3, <1>4, <1>5, <1>6, <1>7

\* A hand-over, host by host.
Moved(h, given, g, to) ==
  /\ pc[h] \in {"send1", "send2"} /\ pc[g] = "off" /\ g # h /\ g \in Node
  /\ g \in given /\ given \subseteq oth[h] /\ oth[g] = {} /\ started[g] = 0
  /\ to = "end" => given = oth[h]
  /\ to = "create2" => pc[h] = "send1" /\ half[h] = oth[h] \ given
  /\ short' = short
  /\ \A k \in Node :
       /\ pc'[k] = IF k = g THEN "save" ELSE IF k = h THEN to ELSE pc[k]
       /\ oth'[k] = IF k = g THEN given \ {g} ELSE IF k = h THEN oth[h] \ given ELSE oth[k]
       /\ hop'[k] = IF k = g THEN hop[h] + 1 ELSE hop[k]
       /\ started'[k] = IF k = g THEN 1 ELSE started[k]
       /\ half'[k] = half[k]

\* The new host had no task and was on the list of the sender only.
LEMMA HandOverMoves ==
  ASSUME Inv, NEW h \in Node, NEW part \in SUBSET Host, NEW given \in SUBSET Host, NEW g \in Host,
         NEW t \in Tasks, NEW to \in {"end", "create2", "error"}, HandOver(h, part, given, g, t, to)
  PROVE  Moved(h, given, g, to)
<1> USE DEF Inv, TypeOK
<1>1. /\ pc[h] \in {"send1", "send2"} /\ g \in given /\ given \subseteq oth[h]
      /\ half' = half /\ short' = short
  BY DEF HandOver, IsPart
<1>2. pc[g] = "off" /\ g # h /\ g \in Node /\ oth[g] = {} /\ started[g] = 0
  BY <1>1 DEF Duties, Node
<1>3. \A k \in Node : pc'[k] = IF k = g THEN "save" ELSE IF k = h THEN to ELSE pc[k]
  BY <1>2 DEF HandOver
<1>4. \A k \in Node : oth'[k] = IF k = g THEN given \ {g} ELSE IF k = h THEN oth[h] \ given ELSE oth[k]
  BY <1>2 DEF HandOver
<1>5. \A k \in Node : /\ hop'[k] = IF k = g THEN hop[h] + 1 ELSE hop[k]
                      /\ started'[k] = IF k = g THEN 1 ELSE started[k]
  BY <1>2 DEF HandOver
<1>6. /\ to = "end" => given = oth[h]
      /\ to = "create2" => half[h] = oth[h] \ given
  BY DEF HandOver
<1>7. ASSUME to = "create2" PROVE pc[h] = "send1"
  <2> SUFFICES ASSUME pc[h] = "send2" PROVE FALSE
    BY <1>1
  <2>1. given = part /\ part = half[h] /\ half[h] = oth[h] /\ half[h] = oth[h] \ given
    BY <1>6, <1>7 DEF HandOver, IsPart, Duties
  <2> QED BY <1>1, <2>1
<1> QED BY <1>1, <1>2, <1>3, <1>4, <1>5, <1>6, <1>7 DEF Moved

\* A list loses the hosts it hands on, and the new host gets them.
LEMMA DutyStep == Inv /\ [Next]_vars => Duties'
<1> SUFFICES ASSUME Inv, [Next]_vars PROVE Duties'
  OBVIOUS
<1> USE DEF Inv, TypeOK, Running, Duties
<1>1. ASSUME NEW h \in Node, NEW to \in Running \union {"end", "error", "dead"}, Advance(h, to)
      PROVE  Duties'
  BY <1>1 DEF Advance
<1>2. ASSUME NEW h \in Node, Save(h) \/ Mkdir(h) \/ Pull(h) \/ Split(h) \/ Create1(h) \/ Create2(h) \/ Kill(h)
      PROVE  Duties'
  BY <1>1, <1>2, LocalSteps
<1>6. ASSUME UNCHANGED vars PROVE Duties'
  BY <1>6 DEF vars
<1>7. ASSUME NEW h \in Node, HandsOver(h) PROVE Duties'
  <2> PICK part, given \in SUBSET Host, g \in Host, t \in Tasks,
            to \in {"end", "create2", "error"} : HandOver(h, part, given, g, t, to)
    BY <1>7 DEF HandsOver
  <2>1. Moved(h, given, g, to)
    BY HandOverMoves
  <2>2. to # "off" /\ to # "create1" /\ to # "send1"
    OBVIOUS
  <2> HIDE DEF TypeOK
  <2>3. \A k \in Node : \A n \in oth'[k] : pc'[n] = "off"
    <3> SUFFICES ASSUME NEW k \in Node, NEW n \in oth'[k] PROVE pc'[n] = "off"
      OBVIOUS
    <3>1. \E j \in Node : n \in oth[j] /\ n # g
      BY <2>1 DEF Moved
    <3>2. n \in Node /\ pc[n] = "off"
      BY <3>1 DEF Node, TypeOK
    <3> QED BY <2>1, <3>1, <3>2 DEF Moved
  <2>4. \A j, k \in Node : j # k => oth'[j] \intersect oth'[k] = {}
    BY <2>1 DEF Moved
  <2>5. \A k \in Node : pc'[k] = "off" => oth'[k] = {} /\ started'[k] = 0
    BY <2>1, <2>2 DEF Moved
  <2>6. \A k \in Node : pc'[k] # "off" => started'[k] = 1
    BY <2>1 DEF Moved
  <2>7. \A k \in Node : pc'[k] = "end" => oth'[k] = {} \/ k \in short'
    BY <2>1 DEF Moved
  <2>8. \A k \in Node : pc'[k] \in {"create1", "send1"} => half'[k] \subseteq oth'[k]
    BY <2>1, <2>2 DEF Moved
  <2>9. \A k \in Node : pc'[k] \in {"create2", "send2"} => half'[k] = oth'[k]
    <3> SUFFICES ASSUME NEW k \in Node, pc'[k] \in {"create2", "send2"} PROVE half'[k] = oth'[k]
      OBVIOUS
    <3>1. CASE k = h
      <4>1. to = "create2"
        BY <2>1, <3>1 DEF Moved
      <4>2. half'[h] = oth[h] \ given /\ oth'[h] = oth[h] \ given
        BY <2>1, <4>1 DEF Moved
      <4> QED BY <3>1, <4>2
    <3>2. CASE k # h
      BY <2>1, <3>2 DEF Moved
    <3> QED BY <3>1, <3>2
  <2> QED BY <2>3, <2>4, <2>5, <2>6, <2>7, <2>8, <2>9
<1>8. ASSUME NEW h \in Node, Send1(h) \/ Send2(h) PROVE Duties'
  <2>1. CASE NotDelivered(h)
    <3>1. pc[h] \in Running
      BY <1>8, SendCases
    <3> QED BY <1>1, <2>1, <3>1, LocalSteps
  <2> QED BY <1>7, <1>8, <2>1, SendCases
<1> QED
  BY <1>2, <1>6, <1>8 DEF Next, Exec, Done

\* A host leaves a list when it gets a task or goes to another list.
LEMMA CoverStep == Inv /\ [Next]_vars => NobodyForgotten'
<1> SUFFICES ASSUME Inv, [Next]_vars PROVE NobodyForgotten'
  OBVIOUS
<1> USE DEF Inv, TypeOK, Running, Duties, NobodyForgotten
<1>1. ASSUME NEW h \in Node, NEW to \in Running \union {"end", "error", "dead"}, Advance(h, to)
      PROVE  NobodyForgotten'
  BY <1>1 DEF Advance
<1>2. ASSUME NEW h \in Node, Save(h) \/ Mkdir(h) \/ Pull(h) \/ Split(h) \/ Create1(h) \/ Create2(h) \/ Kill(h)
      PROVE  NobodyForgotten'
  BY <1>1, <1>2, LocalSteps
<1>6. ASSUME UNCHANGED vars PROVE NobodyForgotten'
  BY <1>6 DEF vars
<1>7. ASSUME NEW h \in Node, HandsOver(h) PROVE NobodyForgotten'
  <2> PICK part, given \in SUBSET Host, g \in Host, t \in Tasks,
            to \in {"end", "create2", "error"} : HandOver(h, part, given, g, t, to)
    BY <1>7 DEF HandsOver
  <2>1. pc[h] \in {"send1", "send2"}
    BY DEF HandOver, IsPart
  <2>2. Moved(h, given, g, to)
    BY HandOverMoves
  <2> SUFFICES ASSUME NEW n \in Host, pc'[n] = "off"
               PROVE  \E k \in Node : n \in oth'[k] /\ (pc'[k] \notin {"off", "end"} \/ k \in short')
    OBVIOUS
  <2>3. n \in Node /\ n # g /\ pc[n] = "off"
    BY <2>2 DEF Moved, Node
  <2>4. PICK k \in Node : n \in oth[k] /\ (pc[k] \notin {"off", "end"} \/ k \in short)
    BY <2>3
  <2>5. CASE k # h
    BY <2>2, <2>3, <2>4, <2>5 DEF Moved
  <2>6. CASE k = h /\ n \in given
    BY <2>2, <2>3, <2>6 DEF Moved
  <2>7. CASE k = h /\ n \notin given
    <3>1. to # "end"
      BY <2>2, <2>4, <2>7 DEF Moved
    <3> QED BY <2>2, <2>4, <2>7, <3>1 DEF Moved
  <2> QED BY <2>5, <2>6, <2>7
<1>8. ASSUME NEW h \in Node, Send1(h) \/ Send2(h) PROVE NobodyForgotten'
  <2>1. CASE NotDelivered(h)
    <3>1. pc[h] \in Running
      BY <1>8, SendCases
    <3> QED BY <1>1, <2>1, <3>1, LocalSteps
  <2> QED BY <1>7, <1>8, <2>1, SendCases
<1> QED
  BY <1>2, <1>6, <1>8 DEF Next, Exec, Done

\* What a host holds it keeps.
LEMMA HoldsStays ==
  ASSUME NEW k \in Node, NEW text, Holds(k, text), files[k] \subseteq files'[k], short \subseteq short'
  PROVE  Holds(k, text)'
BY DEF Holds

\* The files are pulled before they are handed on.
LEMMA HoldingStep == Inv /\ [Next]_vars => Holding'
<1> SUFFICES ASSUME Inv, [Next]_vars PROVE Holding'
  OBVIOUS
<1> USE DEF Inv, TypeOK, Goto, Fails, Counted, Running, task, Duties, Holding, Holds
<1>0. None \notin Node /\ Origin \in Node /\ Stub \notin File
  BY HostAssumption DEF Node
<1>1. ASSUME NEW h \in Node, Mkdir(h) PROVE Holding'
  BY <1>0, <1>1 DEF Mkdir
<1>9. ASSUME NEW h \in Node, Save(h) PROVE Holding'
  <2>1. pc[h] = "save" /\ UNCHANGED <<src, files>> /\ short \subseteq short'
    BY <1>9 DEF Save
  <2>2. /\ \A k \in Node \ {h} : pc'[k] = pc[k] /\ list'[k] = list[k]
        /\ pc'[h] = IF list'[h] = {} THEN "end" ELSE IF src[h] = None THEN "split" ELSE "mkdir"
    BY <1>9 DEF Save
  <2>3. /\ list'[h] = list[h] \/ (h \in short' /\ list'[h] \subseteq list[h] \union {Stub})
        /\ short' = {} => list'[h] = list[h]
    BY <1>9 DEF Save, Cuts
  <2> DEFINE Has(k, text) == text \subseteq files[k] \union {Stub} \/ k \in short'
  <2>4. ASSUME NEW k \in Node, pc'[k] \in {"save", "mkdir", "pull"}
        PROVE  (src[k] \in Node /\ Has(src[k], list'[k])) \/ (src[k] = None /\ Has(k, list'[k]))
    <3>1. (src[k] \in Node /\ Has(src[k], list[k])) \/ (src[k] = None /\ Has(k, list[k]))
      BY <2>1, <2>2, <2>4
    <3>2. list'[k] \subseteq list[k] \union {Stub}
      BY <2>2, <2>3
    <3> QED BY <3>1, <3>2
  <2>5. ASSUME NEW k \in Node, pc'[k] \in (Running \ {"save", "mkdir", "pull"}) \union {"end"}
        PROVE  Has(k, list'[k])
    <3>1. CASE k # h
      BY <2>1, <2>2, <2>5, <3>1
    <3>2. CASE k = h
      <4>1. list'[h] = {} \/ src[h] = None
        BY <2>2, <2>5, <3>2
      <4>2. src[h] = None => Has(h, list[h])
        BY <1>0, <2>1
      <4> QED BY <2>3, <3>2, <4>1, <4>2
    <3> QED BY <3>1, <3>2
  <2>8. \A k \in Node : pc'[k] \in Running => list'[k] # {}
    BY <2>1, <2>2
  <2>6. \A k \in Node : pc'[k] \in {"mkdir", "pull"} => src[k] \in Node
    BY <2>1, <2>2
  <2>7. (\A k \in Node : pc'[k] # "error") /\ short' = {} =>
          \A k \in Node : pc'[k] # "off" => list'[k] = File
    <3>1. short' = {} => short = {}
      BY <2>1
    <3>2. (\A k \in Node : pc'[k] # "error") => \A k \in Node : pc[k] # "error"
      BY <2>1, <2>2
    <3>3. \A k \in Node : pc'[k] # "off" => pc[k] # "off"
      BY <2>1, <2>2
    <3> QED BY <2>2, <2>3, <3>1, <3>2, <3>3
  <2> QED BY <2>1, <2>4, <2>5, <2>6, <2>7, <2>8
<1>2. ASSUME NEW h \in Node, Pull(h) PROVE Holding'
  <2>1. PICK got \in SUBSET (list[h] \intersect files[src[h]]) :
          /\ files' = [files EXCEPT ![h] = @ \union got]
          /\ \/ got = list[h] /\ pc' = [pc EXCEPT ![h] = "split"] /\ short' = short
             \/ pc' = [pc EXCEPT ![h] = "error"] /\ short' = short
             \/ pc' = [pc EXCEPT ![h] = "split"] /\ short' = short \union {h}
    BY <1>2 DEF Pull
  <2>2. UNCHANGED <<src, list>> /\ pc[h] = "pull"
    BY <1>2 DEF Pull
  <2>3. \A k \in Node : files[k] \subseteq files'[k] /\ short \subseteq short'
    BY <2>1
  <2>4. \A k \in Node \ {h} : pc'[k] = pc[k]
    BY <2>1
  <2>5. pc'[h] = "split" => list[h] \subseteq files'[h] \union {Stub} \/ h \in short'
    BY <2>1
  <2>6. pc'[h] \in {"split", "error"}
    BY <2>1
  <2>7. (\A k \in Node : pc'[k] # "error") /\ short' = {} => short = {}
    BY <2>1
  <2> QED BY <2>2, <2>3, <2>4, <2>5, <2>6, <2>7
<1>3. ASSUME NEW h \in Node, Split(h) PROVE Holding'
  BY <1>3 DEF Split
<1>4. ASSUME NEW h \in Node, Create1(h) \/ Create2(h) PROVE Holding'
  BY <1>4 DEF Create1, Create2, Create
<1>5. ASSUME NEW h \in Node, Kill(h) PROVE Holding'
  BY <1>5 DEF Kill
<1>6. ASSUME UNCHANGED vars PROVE Holding'
  BY <1>6 DEF vars
<1>7. ASSUME NEW h \in Node, HandsOver(h) PROVE Holding'
  <2> PICK part, given \in SUBSET Host, g \in Host, t \in Tasks,
            to \in {"end", "create2", "error"} : HandOver(h, part, given, g, t, to)
    BY <1>7 DEF HandsOver
  <2>1. Moved(h, given, g, to)
    BY HandOverMoves
  <2>2. /\ pc[h] \in {"send1", "send2"} /\ g # h /\ g \in Node
        /\ \A k \in Node : pc'[k] = IF k = g THEN "save" ELSE IF k = h THEN to ELSE pc[k]
    BY <2>1 DEF Moved
  <2>3. /\ UNCHANGED <<files, short>>
        /\ \A k \in Node : /\ src'[k] = IF k = g THEN t.src ELSE src[k]
                           /\ list'[k] = IF k = g THEN t.list ELSE list[k]
    BY <2>2 DEF HandOver
  <2>4. /\ \/ t.src = h /\ t.list \subseteq list[h] \union {Stub}
           \/ t.src = None /\ t.list = {Stub}
        /\ to # "error" => t.list = list[h]
    BY DEF HandOver
  <2>5. Holds(h, list[h])
    BY <2>2
  <2>6. \A k \in Node : pc'[k] \in {"mkdir", "pull"} => src'[k] \in Node
    BY <2>2, <2>3
  <2>7. \A k \in Node : pc'[k] \in {"save", "mkdir", "pull"} =>
          \/ src'[k] \in Node /\ (list'[k] \subseteq files[src'[k]] \union {Stub} \/ src'[k] \in short)
          \/ src'[k] = None /\ (list'[k] \subseteq files[k] \union {Stub} \/ k \in short)
    BY <2>2, <2>3, <2>4, <2>5
  <2>8. \A k \in Node : pc'[k] \in (Running \ {"save", "mkdir", "pull"}) \union {"end"} =>
          list'[k] \subseteq files[k] \union {Stub} \/ k \in short
    BY <2>2, <2>3, <2>5
  <2>9. (\A k \in Node : pc'[k] # "error") /\ short' = {} =>
          \A k \in Node : pc'[k] # "off" => list'[k] = File
    <3> SUFFICES ASSUME \A k \in Node : pc'[k] # "error", short' = {}, NEW k \in Node, pc'[k] # "off"
                 PROVE  list'[k] = File
      OBVIOUS
    <3>1. to # "error"
      BY <2>2
    <3>2. \A n \in Node : pc[n] # "error"
      BY <2>1, <2>2 DEF Moved
    <3>3. \A n \in Node : pc[n] # "off" => list[n] = File
      BY <2>3, <3>2
    <3>4. list[h] = File
      BY <2>2, <3>3
    <3> QED BY <2>2, <2>3, <2>4, <3>1, <3>3, <3>4
  <2>10. \A k \in Node : pc'[k] \in Running => list'[k] # {}
    <3>1. t.list # {}
      BY DEF HandOver
    <3> QED BY <2>2, <2>3, <3>1
  <2> QED BY <2>3, <2>6, <2>7, <2>8, <2>9, <2>10
<1>8. ASSUME NEW h \in Node, Send1(h) \/ Send2(h) PROVE Holding'
  <2>1. CASE NotDelivered(h)
    BY <1>8, <2>1, SendCases DEF NotDelivered
  <2> QED BY <1>7, <1>8, <2>1, SendCases
<1> QED
  BY <1>1, <1>2, <1>3, <1>4, <1>5, <1>6, <1>8, <1>9 DEF Next, Exec, Done

\* The operator's task names all the other hosts.
LEMMA InitInv == Init => Inv
<1> SUFFICES ASSUME Init PROVE Inv
  OBVIOUS
<1> USE HostAssumption, BoundAssumption DEF Init, Node
<1>1. TypeOK
  BY DEF TypeOK, Running
<1>2. Duties
  BY DEF Duties
<1>3. NobodyForgotten
  BY DEF NobodyForgotten
<1>4. Holding
  BY DEF Holding, Holds, Running
<1> QED BY <1>1, <1>2, <1>3, <1>4 DEF Inv

\* The invariant of every behaviour.
LEMMA Invariance == Spec => []Inv
<1>1. Inv /\ [Next]_vars => Inv'
  BY TypeStep, DutyStep, CoverStep, HoldingStep DEF Inv
<1> QED BY InitInv, <1>1, PTL DEF Spec

\* Types hold for any hosts and files.
THEOREM TypeInvariance == Spec => []TypeOK
<1>1. Inv => TypeOK
  BY DEF Inv
<1> QED BY Invariance, <1>1, PTL

\* No host is handed the task twice, however the hosts are split.
THEOREM OneExecution == Spec => []ExecutedOnce
<1>1. Inv => ExecutedOnce
  <2> SUFFICES ASSUME Inv, NEW h \in Node PROVE started[h] <= 1
    BY DEF ExecutedOnce
  <2>1. started[h] = 0 \/ started[h] = 1
    BY DEF Inv, Duties
  <2> QED BY <2>1
<1> QED BY Invariance, <1>1, PTL

\* The host a subtask names as its source has the files of that subtask, but
\* for lines that are cut, whatever breaks the connection wherever it does.
THEOREM SourcesAreReady == Spec => []SourceHasFiles
<1>1. Inv => SourceHasFiles
  BY HostAssumption DEF Inv, Holding, Holds, SourceHasFiles, Node
<1> QED BY Invariance, <1>1, PTL

\* A host no task has reached is still somebody's duty, or the duty of an
\* mp-exec that failed, was killed or lost lines of its own list.
THEOREM NobodyIsForgotten == Spec => []NobodyForgotten
<1>1. Inv => NobodyForgotten
  BY DEF Inv
<1> QED BY Invariance, <1>1, PTL

\* When every mp-exec has ended, none with an error, by a kill or with a list or
\* script that was cut, every host has every file.
THEOREM SilenceIsSuccess == Spec => []SilenceMeansServed
<1>1. Inv => SilenceMeansServed
  <2> SUFFICES ASSUME Inv, short = {}, \A h \in Node : pc[h] \in {"off", "end"}, NEW g \in Host
               PROVE  files[g] = File
    BY DEF SilenceMeansServed
  <2>1. g \in Node
    BY DEF Node
  <2>2. pc[g] = "end"
    BY <2>1 DEF Inv, NobodyForgotten
  <2>3. list[g] \subseteq files[g] \union {Stub} /\ list[g] = File
    BY <2>1, <2>2 DEF Inv, Holding, Holds
  <2>4. files[g] \subseteq File /\ Stub \notin File
    BY <2>1, HostAssumption DEF Inv, TypeOK
  <2> QED BY <2>3, <2>4
<1> QED BY Invariance, <1>1, PTL

(***************************************************************************)
(* The hosts a task stands for.  Room(k, m): k hosts for every task that m *)
(* hand-overs can make of the operator's one are no more than there are.   *)
(***************************************************************************)
Room(k, m) == k * 2 ^ m <= Cardinality(Node)

Halving ==
  /\ \A h \in Node : pc[h] \in Running => Room(Cardinality(oth[h]) + 1, hop[h])
  /\ \A h \in Node : pc[h] \in {"create1", "send1"} =>
       Cardinality(half[h]) = Cardinality(oth[h]) \div 2
  /\ \A h \in Node : pc[h] \in {"create2", "send2"} => Room(2 * Cardinality(oth[h]), hop[h])

\* The powers of two, from the number of subsets of 1 .. n.
LEMMA PowerDoubles ==
  /\ 2 ^ 0 = 1
  /\ \A n \in Nat : 2 ^ n \in Nat /\ 2 ^ (n + 1) = 2 * 2 ^ n
<1>1. 2 ^ 0 = 1
  <2>1. SUBSET {} = {{}}
    OBVIOUS
  <2>2. Cardinality(SUBSET {}) = 2 ^ Cardinality({})
    BY FS_EmptySet, FS_SUBSET
  <2>3. Cardinality({}) = 0 /\ Cardinality({{}}) = 1
    BY FS_EmptySet, FS_Singleton
  <2> QED BY <2>1, <2>2, <2>3
<1>2. ASSUME NEW n \in Nat
      PROVE  2 ^ n \in Nat /\ 2 ^ (n + 1) = 2 * 2 ^ n
  <2> DEFINE Low == SUBSET (1 .. n)
             With == {T \in SUBSET (1 .. n + 1) : n + 1 \in T}
             put == [T \in Low |-> T \union {n + 1}]
  <2>1. /\ IsFiniteSet(1 .. n) /\ Cardinality(1 .. n) = n
        /\ IsFiniteSet(1 .. n + 1) /\ Cardinality(1 .. n + 1) = n + 1
    BY FS_Interval
  <2>2. IsFiniteSet(Low) /\ Cardinality(Low) = 2 ^ n
    BY <2>1, FS_SUBSET
  <2>3. Cardinality(SUBSET (1 .. n + 1)) = 2 ^ (n + 1)
    BY <2>1, FS_SUBSET
  <2>4. put \in Bijection(Low, With)
    <3>1. put \in [Low -> With]
      <4> SUFFICES ASSUME NEW T \in Low PROVE T \union {n + 1} \in With
        OBVIOUS
      <4>1. \A i \in 1 .. n : i \in 1 .. n + 1
        OBVIOUS
      <4>2. n + 1 \in 1 .. n + 1
        OBVIOUS
      <4> QED BY <4>1, <4>2
    <3>2. \A S, T \in Low : put[S] = put[T] => S = T
      <4> SUFFICES ASSUME NEW S \in Low, NEW T \in Low, S \union {n + 1} = T \union {n + 1}
                   PROVE  S = T
        OBVIOUS
      <4>1. n + 1 \notin S /\ n + 1 \notin T
        <5>1. n + 1 \notin 1 .. n
          OBVIOUS
        <5> QED BY <5>1
      <4> QED BY <4>1
    <3>3. \A W \in With : \E T \in Low : put[T] = W
      <4> SUFFICES ASSUME NEW W \in With PROVE \E T \in Low : put[T] = W
        OBVIOUS
      <4>1. \A i \in 1 .. n + 1 : i # n + 1 => i \in 1 .. n
        OBVIOUS
      <4>2. W \ {n + 1} \in Low /\ (W \ {n + 1}) \union {n + 1} = W
        BY <4>1
      <4> QED BY <4>2
    <3> QED BY <3>1, <3>2, <3>3 DEF Bijection, Injection, Surjection, IsInjective
  <2>5. IsFiniteSet(With) /\ Cardinality(With) = 2 ^ n
    BY <2>2, <2>4, FS_Bijection DEF ExistsBijection
  <2>6. SUBSET (1 .. n + 1) = Low \union With /\ Low \intersect With = {}
    <3>1. /\ n + 1 \notin 1 .. n
          /\ \A i \in 1 .. n : i \in 1 .. n + 1
          /\ \A i \in 1 .. n + 1 : i # n + 1 => i \in 1 .. n
      OBVIOUS
    <3> QED BY <3>1
  <2>7. Cardinality(Low \union With) = 2 ^ n + 2 ^ n - Cardinality({})
    BY <2>2, <2>5, <2>6, FS_Union
  <2>8. Cardinality(Low) \in Nat /\ Cardinality({}) = 0
    BY <2>2, FS_CardinalityType, FS_EmptySet
  <2>9. PICK p \in Nat : p = 2 ^ n
    BY <2>2, <2>8, Zenon
  <2>10. p + p - 0 = 2 * p
    BY <2>9
  <2>11. 2 ^ (n + 1) = p + p - 0
    BY <2>3, <2>6, <2>7, <2>8, <2>9, Zenon
  <2> QED BY <2>9, <2>10, <2>11, Zenon
<1> QED BY <1>1, <1>2

\* What there is room for after m hand-overs, and after one more.
LEMMA RoomFacts ==
  ASSUME NEW m \in Nat, NEW k \in Nat
  PROVE  /\ \A j \in 0 .. k : Room(k, m) => Room(j, m)
         /\ Room(2 * k, m) => Room(k, m + 1)
<1>1. PICK w \in Nat : w = 2 ^ m
  BY PowerDoubles, Zenon
<1>2. 2 ^ (m + 1) = 2 * w
  BY <1>1, PowerDoubles, Zenon
<1>3. IsFiniteSet(Node)
  BY HostAssumption, FS_AddElement DEF Node
<1>4. PICK c \in Nat : c = Cardinality(Node)
  BY <1>3, FS_CardinalityType
<1>5. \A j \in Nat : (Room(j, m) <=> j * w <= c) /\ (Room(j, m + 1) <=> j * (2 * w) <= c)
  BY <1>1, <1>2, <1>4, Zenon DEF Room
<1>6. \A j \in 0 .. k : j * w <= k * w
  OBVIOUS
<1>7. k * (2 * w) = (2 * k) * w
  OBVIOUS
<1>8. \A j \in 0 .. k : j \in Nat
  OBVIOUS
<1>9. 2 * k \in Nat /\ k * w \in Nat
  OBVIOUS
<1>10. ASSUME NEW j \in 0 .. k, Room(k, m) PROVE Room(j, m)
  <2>1. PICK x \in Nat : x = j * w
    BY <1>8
  <2>2. PICK y \in Nat : y = k * w
    BY <1>9
  <2>3. x <= y
    BY <1>6, <2>1, <2>2, Zenon
  <2>4. y <= c
    BY <1>10, <1>5, <2>2, Zenon
  <2>5. x <= c
    BY <2>3, <2>4
  <2> QED BY <1>5, <1>8, <2>1, <2>5, Zenon
<1>11. ASSUME Room(2 * k, m) PROVE Room(k, m + 1)
  BY <1>5, <1>7, <1>9, <1>11, Zenon
<1> QED BY <1>10, <1>11

\* The lists of hosts are finite.
LEMMA ListFacts ==
  ASSUME NEW S \in SUBSET Host
  PROVE  /\ IsFiniteSet(S) /\ Cardinality(S) \in Nat
         /\ \A T \in SUBSET S : Cardinality(T) \in 0 .. Cardinality(S)
<1>1. IsFiniteSet(S)
  BY HostAssumption, FS_Subset
<1>2. \A T \in SUBSET S : IsFiniteSet(T) /\ Cardinality(T) <= Cardinality(S)
  BY <1>1, FS_Subset
<1>3. \A T \in SUBSET S : Cardinality(T) \in Nat
  BY <1>2, FS_CardinalityType
<1> QED BY <1>1, <1>2, <1>3

\* A part that is sent is half of the list, and so is what is left of it.
LEMMA PartIsHalf ==
  ASSUME Inv, Halving, NEW h \in Node, NEW part \in SUBSET oth[h], IsPart(h, part)
  PROVE  /\ Room(2 * Cardinality(part), hop[h])
         /\ pc[h] = "send1" => Room(2 * Cardinality(half[h]), hop[h])
<1>1. oth[h] \in SUBSET Host /\ half[h] \in SUBSET Host /\ hop[h] \in Nat
  BY DEF Inv, TypeOK
<1>2. PICK n \in Nat : n = Cardinality(oth[h])
  BY <1>1, ListFacts
<1>3. CASE pc[h] = "send2"
  BY <1>3 DEF Inv, Duties, Halving, IsPart
<1>4. CASE pc[h] = "send1"
  <2>1. /\ half[h] \subseteq oth[h] /\ part = oth[h] \ half[h]
        /\ Cardinality(half[h]) = n \div 2 /\ Room(n + 1, hop[h])
    BY <1>2, <1>4 DEF Inv, Duties, Halving, Running, IsPart
  <2>2. oth[h] \intersect half[h] = half[h]
    BY <2>1
  <2>3. Cardinality(part) = n - n \div 2
    <3>1. IsFiniteSet(oth[h])
      BY <1>1, ListFacts
    <3>2. Cardinality(oth[h] \ half[h]) = Cardinality(oth[h]) - Cardinality(half[h])
      BY <2>2, <3>1, FS_Difference
    <3> QED BY <1>2, <2>1, <3>2
  <2>4. /\ n + 1 \in Nat
        /\ 2 * (n - n \div 2) \in 0 .. n + 1 /\ 2 * (n \div 2) \in 0 .. n + 1
    OBVIOUS
  <2> QED BY <1>1, <2>1, <2>3, <2>4, RoomFacts
<1> QED BY <1>3, <1>4 DEF IsPart

\* The half that is sent and the half that stays have at most half of the room.
LEMMA HalvingStep == Inv /\ Halving /\ [Next]_vars => Halving'
<1> SUFFICES ASSUME Inv, Halving, [Next]_vars PROVE Halving'
  OBVIOUS
<1> USE DEF Inv, TypeOK, Goto, Fails, Counted, Running, task, Halving
<1>1. ASSUME NEW h \in Node, Save(h) \/ Mkdir(h) \/ Pull(h) PROVE Halving'
  BY <1>1 DEF Save, Mkdir, Pull
<1>2. ASSUME NEW h \in Node, Split(h) PROVE Halving'
  BY <1>2 DEF Split
<1>3. ASSUME NEW h \in Node, Create1(h) \/ Create2(h) PROVE Halving'
  BY <1>3 DEF Create1, Create2, Create
<1>4. ASSUME NEW h \in Node, Kill(h) PROVE Halving'
  BY <1>4 DEF Kill
<1>5. ASSUME UNCHANGED vars PROVE Halving'
  BY <1>5 DEF vars
<1>6. ASSUME NEW h \in Node, NotDelivered(h) PROVE Halving'
  BY <1>6 DEF NotDelivered
<1>7. ASSUME NEW h \in Node, HandsOver(h) PROVE Halving'
  <2> PICK part, given \in SUBSET Host, g \in Host, t \in Tasks,
            to \in {"end", "create2", "error"} : HandOver(h, part, given, g, t, to)
    BY <1>7 DEF HandsOver
  <2>1. Moved(h, given, g, to)
    BY HandOverMoves
  <2>3. given \in SUBSET Host /\ given \subseteq oth[h] /\ g \in given /\ hop[h] \in Nat
    BY <2>1 DEF Moved
  <2>2. /\ Room(2 * Cardinality(given), hop[h])
        /\ pc[h] = "send1" => Room(2 * Cardinality(half[h]), hop[h])
    <3>1. given \subseteq part /\ part \subseteq oth[h] /\ IsPart(h, part)
      BY DEF HandOver
    <3>2. /\ Room(2 * Cardinality(part), hop[h])
          /\ pc[h] = "send1" => Room(2 * Cardinality(half[h]), hop[h])
      BY <3>1, PartIsHalf
    <3>3. PICK n \in Nat : n = Cardinality(part)
      BY ListFacts
    <3>4. PICK m \in 0 .. n : m = Cardinality(given)
      BY <3>1, <3>3, ListFacts
    <3>5. 2 * n \in Nat /\ 2 * m \in 0 .. 2 * n
      OBVIOUS
    <3> QED BY <2>3, <3>2, <3>3, <3>4, <3>5, RoomFacts
  <2>4. Room(Cardinality(given \ {g}) + 1, hop[h] + 1)
    <3>1. Cardinality(given) \in Nat /\ Cardinality(given \ {g}) = Cardinality(given) - 1
      BY <2>3, FS_RemoveElement, ListFacts
    <3>2. PICK n \in Nat : n = Cardinality(given)
      BY <3>1
    <3>3. Cardinality(given \ {g}) + 1 = n
      BY <3>1, <3>2
    <3> QED BY <2>2, <2>3, <3>2, <3>3, RoomFacts
  <2>5. Room(Cardinality(oth[h] \ given) + 1, hop[h])
    <3>1. PICK n \in Nat : n = Cardinality(oth[h])
      BY ListFacts
    <3>2. PICK p \in 0 .. n : p = Cardinality(oth[h] \ given)
      BY <3>1, ListFacts
    <3>3. Room(n + 1, hop[h])
      BY <2>1, <3>1 DEF Moved
    <3>4. n + 1 \in Nat /\ p + 1 \in 0 .. n + 1
      OBVIOUS
    <3> QED BY <2>3, <3>2, <3>3, <3>4, RoomFacts
  <2>6. \A k \in Node : pc'[k] \in Running => Room(Cardinality(oth'[k]) + 1, hop'[k])
    BY <2>1, <2>4, <2>5 DEF Moved
  <2>7. \A k \in Node : pc'[k] \in {"create1", "send1"} =>
          Cardinality(half'[k]) = Cardinality(oth'[k]) \div 2
    BY <2>1 DEF Moved
  <2>8. \A k \in Node : pc'[k] \in {"create2", "send2"} => Room(2 * Cardinality(oth'[k]), hop'[k])
    BY <2>1, <2>2 DEF Moved
  <2> QED BY <2>6, <2>7, <2>8
<1>8. ASSUME NEW h \in Node, Send1(h) \/ Send2(h) PROVE Halving'
  BY <1>6, <1>7, <1>8, SendCases
<1> QED
  BY <1>1, <1>2, <1>3, <1>4, <1>5, <1>8 DEF Next, Exec, Done

\* The operator's task stands for all hosts, and no more.
LEMMA HalvingInit == Init => Halving
<1> SUFFICES ASSUME Init PROVE Halving
  OBVIOUS
<1>1. PICK g \in Node : LET s == IF g = Origin THEN None ELSE Origin IN
        /\ pc = [h \in Node |-> IF h = g THEN "save" ELSE "off"]
        /\ oth = [h \in Node |-> IF h = g THEN Host \ {g} ELSE {}]
        /\ hop = [h \in Node |-> 0]
  BY DEF Init
<1>2. PICK c \in Nat : c = Cardinality(Node)
  <2>1. IsFiniteSet(Node)
    BY HostAssumption, FS_AddElement DEF Node
  <2> QED BY <2>1, FS_CardinalityType
<1>3. Cardinality(Host \ {g}) + 1 \in 0 .. c
  <2>1. Cardinality(Host) \in Nat /\ Cardinality(Node) = Cardinality(Host) + 1
    BY HostAssumption, FS_AddElement, ListFacts DEF Node
  <2>2. CASE g = Origin
    BY <1>2, <2>1, <2>2, HostAssumption
  <2>3. CASE g # Origin
    <3>1. g \in Host
      BY <2>3 DEF Node
    <3>2. Cardinality(Host \ {g}) = Cardinality(Host) - 1
      BY <3>1, HostAssumption, FS_RemoveElement
    <3> QED BY <1>2, <2>1, <3>2
  <2> QED BY <2>2, <2>3
<1>4. Room(c, 0)
  <2>1. c * 1 <= c /\ 2 ^ 0 = 1
    BY PowerDoubles
  <2> QED BY <1>2, <2>1, Zenon DEF Room
<1>5. \A h \in Node : pc[h] \in {"off", "save"}
  BY <1>1
<1>6. \A h \in Node : pc[h] # "off" => h = g
  BY <1>1
<1>7. oth[g] = Host \ {g} /\ hop[g] = 0
  BY <1>1
<1>8. Room(Cardinality(Host \ {g}) + 1, 0)
  BY <1>2, <1>3, <1>4, RoomFacts
<1> QED BY <1>5, <1>6, <1>7, <1>8 DEF Halving, Running

\* mp-exec:22, "forward (bisection)": the hosts a task stands for are halved at
\* every hand-over, so that a task of hop n stands for at most 1 / 2^n of them.
THEOREM Bisecting == Spec => []Bisection
<1>1. Inv /\ Halving /\ [Next]_vars => Halving'
  BY HalvingStep
<1>2. Halving => Bisection
  BY DEF Halving, Bisection, Room
<1> QED BY Invariance, HalvingInit, <1>1, <1>2, PTL DEF Spec

(***************************************************************************)
(* Why everything ends.  The commands that a host has left, counting the   *)
(* start of its mp-exec.                                                   *)
(***************************************************************************)
Left(label) ==
  CASE label = "off"     -> 9
    [] label = "save"    -> 8
    [] label = "mkdir"   -> 7
    [] label = "pull"    -> 6
    [] label = "split"   -> 5
    [] label = "create1" -> 4
    [] label = "send1"   -> 3
    [] label = "create2" -> 2
    [] label = "send2"   -> 1
    [] OTHER             -> 0

\* The steps of one mp-exec, and what they do to the others.
LEMMA StepsForward ==
  ASSUME Inv, NEW h \in Node, Exec(h) \/ Kill(h)
  PROVE  /\ Left(pc'[h]) < Left(pc[h])
         /\ \A k \in Node \ {h} : pc'[k] = pc[k] \/ (pc[k] = "off" /\ pc'[k] = "save")
<1> DEFINE Rest == \A k \in Node \ {h} : pc'[k] = pc[k]
<1>0. pc \in [Node -> Running \union {"off", "end", "error", "dead"}]
  BY DEF Inv, TypeOK
<1> USE DEF Goto, Fails, Counted
<1>8. CASE Save(h)
  <2>1. Rest /\ pc[h] = "save" /\ pc'[h] \in {"mkdir", "split", "end"}
    BY <1>0, <1>8 DEF Save
  <2> QED BY <2>1 DEF Left
<1>1. CASE Mkdir(h) \/ Pull(h)
  <2>1. /\ Rest
        /\ \/ pc[h] = "mkdir" /\ pc'[h] \in {"pull", "error"}
           \/ pc[h] = "pull" /\ pc'[h] \in {"split", "error"}
    BY <1>0, <1>1 DEF Mkdir, Pull
  <2> QED BY <2>1 DEF Left
<1>2. CASE Split(h)
  <2>1. Rest /\ pc[h] = "split" /\ pc'[h] \in {"create1", "end"}
    BY <1>0, <1>2 DEF Split
  <2> QED BY <2>1 DEF Left
<1>3. CASE Create1(h) \/ Create2(h)
  <2>1. /\ Rest
        /\ \/ pc[h] = "create1" /\ pc'[h] \in {"send1", "error"}
           \/ pc[h] = "create2" /\ pc'[h] \in {"send2", "error"}
    BY <1>0, <1>3 DEF Create1, Create2, Create
  <2> QED BY <2>1 DEF Left
<1>4. CASE Kill(h)
  <2>1. Rest /\ pc[h] \in Running /\ pc'[h] = "dead"
    BY <1>0, <1>4 DEF Kill
  <2> QED BY <2>1 DEF Left, Running
<1>5. CASE HandsOver(h)
  <2>1. PICK part, given \in SUBSET Host, g \in Host, t \in Tasks,
             to \in {"end", "create2", "error"} : HandOver(h, part, given, g, t, to)
    BY <1>5 DEF HandsOver
  <2>2. Moved(h, given, g, to)
    BY <2>1, HandOverMoves
  <2>3. /\ pc[g] = "off"
        /\ \A k \in Node : pc'[k] = IF k = g THEN "save" ELSE IF k = h THEN to ELSE pc[k]
    BY <2>2 DEF Moved
  <2>4. /\ g # h /\ pc[h] \in {"send1", "send2"}
        /\ to = "create2" => pc[h] = "send1"
    BY <2>2 DEF Moved
  <2>5. pc'[h] = to
    BY <2>3, <2>4
  <2> QED BY <2>3, <2>4, <2>5 DEF Left
<1>6. CASE NotDelivered(h) /\ pc[h] \in {"send1", "send2"}
  <2>1. Rest /\ pc'[h] = "error"
    BY <1>0, <1>6 DEF NotDelivered
  <2> QED BY <1>6, <2>1 DEF Left
<1>7. Send1(h) \/ Send2(h) => HandsOver(h) \/ (NotDelivered(h) /\ pc[h] \in {"send1", "send2"})
  BY SendCases
<1> QED BY <1>1, <1>2, <1>3, <1>4, <1>5, <1>6, <1>7, <1>8 DEF Exec

\* Every step of a host leaves it fewer commands, and none of another host
\* gives it more: a host that has a task never gets a second one.  After at most
\* 9 steps for each host all mp-exec have ended, and by SilenceIsSuccess the
\* hosts are served or something has failed or was killed, which is Served.
THEOREM EverythingEnds ==
  Spec => [][\A h \in Node : /\ Exec(h) \/ Kill(h) => Left(pc'[h]) < Left(pc[h])
                             /\ Left(pc'[h]) <= Left(pc[h])]_vars
<1> DEFINE Ends(h) == /\ Exec(h) \/ Kill(h) => Left(pc'[h]) < Left(pc[h])
                      /\ Left(pc'[h]) <= Left(pc[h])
<1>1. Inv /\ [Next]_vars => [\A h \in Node : Ends(h)]_vars
  <2> SUFFICES ASSUME Inv, Next, NEW h \in Node PROVE Ends(h)
    OBVIOUS
  <2>1. Exec(h) \/ Kill(h) => Left(pc'[h]) < Left(pc[h])
    BY StepsForward
  <2>2. Left(pc[h]) \in 0 .. 9 /\ Left(pc'[h]) \in 0 .. 9 /\ Left("save") <= Left("off")
    BY DEF Left
  <2>3. ASSUME NEW k \in Node, k # h, Exec(k) \/ Kill(k) PROVE Left(pc'[h]) <= Left(pc[h])
    <3>1. pc'[h] = pc[h] \/ (pc[h] = "off" /\ pc'[h] = "save")
      BY <2>3, StepsForward
    <3> QED BY <2>2, <3>1
  <2>4. CASE Done
    <3>1. pc' = pc
      BY <2>4 DEF Done, vars
    <3> QED BY <2>1, <2>2, <3>1
  <2>5. Left(pc'[h]) <= Left(pc[h])
    BY <2>1, <2>2, <2>3, <2>4 DEF Next
  <2> QED BY <2>1, <2>5
<1> QED BY Invariance, <1>1, PTL DEF Spec
=============================================================================
