------------------------------- MODULE Msq_proofs -------------------------------
(***************************************************************************)
(* Proofs about Msq, for any number of processes, any capacity and any     *)
(* number of removals and faults.                                          *)
(***************************************************************************)
EXTENDS Msq, TLAPS

Place == {"idle", "msgrcv", "msgsnd", "asleep", "msgget"}

Kinds ==
  /\ pc \in [Process -> Place]
  /\ sends \in [Sender -> 0 .. MaxSends]
  /\ accepted \subseteq Message /\ refused \subseteq Message

\* Only messages that SendMsg was called with are known.
Known == \A m \in accepted \union refused : m.nr <= sends[m.from]

\* The message of a call that has not returned was neither taken nor refused,
\* however often the loop has called msgsnd.
InCall == \A p \in Sender : pc[p] # "idle" =>
  /\ pc[p] \in {"msgsnd", "msgget"}
  /\ sends[p] > 0 /\ Mine(p) \notin accepted \union refused

Inv == Kinds /\ Known /\ InCall /\ RefusedIsNotSent

\* No process, no message.
LEMMA InvInit == Init => Inv /\ Fifo!Init
  BY BoundAssumption
  DEF Init, Inv, Kinds, Known, InCall, RefusedIsNotSent, Fifo!Init, Place, Process

\* The message of a call is one of its process alone.
LEMMA MineIsMessage ==
  ASSUME Inv, NEW p \in Sender, pc[p] # "idle"
  PROVE  /\ Mine(p) \in Message /\ Mine(p).from = p /\ Mine(p).nr = sends[p]
         /\ Mine(p) \notin accepted /\ Mine(p) \notin refused
<1>1. sends[p] \in 1 .. MaxSends
  BY BoundAssumption DEF Inv, Kinds, InCall
<1> QED
  BY <1>1 DEF Inv, InCall, Mine, Message

\* A process goes on within its call, or a receiver anywhere.
LEMMA Moves ==
  ASSUME Inv, NEW p \in Process, NEW x \in Place, pc' = [pc EXCEPT ![p] = x],
         UNCHANGED <<sends, accepted, refused>>,
         p \in Sender => pc[p] # "idle" /\ x \in {"msgsnd", "msgget"}
  PROVE  Inv'
<1>1. Kinds'
  BY DEF Inv, Kinds
<1>2. Known' /\ RefusedIsNotSent'
  BY DEF Inv, Known, RefusedIsNotSent
<1>3. InCall'
  BY DEF Inv, InCall, Kinds, Mine, Process
<1> QED
  BY <1>1, <1>2, <1>3 DEF Inv

\* A call that is under way returns -1.
LEMMA Ends ==
  ASSUME Inv, NEW p \in Process, pc[p] # "idle", pc' = [pc EXCEPT ![p] = "idle"],
         Fails(p), UNCHANGED <<sends, accepted>>
  PROVE  Inv'
<1> DEFINE lost == IF p \in Sender THEN {Mine(p)} ELSE {}
<1>1. refused' = refused \union lost
  BY DEF Fails
<1>2. lost \subseteq Message /\ (\A m \in lost : m.from = p /\ m.nr = sends[p] /\ m \notin accepted)
  BY MineIsMessage
<1>3. Kinds'
  BY <1>1, <1>2 DEF Inv, Kinds, Place
<1>4. Known' /\ RefusedIsNotSent'
  <2>1. \A m \in lost : p \in Sender /\ m.nr <= sends[m.from]
    BY <1>2 DEF Inv, Kinds
  <2> QED
    BY <1>1, <1>2, <2>1 DEF Inv, Known, RefusedIsNotSent
<1>5. InCall'
  <2>1. \A q \in Sender : q # p => Mine(q) \notin lost
    BY <1>2 DEF Mine
  <2> QED
    BY <1>1, <2>1 DEF Inv, InCall, Kinds, Mine, Process
<1> QED
  BY <1>3, <1>4, <1>5 DEF Inv

\* msgsnd takes a message that was never taken before.
LEMMA SendStep ==
  ASSUME Inv, NEW p \in Sender, Send(p)
  PROVE  Inv' /\ Fifo!Next
<1>1. /\ pc[p] = "msgsnd" /\ pc' = [pc EXCEPT ![p] = "idle"]
      /\ content' = Append(content, Mine(p)) /\ accepted' = accepted \union {Mine(p)}
      /\ UNCHANGED <<sends, refused, delivered>>
  BY DEF Send, Goto, Succeeds
<1>2. /\ Mine(p) \in Message /\ Mine(p).from = p /\ Mine(p).nr = sends[p]
      /\ Mine(p) \notin accepted /\ Mine(p) \notin refused
  BY <1>1, MineIsMessage
<1>3. Kinds'
  BY <1>1, <1>2 DEF Inv, Kinds, Place
<1>4. Known' /\ RefusedIsNotSent'
  <2>1. Mine(p).nr <= sends[Mine(p).from]
    BY <1>2 DEF Inv, Kinds
  <2> QED
    BY <1>1, <1>2, <2>1 DEF Inv, Known, RefusedIsNotSent
<1>5. InCall'
  <2>1. \A q \in Sender : q # p => Mine(q) # Mine(p)
    BY DEF Mine
  <2> QED
    BY <1>1, <2>1 DEF Inv, InCall, Kinds, Mine, Process
<1>6. Fifo!Accept(Mine(p))
  BY <1>1, <1>2 DEF Fifo!Accept
<1> QED
  BY <1>2, <1>3, <1>4, <1>5, <1>6 DEF Inv, Fifo!Next

\* The next call of a sender has a message of its own.
LEMMA SendMsgStep ==
  ASSUME Inv, NEW p \in Sender, SendMsg(p)
  PROVE  Inv' /\ UNCHANGED <<accepted, content, delivered>>
<1> DEFINE message == [from |-> p, nr |-> sends[p] + 1]
<1>1. /\ pc[p] = "idle" /\ sends[p] < MaxSends /\ sends' = [sends EXCEPT ![p] = @ + 1]
      /\ \/ pc' = [pc EXCEPT ![p] = "msgsnd"] /\ refused' = refused
         \/ pc' = pc /\ refused' = refused \union {message}
      /\ UNCHANGED <<accepted, content, delivered>>
  BY DEF SendMsg, Goto, kernel
<1>2. /\ sends[p] \in Nat /\ sends'[p] = sends[p] + 1 /\ sends'[p] \in 1 .. MaxSends
      /\ \A q \in Sender : sends'[q] >= sends[q] /\ (q # p => sends'[q] = sends[q])
  BY <1>1, BoundAssumption DEF Inv, Kinds
<1>3. message \in Message /\ message \notin accepted \union refused
  BY <1>1, <1>2 DEF Inv, Kinds, Known, Message
<1>4. Kinds'
  BY <1>1, <1>2, <1>3 DEF Inv, Kinds, Place, Process
<1>5. Known'
  <2>1. ASSUME NEW m \in accepted \union refused PROVE m.nr <= sends'[m.from]
    <3>1. m \in Message /\ m.nr <= sends[m.from]
      BY DEF Inv, Kinds, Known
    <3>2. m.from \in Sender /\ m.nr \in Int
      BY <3>1 DEF Message
    <3> QED
      BY <1>2, <3>1, <3>2 DEF Inv, Kinds
  <2>2. message.nr <= sends'[message.from]
    BY <1>2
  <2> QED
    BY <1>1, <2>1, <2>2 DEF Known
<1>6. InCall'
  <2>1. ASSUME NEW q \in Sender, pc'[q] # "idle"
        PROVE  /\ pc'[q] \in {"msgsnd", "msgget"} /\ sends'[q] > 0
               /\ [from |-> q, nr |-> sends'[q]] \notin accepted' \union refused'
    <3>1. CASE q = p
      BY <1>1, <1>2, <1>3, <2>1, <3>1 DEF Inv, Kinds, Process
    <3>2. CASE q # p
      BY <1>1, <1>2, <2>1, <3>2 DEF Inv, Kinds, InCall, Mine, Process
    <3> QED
      BY <3>1, <3>2
  <2> QED
    BY <2>1 DEF InCall, Mine
<1>7. RefusedIsNotSent'
  BY <1>1, <1>3 DEF Inv, RefusedIsNotSent
<1> QED
  BY <1>1, <1>4, <1>5, <1>6, <1>7 DEF Inv

\* The steps inside of a call.
LEMMA LoopStep ==
  ASSUME Inv, NEW p \in Process, Loop(p)
  PROVE  Inv' /\ [Fifo!Next]_<<accepted, content, delivered>>
<1> USE DEF Goto, Place, kernel, object
<1>0. (p \in Receiver => p \notin Sender) /\ (p \notin Receiver => p \in Sender)
  BY RoleAssumption DEF Process
<1>1. CASE InitAgain(p)
  BY <1>0, <1>1, Moves DEF InitAgain, Msgget, Syscall
<1>2. CASE InitAgainFails(p)
  BY <1>2, Ends DEF InitAgainFails, MsggetFails
<1>3. CASE Gone(p)
  BY <1>0, <1>3, Moves DEF Gone, Syscall
<1>4. CASE Unknown(p)
  BY <1>4, Ends DEF Unknown, Syscall
<1>5. CASE p \in Sender /\ Send(p)
  BY <1>5, SendStep
<1>6. CASE p \in Sender /\ SendRefused(p)
  BY <1>6, Ends DEF SendRefused
<1>7. CASE p \in Receiver /\ Receive(p)
  <2>1. Inv'
    BY <1>0, <1>7, Moves DEF Receive, Succeeds
  <2>2. Fifo!Deliver
    BY <1>7 DEF Receive, Fifo!Deliver
  <2> QED
    BY <2>1, <2>2 DEF Fifo!Next
<1>8. CASE p \in Receiver /\ (Sleep(p) \/ Wake(p) \/ Interrupted(p))
  BY <1>0, <1>8, Moves DEF Sleep, Wake, Interrupted
<1> QED
  BY <1>1, <1>2, <1>3, <1>4, <1>5, <1>6, <1>7, <1>8 DEF Loop

\* Init called by the program moves no message.
LEMMA CallInitStep ==
  ASSUME Inv, NEW p \in Process, CallInit(p)
  PROVE  Inv' /\ UNCHANGED <<accepted, content, delivered>>
<1>1. UNCHANGED <<pc, sends, refused, accepted, content, delivered>>
  BY DEF CallInit, Msgget, MsggetFails, kernel
<1> QED
  BY <1>1 DEF Inv, Kinds, Known, InCall, RefusedIsNotSent, Mine

\* Nor does the start of RecvMsg.
LEMMA RecvMsgStep ==
  ASSUME Inv, NEW p \in Receiver, RecvMsg(p)
  PROVE  Inv' /\ UNCHANGED <<accepted, content, delivered>>
<1>1. UNCHANGED <<sends, refused, accepted, content, delivered>>
      /\ (pc' = pc \/ pc' = [pc EXCEPT ![p] = "msgrcv"])
  BY DEF RecvMsg, Goto, kernel
<1>2. p \in Process /\ p \notin Sender
  BY RoleAssumption DEF Process
<1>3. CASE pc' = pc
  BY <1>1, <1>3 DEF Inv, Kinds, Known, InCall, RefusedIsNotSent, Mine
<1>4. CASE pc' = [pc EXCEPT ![p] = "msgrcv"]
  BY <1>1, <1>2, <1>4, Moves DEF Place
<1> QED
  BY <1>1, <1>3, <1>4

\* A removal wakes receivers only, and loses what was in the queue.
LEMMA RemoveStep ==
  ASSUME Inv, Remove
  PROVE  Inv' /\ [Fifo!Next]_<<accepted, content, delivered>>
<1>1. /\ UNCHANGED <<sends, refused, accepted, delivered>> /\ content' = <<>>
      /\ pc' = [p \in Process |-> IF pc[p] = "asleep" THEN "msgget" ELSE pc[p]]
  BY DEF Remove
<1>2. \A p \in Sender : p \in Process /\ pc[p] # "asleep"
  BY DEF Inv, InCall, Process
<1>3. Inv'
  BY <1>1, <1>2 DEF Inv, Kinds, Known, InCall, RefusedIsNotSent, Mine, Place
<1>4. content = <<>> \/ Fifo!Lose
  BY <1>1 DEF Fifo!Lose
<1> QED
  BY <1>1, <1>3, <1>4 DEF Fifo!Next

\* Every step keeps the invariant and is one of LossyFifo.
LEMMA InvStep == Inv /\ [Next]_vars => Inv' /\ [Fifo!Next]_<<accepted, content, delivered>>
<1> SUFFICES ASSUME Inv, [Next]_vars
             PROVE  Inv' /\ [Fifo!Next]_<<accepted, content, delivered>>
  OBVIOUS
<1>1. ASSUME NEW p \in Process, CallInit(p) \/ Loop(p)
      PROVE  Inv' /\ [Fifo!Next]_<<accepted, content, delivered>>
  BY <1>1, CallInitStep, LoopStep
<1>2. ASSUME NEW p \in Receiver, RecvMsg(p)
      PROVE  Inv' /\ [Fifo!Next]_<<accepted, content, delivered>>
  BY <1>2, RecvMsgStep
<1>3. ASSUME NEW p \in Sender, SendMsg(p)
      PROVE  Inv' /\ [Fifo!Next]_<<accepted, content, delivered>>
  BY <1>3, SendMsgStep
<1>4. ASSUME UNCHANGED vars PROVE Inv' /\ [Fifo!Next]_<<accepted, content, delivered>>
  BY <1>4 DEF vars, kernel, Inv, Kinds, Known, InCall, RefusedIsNotSent, Mine
<1> QED
  BY <1>1, <1>2, <1>3, <1>4, RemoveStep DEF Next

-----------------------------------------------------------------------------
(***************************************************************************)
(* Theorems                                                                *)
(***************************************************************************)

\* SendMsg tells the truth: a message for which it did not return 0 was never
\* in the queue.
THEOREM RefusalsAreTrue == Spec => []RefusedIsNotSent
<1>1. Inv => RefusedIsNotSent
  BY DEF Inv
<1> QED
  BY <1>1, InvInit, InvStep, PTL DEF Spec

\* The processes together are a FIFO that may lose all it has: nothing is
\* delivered twice or out of order, whatever is interrupted or removed.
THEOREM ImplementsLossyFifo == Spec => IsFifo
<1> QED
  BY InvInit, InvStep, PTL DEF Spec, IsFifo, Fifo!Spec

(***************************************************************************)
(* What the FIFO is worth to the receivers                                 *)
(***************************************************************************)

\* Of two messages of one sender the later one has the greater number.
Numbered(s) == \A i, j \in DOMAIN s :
  i < j /\ s[i].from = s[j].from => s[i].nr < s[j].nr

\* What was delivered, followed by what still waits, is a numbered sequence of
\* accepted messages.
OrderInv ==
  /\ delivered \in Seq(Message) /\ content \in Seq(Message)
  /\ \A i \in DOMAIN delivered : delivered[i] \in accepted
  /\ \A i \in DOMAIN content : content[i] \in accepted
  /\ Numbered(delivered \o content)

OnceAndInOrder == Numbered(delivered)

\* The elements of two sequences, one behind the other.
LEMMA Joined ==
  ASSUME NEW S, NEW a \in Seq(S), NEW b \in Seq(S)
  PROVE  /\ a \o b \in Seq(S) /\ Len(a \o b) = Len(a) + Len(b)
         /\ \A i \in 1 .. Len(a) : (a \o b)[i] = a[i]
         /\ \A i \in 1 .. Len(b) : (a \o b)[Len(a) + i] = b[i]
OBVIOUS

\* Handing out the first message of the queue changes nothing of that sequence.
LEMMA HeadMoves ==
  ASSUME NEW S, NEW a \in Seq(S), NEW b \in Seq(S), b # <<>>
  PROVE  /\ Append(a, Head(b)) \in Seq(S) /\ Tail(b) \in Seq(S)
         /\ Append(a, Head(b)) \o Tail(b) = a \o b
OBVIOUS

\* A message that the queue takes comes last.
LEMMA AppendJoins ==
  ASSUME NEW S, NEW a \in Seq(S), NEW b \in Seq(S), NEW m \in S
  PROVE  a \o Append(b, m) = Append(a \o b, m)
OBVIOUS

\* Which sequences are numbered.
LEMMA AppendNumbered ==
  ASSUME NEW s \in Seq(Message), Numbered(s), NEW m,
         \A i \in DOMAIN s : s[i].from = m.from => s[i].nr < m.nr
  PROVE  Numbered(Append(s, m))
<1> DEFINE t == Append(s, m)
<1>1. DOMAIN t = 1 .. Len(s) + 1 /\ DOMAIN s = 1 .. Len(s) /\ Len(s) \in Nat
  OBVIOUS
<1>2. t[Len(s) + 1] = m /\ \A i \in DOMAIN s : t[i] = s[i]
  OBVIOUS
<1> HIDE DEF t
<1> SUFFICES ASSUME NEW i \in DOMAIN t, NEW j \in DOMAIN t, i < j, t[i].from = t[j].from
             PROVE  t[i].nr < t[j].nr
  BY DEF Numbered, t
<1>3. i \in DOMAIN s /\ t[i] = s[i]
  BY <1>1, <1>2
<1>4. CASE j \in DOMAIN s
  BY <1>2, <1>3, <1>4 DEF Numbered
<1>5. CASE j = Len(s) + 1
  BY <1>2, <1>3, <1>5
<1> QED
  BY <1>1, <1>4, <1>5

LEMMA PrefixNumbered ==
  ASSUME NEW a \in Seq(Message), NEW b \in Seq(Message), Numbered(a \o b)
  PROVE  Numbered(a)
<1> DEFINE t == a \o b
<1>1. \A i \in DOMAIN a : i \in DOMAIN t /\ t[i] = a[i] /\ i \in Int
  BY Joined
<1>2. Numbered(t)
  OBVIOUS
<1> HIDE DEF t
<1> QED
  BY <1>1, <1>2 DEF Numbered

\* A message is taken once, after all that its sender sent before.
LEMMA SendIsLast ==
  ASSUME Inv, NEW p \in Sender, Send(p), NEW m \in accepted, m.from = p
  PROVE  m.nr < Mine(p).nr
<1>1. pc[p] # "idle"
  BY DEF Send, Goto
<1>2. Mine(p) \notin accepted /\ Mine(p).nr = sends[p]
  BY <1>1, MineIsMessage
<1>3. PICK n \in 1 .. MaxSends : m = [from |-> p, nr |-> n]
  BY DEF Inv, Kinds, Message
<1>4. n <= sends[p] /\ n # sends[p] /\ sends[p] \in Int
  BY <1>2, <1>3 DEF Inv, Kinds, Known, Mine
<1> QED
  BY <1>2, <1>3, <1>4

\* Sending, receiving and removing keep the sequence numbered.
LEMMA OrderStep == Inv /\ OrderInv /\ [Next]_vars => OrderInv'
<1> SUFFICES ASSUME Inv, OrderInv, [Next]_vars PROVE OrderInv'
  OBVIOUS
<1> DEFINE all == delivered \o content
<1>1. ASSUME NEW p \in Sender, Send(p) PROVE OrderInv'
  <2>1. /\ content' = Append(content, Mine(p)) /\ accepted' = accepted \union {Mine(p)}
        /\ delivered' = delivered /\ Mine(p) \in Message /\ Mine(p).from = p
    BY <1>1, MineIsMessage DEF Send, Goto
  <2>2. (delivered \o content)' = Append(all, Mine(p)) /\ all \in Seq(Message)
    BY <2>1, AppendJoins, Joined DEF OrderInv
  <2>3. \A i \in DOMAIN all : all[i] \in accepted
    BY Joined DEF OrderInv
  <2>4. \A i \in DOMAIN all : all[i].from = p => all[i].nr < Mine(p).nr
    BY <1>1, <2>3, SendIsLast
  <2>5. Numbered(all)
    BY DEF OrderInv
  <2> HIDE DEF all
  <2>6. Numbered(Append(all, Mine(p)))
    BY <2>1, <2>2, <2>4, <2>5, AppendNumbered
  <2> QED
    BY <2>1, <2>2, <2>6 DEF OrderInv
<1>2. ASSUME NEW p \in Process, Receive(p) PROVE OrderInv'
  <2>1. /\ content # <<>> /\ accepted' = accepted
        /\ delivered' = Append(delivered, Head(content)) /\ content' = Tail(content)
    BY <1>2 DEF Receive
  <2>2. (delivered \o content)' = all
    BY <2>1, HeadMoves DEF OrderInv
  <2>3. delivered' \in Seq(Message) /\ content' \in Seq(Message)
    BY <2>1, HeadMoves DEF OrderInv
  <2>4. \A i \in DOMAIN delivered' : delivered'[i] \in accepted'
    BY <2>1 DEF OrderInv
  <2>5. \A i \in DOMAIN content' : content'[i] \in accepted'
    BY <2>1 DEF OrderInv
  <2> QED
    BY <2>2, <2>3, <2>4, <2>5 DEF OrderInv
<1>3. ASSUME Remove PROVE OrderInv'
  <2>1. content' = <<>> /\ accepted' = accepted /\ delivered' = delivered
    BY <1>3 DEF Remove
  <2>2. (delivered \o content)' = delivered
    BY <2>1 DEF OrderInv
  <2>3. Numbered(delivered)
    BY PrefixNumbered DEF OrderInv
  <2> QED
    BY <2>1, <2>2, <2>3 DEF OrderInv
<1>4. ASSUME UNCHANGED <<accepted, content, delivered>> PROVE OrderInv'
  BY <1>4 DEF OrderInv
<1>5. ASSUME NEW p \in Process, Loop(p) PROVE OrderInv'
  <2>1. \/ p \in Sender /\ Send(p)
        \/ Receive(p)
        \/ UNCHANGED <<accepted, content, delivered>>
    BY <1>5 DEF Loop, InitAgain, InitAgainFails, Msgget, MsggetFails, Gone, Unknown,
                SendRefused, Sleep, Wake, Interrupted, kernel
  <2> QED
    BY <1>1, <1>2, <1>4, <2>1
<1>6. ASSUME NEW p \in Process, CallInit(p) PROVE OrderInv'
  BY <1>4, <1>6, CallInitStep
<1>7. ASSUME NEW p \in Receiver, RecvMsg(p) PROVE OrderInv'
  BY <1>4, <1>7, RecvMsgStep
<1>8. ASSUME NEW p \in Sender, SendMsg(p) PROVE OrderInv'
  BY <1>4, <1>8, SendMsgStep
<1>9. ASSUME UNCHANGED vars PROVE OrderInv'
  BY <1>4, <1>9 DEF vars, kernel
<1> QED
  BY <1>3, <1>5, <1>6, <1>7, <1>8, <1>9 DEF Next

\* The messages of a sender arrive in the order of its calls of SendMsg, and
\* none of them twice, whichever receivers take them, however often a call was
\* interrupted, and whether or not the queue was removed in between.
THEOREM SendersAreInOrder == Spec => []OnceAndInOrder
<1>1. Init => OrderInv
  BY DEF Init, OrderInv, Numbered
<1>2. OrderInv => OnceAndInOrder
  BY PrefixNumbered DEF OrderInv, OnceAndInOrder
<1> QED
  BY <1>1, <1>2, InvInit, InvStep, OrderStep, PTL DEF Spec
=================================================================================
