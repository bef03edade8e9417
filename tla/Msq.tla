---------------------------------- MODULE Msq ----------------------------------
(***************************************************************************)
(* CMsq (include/neiku/msq.h): the processes that share a System V message *)
(* queue, each through an object of its own, as demo/msq does.  RecvMsg    *)
(* waits in msgrcv, SendMsg calls msgsnd with IPC_NOWAIT.  The queue may   *)
(* be removed at any time (ipcrm) and signals may interrupt a call.        *)
(***************************************************************************)
EXTENDS Integers, Sequences, FiniteSets

CONSTANTS
  Sender, Receiver,   \* the processes
  MsgMax,             \* msgmax of the kernel, in the unit of sizes here
  MaxSize,            \* MSQ_MSGMAXSIZE
  Capacity,           \* msg_qbytes, in messages
  MaxSends,           \* bound: calls of SendMsg, of each sender
  MaxRemovals,        \* bound: removals of the queue
  MaxFaults           \* bound: signals and failing msgget, together

Process == Sender \union Receiver
Size    == 1 .. MaxSize + 1
Message == [from : Sender, nr : 1 .. MaxSends]
NoQueue == 0   \* no id of a queue; the key has none

ASSUME RoleAssumption == Sender \intersect Receiver = {}
ASSUME BoundAssumption ==
  /\ MsgMax \in Nat /\ MaxSize \in Nat /\ Capacity \in Nat
  /\ MaxSends \in Nat /\ MaxRemovals \in Nat /\ MaxFaults \in Nat

VARIABLES
  live,      \* the id the key leads to, or NoQueue
  ids,       \* number of ids given out; an id is not used again
  content,   \* the messages in the live queue
  inited,    \* processes whose m_bInit is true
  msqId,     \* m_iMsqId
  pc,        \* "idle", in "msgrcv" or "msgsnd", "asleep" there, in Init ("msgget")
  buffer,    \* message in m_sMsgBuf of each sender: its size
  sends,     \* number of SendMsg calls of each sender
  refused,   \* messages of calls that did not return 0
  failed,    \* processes whose last call returned -1
  accepted, delivered,   \* history: what msgsnd took, what RecvMsg returned
  removals, faults

kernel == <<live, ids, content>>
object == <<inited, msqId, buffer>>
vars == <<kernel, object, pc, sends, refused, failed, accepted, delivered,
          removals, faults>>

Goto(p, from, to) == pc[p] = from /\ pc' = [pc EXCEPT ![p] = to]

Mine(p) == [from |-> p, nr |-> sends[p]]

\* The system call a process is in the loop of.
Syscall(p) == IF p \in Receiver THEN "msgrcv" ELSE "msgsnd"

\* The call returns -1: the message it carries, if any, is refused.
Fails(p) ==
  /\ failed' = failed \union {p}
  /\ refused' = refused \union (IF p \in Sender THEN {Mine(p)} ELSE {})

Succeeds(p) == failed' = failed \ {p} /\ UNCHANGED refused

Init ==
  /\ live = NoQueue /\ ids = 0 /\ content = <<>>
  /\ inited = {}
  /\ msqId = [p \in Process |-> NoQueue]
  /\ pc = [p \in Process |-> "idle"]
  /\ buffer = [p \in Sender |-> 0]
  /\ sends = [p \in Sender |-> 0]
  /\ refused = {} /\ failed = {}
  /\ accepted = {} /\ delivered = <<>>
  /\ removals = 0 /\ faults = 0

-----------------------------------------------------------------------------
(***************************************************************************)
(* CMsq::Init.  msgget finds the queue of the key or creates it.           *)
(***************************************************************************)

Msgget(p) ==
  /\ IF live = NoQueue THEN live' = ids + 1 /\ ids' = ids + 1
                       ELSE UNCHANGED <<live, ids>>
  /\ msqId' = [msqId EXCEPT ![p] = live']
  /\ inited' = inited \union {p}
  /\ UNCHANGED <<content, buffer>>

MsggetFails(p) ==
  /\ faults < MaxFaults /\ faults' = faults + 1
  /\ msqId' = [msqId EXCEPT ![p] = -1]
  /\ inited' = inited \ {p}
  /\ UNCHANGED <<kernel, buffer>>

\* A slip: Init of an object that is initialised returns at once.
CallInitOnce(p) ==
  /\ pc[p] = "idle" /\ p \notin inited
  /\ \/ Msgget(p) /\ failed' = failed \ {p} /\ UNCHANGED faults
     \/ MsggetFails(p) /\ failed' = failed \union {p}
  /\ UNCHANGED <<pc, sends, refused, accepted, delivered, removals>>

\* The program calls Init: at its start and after a call that failed.
CallInit(p) ==
  /\ pc[p] = "idle" /\ (p \notin inited \/ p \in failed)
  /\ \/ Msgget(p) /\ failed' = failed \ {p} /\ UNCHANGED faults
     \/ MsggetFails(p) /\ failed' = failed \union {p}
  /\ UNCHANGED <<pc, sends, refused, accepted, delivered, removals>>

\* Init after EIDRM, then the loop continues.
InitAgain(p) ==
  /\ Msgget(p)
  /\ Goto(p, "msgget", Syscall(p))
  /\ UNCHANGED <<sends, refused, failed, accepted, delivered, removals, faults>>

\* That Init fails, and RecvMsg or SendMsg with it.
InitAgainFails(p) ==
  /\ MsggetFails(p)
  /\ Goto(p, "msgget", "idle")
  /\ Fails(p)
  /\ UNCHANGED <<sends, accepted, delivered, removals>>

-----------------------------------------------------------------------------
(***************************************************************************)
(* RecvMsg and SendMsg, up to the system call.                             *)
(***************************************************************************)
RecvMsg(p) ==
  /\ IF p \in inited THEN Goto(p, "idle", "msgrcv") /\ UNCHANGED failed
                     ELSE pc[p] = "idle" /\ failed' = failed \union {p} /\ UNCHANGED pc
  /\ UNCHANGED <<kernel, object, sends, refused, accepted, delivered, removals, faults>>

SendMsg(p) ==
  \E size \in Size :
    /\ pc[p] = "idle" /\ sends[p] < MaxSends
    /\ sends' = [sends EXCEPT ![p] = @ + 1]
    /\ LET message == [from |-> p, nr |-> sends[p] + 1]
       IN \/ /\ p \in inited /\ size <= MaxSize
             /\ Goto(p, "idle", "msgsnd") /\ buffer' = [buffer EXCEPT ![p] = size]
             /\ UNCHANGED <<refused, failed>>
          \/ /\ p \in inited /\ size > MaxSize   \* MSQ_ERRCODE_MSGTOOBIG
             /\ refused' = refused \union {message}
             /\ UNCHANGED <<pc, buffer, failed>>
          \/ /\ p \notin inited
             /\ refused' = refused \union {message} /\ failed' = failed \union {p}
             /\ UNCHANGED <<pc, buffer>>
    /\ UNCHANGED <<kernel, inited, msqId, accepted, delivered, removals, faults>>

-----------------------------------------------------------------------------
(***************************************************************************)
(* The system calls, and what the loop does with their errors.             *)
(***************************************************************************)
OnLive(p) == live # NoQueue /\ msqId[p] = live

\* A slip: msgrcv is called again though it had a message.
ReceiveTwice(p) ==
  /\ OnLive(p) /\ content # <<>>
  /\ Goto(p, "msgrcv", "idle")
  /\ delivered' = Append(delivered, Head(content))
  /\ UNCHANGED content
  /\ Succeeds(p)
  /\ UNCHANGED <<live, ids, object, sends, accepted, removals, faults>>

Receive(p) ==
  /\ OnLive(p) /\ content # <<>>
  /\ Goto(p, "msgrcv", "idle")
  /\ delivered' = Append(delivered, Head(content))
  /\ content' = Tail(content)
  /\ Succeeds(p)
  /\ UNCHANGED <<live, ids, object, sends, accepted, removals, faults>>

\* The queue is empty: msgrcv sleeps, and is woken by a message.
Sleep(p) ==
  /\ OnLive(p) /\ content = <<>>
  /\ Goto(p, "msgrcv", "asleep")
  /\ UNCHANGED <<kernel, object, sends, refused, failed, accepted, delivered, removals, faults>>

Wake(p) ==
  /\ content # <<>>
  /\ Goto(p, "asleep", "msgrcv")
  /\ UNCHANGED <<kernel, object, sends, refused, failed, accepted, delivered, removals, faults>>

\* A slip: no break after a msgsnd that succeeded.
SendLoops(p) ==
  /\ OnLive(p) /\ Len(content) < Capacity /\ buffer[p] <= MsgMax
  /\ pc[p] = "msgsnd"
  /\ content' = Append(content, Mine(p))
  /\ accepted' = accepted \union {Mine(p)}
  /\ UNCHANGED <<live, ids, object, pc, sends, refused, failed, delivered, removals, faults>>

Send(p) ==
  /\ OnLive(p) /\ Len(content) < Capacity /\ buffer[p] <= MsgMax
  /\ Goto(p, "msgsnd", "idle")
  /\ content' = Append(content, Mine(p))
  /\ accepted' = accepted \union {Mine(p)}
  /\ Succeeds(p)
  /\ UNCHANGED <<live, ids, object, sends, delivered, removals, faults>>

\* EAGAIN of a full queue, EINVAL of a message above msgmax.
SendRefused(p) ==
  /\ OnLive(p) /\ (Len(content) >= Capacity \/ buffer[p] > MsgMax)
  /\ Goto(p, "msgsnd", "idle")
  /\ Fails(p)
  /\ UNCHANGED <<kernel, object, sends, accepted, delivered, removals, faults>>

\* EIDRM, from an id of a queue that is gone: Init is called.
Gone(p) ==
  /\ ~OnLive(p)
  /\ Goto(p, Syscall(p), "msgget")
  /\ UNCHANGED <<kernel, object, sends, refused, failed, accepted, delivered, removals, faults>>

\* EINVAL, the other answer to such an id: the call fails.
Unknown(p) ==
  /\ ~OnLive(p)
  /\ Goto(p, Syscall(p), "idle")
  /\ Fails(p)
  /\ UNCHANGED <<kernel, object, sends, accepted, delivered, removals, faults>>

\* EINTR: the loop continues.
Interrupted(p) ==
  /\ faults < MaxFaults /\ faults' = faults + 1
  /\ Goto(p, "asleep", "msgrcv")
  /\ UNCHANGED <<kernel, object, sends, refused, failed, accepted, delivered, removals>>

\* The queue is removed: sleepers wake with EIDRM.
Remove ==
  /\ removals < MaxRemovals /\ removals' = removals + 1
  /\ live # NoQueue /\ live' = NoQueue /\ content' = <<>>
  /\ pc' = [p \in Process |-> IF pc[p] = "asleep" THEN "msgget" ELSE pc[p]]
  /\ UNCHANGED <<ids, object, sends, refused, failed, accepted, delivered, faults>>

Loop(p) ==
  \/ InitAgain(p) \/ InitAgainFails(p) \/ Gone(p) \/ Unknown(p)
  \/ p \in Sender /\ (Send(p) \/ SendRefused(p))
  \/ p \in Receiver /\ (Receive(p) \/ Sleep(p) \/ Wake(p) \/ Interrupted(p))

Next ==
  \/ \E p \in Process : CallInit(p) \/ Loop(p)
  \/ \E p \in Receiver : RecvMsg(p)
  \/ \E p \in Sender : SendMsg(p)
  \/ Remove

Spec == Init /\ [][Next]_vars

\* Processes are scheduled; a receiver that was given an error calls Init
\* again, as a program that is started anew does, and calls RecvMsg again.
FairSpec ==
  /\ Spec
  /\ \A p \in Process : WF_vars(Loop(p))
  /\ \A p \in Receiver : SF_vars(CallInit(p)) /\ WF_vars(RecvMsg(p))

-----------------------------------------------------------------------------
(***************************************************************************)
(* Properties                                                              *)
(***************************************************************************)

\* Every variable holds what the code and the kernel can put there.
TypeOK ==
  /\ live \in Nat /\ ids \in Nat
  /\ content \in Seq(Message)
  /\ inited \in SUBSET Process
  /\ msqId \in [Process -> Int]
  /\ pc \in [Process -> {"idle", "msgrcv", "msgsnd", "asleep", "msgget"}]
  /\ buffer \in [Sender -> Nat]
  /\ sends \in [Sender -> 0 .. MaxSends]
  /\ refused \in SUBSET Message
  /\ failed \in SUBSET Process
  /\ accepted \in SUBSET Message
  /\ delivered \in Seq(Message)
  /\ removals \in Nat /\ faults \in Nat

\* The caller of SendMsg is told the truth: a message for which it did not
\* return 0 is not in the queue and never reaches a receiver, though the loop
\* may have called msgsnd several times (msgsnd again after EIDRM and EINTR).
RefusedIsNotSent == refused \intersect accepted = {}

\* All processes together are a FIFO that may be removed with its content:
\* nothing is delivered twice or out of order, whatever is interrupted.
Fifo == INSTANCE LossyFifo WITH waiting <- content
IsFifo == Fifo!Spec

\* A message that was accepted does not stay: a receiver takes it or it goes
\* with the queue, also when every receiver was attached to a removed queue.
InQueue(m) == \E i \in DOMAIN content : content[i] = m
Delivered == \A m \in Message : InQueue(m) ~> ~InQueue(m)
=============================================================================
