------------------------------- MODULE LossyFifo -------------------------------
(***************************************************************************)
(* What a message queue shared by many processes promises: messages that   *)
(* were accepted are delivered once and in the order of acceptance.  The   *)
(* queue may be removed with all that is in it.                            *)
(***************************************************************************)
EXTENDS Sequences

CONSTANT Message

VARIABLES
  accepted,   \* every message the queue ever took
  waiting,    \* the messages in the queue
  delivered   \* the messages handed out, in order

Init == accepted = {} /\ waiting = <<>> /\ delivered = <<>>

Accept(m) ==
  /\ m \notin accepted
  /\ accepted' = accepted \union {m}
  /\ waiting' = Append(waiting, m)
  /\ UNCHANGED delivered

Deliver ==
  /\ waiting # <<>>
  /\ delivered' = Append(delivered, Head(waiting))
  /\ waiting' = Tail(waiting)
  /\ UNCHANGED accepted

Lose ==
  /\ waiting # <<>> /\ waiting' = <<>>
  /\ UNCHANGED <<accepted, delivered>>

Next == (\E m \in Message : Accept(m)) \/ Deliver \/ Lose

Spec == Init /\ [][Next]_<<accepted, waiting, delivered>>
=============================================================================
