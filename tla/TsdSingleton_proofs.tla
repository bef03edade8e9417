-------------------------- MODULE TsdSingleton_proofs --------------------------
(***************************************************************************)
(* Theorems about TsdSingleton, for any threads, calls and failures, where *)
(* key 0 belongs to nobody else.                                           *)
(***************************************************************************)
EXTENDS TsdSingleton, FiniteSetTheorems, TLAPS

Object(t) == {<<t, made[t]>>}
Lost(t) == {n \in 1 .. made[t] : <<t, n>> \notin deleted}

\* Behind pthread_once there is a key of its own.
KeyInv ==
  /\ key = 1 <=> once = "done"
  /\ \A t \in Thread : pc[t] \in {"get", "set", "return"} => once = "done"

\* A thread keeps the object it made last, or none.
SlotInv ==
  \A t \in Thread :
    /\ slot[t] = {} \/ (made[t] > 0 /\ slot[t] = Object(t))
    /\ pc[t] = "set" => slot[t] = {}
    /\ given[t] = {} \/ (made[t] > 0 /\ given[t] = Object(t))
    /\ given[t] # {} /\ t \notin ended => slot[t] = given[t]
    /\ t \in ended <=> pc[t] = "ended"
    /\ t \in ended => slot[t] = {} /\ t \notin exiting

\* Only what a thread that ended or called exit() had made is deleted.
DeletedInv ==
  /\ twice = {}
  /\ \A o \in deleted : o[2] \in 1 .. made[o[1]] /\ o[1] \in exiting \union ended

\* What a thread made and does not keep was lost by a failure.
LostInv ==
  \A t \in Thread :
    /\ t \notin ended /\ slot[t] = {} => made[t] <= failures
    /\ t \notin ended => made[t] <= failures + 1
    /\ t \in ended => Cardinality(Lost(t)) <= failures

Inv == TypeOK /\ KeyInv /\ SlotInv /\ DeletedInv /\ LostInv

(***************************************************************************)
(* The invariant is kept                                                   *)
(***************************************************************************)

\* A set of numbers up to n has at most n of them.
LEMMA UpTo ==
  ASSUME NEW n \in Nat, NEW S \in SUBSET (1 .. n)
  PROVE  Cardinality(S) \in Nat /\ Cardinality(S) <= n
<1>1. IsFiniteSet(1 .. n) /\ Cardinality(1 .. n) = n
  BY FS_Interval
<1> QED
  BY <1>1, FS_Subset, FS_CardinalityType

\* A step that deletes nothing and ends no thread keeps what was lost.
LEMMA LostStays ==
  ASSUME TypeOK, LostInv, deleted' = deleted, ended' = ended, failures' \in Nat,
         failures <= failures',
         NEW t \in Thread, t \in ended, made'[t] = made[t]
  PROVE  Cardinality(Lost(t)') <= failures'
<1>1. Lost(t)' = Lost(t)
  BY DEF Lost
<1>2. Cardinality(Lost(t)) \in Nat /\ Cardinality(Lost(t)) <= failures /\ failures \in Nat
  <2>1. made[t] \in Nat /\ Lost(t) \in SUBSET (1 .. made[t])
    BY DEF TypeOK, Lost
  <2> QED
    BY <2>1, UpTo DEF LostInv, TypeOK
<1> QED
  BY <1>1, <1>2

\* Before the first call there is no key and no object.
LEMMA InvInit == Init => Inv
  BY DEF Init, Inv, TypeOK, KeyInv, SlotInv, DeletedInv, LostInv

\* With key 0 in nobody's hands, a thread reads its own slot or nothing.
LEMMA ValueIsSlot ==
  ASSUME ZeroTaken = FALSE, Inv, NEW t \in Thread
  PROVE  /\ Value(t) = slot[t] \/ Value(t) = {}
         /\ pc[t] \in {"get", "return"} => Value(t) = slot[t]
  BY DEF Inv, KeyInv, Value

\* The steps of Instance before the object: no slot is touched.
LEMMA CallStep ==
  ASSUME ZeroTaken = FALSE, Inv, NEW t \in Thread,
         Instance(t) \/ Once(t) \/ AtExit(t) \/ KeyCreate(t)
  PROVE  Inv'
<1>1. /\ UNCHANGED <<slot, made, given, deleted, twice, exiting, ended, failures>>
      /\ pc'[t] \in {"once", "atexit", "get", "create"} /\ pc[t] \notin {"ended", "set"}
      /\ \A u \in Thread : u # t => pc'[u] = pc[u]
      /\ pc' \in [Thread -> {"idle", "once", "atexit", "create", "get", "set", "return", "ended"}]
  BY DEF Inv, TypeOK, Instance, Once, AtExit, KeyCreate, Goto
<1>2. TypeOK' /\ KeyInv'
  <2>1. CASE Instance(t)
    BY <2>1 DEF Inv, TypeOK, KeyInv, Instance, Goto
  <2>2. CASE Once(t)
    BY <2>2 DEF Inv, TypeOK, KeyInv, Once, Goto
  <2>3. CASE AtExit(t)
    BY <2>3 DEF Inv, TypeOK, KeyInv, AtExit, Goto
  <2>4. CASE KeyCreate(t)
    BY <2>4 DEF Inv, TypeOK, KeyInv, KeyCreate, Goto
  <2> QED
    BY <2>1, <2>2, <2>3, <2>4
<1>3. SlotInv' /\ DeletedInv'
  BY <1>1 DEF Inv, SlotInv, DeletedInv, Object
<1>4. LostInv'
  BY <1>1 DEF Inv, LostInv, Lost
<1> QED
  BY <1>2, <1>3, <1>4 DEF Inv

\* pthread_getspecific finds the object of this thread, or none.
LEMMA GetStep ==
  ASSUME ZeroTaken = FALSE, Inv, NEW t \in Thread, Get(t)
  PROVE  Inv'
<1>1. /\ UNCHANGED <<slot, made, given, deleted, twice, exiting, ended, failures, once, key>>
      /\ pc[t] = "get" /\ pc'[t] = IF slot[t] = {} THEN "set" ELSE "return"
      /\ \A u \in Thread : u # t => pc'[u] = pc[u]
  BY ValueIsSlot DEF Inv, TypeOK, Get, Goto
<1>2. TypeOK' /\ KeyInv'
  BY DEF Inv, TypeOK, KeyInv, Get, Goto
<1>3. SlotInv' /\ DeletedInv'
  BY <1>1 DEF Inv, SlotInv, DeletedInv, Object
<1>4. LostInv'
  BY <1>1 DEF Inv, LostInv, Lost
<1> QED
  BY <1>2, <1>3, <1>4 DEF Inv

\* Instance returns what the slot has.
LEMMA ReturnStep ==
  ASSUME ZeroTaken = FALSE, Inv, NEW t \in Thread, Return(t)
  PROVE  Inv'
<1>1. /\ UNCHANGED <<slot, made, deleted, twice, exiting, ended, failures, once, key>>
      /\ pc[t] = "return" /\ pc'[t] = "idle"
      /\ given'[t] = given[t] \union slot[t]
      /\ \A u \in Thread : u # t => pc'[u] = pc[u] /\ given'[u] = given[u]
  BY ValueIsSlot DEF Inv, TypeOK, Return, Goto
<1>2. TypeOK' /\ KeyInv'
  <2>1. /\ given' = [given EXCEPT ![t] = @ \union slot[t]]
        /\ pc' = [pc EXCEPT ![t] = "idle"] /\ calls' = calls /\ hooked' = hooked
    BY ValueIsSlot DEF Return, Goto
  <2>2. given[t] \union slot[t] \in SUBSET (Thread \X Nat)
    BY DEF Inv, TypeOK
  <2>3. given' \in [Thread -> SUBSET (Thread \X Nat)]
    BY <2>1, <2>2 DEF Inv, TypeOK
  <2>4. TypeOK'
    BY <1>1, <2>1, <2>3 DEF Inv, TypeOK
  <2>5. KeyInv'
    BY <1>1 DEF Inv, KeyInv
  <2> QED
    BY <2>4, <2>5
<1>3. SlotInv' /\ DeletedInv'
  <2>1. given'[t] = slot[t] /\ t \notin ended
    BY <1>1 DEF Inv, SlotInv
  <2>2. \A u \in Thread : Object(u)' = Object(u)
    BY <1>1 DEF Object
  <2>3. SlotInv'
    BY <1>1, <2>1, <2>2 DEF Inv, SlotInv
  <2> QED
    BY <1>1, <2>3 DEF Inv, DeletedInv
<1>4. LostInv'
  BY <1>1 DEF Inv, LostInv, Lost
<1> QED
  BY <1>2, <1>3, <1>4 DEF Inv

\* A new object is kept, or a failure accounts for its loss.
LEMMA SetStep ==
  ASSUME ZeroTaken = FALSE, Inv, NEW t \in Thread, Set(t)
  PROVE  Inv'
<1>1. PICK stored \in {{}, {<<t, made[t] + 1>>}} :
        /\ made' = [made EXCEPT ![t] = @ + 1]
        /\ slot' = [slot EXCEPT ![t] = stored]
        /\ failures' = IF stored = {} /\ key = 1 THEN failures + 1 ELSE failures
        /\ pc[t] = "set" /\ pc' = [pc EXCEPT ![t] = "return"]
        /\ UNCHANGED <<once, hooked, key, given, deleted, twice, exiting, ended, calls>>
  BY DEF Set, Goto
<1>2. /\ made[t] \in Nat /\ failures \in Nat /\ key = 1 /\ slot[t] = {} /\ given[t] = {}
      /\ t \notin ended
  BY <1>1 DEF Inv, TypeOK, KeyInv, SlotInv
<1>3. TypeOK' /\ KeyInv'
  <2>1. stored \in SUBSET (Thread \X Nat)
    BY <1>1, <1>2
  <2> QED
    BY <1>1, <1>2, <2>1 DEF Inv, TypeOK, KeyInv
<1>4. /\ made'[t] = made[t] + 1 /\ slot'[t] = stored /\ pc'[t] = "return"
      /\ \A u \in Thread : u # t =>
           made'[u] = made[u] /\ slot'[u] = slot[u] /\ pc'[u] = pc[u]
      /\ failures' = failures + (IF stored = {} THEN 1 ELSE 0)
  BY <1>1, <1>2 DEF Inv, TypeOK
<1>5. SlotInv'
  BY <1>1, <1>2, <1>4 DEF Inv, SlotInv, Object
<1>6. DeletedInv'
  <2>1. ASSUME NEW o \in deleted
        PROVE  o[2] \in 1 .. made'[o[1]] /\ o[1] \in exiting \union ended
    <3>1. o[2] \in 1 .. made[o[1]] /\ o[1] \in exiting \union ended /\ o[1] \in Thread
      BY DEF Inv, DeletedInv, TypeOK
    <3> QED
      BY <1>2, <1>4, <3>1
  <2> QED
    BY <1>1, <2>1 DEF Inv, DeletedInv
<1>7. LostInv'
  <2>1. made[t] <= failures
    BY <1>2 DEF Inv, LostInv
  <2>2. made'[t] <= failures' + 1 /\ (slot'[t] = {} => made'[t] <= failures')
    BY <1>1, <1>2, <1>4, <2>1
  <2>3. failures' \in Nat /\ failures <= failures'
    BY <1>2, <1>4
  <2>4. ASSUME NEW u \in Thread, u # t, u \notin ended
        PROVE  made'[u] <= failures' + 1 /\ (slot'[u] = {} => made'[u] <= failures')
    <3>1. made[u] \in Nat /\ made[u] <= failures + 1 /\ (slot[u] = {} => made[u] <= failures)
      BY <2>4 DEF Inv, TypeOK, LostInv
    <3> QED
      BY <1>2, <1>4, <2>3, <2>4, <3>1
  <2>5. ASSUME NEW u \in Thread, u \in ended
        PROVE  Cardinality(Lost(u)') <= failures'
    BY <1>1, <1>2, <1>4, <2>3, <2>5, LostStays DEF Inv
  <2> QED
    BY <1>1, <2>2, <2>4, <2>5 DEF LostInv
<1> QED
  BY <1>3, <1>5, <1>6, <1>7 DEF Inv

\* A thread that ends deletes what it keeps: what is left was lost before.
LEMMA ThreadEndStep ==
  ASSUME ZeroTaken = FALSE, Inv, NEW t \in Thread, ThreadEnd(t)
  PROVE  Inv'
<1>1. /\ t \notin exiting /\ t \notin ended /\ pc[t] = "idle"
      /\ pc' = [pc EXCEPT ![t] = "ended"] /\ slot' = [slot EXCEPT ![t] = {}]
      /\ ended' = ended \union {t} /\ deleted' = deleted \union slot[t]
      /\ twice' = twice \union (slot[t] \intersect deleted)
      /\ UNCHANGED <<once, hooked, key, made, given, exiting, calls, failures>>
  BY DEF Inv, SlotInv, ThreadEnd, Goto, Delete
<1>2. \A o \in deleted : o[1] # t
  BY <1>1 DEF Inv, DeletedInv
<1>3. \A o \in slot[t] : o = <<t, made[t]>> /\ made[t] > 0 /\ o[1] = t /\ o[2] = made[t]
  BY DEF Inv, SlotInv, Object
<1>4. TypeOK' /\ KeyInv'
  <2>1. slot[t] \in SUBSET (Thread \X Nat)
    BY DEF Inv, TypeOK
  <2> QED
    BY <1>1, <2>1 DEF Inv, TypeOK, KeyInv
<1>5. /\ pc'[t] = "ended" /\ slot'[t] = {}
      /\ \A u \in Thread : u # t => pc'[u] = pc[u] /\ slot'[u] = slot[u]
  BY <1>1 DEF Inv, TypeOK
<1>6. SlotInv'
  BY <1>1, <1>5 DEF Inv, SlotInv, Object
<1>7. DeletedInv'
  <2>1. twice' = {}
    BY <1>1, <1>2, <1>3 DEF Inv, DeletedInv
  <2>2. \A o \in slot[t] : o[2] \in 1 .. made[o[1]] /\ o[1] \in ended'
    BY <1>1, <1>3 DEF Inv, TypeOK
  <2> QED
    BY <1>1, <2>1, <2>2 DEF Inv, DeletedInv
<1>8. LostInv'
  <2>1. ASSUME NEW u \in Thread, u # t
        PROVE  Lost(u)' = Lost(u)
    <3>1. \A n : <<u, n>> \in deleted' <=> <<u, n>> \in deleted
      BY <1>1, <1>3, <2>1
    <3> QED
      BY <1>1, <3>1 DEF Lost
  <2>2. Cardinality(Lost(t)') <= failures
    <3>1. made[t] \in Nat /\ failures \in Nat
      BY DEF Inv, TypeOK
    <3>2. CASE slot[t] = {}
      <4>1. made[t] <= failures
        BY <1>1, <3>2 DEF Inv, LostInv
      <4>2. Lost(t)' \in SUBSET (1 .. made[t])
        BY <1>1 DEF Lost
      <4>3. Cardinality(Lost(t)') \in Nat /\ Cardinality(Lost(t)') <= made[t]
        BY <3>1, <4>2, UpTo
      <4> QED
        BY <3>1, <4>1, <4>3
    <3>3. CASE slot[t] # {}
      <4>1. made[t] <= failures + 1 /\ slot[t] = {<<t, made[t]>>} /\ made[t] > 0
        BY <1>1, <3>3 DEF Inv, LostInv, SlotInv, Object
      <4>2. PICK n \in Nat : n = made[t] - 1
        BY <3>1, <4>1
      <4>3. Lost(t)' \in SUBSET (1 .. n)
        BY <1>1, <3>1, <4>1, <4>2 DEF Lost
      <4>4. Cardinality(Lost(t)') <= n /\ Cardinality(Lost(t)') \in Nat
        BY <4>3, UpTo
      <4> QED
        BY <3>1, <4>1, <4>2, <4>4
    <3> QED
      BY <3>2, <3>3
  <2> QED
    BY <1>1, <1>5, <2>1, <2>2 DEF Inv, LostInv
<1> QED
  BY <1>4, <1>6, <1>7, <1>8 DEF Inv

\* exit() deletes the object of a thread that has not ended, the first time.
LEMMA ExitStep ==
  ASSUME ZeroTaken = FALSE, Inv, NEW t \in Thread, Exit(t)
  PROVE  Inv'
<1>1. PICK gone \in {{}, slot[t]} :
        /\ deleted' = deleted \union gone /\ twice' = twice \union (gone \intersect deleted)
  BY ValueIsSlot DEF Exit, Delete
<1>2. /\ exiting = {} /\ exiting' = {t} /\ pc[t] = "idle" /\ t \notin ended
      /\ UNCHANGED <<once, hooked, key, slot, made, pc, given, ended, calls, failures>>
  BY DEF Exit, Inv, SlotInv
<1>3. \A o \in deleted : o[1] # t
  BY <1>2 DEF Inv, DeletedInv
<1>4. \A o \in gone : o = <<t, made[t]>> /\ made[t] > 0 /\ o[1] = t /\ o[2] = made[t]
  BY <1>1 DEF Inv, SlotInv, Object
<1>5. TypeOK' /\ KeyInv'
  <2>1. gone \in SUBSET (Thread \X Nat)
    BY <1>1 DEF Inv, TypeOK
  <2> QED
    BY <1>1, <1>2, <2>1 DEF Inv, TypeOK, KeyInv
<1>6. SlotInv'
  BY <1>2 DEF Inv, SlotInv, Object
<1>7. DeletedInv'
  <2>1. twice' = {}
    BY <1>1, <1>3, <1>4 DEF Inv, DeletedInv
  <2>2. \A o \in gone : o[2] \in 1 .. made[o[1]] /\ o[1] \in exiting'
    BY <1>2, <1>4 DEF Inv, TypeOK
  <2> QED
    BY <1>1, <1>2, <2>1, <2>2 DEF Inv, DeletedInv
<1>8. LostInv'
  <2>1. ASSUME NEW u \in Thread, u \in ended PROVE Lost(u)' = Lost(u)
    <3>1. \A n : <<u, n>> \in deleted' <=> <<u, n>> \in deleted
      BY <1>1, <1>2, <1>4, <2>1
    <3> QED
      BY <1>2, <3>1 DEF Lost
  <2> QED
    BY <1>2, <2>1 DEF Inv, LostInv
<1> QED
  BY <1>5, <1>6, <1>7, <1>8 DEF Inv

\* No step of any thread breaks the invariant.
LEMMA InvStep == ASSUME ZeroTaken = FALSE PROVE Inv /\ [Next]_vars => Inv'
<1> SUFFICES ASSUME Inv, [Next]_vars PROVE Inv'
  OBVIOUS
<1>1. CASE UNCHANGED vars
  BY <1>1 DEF vars, Inv, TypeOK, KeyInv, SlotInv, DeletedInv, LostInv, Object, Lost
<1>2. CASE Next
  BY <1>2, CallStep, GetStep, SetStep, ReturnStep, ThreadEndStep, ExitStep DEF Next, Inside
<1> QED
  BY <1>1, <1>2

(***************************************************************************)
(* Theorems                                                                *)
(***************************************************************************)

\* The key, the slots and the counts stay in their ranges.
THEOREM TypeInvariance == ASSUME ZeroTaken = FALSE PROVE Spec => []TypeOK
<1>1. Inv => TypeOK
  BY DEF Inv
<1> QED
  BY <1>1, InvInit, InvStep, PTL DEF Spec

\* However many threads call Instance, first calls and failures included,
\* each gets one object of its own, alive until it ends or calls exit().
THEOREM OneObjectEach == ASSUME ZeroTaken = FALSE PROVE Spec => []OneEach
<1>1. Inv => OneEach
  <2> SUFFICES ASSUME Inv, NEW t \in Thread
               PROVE  /\ \A o1, o2 \in given[t] : o1 = o2
                      /\ \A o \in given[t] : o[1] = t /\ o[2] > 0
                      /\ t \notin exiting \union ended => given[t] \intersect deleted = {}
    BY DEF OneEach
  <2>1. \A o \in given[t] : o = <<t, made[t]>> /\ o[1] = t /\ o[2] > 0
    BY DEF Inv, SlotInv, Object
  <2> QED
    BY <2>1 DEF Inv, DeletedInv
<1> QED
  BY <1>1, InvInit, InvStep, PTL DEF Spec

\* No object is deleted by both handlers, and a thread that ended left only
\* what a failing pthread_setspecific lost.
THEOREM EachReleasedOnce == ASSUME ZeroTaken = FALSE PROVE Spec => []ReleasedOnce
<1>1. Inv => ReleasedOnce
  <2> SUFFICES ASSUME Inv PROVE ReleasedOnce
    OBVIOUS
  <2>1. \A t \in ended : t \in Thread /\ Cardinality(Lost(t)) <= failures
    BY DEF Inv, TypeOK, LostInv
  <2> QED
    BY <2>1 DEF Inv, DeletedInv, ReleasedOnce, Lost
<1> QED
  BY <1>1, InvInit, InvStep, PTL DEF Spec
=============================================================================
