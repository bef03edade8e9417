----------------------------- MODULE TsdSingleton -----------------------------
(***************************************************************************)
(* CTSDSingleton<T> (include/neiku/singleton.h): one object per thread,    *)
(* kept under a pthread key.  The key is made once; a thread that ends     *)
(* deletes its object by the destructor of the key, and exit() deletes the *)
(* object of the thread that calls it by an atexit handler.                *)
(*                                                                         *)
(* m_thread_key is 0 until pthread_key_create wrote it, and 0 is a valid   *)
(* key: where another component has it, it is that component's key.        *)
(***************************************************************************)
EXTENDS Integers, FiniteSets

CONSTANTS
  Thread,
  ZeroTaken,     \* key 0 belongs to another component, with a value per thread
  MaxCalls,      \* bound: calls of Instance, all threads together
  MaxFailures    \* bound: failing pthread_setspecific and pthread_key_create

ASSUME TsdAssumption ==
  ZeroTaken \in BOOLEAN /\ MaxCalls \in Nat /\ MaxFailures \in Nat

VARIABLES
  once,       \* m_thread_once: "never", "running", "done"
  hooked,     \* number of registrations of KillMainThreadSingleton
  key,        \* m_thread_key: 0, or 1 for a key of its own
  slot,       \* value of that key in each thread: {} is NULL
  made,       \* number of objects each thread made
  pc,
  given,      \* every pointer Instance returned to each thread
  deleted,    \* the objects that were deleted
  twice,      \* those that were deleted again
  exiting,    \* the thread that called exit(), if any
  ended,      \* the threads that ended before
  calls, failures

vars == <<once, hooked, key, slot, made, pc, given, deleted, twice, exiting,
          ended, calls, failures>>

\* Objects are numbered by thread; number 0 is what the other component keeps
\* under key 0.
Foreign(t) == <<t, 0>>

Goto(t, from, to) == pc[t] = from /\ pc' = [pc EXCEPT ![t] = to]

\* pthread_getspecific(m_thread_key)
Value(t) == IF key = 1 THEN slot[t]
            ELSE IF ZeroTaken THEN {Foreign(t)} ELSE {}

Delete(objects) ==
  /\ twice' = twice \union (objects \intersect deleted)
  /\ deleted' = deleted \union objects

Init ==
  /\ once = "never" /\ hooked = 0 /\ key = 0
  /\ slot = [t \in Thread |-> {}]
  /\ made = [t \in Thread |-> 0]
  /\ pc = [t \in Thread |-> "idle"]
  /\ given = [t \in Thread |-> {}]
  /\ deleted = {} /\ twice = {} /\ exiting = {} /\ ended = {}
  /\ calls = 0 /\ failures = 0

-----------------------------------------------------------------------------
\* Instance is called; after exit() by static destructors at most.
Instance(t) ==
  /\ calls < MaxCalls /\ calls' = calls + 1
  /\ Goto(t, "idle", "once")
  /\ UNCHANGED <<once, hooked, key, slot, made, given, deleted, twice, exiting, ended, failures>>

\* A slip: a flag instead of pthread_once; others do not wait for CreateKey.
OnceFlag(t) ==
  /\ Goto(t, "once", IF once = "never" THEN "atexit" ELSE "get")
  /\ once' = IF once = "never" THEN "running" ELSE once
  /\ UNCHANGED <<hooked, key, slot, made, given, deleted, twice, exiting, ended, calls, failures>>

\* pthread_once: one thread runs CreateKey, the others wait for its end.
Once(t) ==
  /\ once # "running"
  /\ Goto(t, "once", IF once = "never" THEN "atexit" ELSE "get")
  /\ once' = IF once = "never" THEN "running" ELSE once
  /\ UNCHANGED <<hooked, key, slot, made, given, deleted, twice, exiting, ended, calls, failures>>

\* CreateKey: the handler first, then the key.
AtExit(t) ==
  /\ Goto(t, "atexit", "create")
  /\ hooked' = hooked + 1
  /\ UNCHANGED <<once, key, slot, made, given, deleted, twice, exiting, ended, calls, failures>>

\* A slip: pthread_once never learns that CreateKey has returned.
KeyCreateStays(t) ==
  /\ Goto(t, "create", "get")
  /\ key' = 1
  /\ UNCHANGED <<once, hooked, slot, made, given, deleted, twice, exiting, ended, calls, failures>>

\* The result of pthread_key_create is not looked at: with EAGAIN, every key
\* is taken and m_thread_key stays 0.
KeyCreate(t) ==
  \E k \in {1} \union (IF ZeroTaken /\ failures < MaxFailures THEN {0} ELSE {}) :
    /\ Goto(t, "create", "get")
    /\ key' = k /\ once' = "done"
    /\ failures' = failures + 1 - k
    /\ UNCHANGED <<hooked, slot, made, given, deleted, twice, exiting, ended, calls>>

\* A slip: no test for NULL, every call makes an object.
GetAnew(t) ==
  /\ Goto(t, "get", "set")
  /\ UNCHANGED <<once, hooked, key, slot, made, given, deleted, twice, exiting, ended, calls, failures>>

Get(t) ==
  /\ Goto(t, "get", IF Value(t) = {} THEN "set" ELSE "return")
  /\ UNCHANGED <<once, hooked, key, slot, made, given, deleted, twice, exiting, ended, calls, failures>>

\* pthread_setspecific(m_thread_key, new T).  It fails for want of memory or
\* of a key, and the new object is lost.
Set(t) ==
  \E stored \in {{}, {<<t, made[t] + 1>>}} :
    /\ IF stored = {} THEN key = 0 \/ failures < MaxFailures ELSE key = 1
    /\ Goto(t, "set", "return")
    /\ made' = [made EXCEPT ![t] = @ + 1]
    /\ slot' = [slot EXCEPT ![t] = stored]
    /\ failures' = IF stored = {} /\ key = 1 THEN failures + 1 ELSE failures
    /\ UNCHANGED <<once, hooked, key, given, deleted, twice, exiting, ended, calls>>

Return(t) ==
  /\ Goto(t, "return", "idle")
  /\ given' = [given EXCEPT ![t] = @ \union Value(t)]
  /\ UNCHANGED <<once, hooked, key, slot, made, deleted, twice, exiting, ended, calls, failures>>

-----------------------------------------------------------------------------
\* A thread ends: its slot is cleared, then KillSubThreadSingleton called.
ThreadEnd(t) ==
  /\ t \notin exiting
  /\ Goto(t, "idle", "ended")
  /\ ended' = ended \union {t}
  /\ slot' = [slot EXCEPT ![t] = {}]
  /\ Delete(slot[t])
  /\ UNCHANGED <<once, hooked, key, made, given, exiting, calls, failures>>

\* exit(): KillMainThreadSingleton runs in the thread that calls it, while
\* the others go on.  It leaves the slot as it is.
Exit(t) ==
  /\ exiting = {} /\ exiting' = {t}
  /\ pc[t] = "idle"
  /\ Delete(IF hooked > 0 THEN Value(t) ELSE {})
  /\ UNCHANGED <<once, hooked, key, slot, made, pc, given, ended, calls, failures>>

Inside(t) ==
  \/ Once(t) \/ AtExit(t) \/ KeyCreate(t) \/ Get(t) \/ Set(t) \/ Return(t)

Next == \E t \in Thread : Instance(t) \/ Inside(t) \/ ThreadEnd(t) \/ Exit(t)

Spec == Init /\ [][Next]_vars

\* A thread inside Instance is scheduled.
FairSpec == Spec /\ \A t \in Thread : WF_vars(Inside(t))

-----------------------------------------------------------------------------
(***************************************************************************)
(* Properties                                                              *)
(***************************************************************************)

\* Every variable holds what the code can put there.
TypeOK ==
  /\ once \in {"never", "running", "done"}
  /\ hooked \in Nat /\ key \in {0, 1}
  /\ slot \in [Thread -> SUBSET (Thread \X Nat)]
  /\ made \in [Thread -> Nat]
  /\ pc \in [Thread -> {"idle", "once", "atexit", "create", "get", "set", "return", "ended"}]
  /\ given \in [Thread -> SUBSET (Thread \X Nat)]
  /\ deleted \in SUBSET (Thread \X Nat) /\ twice \in SUBSET (Thread \X Nat)
  /\ exiting \in SUBSET Thread /\ ended \in SUBSET Thread
  /\ calls \in Nat /\ failures \in Nat

\* singleton.h, "each thread has one of its own": however often a thread
\* calls Instance it gets one object, its own, and until it ends or calls
\* exit() that object is alive.
OneEach ==
  \A t \in Thread :
    /\ \A o1, o2 \in given[t] : o1 = o2
    /\ \A o \in given[t] : o[1] = t /\ o[2] > 0
    /\ t \notin exiting \union ended => given[t] \intersect deleted = {}

\* What is deleted was made by Instance and is deleted once, by whichever of
\* the two handlers; a thread that ended left nothing behind but what a
\* failing pthread_setspecific lost.
ReleasedOnce ==
  /\ twice = {}
  /\ \A o \in deleted : o[2] \in 1 .. made[o[1]]
  /\ \A t \in ended : Cardinality({n \in 1 .. made[t] : <<t, n>> \notin deleted}) <= failures

\* Every call of Instance returns, also where threads wait for CreateKey.
CallReturns == \A t \in Thread : pc[t] = "once" ~> pc[t] = "idle"
=============================================================================
