---------------------------- MODULE LazySingleton ----------------------------
(***************************************************************************)
(* CLazySingleton<T>::Instance (include/neiku/singleton.h): a double       *)
(* checked lock around a local static object.  m_pInstance is a plain      *)
(* variable that threads read and write outside the mutex, so every load   *)
(* and every store of it is a step.                                        *)
(*                                                                         *)
(* Two builds exist.  With -O2, the flags of makefile.neiku, the pair      *)
(* ++m_pInstance; --m_pInstance ("to prevent optimisation") is folded away *)
(* and leaves no access.  Without optimisation it is a load and a store,   *)
(* twice.                                                                  *)
(***************************************************************************)
EXTENDS Integers, FiniteSets

CONSTANTS
  Thread,    \* the threads that call Instance
  Builds,    \* the builds: TRUE folds the increment and decrement away
  Object,    \* &oInstance, in units of sizeof(T)
  MaxCalls   \* bound: calls of Instance, all threads together

Null == 0

ASSUME ObjectAssumption == Object \in Int \ {Null}
ASSUME BuildAssumption  == Builds \subseteq BOOLEAN /\ MaxCalls \in Nat

VARIABLES
  folded,     \* the build that runs
  pInstance,  \* m_pInstance
  owner,      \* holder of m_mutex, a set of at most one thread
  made,       \* number of constructor runs of oInstance
  guard,      \* the compiler's guard variable of oInstance
  pc,
  reg,        \* the register of a read-modify-write
  ret,        \* every pointer that was ever returned
  calls

vars == <<folded, pInstance, owner, made, guard, pc, reg, ret, calls>>

PC == {"idle", "inc", "incstore", "dec", "decstore", "lock", "check",
       "build", "publish", "unlock", "return"}

Goto(t, from, to) == pc[t] = from /\ pc' = [pc EXCEPT ![t] = to]

Init ==
  /\ folded \in Builds
  /\ pInstance = Null
  /\ owner = {}
  /\ made = 0
  /\ guard = FALSE
  /\ pc = [t \in Thread |-> "idle"]
  /\ reg = [t \in Thread |-> Null]
  /\ ret = {}
  /\ calls = 0

\* if (!m_pInstance), outside the mutex
Instance(t) ==
  /\ calls < MaxCalls
  /\ calls' = calls + 1
  /\ Goto(t, "idle", IF pInstance # Null THEN "return"
                     ELSE IF folded THEN "lock" ELSE "inc")
  /\ UNCHANGED <<folded, pInstance, owner, made, guard, reg, ret>>

\* ++m_pInstance and --m_pInstance: load, then store
Load(t, from, to) ==
  /\ Goto(t, from, to)
  /\ reg' = [reg EXCEPT ![t] = pInstance]
  /\ UNCHANGED <<folded, pInstance, owner, made, guard, ret, calls>>

Store(t, from, to, by) ==
  /\ Goto(t, from, to)
  /\ pInstance' = reg[t] + by
  /\ UNCHANGED <<folded, owner, made, guard, reg, ret, calls>>

IncLoad(t)  == Load(t, "inc", "incstore")
IncStore(t) == Store(t, "incstore", "dec", 1)
DecLoad(t)  == Load(t, "dec", "decstore")
DecStore(t) == Store(t, "decstore", "lock", -1)

Lock(t) ==
  /\ owner = {}
  /\ Goto(t, "lock", "check")
  /\ owner' = {t}
  /\ UNCHANGED <<folded, pInstance, made, guard, reg, ret, calls>>

\* A slip: a loop where the second if belongs.
CheckLoops(t) ==
  /\ Goto(t, "check", IF pInstance = Null THEN "build" ELSE "check")
  /\ UNCHANGED <<folded, pInstance, owner, made, guard, reg, ret, calls>>

\* A slip: the pointer is published and the object not constructed.
CheckPublishes(t) ==
  /\ Goto(t, "check", IF pInstance = Null THEN "publish" ELSE "unlock")
  /\ UNCHANGED <<folded, pInstance, owner, made, guard, reg, ret, calls>>

\* if (!m_pInstance), inside the mutex
Check(t) ==
  /\ Goto(t, "check", IF pInstance = Null THEN "build" ELSE "unlock")
  /\ UNCHANGED <<folded, pInstance, owner, made, guard, reg, ret, calls>>

\* static T oInstance: constructed when control first passes by
Build(t) ==
  /\ Goto(t, "build", "publish")
  /\ made' = IF guard THEN made ELSE made + 1
  /\ guard' = TRUE
  /\ UNCHANGED <<folded, pInstance, owner, reg, ret, calls>>

\* m_pInstance = &oInstance
Publish(t) ==
  /\ Goto(t, "publish", "unlock")
  /\ pInstance' = Object
  /\ UNCHANGED <<folded, owner, made, guard, reg, ret, calls>>

Unlock(t) ==
  /\ Goto(t, "unlock", "return")
  /\ owner' = owner \ {t}
  /\ UNCHANGED <<folded, pInstance, made, guard, reg, ret, calls>>

\* return m_pInstance: another load
Return(t) ==
  /\ Goto(t, "return", "idle")
  /\ ret' = ret \union {pInstance}
  /\ UNCHANGED <<folded, pInstance, owner, made, guard, reg, calls>>

Step(t) ==
  \/ IncLoad(t) \/ IncStore(t) \/ DecLoad(t) \/ DecStore(t)
  \/ Lock(t) \/ Check(t) \/ Build(t) \/ Publish(t) \/ Unlock(t) \/ Return(t)

\* All calls are made and have returned.
Done ==
  /\ calls = MaxCalls /\ \A t \in Thread : pc[t] = "idle"
  /\ UNCHANGED vars

Next == (\E t \in Thread : Instance(t) \/ Step(t)) \/ Done

Spec == Init /\ [][Next]_vars

\* Every thread inside Instance is scheduled.  Calls are finitely many, so
\* a thread waiting for the mutex is not passed over for ever.
FairSpec == Spec /\ \A t \in Thread : WF_vars(Step(t))

-----------------------------------------------------------------------------
(***************************************************************************)
(* Properties                                                              *)
(***************************************************************************)

\* Every variable holds what the code can put there; the mutex has at most
\* one owner.
TypeOK ==
  /\ folded \in Builds
  /\ pInstance \in Int
  /\ owner \in SUBSET Thread
  /\ made \in Nat
  /\ guard \in BOOLEAN
  /\ pc \in [Thread -> PC]
  /\ reg \in [Thread -> Int]
  /\ ret \in SUBSET Int
  /\ calls \in Nat

\* singleton.h, "thread safe (shared)": every call gives out the one object,
\* never NULL, and its constructor has run by then.
ReturnsInstance == ret \subseteq {Object} /\ (ret # {} => made = 1)

\* In the build with the flags of makefile.neiku, that is so.
FoldedReturns == folded => ReturnsInstance

\* Every call returns.
CallReturns == \A t \in Thread : pc[t] # "idle" ~> pc[t] = "idle"
=============================================================================
