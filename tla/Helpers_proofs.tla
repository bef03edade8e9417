---------------------------- MODULE Helpers_proofs ----------------------------
EXTENDS LazySingleton, Algorithms, TLAPS, WellFoundedInduction, FiniteSetTheorems

\* The guard of the static object counts its constructor runs.
GuardInv == guard \in BOOLEAN /\ made = IF guard THEN 1 ELSE 0

\* In the folded build m_pInstance moves from NULL to the object, which is
\* constructed by then, and a thread past its checks has seen it there.
FoldedInv ==
  /\ pc \in [Thread -> PC \ {"inc", "incstore", "dec", "decstore"}]
  /\ pInstance \in {Null, Object}
  /\ pInstance = Object => guard
  /\ \A t \in Thread : pc[t] = "publish" => guard
  /\ \A t \in Thread : pc[t] \in {"unlock", "return"} => pInstance = Object
  /\ ret \subseteq {Object}
  /\ ret # {} => guard

\* The constructor runs under the guard, once.
LEMMA GuardInvariance == Spec => []GuardInv
<1>1. Init => GuardInv BY DEF Init, GuardInv
<1>2. GuardInv /\ [Next]_vars => GuardInv'
  <2> SUFFICES ASSUME GuardInv, [Next]_vars PROVE GuardInv' OBVIOUS
  <2>1. ASSUME NEW t \in Thread, Build(t) PROVE GuardInv' BY <2>1 DEF Build, GuardInv
  <2>2. ASSUME NEW t \in Thread, Instance(t) \/ (Step(t) /\ ~Build(t))
        PROVE  UNCHANGED <<guard, made>>
    BY <2>2 DEF Instance, Step, IncLoad, IncStore, DecLoad, DecStore, Load, Store,
                Lock, Check, Publish, Unlock, Return
  <2>3. UNCHANGED <<guard, made>> => GuardInv' BY DEF GuardInv
  <2> QED BY <2>1, <2>2, <2>3 DEF Next, Done, vars
<1> QED BY <1>1, <1>2, PTL DEF Spec

\* In the build of makefile.neiku every call, from any number of threads,
\* returns the constructed object.
THEOREM FoldedReturnsInstance == Spec => []FoldedReturns
<1>1. Init => (folded => FoldedInv) BY ObjectAssumption DEF Init, FoldedInv, PC
<1>2. GuardInv /\ (folded => FoldedInv) /\ [Next]_vars => (folded => FoldedInv)'
  <2>0. [Next]_vars => folded' = folded
    BY DEF Next, Step, Instance, IncLoad, IncStore, DecLoad, DecStore, Load, Store,
           Lock, Check, Build, Publish, Unlock, Return, Done, vars
  <2> SUFFICES ASSUME GuardInv, folded, FoldedInv, [Next]_vars PROVE FoldedInv' BY <2>0, Zenon
  <2> USE ObjectAssumption DEF FoldedInv, PC, Goto, Null
  <2>1. ASSUME NEW t \in Thread, Instance(t) PROVE FoldedInv' BY <2>1 DEF Instance
  <2>2. ASSUME NEW t \in Thread, IncLoad(t) \/ IncStore(t) \/ DecLoad(t) \/ DecStore(t)
        PROVE  FALSE BY <2>2 DEF IncLoad, IncStore, DecLoad, DecStore, Load, Store
  <2>3. ASSUME NEW t \in Thread, Lock(t) PROVE FoldedInv' BY <2>3 DEF Lock
  <2>4. ASSUME NEW t \in Thread, Check(t) PROVE FoldedInv' BY <2>4 DEF Check
  <2>5. ASSUME NEW t \in Thread, Build(t) PROVE FoldedInv' BY <2>5 DEF Build
  <2>6. ASSUME NEW t \in Thread, Publish(t) PROVE FoldedInv' BY <2>6 DEF Publish
  <2>7. ASSUME NEW t \in Thread, Unlock(t) PROVE FoldedInv' BY <2>7 DEF Unlock
  <2>8. ASSUME NEW t \in Thread, Return(t) PROVE FoldedInv' BY <2>8 DEF Return
  <2>9. ASSUME UNCHANGED vars PROVE FoldedInv' BY <2>9 DEF vars
  <2> QED BY <2>1, <2>2, <2>3, <2>4, <2>5, <2>6, <2>7, <2>8, <2>9 DEF Next, Step, Done
<1>3. GuardInv /\ (folded => FoldedInv) => FoldedReturns
  BY DEF GuardInv, FoldedInv, FoldedReturns, ReturnsInstance
<1> QED BY <1>1, <1>2, <1>3, GuardInvariance, PTL DEF Spec

\* A set of numbers has a least one: what every induction here rests on.
LEMMA LeastNumber ==
  ASSUME NEW T, T \subseteq Nat, T # {}
  PROVE  \E n \in T : \A m \in T : n <= m
<1> DEFINE R == StrictSubsetOrdering(Nat)
           F == FiniteSubsetsOf(Nat)
           U == {1 .. n : n \in T}
<1>1. IsWellFoundedOn(R, F) BY FS_StrictSubsetOrderingWellFounded
<1>2. U \subseteq F BY FS_Interval DEF FiniteSubsetsOf
<1>u. U # {} OBVIOUS
<1>3. \E x \in U : \A y \in U : ~(<<y, x>> \in R)
  <2> HIDE DEF R, F, U
  <2> QED BY <1>1, <1>2, <1>u, WFMin
<1>4. PICK n \in T : \A m \in T : ~(<<1 .. m, 1 .. n>> \in R) BY <1>3
<1>5. ASSUME NEW m \in T, m < n PROVE FALSE
  <2>1. 1 .. m \subseteq 1 .. n /\ 1 .. m # 1 .. n BY <1>5
  <2>2. <<1 .. m, 1 .. n>> \in R BY <2>1 DEF StrictSubsetOrdering
  <2> QED BY <2>2, <1>4
<1> QED BY <1>5

\* Induction over the members of a set of numbers T: there is no first number
\* up to m that is not in it.
LEMMA Induct ==
  ASSUME NEW T, 0 \in T, \A n \in Nat : n \in T => n + 1 \in T
  PROVE  Nat \subseteq T
<1> SUFFICES ASSUME Nat \ T # {} PROVE FALSE OBVIOUS
<1>1. PICK n \in Nat \ T : \A m \in Nat \ T : n <= m BY LeastNumber
<1>2. n # 0 /\ n - 1 \in Nat BY <1>1
<1>3. n - 1 \in T BY <1>1, <1>2
<1> QED BY <1>2, <1>3

\* Induction upwards and downwards in an interval.
GrowsUp(a, b, T) ==
  a \in Int /\ b \in Int /\ \A k \in a .. b : (\A j \in a .. k - 1 : j \in T) => k \in T
GrowsDown(a, b, T) ==
  a \in Int /\ b \in Int /\ \A k \in a .. b : (\A j \in k + 1 .. b : j \in T) => k \in T

\* In an interval, what holds of a number when it holds of all below it holds of all.
LEMMA Upwards ==
  ASSUME NEW a, NEW b, NEW T, GrowsUp(a, b, T)
  PROVE  a .. b \subseteq T
<1> USE DEF GrowsUp
<1> DEFINE B == {n \in Nat : a + n \in a .. b /\ a + n \notin T}
<1> SUFFICES ASSUME NEW k \in a .. b, k \notin T PROVE FALSE OBVIOUS
<1>1. k - a \in B OBVIOUS
<1>2. PICK n \in B : \A m \in B : n <= m
  <2>1. B \subseteq Nat /\ B # {} BY <1>1
  <2> HIDE DEF B
  <2> QED BY <2>1, LeastNumber
<1>3. ASSUME NEW j \in a .. a + n - 1 PROVE j \in T
  <2>1. j - a \in Nat /\ j - a < n /\ a + (j - a) = j /\ j \in a .. b BY <1>2
  <2> QED BY <2>1, <1>2
<1> QED BY <1>2, <1>3

\* The same from the end of the interval.
LEMMA Downwards ==
  ASSUME NEW a, NEW b, NEW T, GrowsDown(a, b, T)
  PROVE  a .. b \subseteq T
<1> USE DEF GrowsDown
<1> DEFINE B == {n \in Nat : b - n \in a .. b /\ b - n \notin T}
<1> SUFFICES ASSUME NEW k \in a .. b, k \notin T PROVE FALSE OBVIOUS
<1>1. b - k \in B OBVIOUS
<1>2. PICK n \in B : \A m \in B : n <= m
  <2>1. B \subseteq Nat /\ B # {} BY <1>1
  <2> HIDE DEF B
  <2> QED BY <2>1, LeastNumber
<1>3. ASSUME NEW j \in b - n + 1 .. b PROVE j \in T
  <2>1. b - j \in Nat /\ b - j < n /\ b - (b - j) = j /\ j \in a .. b BY <1>2
  <2> QED BY <2>1, <1>2
<1> QED BY <1>2, <1>3

\* st[i][f] is the value for i where f has those of lower rank; there are m
\* ranks.
Ranked(D, V, rank, m, st) ==
  /\ V # {} /\ m \in Nat
  /\ rank \in [D -> Nat] /\ \A i \in D : rank[i] < m
  /\ st \in [D -> [[D -> V] -> V]]
  /\ \A i \in D : \A f, g \in [D -> V] :
       (\A j \in D : rank[j] < rank[i] => f[j] = g[j]) => st[i][f] = st[i][g]

\* f is what the steps make of each i.
Solution(D, V, st, f) == f \in [D -> V] /\ \A i \in D : f[i] = st[i][f]

\* A recursive function that asks for values of lower rank only has a solution.
LEMMA RecursionOnRank ==
  ASSUME NEW D, NEW V, NEW rank, NEW m, NEW st, Ranked(D, V, rank, m, st)
  PROVE  \E f : Solution(D, V, st, f)
<1> USE DEF Ranked
<1> DEFINE Upto(n) == \E f \in [D -> V] : \A i \in D : rank[i] < n => f[i] = st[i][f]
           T == {n \in Nat : Upto(n)}
<1>1. 0 \in T
  <2>1. PICK v \in V : TRUE OBVIOUS
  <2>2. [i \in D |-> v] \in [D -> V] OBVIOUS
  <2>3. \A i \in D : ~(rank[i] < 0) OBVIOUS
  <2>4. Upto(0) BY <2>2, <2>3
  <2> QED BY <2>4
<1>2. ASSUME NEW n \in Nat, n \in T PROVE n + 1 \in T
  <2>1. PICK f \in [D -> V] : \A i \in D : rank[i] < n => f[i] = st[i][f] BY <1>2
  <2> DEFINE g == [i \in D |-> st[i][f]]
  <2>2. g \in [D -> V] OBVIOUS
  <2>3. ASSUME NEW i \in D, rank[i] < n + 1 PROVE g[i] = st[i][g]
    <3>1. \A j \in D : rank[j] < rank[i] => f[j] = g[j] BY <2>1, <2>3
    <3>2. st[i][f] = st[i][g] BY <3>1, <2>2
    <3> QED BY <3>2
  <2>4. Upto(n + 1) BY <2>2, <2>3
  <2> QED BY <2>4
<1>3. Nat \subseteq T
  <2> HIDE DEF T
  <2> QED BY <1>1, <1>2, Induct
<1>4. Upto(m) BY <1>3
<1> QED BY <1>4 DEF Solution

\* A function over 0 .. n by a first value and a step.
Steps(n, V, base, st) == n \in Nat /\ base \in V /\ st \in [1 .. n -> [V -> V]]
Iterates(n, V, base, st, f) ==
  f \in [0 .. n -> V] /\ f[0] = base /\ \A i \in 1 .. n : f[i] = st[i][f[i - 1]]

\* A loop over 1 .. n has the values its steps give it.
LEMMA Iteration ==
  ASSUME NEW n, NEW V, NEW base, NEW st, Steps(n, V, base, st)
  PROVE  \E f : Iterates(n, V, base, st, f)
<1> USE DEF Steps
<1> DEFINE D == 0 .. n
           rank == [i \in D |-> i]
           step == [i \in D |-> [f \in [D -> V] |-> IF i = 0 THEN base ELSE st[i][f[i - 1]]]]
<1>1. rank \in [D -> Nat] /\ \A i \in D : rank[i] < n + 1 OBVIOUS
<1>2. step \in [D -> [[D -> V] -> V]] OBVIOUS
<1>3. ASSUME NEW i \in D, NEW f \in [D -> V], NEW g \in [D -> V],
             \A j \in D : rank[j] < rank[i] => f[j] = g[j]
      PROVE  step[i][f] = step[i][g]
  <2>1. CASE i = 0 BY <2>1
  <2>2. CASE i # 0
    <3>1. i - 1 \in D /\ rank[i - 1] < rank[i] BY <2>2
    <3> QED BY <3>1, <1>3, <2>2
  <2> QED BY <2>1, <2>2
<1>4. Ranked(D, V, rank, n + 1, step)
  <2>1. V # {} /\ n + 1 \in Nat OBVIOUS
  <2> HIDE DEF D, rank, step
  <2> QED BY <1>1, <1>2, <1>3, <2>1 DEF Ranked
<1>5. PICK f \in [D -> V] : \A i \in D : f[i] = step[i][f]
  <2> HIDE DEF D, rank, step
  <2>1. PICK f : Solution(D, V, step, f) BY <1>4, RecursionOnRank
  <2> QED BY <2>1 DEF Solution
<1>6. f[0] = base BY <1>5
<1>7. ASSUME NEW i \in 1 .. n PROVE f[i] = st[i][f[i - 1]] BY <1>5
<1> QED BY <1>6, <1>7 DEF Iterates

------------------------
\* so: the beginnings of what FlattenSeq makes of parts.
Beginnings(X, parts, so) ==
  /\ so \in [0 .. Len(parts) -> Seq(X)]
  /\ so[0] = <<>>
  /\ \A i \in 1 .. Len(parts) : so[i] = so[i - 1] \o parts[i]
  /\ Code!FlattenSeq(parts) = so[Len(parts)]

\* FlattenSeq puts the parts together from left to right: so[i] is what the
\* first i parts make.
LEMMA Flattened ==
  ASSUME NEW X, NEW parts \in Seq(Seq(X))
  PROVE  \E so : Beginnings(X, parts, so)
<1> DEFINE n == Len(parts)
           st == [i \in 1 .. n |-> [v \in Seq(X) |-> v \o parts[i]]]
<1>1. PICK f : Iterates(n, Seq(X), <<>>, st, f)
  <2>1. st \in [1 .. n -> [Seq(X) -> Seq(X)]] OBVIOUS
  <2>2. Steps(n, Seq(X), <<>>, st) BY <2>1 DEF Steps
  <2> HIDE DEF n, st
  <2> QED BY <2>2, Iteration
<1>2. f \in [0 .. n -> Seq(X)] /\ f[0] = <<>> BY <1>1 DEF Iterates
<1>3. n \in Nat OBVIOUS
<1>n. n = Len(parts) OBVIOUS
<1> HIDE DEF n
<1>4. ASSUME NEW i \in 1 .. n PROVE f[i - 1] \in Seq(X) /\ f[i] = f[i - 1] \o parts[i]
  <2>1. i - 1 \in 0 .. n BY <1>3
  <2>2. f[i - 1] \in Seq(X) BY <2>1, <1>2
  <2>3. f[i] = st[i][f[i - 1]] BY <1>1 DEF Iterates
  <2> QED BY <2>2, <2>3
<1> HIDE DEF st
<1>5. CASE n = 0 BY <1>2, <1>5, <1>n DEF Code!FlattenSeq, Beginnings
<1>6. CASE n # 0
  <2> DEFINE Eq(g) == g = [i \in 1 .. n |-> IF i = 1 THEN parts[i] ELSE g[i - 1] \o parts[i]]
             fl == CHOOSE g : Eq(g)
  <2>1. f[1] = parts[1]
    <3>1. 1 \in 1 .. n /\ parts[1] \in Seq(X) BY <1>3, <1>6, <1>n
    <3>2. f[1] = f[1 - 1] \o parts[1] BY <3>1, <1>4
    <3>3. f[1 - 1] = <<>> BY <1>2
    <3> QED BY <3>1, <3>2, <3>3
  <2>2. Eq([i \in 1 .. n |-> f[i]])
    <3>1. \A i \in 1 .. n : i # 1 => i - 1 \in 1 .. n BY <1>3
    <3> QED BY <2>1, <1>4, <3>1
  <2>3. Eq(fl) BY <2>2
  <2>4. Code!FlattenSeq(parts) = fl[n] BY <1>6, <1>n DEF Code!FlattenSeq
  <2> HIDE DEF fl
  <2>5. \A i \in 1 .. n : fl[i] = IF i = 1 THEN parts[i] ELSE fl[i - 1] \o parts[i] BY <2>3
  <2> DEFINE T == {i \in Int : fl[i] = f[i]}
  <2>6. ASSUME NEW k \in 1 .. n, \A j \in 1 .. k - 1 : j \in T PROVE k \in T
    <3>1. CASE k = 1 BY <3>1, <2>1, <2>5, <1>3
    <3>2. CASE k # 1
      <4>1. k - 1 \in 1 .. k - 1 BY <3>2, <1>3
      <4>2. fl[k - 1] = f[k - 1] BY <4>1, <2>6
      <4>3. fl[k] = fl[k - 1] \o parts[k] /\ f[k] = f[k - 1] \o parts[k] BY <3>2, <2>5, <1>4
      <4>4. fl[k] = f[k] /\ k \in Int BY <4>2, <4>3, <1>3
      <4> QED BY <4>4
    <3> QED BY <3>1, <3>2
  <2>7. 1 .. n \subseteq T
    <3> HIDE DEF T
    <3>1. GrowsUp(1, n, T) BY <1>3, <2>6 DEF GrowsUp
    <3> QED BY <3>1, Upwards
  <2>8. fl[n] = f[n] BY <2>7, <1>3, <1>6
  <2> QED BY <2>4, <2>8, <1>2, <1>4, <1>n DEF Beginnings
<1> QED BY <1>3, <1>5, <1>6

\* a is the beginning of b.
Prefix(a, b) == Len(a) <= Len(b) /\ \A q \in 1 .. Len(a) : b[q] = a[q]

\* Two texts behind each other: the first is a prefix, the second stands behind it.
LEMMA Joint ==
  ASSUME NEW X, NEW a \in Seq(X), NEW b \in Seq(X)
  PROVE  /\ a \o b \in Seq(X) /\ Len(a) \in Nat /\ Len(b) \in Nat
         /\ Len(a \o b) = Len(a) + Len(b)
         /\ \A p \in 1 .. Len(b) : (a \o b)[Len(a) + p] = b[p] /\ Len(a) + p \in 1 .. Len(a \o b)
         /\ Prefix(a, a \o b) BY DEF Prefix

\* A prefix of a prefix.
LEMMA PrefixOfMore ==
  ASSUME NEW X, NEW a \in Seq(X), NEW b \in Seq(X), NEW c \in Seq(X), Prefix(a, b), Prefix(b, c)
  PROVE  Prefix(a, c) BY DEF Prefix

\* Each part stands in the whole, behind those before it.
InPlace(parts, so, i) ==
  /\ Len(so[i - 1]) + Len(parts[i]) = Len(so[i])
  /\ Len(so[i]) <= Len(Code!FlattenSeq(parts))
  /\ \A p \in 1 .. Len(parts[i]) : Code!FlattenSeq(parts)[Len(so[i - 1]) + p] = parts[i][p]

\* What FlattenSeq makes has every part in its place.
LEMMA PartsInPlace ==
  ASSUME NEW X, NEW parts \in Seq(Seq(X)), NEW so, Beginnings(X, parts, so), NEW i \in 1 .. Len(parts)
  PROVE  InPlace(parts, so, i)
<1> DEFINE n == Len(parts)
<1>1. n \in Nat /\ i \in 1 .. n /\ i - 1 \in 0 .. n OBVIOUS
<1>2. so \in [0 .. n -> Seq(X)] /\ Code!FlattenSeq(parts) = so[n] BY DEF Beginnings
<1>3. \A k \in 1 .. n : so[k] = so[k - 1] \o parts[k] BY DEF Beginnings
<1>4. \A k \in 1 .. n : parts[k] \in Seq(X) OBVIOUS
<1> HIDE DEF n
<1>5. ASSUME NEW k \in 1 .. n
      PROVE  so[k - 1] \in Seq(X) /\ so[k] \in Seq(X) /\ so[k] = so[k - 1] \o parts[k]
  <2>1. k - 1 \in 0 .. n /\ k \in 0 .. n BY <1>1
  <2> QED BY <2>1, <1>2, <1>3
<1> DEFINE a == so[i - 1] b == parts[i]
           T == {k \in Int : Prefix(so[i], so[k])}
<1>6. a \in Seq(X) /\ b \in Seq(X) /\ so[i] = a \o b /\ so[i] \in Seq(X) BY <1>1, <1>4, <1>5
<1>7. ASSUME NEW k \in i .. n, \A j \in i .. k - 1 : j \in T PROVE k \in T
  <2>1. CASE k = i
    <3>1. Prefix(so[i], so[i]) /\ k \in Int BY <1>6, <1>1 DEF Prefix
    <3> QED BY <3>1, <2>1
  <2>2. CASE k # i
    <3>1. k \in 1 .. n /\ k - 1 \in i .. k - 1 /\ k \in Int BY <2>2, <1>1
    <3>2. Prefix(so[i], so[k - 1]) BY <3>1, <1>7
    <3>3. so[k - 1] \in Seq(X) /\ so[k] = so[k - 1] \o parts[k] /\ so[k] \in Seq(X) BY <3>1, <1>5
    <3>4. Prefix(so[k - 1], so[k]) BY <3>1, <3>3, <1>4, Joint
    <3>5. Prefix(so[i], so[k]) BY <3>2, <3>3, <3>4, <1>6, PrefixOfMore
    <3> QED BY <3>1, <3>5
  <2> QED BY <2>1, <2>2
<1>8. i .. n \subseteq T
  <2> HIDE DEF T
  <2>1. GrowsUp(i, n, T) BY <1>1, <1>7 DEF GrowsUp
  <2> QED BY <2>1, Upwards
<1>9. Prefix(so[i], so[n]) BY <1>8, <1>1
<1> HIDE DEF a, b, T
<1>10. /\ Len(so[i]) = Len(a) + Len(b)
       /\ \A p \in 1 .. Len(b) : so[i][Len(a) + p] = b[p] /\ Len(a) + p \in 1 .. Len(so[i])
  BY <1>6, Joint
<1>11. \A p \in 1 .. Len(b) : so[n][Len(a) + p] = b[p] BY <1>9, <1>10 DEF Prefix
<1>12. Len(so[i]) <= Len(so[n]) BY <1>9 DEF Prefix
<1> QED BY <1>2, <1>10, <1>11, <1>12 DEF a, b, InPlace

\* One turn of the loop of the decoders: what it makes of byte i and how far
\* it goes on.
Turn(e, plus, i, rest) ==
  IF e[i] = Code!Percent /\ i + 2 <= Len(e)
  THEN <<(16 * Code!HexValue(e[i + 1]) + Code!HexValue(e[i + 2])) % 256>> \o rest[i + 3]
  ELSE <<IF e[i] = Code!Plus THEN plus ELSE e[i]>> \o rest[i + 1]

\* The hexadecimal digits of utility.cpp: the value of a digit is what it was made of.
LEMMA HexDigits ==
  /\ \A n \in 0 .. 15 : Code!HexDigit(n) \in Code!Byte /\ Code!HexValue(Code!HexDigit(n)) = n
  /\ \A c : Code!HexValue(c) \in 0 .. 15
BY DEF Code!HexDigit, Code!HexValue, Code!Digit, Code!Byte

\* A byte is its two hexadecimal digits.
LEMMA TwoDigits ==
  ASSUME NEW c \in Code!Byte
  PROVE  c \div 16 \in 0 .. 15 /\ c % 16 \in 0 .. 15 /\ (16 * (c \div 16) + (c % 16)) % 256 = c
BY DEF Code!Byte

\* The recursion of the decoders meets its equation.
LEMMA DecodeTurns ==
  ASSUME NEW e \in Seq(Code!Byte), NEW plus \in Code!Byte
  PROVE  \E from : /\ Code!Decode(e, plus) = from[1]
                   /\ from[Len(e) + 1] = <<>>
                   /\ \A i \in 1 .. Len(e) : from[i] = Turn(e, plus, i, from)
<1> DEFINE n == Len(e)
           D == 1 .. n + 1
           V == Seq(Code!Byte)
           rank == [i \in D |-> n + 1 - i]
           st == [i \in D |-> [f \in [D -> V] |-> IF i > n THEN <<>> ELSE Turn(e, plus, i, f)]]
<1>1. n \in Nat /\ \A i \in 1 .. n : e[i] \in Code!Byte OBVIOUS
<1>n. n = Len(e) OBVIOUS
<1> HIDE DEF n
<1>2. rank \in [D -> Nat] /\ \A i \in D : rank[i] < n + 1 BY <1>1
<1>3. ASSUME NEW i \in D, NEW f \in [D -> V], i <= n
      PROVE  Turn(e, plus, i, f) \in V
  <2>1. i + 1 \in D /\ f[i + 1] \in V BY <1>1, <1>3
  <2>2. CASE e[i] = Code!Percent /\ i + 2 <= n
    <3>1. i + 3 \in D /\ f[i + 3] \in V BY <1>1, <2>2
    <3>2. \A a, b \in 0 .. 15 : (16 * a + b) % 256 \in Code!Byte BY DEF Code!Byte
    <3>3. (16 * Code!HexValue(e[i + 1]) + Code!HexValue(e[i + 2])) % 256 \in Code!Byte
      BY <3>2, HexDigits
    <3> HIDE DEF D
    <3> QED BY <3>1, <3>3, <2>2, <1>n DEF Turn
  <2>3. CASE ~(e[i] = Code!Percent /\ i + 2 <= n)
    <3>1. e[i] \in Code!Byte BY <1>1, <1>3
    <3> HIDE DEF D
    <3> QED BY <3>1, <2>1, <2>3, <1>n DEF Turn
  <2> QED BY <2>2, <2>3
<1>4. st \in [D -> [[D -> V] -> V]]
  <2>1. <<>> \in V OBVIOUS
  <2> HIDE DEF D, V
  <2>2. \A i \in D : i <= n \/ i > n BY <1>1 DEF D
  <2> QED BY <2>1, <2>2, <1>3
<1>5. ASSUME NEW i \in D, NEW f \in [D -> V], NEW g \in [D -> V],
             \A j \in D : rank[j] < rank[i] => f[j] = g[j]
      PROVE  st[i][f] = st[i][g]
  <2>1. CASE i > n BY <2>1
  <2>2. CASE ~(i > n)
    <3>1. i + 1 \in D /\ rank[i + 1] < rank[i] BY <2>2, <1>1
    <3>2. f[i + 1] = g[i + 1] BY <3>1, <1>5
    <3>3. i + 2 <= n => i + 3 \in D /\ rank[i + 3] < rank[i] BY <2>2, <1>1
    <3>4. i + 2 <= n => f[i + 3] = g[i + 3] BY <3>3, <1>5
    <3>5. Turn(e, plus, i, f) = Turn(e, plus, i, g) BY <3>2, <3>4, <1>n DEF Turn
    <3> HIDE DEF D, V
    <3> QED BY <3>5, <2>2
  <2> QED BY <2>1, <2>2
<1>6. Ranked(D, V, rank, n + 1, st)
  <2>1. V # {} /\ n + 1 \in Nat BY <1>1
  <2> HIDE DEF D, V, rank, st
  <2> QED BY <1>2, <1>4, <1>5, <2>1 DEF Ranked
<1>7. PICK f : Solution(D, V, st, f)
  <2> HIDE DEF D, V, rank, st
  <2> QED BY <1>6, RecursionOnRank
<1> DEFINE Eq(h) == h = [i \in 1 .. Len(e) + 1 |-> IF i > Len(e) THEN <<>> ELSE Turn(e, plus, i, h)]
           from == CHOOSE h : Eq(h)
<1>8. Eq(f)
  <2>1. f \in [D -> V] /\ \A i \in D : f[i] = st[i][f] BY <1>7 DEF Solution
  <2>2. \A i \in D : f[i] = IF i > n THEN <<>> ELSE Turn(e, plus, i, f)
    <3> HIDE DEF D, V
    <3> QED BY <2>1
  <2> QED BY <2>1, <2>2, <1>n
<1>9. Eq(from) BY <1>8
<1>10. Code!Decode(e, plus) = from[1] BY DEF Code!Decode, Turn
<1> HIDE DEF from
<1>11. \A i \in 1 .. n + 1 : from[i] = IF i > n THEN <<>> ELSE Turn(e, plus, i, from) BY <1>9, <1>n
<1>12. n + 1 \in 1 .. n + 1 /\ \A i \in 1 .. n : i \in 1 .. n + 1 /\ ~(i > n) BY <1>1
<1> QED BY <1>10, <1>11, <1>12, <1>n, <1>1

\* What the encoders make of a byte, and the decoders of that.
Encodes(part, c, plus) ==
  \/ part = Code!Escaped(c)
  \/ \E b \in Code!Byte : b # Code!Percent /\ part = <<b>> /\ c = IF b = Code!Plus THEN plus ELSE b

\* Whatever has been encoded byte by byte is decoded byte by byte.
LEMMA DecodesParts ==
  ASSUME NEW s \in Seq(Code!Byte), NEW plus \in Code!Byte, NEW parts \in Seq(Seq(Code!Byte)),
         Len(parts) = Len(s), \A i \in 1 .. Len(s) : Encodes(parts[i], s[i], plus)
  PROVE  Code!Decode(Code!FlattenSeq(parts), plus) = s
<1> DEFINE n == Len(s)
           e == Code!FlattenSeq(parts)
<1>1. PICK so : Beginnings(Code!Byte, parts, so) BY Flattened
<1>2. n \in Nat /\ n = Len(parts) /\ \A i \in 1 .. n : s[i] \in Code!Byte OBVIOUS
<1>3. so \in [0 .. n -> Seq(Code!Byte)] /\ so[0] = <<>> /\ e = so[n] /\ e \in Seq(Code!Byte)
  BY <1>1, <1>2 DEF Beginnings
<1>4. PICK from : /\ Code!Decode(e, plus) = from[1]
                  /\ from[Len(e) + 1] = <<>>
                  /\ \A i \in 1 .. Len(e) : from[i] = Turn(e, plus, i, from) BY <1>3, DecodeTurns
<1>5. ASSUME NEW i \in 1 .. n
      PROVE  /\ Len(so[i - 1]) + Len(parts[i]) = Len(so[i])
             /\ Len(so[i]) <= Len(e)
             /\ \A p \in 1 .. Len(parts[i]) : e[Len(so[i - 1]) + p] = parts[i][p]
  <2>1. i \in 1 .. Len(parts) BY <1>2
  <2> HIDE DEF n, e
  <2>2. InPlace(parts, so, i) BY <2>1, <1>1, PartsInPlace
  <2> QED BY <2>2 DEF InPlace, e
<1>6. \A i \in 0 .. n : Len(so[i]) \in Nat BY <1>3
<1>s. n = Len(s) /\ s \in Seq(Code!Byte) OBVIOUS
<1> HIDE DEF n, e
<1> DEFINE T == {i \in Int : from[Len(so[i]) + 1] = SubSeq(s, i + 1, n)}
<1>7. ASSUME NEW k \in 0 .. n, \A j \in k + 1 .. n : j \in T PROVE k \in T
  <2>1. CASE k = n
    <3>1. SubSeq(s, n + 1, n) = <<>> BY <1>s
    <3>2. k \in Int /\ from[Len(so[k]) + 1] = <<>> BY <2>1, <1>2, <1>3, <1>4
    <3> QED BY <3>1, <3>2, <2>1
  <2>2. CASE k # n
    <3> DEFINE i == k + 1
               at == Len(so[k])
    <3>1. i \in 1 .. n /\ i \in k + 1 .. n /\ i - 1 = k /\ k \in Int BY <2>2, <1>2
    <3>2. at \in Nat /\ Len(so[i]) \in Nat /\ Len(e) \in Nat BY <3>1, <1>6, <1>2, <1>3
    <3>3. from[Len(so[i]) + 1] = SubSeq(s, i + 1, n) BY <3>1, <1>7
    <3>4. /\ at + Len(parts[i]) = Len(so[i]) /\ Len(so[i]) <= Len(e)
          /\ \A p \in 1 .. Len(parts[i]) : e[at + p] = parts[i][p] BY <3>1, <1>5
    <3>5. <<s[i]>> \o SubSeq(s, i + 1, n) = SubSeq(s, i, n) BY <3>1, <1>s
    <3>6. s[i] \in Code!Byte /\ Encodes(parts[i], s[i], plus) BY <3>1, <1>s
    <3> HIDE DEF i, at
    <3>7. from[at + 1] = <<s[i]>> \o from[Len(so[i]) + 1]
      <4>1. CASE parts[i] = Code!Escaped(s[i])
        <5>1. Len(parts[i]) = 3 BY <4>1 DEF Code!Escaped
        <5>2. /\ e[at + 1] = Code!Percent
              /\ e[at + 2] = Code!HexDigit(s[i] \div 16)
              /\ e[at + 3] = Code!HexDigit(s[i] % 16) BY <5>1, <4>1, <3>4 DEF Code!Escaped
        <5>3. (16 * Code!HexValue(e[at + 2]) + Code!HexValue(e[at + 3])) % 256 = s[i]
          <6>1. s[i] \div 16 \in 0 .. 15 /\ s[i] % 16 \in 0 .. 15 BY <3>6, TwoDigits
          <6>2. Code!HexValue(e[at + 2]) = s[i] \div 16 /\ Code!HexValue(e[at + 3]) = s[i] % 16
            BY <6>1, <5>2, HexDigits
          <6>3. (16 * (s[i] \div 16) + (s[i] % 16)) % 256 = s[i] BY <3>6, TwoDigits
          <6> QED BY <6>2, <6>3
        <5>4. at + 1 \in 1 .. Len(e) /\ (at + 1) + 2 <= Len(e)
              /\ at + 1 + 1 = at + 2 /\ at + 1 + 2 = at + 3 /\ at + 1 + 3 = Len(so[i]) + 1
          BY <5>1, <3>2, <3>4
        <5> QED BY <5>2, <5>3, <5>4, <1>4 DEF Turn
      <4>2. ASSUME NEW b \in Code!Byte, b # Code!Percent, parts[i] = <<b>>,
                   s[i] = IF b = Code!Plus THEN plus ELSE b
            PROVE  from[at + 1] = <<s[i]>> \o from[Len(so[i]) + 1]
        <5>1. Len(parts[i]) = 1 /\ e[at + 1] = b BY <4>2, <3>4
        <5>2. at + 1 \in 1 .. Len(e) /\ at + 1 + 1 = Len(so[i]) + 1 BY <5>1, <3>2, <3>4
        <5> QED BY <5>1, <5>2, <4>2, <1>4 DEF Turn
      <4> QED BY <4>1, <4>2, <3>6 DEF Encodes
    <3> QED BY <3>1, <3>3, <3>5, <3>7 DEF i, at
  <2> QED BY <2>1, <2>2
<1>8. 0 .. n \subseteq T
  <2> HIDE DEF T
  <2>1. GrowsDown(0, n, T) BY <1>2, <1>7 DEF GrowsDown
  <2> QED BY <2>1, Downwards
<1>9. from[Len(so[0]) + 1] = SubSeq(s, 1, n)
  <2>1. 0 \in 0 .. n /\ 0 + 1 = 1 BY <1>2
  <2>2. from[Len(so[0]) + 1] = SubSeq(s, 0 + 1, n) BY <1>8, <2>1
  <2> QED BY <2>1, <2>2
<1>10. Len(so[0]) + 1 = 1 /\ SubSeq(s, 1, n) = s BY <1>3, <1>s
<1> QED BY <1>4, <1>9, <1>10 DEF e

\* Parts of elements of X make a sequence of elements of X.
LEMMA FlattenType ==
  ASSUME NEW X, NEW parts \in Seq(Seq(X))
  PROVE  Code!FlattenSeq(parts) \in Seq(X)
<1>1. PICK so : Beginnings(X, parts, so) BY Flattened
<1>2. Len(parts) \in 0 .. Len(parts) OBVIOUS
<1> QED BY <1>1, <1>2 DEF Beginnings

\* The bytes that may stand in an encoded URL.
UrlAlphabet == Code!Digit \union Code!Upper \union Code!Lower
  \union {Code!Minus, Code!Dot, Code!Underscore, Code!Percent, Code!Plus}

\* A byte that is not escaped stands for itself
LEMMA EscapedText ==
  ASSUME NEW c \in Code!Byte
  PROVE  Code!Escaped(c) \in Seq(UrlAlphabet)
<1>1. c \div 16 \in 0 .. 15 /\ c % 16 \in 0 .. 15 BY TwoDigits
<1>2. \A n \in 0 .. 15 : Code!HexDigit(n) \in UrlAlphabet
  BY DEF Code!HexDigit, UrlAlphabet, Code!Digit, Code!Upper
<1>3. Code!Percent \in UrlAlphabet BY DEF UrlAlphabet
<1> HIDE DEF UrlAlphabet
<1> QED BY <1>1, <1>2, <1>3 DEF Code!Escaped

\* A byte that is not escaped is none of the two with a meaning.
LEMMA PlainText ==
  /\ \A c : Code!Plain(c) => c \in UrlAlphabet /\ c # Code!Percent /\ c # Code!Plus
  /\ Code!Plus \in UrlAlphabet /\ Code!Plus \in Code!Byte /\ Code!Space \in Code!Byte
  /\ Code!Plus # Code!Percent
  /\ UrlAlphabet \subseteq Code!Byte
  /\ \A c \in UrlAlphabet : Code!Plain(c) \/ c \in {Code!Percent, Code!Plus}
BY DEF Code!Plain, UrlAlphabet, Code!Digit, Code!Upper, Code!Lower, Code!Minus, Code!Dot,
       Code!Underscore, Code!Percent, Code!Plus, Code!Space, Code!Byte

\* urldecode and rawurldecode give every text back, and the encoded text has no
\* other bytes than a URL allows (utility.cpp).
THEOREM UrlsAreKept == \A s \in Seq(Code!Byte) : Code!UrlRoundTrip(s)
<1> SUFFICES ASSUME NEW s \in Seq(Code!Byte) PROVE Code!UrlRoundTrip(s) OBVIOUS
<1> DEFINE Raw(c) == IF Code!Plain(c) THEN <<c>> ELSE Code!Escaped(c)
           Url(c) == IF Code!Plain(c) THEN <<c>>
                     ELSE IF c = Code!Space THEN <<Code!Plus>> ELSE Code!Escaped(c)
           raws == [i \in DOMAIN s |-> Raw(s[i])]
           urls == [i \in DOMAIN s |-> Url(s[i])]
<1>1. ASSUME NEW c \in Code!Byte
      PROVE  /\ Raw(c) \in Seq(UrlAlphabet) /\ Encodes(Raw(c), c, Code!Plus)
             /\ Url(c) \in Seq(UrlAlphabet) /\ Encodes(Url(c), c, Code!Space)
  <2>1. CASE Code!Plain(c)
    <3>1. c \in UrlAlphabet /\ c \in Code!Byte /\ c # Code!Percent /\ c # Code!Plus BY <2>1, PlainText
    <3>2. Raw(c) = <<c>> /\ Url(c) = <<c>> /\ <<c>> \in Seq(UrlAlphabet) BY <2>1, <3>1
    <3> HIDE DEF Raw, Url
    <3> QED BY <3>1, <3>2 DEF Encodes
  <2>2. CASE ~Code!Plain(c)
    <3>1. Raw(c) = Code!Escaped(c) BY <2>2
    <3>2. Code!Escaped(c) \in Seq(UrlAlphabet) BY EscapedText
    <3>3. CASE c = Code!Space
      <4>1. Url(c) = <<Code!Plus>> /\ <<Code!Plus>> \in Seq(UrlAlphabet) BY <2>2, <3>3, PlainText
      <4> HIDE DEF Raw, Url
      <4> QED BY <3>1, <3>2, <3>3, <4>1, PlainText DEF Encodes
    <3>4. CASE c # Code!Space
      <4>1. Url(c) = Code!Escaped(c) BY <2>2, <3>4
      <4> HIDE DEF Raw, Url
      <4> QED BY <3>1, <3>2, <4>1 DEF Encodes
    <3> QED BY <3>3, <3>4
  <2> QED BY <2>1, <2>2
<1>2. \A i \in 1 .. Len(s) : s[i] \in Code!Byte OBVIOUS
<1>3. DOMAIN s = 1 .. Len(s) /\ Len(s) \in Nat OBVIOUS
<1>4. \A A : raws \in Seq(A) <=> \A i \in 1 .. Len(s) : Raw(s[i]) \in A
  <2> HIDE DEF Raw
  <2> QED BY <1>3
<1>5. \A A : urls \in Seq(A) <=> \A i \in 1 .. Len(s) : Url(s[i]) \in A
  <2> HIDE DEF Url
  <2> QED BY <1>3
<1>6. raws \in Seq(Seq(UrlAlphabet)) /\ urls \in Seq(Seq(UrlAlphabet))
  <2> HIDE DEF raws, urls, Raw, Url
  <2> QED BY <1>1, <1>2, <1>4, <1>5
<1>7. raws \in Seq(Seq(Code!Byte)) /\ urls \in Seq(Seq(Code!Byte))
  <2>1. \A q \in Seq(UrlAlphabet) : q \in Seq(Code!Byte) BY PlainText
  <2> HIDE DEF raws, urls, Raw, Url
  <2> QED BY <1>1, <1>2, <1>4, <1>5, <2>1
<1>8. /\ Len(raws) = Len(s) /\ Len(urls) = Len(s)
      /\ \A i \in 1 .. Len(s) : raws[i] = Raw(s[i]) /\ urls[i] = Url(s[i])
  <2> HIDE DEF Raw, Url
  <2> QED BY <1>3
<1>9. Code!rawurlencode(s) = Code!FlattenSeq(raws) /\ Code!urlencode(s) = Code!FlattenSeq(urls)
  BY DEF Code!rawurlencode, Code!urlencode
<1> HIDE DEF raws, urls, Raw, Url
<1>10. \A i \in 1 .. Len(s) : Encodes(raws[i], s[i], Code!Plus) /\ Encodes(urls[i], s[i], Code!Space)
  BY <1>1, <1>2, <1>8
<1>11. Code!Decode(Code!FlattenSeq(raws), Code!Plus) = s BY <1>7, <1>8, <1>10, PlainText, DecodesParts
<1>12. Code!Decode(Code!FlattenSeq(urls), Code!Space) = s BY <1>7, <1>8, <1>10, PlainText, DecodesParts
<1>13. \A c \in Code!ToSet(Code!urlencode(s)) : Code!Plain(c) \/ c \in {Code!Percent, Code!Plus}
  <2>1. Code!urlencode(s) \in Seq(UrlAlphabet) BY <1>6, <1>9, FlattenType
  <2>2. \A q \in Seq(UrlAlphabet) : Code!ToSet(q) \subseteq UrlAlphabet BY DEF Code!ToSet
  <2> QED BY <2>1, <2>2, PlainText
<1> QED BY <1>9, <1>11, <1>12, <1>13 DEF Code!UrlRoundTrip, Code!urldecode, Code!rawurldecode

\* Parts of equal length.
Even(parts, m) == \A k \in 1 .. Len(parts) : Len(parts[k]) = m
Grid(parts, m) ==
  /\ Len(Code!FlattenSeq(parts)) = m * Len(parts)
  /\ \A k \in 1 .. Len(parts) : \A p \in 1 .. m :
       Code!FlattenSeq(parts)[m * (k - 1) + p] = parts[k][p]

\* Parts of m elements: part k begins behind (k - 1) * m elements.
LEMMA EvenParts ==
  ASSUME NEW X, NEW parts \in Seq(Seq(X)), NEW m \in {3, 4}, Even(parts, m)
  PROVE  Grid(parts, m)
<1>1. PICK so : Beginnings(X, parts, so) BY Flattened
<1> DEFINE n == Len(parts)
           T == {k \in Int : Len(so[k]) = m * k}
<1>2. n \in Nat /\ n = Len(parts) OBVIOUS
<1>3. so \in [0 .. n -> Seq(X)] /\ so[0] = <<>> /\ Code!FlattenSeq(parts) = so[n] BY <1>1 DEF Beginnings
<1>4. ASSUME NEW k \in 1 .. n
      PROVE  InPlace(parts, so, k) /\ Len(parts[k]) = m
  <2>1. k \in 1 .. Len(parts) OBVIOUS
  <2> HIDE DEF n
  <2> QED BY <2>1, <1>1, PartsInPlace DEF Even
<1> HIDE DEF n
<1>5. \A k \in 0 .. n : Len(so[k]) \in Nat BY <1>3
<1>6. ASSUME NEW k \in 0 .. n, \A j \in 0 .. k - 1 : j \in T PROVE k \in T
  <2>1. CASE k = 0 BY <2>1, <1>3
  <2>2. CASE k # 0
    <3>1. k \in 1 .. n /\ k - 1 \in 0 .. k - 1 /\ k - 1 \in 0 .. n BY <2>2, <1>2
    <3>2. Len(so[k - 1]) = m * (k - 1) BY <3>1, <1>6
    <3>3. Len(so[k - 1]) + m = Len(so[k]) BY <3>1, <1>4 DEF InPlace
    <3>4. Len(so[k]) = m * k /\ k \in Int
      <4>1. CASE m = 3 BY <4>1, <3>2, <3>3, <1>2
      <4>2. CASE m = 4 BY <4>2, <3>2, <3>3, <1>2
      <4> QED BY <4>1, <4>2
    <3> QED BY <3>4
  <2> QED BY <2>1, <2>2
<1>7. 0 .. n \subseteq T
  <2> HIDE DEF T
  <2>1. GrowsUp(0, n, T) BY <1>2, <1>6 DEF GrowsUp
  <2> QED BY <2>1, Upwards
<1>8. ASSUME NEW k \in 1 .. n, NEW p \in 1 .. m
      PROVE  Code!FlattenSeq(parts)[m * (k - 1) + p] = parts[k][p]
  <2>1. k - 1 \in 0 .. n BY <1>2
  <2>2. Len(so[k - 1]) = m * (k - 1) BY <2>1, <1>7
  <2> QED BY <2>2, <1>4 DEF InPlace
<1>9. Len(Code!FlattenSeq(parts)) = m * n
  <2>1. n \in 0 .. n BY <1>2
  <2> QED BY <2>1, <1>3, <1>7
<1> QED BY <1>2, <1>8, <1>9 DEF Grid

\* The alphabet of base64 and its table agree on all 64 values; '=' reads as zero.
LEMMA SixBits ==
  /\ \A n \in 0 .. 63 : /\ Code!Code64(n) \in Code!Byte \ {Code!Equals}
                        /\ Code!Value64(Code!Code64(n)) = n
  /\ Code!Value64(Code!Equals) = 0 /\ Code!Equals \in Code!Byte
BY DEF Code!Code64, Code!Value64, Code!Byte, Code!Equals, Code!Upper, Code!Lower, Code!Digit,
       Code!Plus, Code!Slash

\* Character k of the four that three bytes make, as a number.
Six(a, b, c, k) ==
  CASE k = 0 -> a \div 4
    [] k = 1 -> 16 * (a % 4) + (b \div 16)
    [] k = 2 -> 4 * (b % 16) + (c \div 64)
    [] k = 3 -> c % 64

\* Four times six bits are three bytes.
LEMMA ThreeBytes ==
  ASSUME NEW a \in Code!Byte, NEW b \in Code!Byte, NEW c \in Code!Byte
  PROVE  /\ \A k \in 0 .. 3 : Six(a, b, c, k) \in 0 .. 63
         /\ 4 * Six(a, b, c, 0) + (Six(a, b, c, 1) \div 16) = a
         /\ (16 * Six(a, b, c, 1) + (Six(a, b, c, 2) \div 4)) % 256 = b
         /\ (64 * Six(a, b, c, 2) + Six(a, b, c, 3)) % 256 = c
<1>1. a \in 0 .. 255 /\ b \in 0 .. 255 /\ c \in 0 .. 255 BY DEF Code!Byte
<1> DEFINE x == a \div 4  y == a % 4  u == b \div 16  w == b % 16  g == c \div 64  h == c % 64
<1>2. /\ x \in 0 .. 63 /\ y \in 0 .. 3 /\ a = 4 * x + y
      /\ u \in 0 .. 15 /\ w \in 0 .. 15 /\ b = 16 * u + w
      /\ g \in 0 .. 3 /\ h \in 0 .. 63 /\ c = 64 * g + h BY <1>1
<1>3. /\ Six(a, b, c, 0) = x /\ Six(a, b, c, 1) = 16 * y + u
      /\ Six(a, b, c, 2) = 4 * w + g /\ Six(a, b, c, 3) = h BY DEF Six
<1> HIDE DEF x, y, u, w, g, h
<1>4. (16 * y + u) \div 16 = y /\ (4 * w + g) \div 4 = w BY <1>2
<1>5. (16 * (16 * y + u) + w) % 256 = 16 * u + w BY <1>2
<1>6. (64 * (4 * w + g) + h) % 256 = 64 * g + h BY <1>2
<1>7. \A k \in 0 .. 3 : Six(a, b, c, k) \in 0 .. 63
  <2>1. x \in 0 .. 63 /\ 16 * y + u \in 0 .. 63 /\ 4 * w + g \in 0 .. 63 /\ h \in 0 .. 63 BY <1>2
  <2>2. \A k \in 0 .. 3 : k = 0 \/ k = 1 \/ k = 2 \/ k = 3 OBVIOUS
  <2> QED BY <2>1, <2>2, <1>3
<1> QED BY <1>2, <1>3, <1>4, <1>5, <1>6, <1>7

\* The four characters of a group decode to the six bits they stand for, and '='
\* stands exactly where the text has ended.
LEMMA GroupOfFour ==
  ASSUME NEW s \in Seq(Code!Byte), NEW i \in Nat \ {0}, i <= Len(s)
  PROVE  LET g == Code!Group64(s, i)
             a == Code!At(s, i) b == Code!At(s, i + 1) c == Code!At(s, i + 2)
         IN /\ g \in Seq(Code!Byte) /\ Len(g) = 4
            /\ a \in Code!Byte /\ b \in Code!Byte /\ c \in Code!Byte
            /\ \A p \in 0 .. 3 : Code!Value64(g[p + 1]) = Six(a, b, c, p)
            /\ g[1] # Code!Equals /\ g[2] # Code!Equals
            /\ g[3] = Code!Equals <=> i + 1 > Len(s)
            /\ g[4] = Code!Equals <=> i + 2 > Len(s)
<1> DEFINE g == Code!Group64(s, i)
           a == Code!At(s, i)
           b == Code!At(s, i + 1)
           c == Code!At(s, i + 2)
           C(k) == Code!Code64(Six(a, b, c, k))
           n == Len(s)
<1>1. a \in Code!Byte /\ b \in Code!Byte /\ c \in Code!Byte
  <2>1. \A q \in 1 .. Len(s) : s[q] \in Code!Byte OBVIOUS
  <2>2. 0 \in Code!Byte BY DEF Code!Byte
  <2>3. \A q \in Nat \ {0} : q <= Len(s) => q \in 1 .. Len(s) OBVIOUS
  <2>4. i \in Nat \ {0} /\ i + 1 \in Nat \ {0} /\ i + 2 \in Nat \ {0} OBVIOUS
  <2> QED BY <2>1, <2>2, <2>3, <2>4 DEF Code!At
<1>2. (i + 1 > n => b = 0 /\ c = 0) /\ (i + 2 > n => c = 0) /\ n \in Nat BY DEF Code!At
<1>3. g = <<C(0), C(1), IF i + 1 <= n THEN C(2) ELSE Code!Equals,
                        IF i + 2 <= n THEN C(3) ELSE Code!Equals>>
  <2>1. /\ Six(a, b, c, 0) = a \div 4 /\ Six(a, b, c, 1) = 16 * (a % 4) + (b \div 16)
        /\ Six(a, b, c, 2) = 4 * (b % 16) + (c \div 64) /\ Six(a, b, c, 3) = c % 64 BY DEF Six
  <2> HIDE DEF a, b, c
  <2> QED BY <2>1 DEF Code!Group64, a, b, c
<1> HIDE DEF g, a, b, c, n
<1>4. \A k \in 0 .. 3 : /\ C(k) \in Code!Byte \ {Code!Equals}
                        /\ Code!Value64(C(k)) = Six(a, b, c, k) BY <1>1, ThreeBytes, SixBits
<1> HIDE DEF C
<1>5. /\ C(0) \in Code!Byte \ {Code!Equals} /\ C(1) \in Code!Byte \ {Code!Equals}
      /\ C(2) \in Code!Byte \ {Code!Equals} /\ C(3) \in Code!Byte \ {Code!Equals} BY <1>4
<1>6. Len(g) = 4 /\ g \in Seq(Code!Byte) BY <1>3, <1>5, SixBits
<1>7. /\ g[1] # Code!Equals /\ g[2] # Code!Equals
      /\ g[3] = Code!Equals <=> i + 1 > n
      /\ g[4] = Code!Equals <=> i + 2 > n BY <1>2, <1>3, <1>5
<1>8. (i + 1 > n => Six(a, b, c, 2) = 0) /\ (i + 2 > n => Six(a, b, c, 3) = 0)
  <2>1. (0 % 16) = 0 /\ (0 \div 64) = 0 /\ (0 % 64) = 0 OBVIOUS
  <2> QED BY <1>2, <2>1 DEF Six
<1>9. /\ Code!Value64(g[1]) = Six(a, b, c, 0) /\ Code!Value64(g[2]) = Six(a, b, c, 1)
      /\ Code!Value64(g[3]) = Six(a, b, c, 2) /\ Code!Value64(g[4]) = Six(a, b, c, 3)
  <2>1. g[1] = C(0) /\ g[2] = C(1) BY <1>3
  <2>2. g[3] = IF i + 1 <= n THEN C(2) ELSE Code!Equals BY <1>3
  <2>3. g[4] = IF i + 2 <= n THEN C(3) ELSE Code!Equals BY <1>3
  <2>4. i + 1 <= n \/ i + 1 > n BY <1>2
  <2>5. i + 2 <= n \/ i + 2 > n BY <1>2
  <2>6. 0 \in 0 .. 3 /\ 1 \in 0 .. 3 /\ 2 \in 0 .. 3 /\ 3 \in 0 .. 3 OBVIOUS
  <2>7. Code!Value64(g[1]) = Six(a, b, c, 0) /\ Code!Value64(g[2]) = Six(a, b, c, 1) BY <1>4, <2>1, <2>6
  <2>8. Code!Value64(g[3]) = Six(a, b, c, 2) BY <1>4, <2>2, <2>4, <2>6, <1>8, SixBits
  <2>9. Code!Value64(g[4]) = Six(a, b, c, 3) BY <1>4, <2>3, <2>5, <2>6, <1>8, SixBits
  <2> QED BY <2>7, <2>8, <2>9
<1>10. \A p \in 0 .. 3 : Code!Value64(g[p + 1]) = Six(a, b, c, p)
  <2> SUFFICES ASSUME NEW p \in 0 .. 3 PROVE Code!Value64(g[p + 1]) = Six(a, b, c, p) OBVIOUS
  <2>1. p = 0 \/ p = 1 \/ p = 2 \/ p = 3 OBVIOUS
  <2>2. 0 + 1 = 1 /\ 1 + 1 = 2 /\ 2 + 1 = 3 /\ 3 + 1 = 4 OBVIOUS
  <2> QED BY <2>1, <2>2, <1>9
<1> QED BY <1>1, <1>6, <1>7, <1>10 DEF g, a, b, c, n

\* The first n of a are those of s.
Copies(a, s, n) ==
  a \in Seq(Code!Byte) /\ Len(a) = n /\ \A q \in 1 .. n : a[q] = s[q]

\* One byte more.
LEMMA OneMore ==
  ASSUME NEW s \in Seq(Code!Byte), NEW n \in Nat, n < Len(s), NEW a, Copies(a, s, n)
  PROVE  Copies(a \o <<s[n + 1]>>, s, n + 1)
<1>1. s[n + 1] \in Code!Byte OBVIOUS
<1> QED BY <1>1 DEF Copies

\* A copy of all of s is s.
LEMMA WholeCopy ==
  ASSUME NEW s \in Seq(Code!Byte), NEW a, Copies(a, s, Len(s))
  PROVE  a = s
BY DEF Copies

\* base64decode gives every text back and '=' stands at the end only (utility.cpp).
THEOREM Base64IsKept == \A s \in Seq(Code!Byte) : Code!Base64RoundTrip(s)
<1> SUFFICES ASSUME NEW s \in Seq(Code!Byte) PROVE Code!Base64RoundTrip(s) OBVIOUS
<1> DEFINE l == Len(s)
           n == (l + 2) \div 3
           Group(k) == Code!Group64(s, 3 * k - 2)
           groups == [k \in 1 .. n |-> Group(k)]
           e == Code!FlattenSeq(groups)
           Bytes(k) == <<Code!At(s, 3 * k - 2), Code!At(s, 3 * k - 1), Code!At(s, 3 * k)>>
<1>1. l \in Nat /\ n \in Nat /\ l \in 3 * n - 2 .. 3 * n /\ l = Len(s) OBVIOUS
<1>e. Code!base64encode(s) = e BY DEF Code!base64encode
<1> HIDE DEF l, n
<1>2. ASSUME NEW k \in 1 .. n
      PROVE  /\ Group(k) \in Seq(Code!Byte) /\ Len(Group(k)) = 4
             /\ Bytes(k) \in Seq(Code!Byte)
             /\ \A p \in 0 .. 3 : Code!Value64(Group(k)[p + 1])
                  = Six(Code!At(s, 3 * k - 2), Code!At(s, 3 * k - 1), Code!At(s, 3 * k), p)
             /\ Group(k)[1] # Code!Equals /\ Group(k)[2] # Code!Equals
             /\ Group(k)[3] = Code!Equals <=> 3 * k - 1 > l
             /\ Group(k)[4] = Code!Equals <=> 3 * k > l
             /\ Code!At(s, 3 * k - 2) \in Code!Byte /\ Code!At(s, 3 * k - 1) \in Code!Byte
             /\ Code!At(s, 3 * k) \in Code!Byte
  <2> DEFINE i == 3 * k - 2
  <2>1. i \in Nat \ {0} /\ i <= Len(s) /\ i + 1 = 3 * k - 1 /\ i + 2 = 3 * k BY <1>1
  <2> HIDE DEF i
  <2> QED BY <2>1, <1>1, GroupOfFour DEF i
<1>3. groups \in Seq(Seq(Code!Byte)) /\ Len(groups) = n /\ \A k \in 1 .. n : groups[k] = Group(k)
  <2> HIDE DEF Group
  <2> QED BY <1>1, <1>2
<1>4. Even(groups, 4)
  <2> HIDE DEF Group, groups
  <2> QED BY <1>2, <1>3 DEF Even
<1> HIDE DEF groups
<1>5. Grid(groups, 4) BY <1>3, <1>4, EvenParts
<1> HIDE DEF e
<1>6. Len(e) = 4 * n /\ e \in Seq(Code!Byte) BY <1>3, <1>5, FlattenType DEF Grid, e
<1>7. ASSUME NEW k \in 1 .. n, NEW p \in 1 .. 4
      PROVE  e[4 * (k - 1) + p] = Group(k)[p]
  <2> HIDE DEF Group
  <2> QED BY <1>3, <1>5 DEF Grid, e
<1>8. ASSUME NEW k \in 1 .. n
      PROVE  Code!Bytes64(e, 4 * k - 3) = Bytes(k)
  <2> DEFINE i == 4 * k - 3
             a == Code!At(s, 3 * k - 2)
             b == Code!At(s, 3 * k - 1)
             c == Code!At(s, 3 * k)
  <2>1. /\ 4 * (k - 1) + 1 = i /\ 4 * (k - 1) + 2 = i + 1
        /\ 4 * (k - 1) + 3 = i + 2 /\ 4 * (k - 1) + 4 = i + 3 /\ i + 0 = i BY <1>1
  <2>2. 1 \in 1 .. 4 /\ 2 \in 1 .. 4 /\ 3 \in 1 .. 4 /\ 4 \in 1 .. 4 OBVIOUS
  <2>3. e[i] = Group(k)[1] /\ e[i + 1] = Group(k)[2] /\ e[i + 2] = Group(k)[3] /\ e[i + 3] = Group(k)[4]
    <3> HIDE DEF i, Group
    <3> QED BY <2>1, <2>2, <1>7
  <2>4. 0 \in 0 .. 3 /\ 1 \in 0 .. 3 /\ 2 \in 0 .. 3 /\ 3 \in 0 .. 3
        /\ 0 + 1 = 1 /\ 1 + 1 = 2 /\ 2 + 1 = 3 /\ 3 + 1 = 4 OBVIOUS
  <2>5. a \in Code!Byte /\ b \in Code!Byte /\ c \in Code!Byte
        /\ \A p \in 0 .. 3 : Code!Value64(Group(k)[p + 1]) = Six(a, b, c, p) BY <1>2
  <2> HIDE DEF i, Group, a, b, c
  <2>6. /\ Code!Value64(e[i]) = Six(a, b, c, 0) /\ Code!Value64(e[i + 1]) = Six(a, b, c, 1)
        /\ Code!Value64(e[i + 2]) = Six(a, b, c, 2) /\ Code!Value64(e[i + 3]) = Six(a, b, c, 3)
    BY <2>3, <2>4, <2>5
  <2>7. Code!Bytes64(e, i) = <<a, b, c>> BY <2>1, <2>5, <2>6, ThreeBytes DEF Code!Bytes64
  <2> QED BY <2>7 DEF i, a, b, c
<1>9. Len(e) % 4 = 0 /\ Code!Equals \notin Code!ToSet(SubSeq(e, 1, Len(e) - 2))
  <2>1. (4 * n) % 4 = 0 BY <1>1
  <2>2. ASSUME NEW q \in 1 .. 4 * n - 2 PROVE e[q] # Code!Equals
    <3> DEFINE k == ((q - 1) \div 4) + 1
               p == ((q - 1) % 4) + 1
    <3>1. k \in 1 .. n /\ p \in 1 .. 4 /\ q = 4 * (k - 1) + p BY <1>1
    <3>2. p = 1 \/ p = 2 \/ (p = 3 /\ k < n) \/ (p = 4 /\ k < n) BY <1>1
    <3>3. k < n => ~(3 * k - 1 > l) /\ ~(3 * k > l) BY <3>1, <1>1
    <3> HIDE DEF k, p, Group
    <3>4. e[q] = Group(k)[p] BY <3>1, <1>7
    <3> QED BY <3>1, <3>2, <3>3, <3>4, <1>2
  <2> DEFINE m == 4 * n - 2
             t == SubSeq(e, 1, m)
  <2>3. m \in Int /\ m <= Len(e) BY <1>6, <1>1
  <2>4. \A q \in DOMAIN t : q \in 1 .. m /\ t[q] = e[q]
    <3> HIDE DEF m
    <3> QED BY <2>3, <1>6
  <2>5. Code!Equals \notin Code!ToSet(t) BY <2>2, <2>4 DEF Code!ToSet
  <2> QED BY <1>6, <2>1, <2>5
<1>10. ASSUME s # <<>> PROVE Code!base64decode(e) = s
  <2>1. n >= 1 /\ l >= 1 BY <1>10, <1>1
  <2> DEFINE m == n - 1
             blocks == [k \in 1 .. m |-> Bytes(k)]
             whole == Code!FlattenSeq(blocks)
             b == Bytes(n)
  <2>2. m \in Nat /\ (4 * n) \div 4 - 1 = m /\ 4 * n - 3 = Len(e) - 3 /\ m = n - 1
        /\ \A k \in 1 .. m : k \in 1 .. n BY <2>1, <1>1, <1>6
  <2> HIDE DEF m
  <2>3. blocks \in Seq(Seq(Code!Byte)) /\ Len(blocks) = m
        /\ \A k \in 1 .. m : blocks[k] = Bytes(k) /\ Len(blocks[k]) = 3
    <3>1. ASSUME NEW k \in 1 .. m PROVE Len(Bytes(k)) = 3 /\ Bytes(k) \in Seq(Code!Byte)
      <4>1. Len(Bytes(k)) = 3 OBVIOUS
      <4>2. k \in 1 .. n BY <2>2
      <4> HIDE DEF Bytes
      <4> QED BY <4>1, <4>2, <1>2
    <3> HIDE DEF Bytes
    <3>2. Len(blocks) = m /\ blocks \in Seq(Seq(Code!Byte)) BY <3>1, <2>2
    <3>3. \A k \in 1 .. m : blocks[k] = Bytes(k) OBVIOUS
    <3> HIDE DEF blocks
    <3> QED BY <3>1, <3>2, <3>3
  <2>4. blocks = [k \in 1 .. Len(e) \div 4 - 1 |-> Code!Bytes64(e, 4 * k - 3)]
    <3>1. 1 .. Len(e) \div 4 - 1 = 1 .. m BY <2>2, <1>6
    <3>2. \A k \in 1 .. m : Code!Bytes64(e, 4 * k - 3) = Bytes(k) BY <2>2, <1>8
    <3> HIDE DEF Bytes
    <3> QED BY <3>1, <3>2
  <2> HIDE DEF blocks
  <2>5. Grid(blocks, 3) /\ whole \in Seq(Code!Byte)
    <3>1. Even(blocks, 3) BY <2>3 DEF Even
    <3> QED BY <3>1, <2>3, EvenParts, FlattenType
  <2> HIDE DEF whole
  <2>6. Len(whole) = 3 * m
        /\ \A k \in 1 .. m : \A p \in 1 .. 3 : whole[3 * (k - 1) + p] = Bytes(k)[p]
    <3> HIDE DEF Bytes
    <3> QED BY <2>5, <2>3 DEF Grid, whole
  <2>7. Code!Bytes64(e, Len(e) - 3) = b
    <3>1. n \in 1 .. n BY <2>1, <1>1
    <3> QED BY <3>1, <2>2, <1>8
  <2>8. /\ e[Len(e) - 3 + 2] = Code!Equals <=> 3 * n - 1 > l
        /\ e[Len(e) - 3 + 3] = Code!Equals <=> 3 * n > l
    <3>1. n \in 1 .. n /\ 3 \in 1 .. 4 /\ 4 \in 1 .. 4
          /\ Len(e) - 3 + 2 = 4 * (n - 1) + 3 /\ Len(e) - 3 + 3 = 4 * (n - 1) + 4 BY <2>1, <1>1, <1>6
    <3>2. e[Len(e) - 3 + 2] = Group(n)[3] /\ e[Len(e) - 3 + 3] = Group(n)[4]
      <4> HIDE DEF Group
      <4> QED BY <3>1, <1>7
    <3> HIDE DEF Group
    <3> QED BY <3>1, <3>2, <1>2
  <2> DEFINE end == whole \o <<b[1]>>
                    \o (IF 3 * n - 1 > l THEN <<>> ELSE <<b[2]>>)
                    \o (IF 3 * n > l THEN <<>> ELSE <<b[3]>>)
  <2>9. Code!base64decode(e) = end
    <3>1. Len(e) % 4 = 0 BY <1>9
    <3> HIDE DEF b, Bytes, l
    <3> QED BY <3>1, <2>4, <2>7, <2>8 DEF Code!base64decode, whole
  <2>10. end = s
    <3>1. b[1] \in Code!Byte /\ b[2] \in Code!Byte /\ b[3] \in Code!Byte
      <4>1. n \in 1 .. n BY <2>1, <1>1
      <4> QED BY <4>1, <1>2
    <3>2. ASSUME NEW q \in 1 .. 3 * m PROVE whole[q] = s[q] /\ q \in 1 .. l
      <4> DEFINE k == ((q - 1) \div 3) + 1
                 p == ((q - 1) % 3) + 1
      <4>1. k \in 1 .. m /\ p \in 1 .. 3 /\ q = 3 * (k - 1) + p /\ q <= Len(s) BY <2>2, <1>1
      <4>2. whole[q] = Bytes(k)[p]
        <5> HIDE DEF k, p, Bytes
        <5> QED BY <4>1, <2>6
      <4>3. Bytes(k)[p] = Code!At(s, q)
        <5>1. p = 1 \/ p = 2 \/ p = 3 BY <4>1
        <5>2. (p = 1 => q = 3 * k - 2) /\ (p = 2 => q = 3 * k - 1) /\ (p = 3 => q = 3 * k) BY <4>1, <2>2
        <5> HIDE DEF k, p
        <5> QED BY <5>1, <5>2
      <4>4. Code!At(s, q) = s[q] BY <4>1 DEF Code!At
      <4> QED BY <4>1, <4>2, <4>3, <4>4, <1>1
    <3>3. b[1] = Code!At(s, 3 * m + 1) /\ b[2] = Code!At(s, 3 * m + 2) /\ b[3] = Code!At(s, 3 * m + 3)
      <4>1. 3 * n - 2 = 3 * m + 1 /\ 3 * n - 1 = 3 * m + 2 /\ 3 * n = 3 * m + 3 BY <2>2, <1>1
      <4> QED BY <4>1
    <3>4. l = 3 * m + 1 \/ l = 3 * m + 2 \/ l = 3 * m + 3 BY <1>1, <2>2
    <3>5. \A q \in 1 .. l : Code!At(s, q) = s[q] BY <1>1 DEF Code!At
    <3> DEFINE w == whole \o <<b[1]>>
               v == w \o <<b[2]>>
    <3> HIDE DEF b
    <3>6. Copies(whole, s, 3 * m) BY <3>2, <2>5, <2>6 DEF Copies
    <3>7. Copies(w, s, 3 * m + 1)
      <4>1. b[1] = s[3 * m + 1] /\ 3 * m \in Nat /\ 3 * m < Len(s) BY <3>3, <3>4, <3>5, <1>1, <2>2
      <4> HIDE DEF whole
      <4> QED BY <4>1, <3>6, OneMore
    <3>8. CASE l = 3 * m + 1
      <4>1. 3 * n - 1 > l /\ 3 * n > l BY <3>8, <1>1, <2>2
      <4>2. w \in Seq(Code!Byte) BY <2>5, <3>1
      <4>3. w = s
        <5> HIDE DEF w
        <5> QED BY <3>7, <3>8, <1>1, WholeCopy
      <4> HIDE DEF w
      <4> QED BY <4>1, <4>2, <4>3 DEF w
    <3>9. CASE l = 3 * m + 2 \/ l = 3 * m + 3
      <4>1. b[2] = s[(3 * m + 1) + 1] /\ 3 * m + 1 \in Nat /\ 3 * m + 1 < Len(s)
        BY <3>3, <3>9, <3>5, <1>1, <2>2
      <4>2. Copies(v, s, (3 * m + 1) + 1)
        <5> HIDE DEF w
        <5> QED BY <4>1, <3>7, OneMore
      <4>3. v \in Seq(Code!Byte) BY <2>5, <3>1
      <4>4. CASE l = 3 * m + 2
        <5>1. ~(3 * n - 1 > l) /\ 3 * n > l /\ l = (3 * m + 1) + 1 BY <4>4, <1>1, <2>2
        <5>2. v = s
          <6> HIDE DEF v
          <6> QED BY <4>2, <5>1, <1>1, WholeCopy
        <5> HIDE DEF v
        <5> QED BY <5>1, <5>2, <4>3 DEF v, w
      <4>5. CASE l = 3 * m + 3
        <5>1. ~(3 * n - 1 > l) /\ ~(3 * n > l) /\ l = ((3 * m + 1) + 1) + 1 BY <4>5, <1>1, <2>2
        <5>2. b[3] = s[((3 * m + 1) + 1) + 1] /\ (3 * m + 1) + 1 \in Nat /\ (3 * m + 1) + 1 < Len(s)
          BY <3>3, <4>5, <3>5, <1>1, <2>2
        <5> DEFINE x == v \o <<b[3]>>
        <5>3. Copies(x, s, ((3 * m + 1) + 1) + 1)
          <6> HIDE DEF v
          <6> QED BY <5>2, <4>2, OneMore
        <5>4. x \in Seq(Code!Byte) BY <4>3, <3>1
        <5>5. x = s
          <6> HIDE DEF x
          <6> QED BY <5>1, <5>3, <1>1, WholeCopy
        <5>6. end = x BY <5>1
        <5> QED BY <5>5, <5>6
      <4> QED BY <3>9, <4>4, <4>5
    <3> QED BY <3>4, <3>8, <3>9
  <2> QED BY <2>9, <2>10
<1> QED BY <1>e, <1>9, <1>10 DEF Code!Base64RoundTrip

\* A bounded set of numbers has a greatest one.
LEMMA GreatestNumber ==
  ASSUME NEW T, NEW a \in Int, NEW b \in Int, T \subseteq a .. b, T # {}
  PROVE  \E n \in T : \A m \in T : n >= m
<1> DEFINE U == {b - n : n \in T}
<1>1. U \subseteq Nat /\ U # {} OBVIOUS
<1>2. PICK u \in U : \A v \in U : u <= v
  <2> HIDE DEF U
  <2> QED BY <1>1, LeastNumber
<1>3. PICK n \in T : u = b - n BY <1>2
<1>4. \A m \in T : b - m \in U OBVIOUS
<1>5. \A m \in T : n >= m
  <2> SUFFICES ASSUME NEW m \in T PROVE n >= m OBVIOUS
  <2>1. b - n <= b - m BY <1>2, <1>3, <1>4
  <2>2. n \in Int /\ m \in Int OBVIOUS
  <2> QED BY <2>1, <2>2
<1> QED BY <1>5

\* The least and the greatest number of a set, as FiniteSetsExt chooses them.
LEMMA MinMaxOf ==
  ASSUME NEW T, NEW a \in Nat, NEW b \in Nat, T \subseteq a .. b, T # {}
  PROVE  /\ Code!Min(T) \in T /\ \A m \in T : Code!Min(T) <= m
         /\ Code!Max(T) \in T /\ \A m \in T : Code!Max(T) >= m
<1>0. T \subseteq Nat /\ a \in Int /\ b \in Int OBVIOUS
<1>1. \E n \in T : \A m \in T : n <= m BY <1>0, LeastNumber
<1>2. \E n \in T : \A m \in T : n >= m BY <1>0, GreatestNumber
<1> QED BY <1>1, <1>2 DEF Code!Min, Code!Max

\* SubSeq gives the elements from a to b.
LEMMA Piece ==
  ASSUME NEW X, NEW s \in Seq(X), NEW a \in Nat \ {0}, NEW b \in Nat, a <= b + 1, b <= Len(s)
  PROVE  /\ SubSeq(s, a, b) \in Seq(X) /\ Len(SubSeq(s, a, b)) = b - a + 1
         /\ \A i \in 1 .. b - a + 1 : SubSeq(s, a, b)[i] = s[a + i - 1]
OBVIOUS

\* The first element and the rest.
LEMMA First ==
  ASSUME NEW X, NEW s \in Seq(X), s # <<>>
  PROVE  Head(s) = s[1] /\ Tail(s) \in Seq(X)
OBVIOUS

\* Sequences are the same when their elements are.
LEMMA Same ==
  ASSUME NEW X, NEW s \in Seq(X), NEW t \in Seq(X), Len(s) = Len(t),
         \A i \in 1 .. Len(s) : s[i] = t[i]
  PROVE  s = t
OBVIOUS

\* t is s without its first l and its last r bytes, which are blanks.
Cuts(s, t, l, r) ==
  /\ SubSeq(s, l + 1, l + Len(t)) = t /\ Len(s) = l + Len(t) + r
  /\ \A i \in 1 .. l : Code!IsSpace(s[i])
  /\ \A i \in Len(s) - r + 1 .. Len(s) : Code!IsSpace(s[i])

\* trim takes the blanks at both ends of every text, and nothing else.
THEOREM TrimTakesTheBlanks == \A s \in Seq(Code!Byte) : Code!Trimmed(s)
<1> SUFFICES ASSUME NEW s \in Seq(Code!Byte) PROVE Code!Trimmed(s) OBVIOUS
<1> DEFINE n == Len(s)
           found == {i \in DOMAIN s : ~Code!IsSpace(s[i])}
<1>1. n \in Nat /\ found \subseteq 1 .. n /\ n = Len(s) /\ DOMAIN s = 1 .. n OBVIOUS
<1>f. \A i \in 1 .. n : i \in found <=> ~Code!IsSpace(s[i]) OBVIOUS
<1> HIDE DEF n
<1>2. CASE found = {}
  <2>1. Code!trimleft(s) = <<>> BY <1>2 DEF Code!trimleft
  <2>2. Code!trim(s) = <<>> BY <2>1 DEF Code!trim, Code!trimright
  <2>3. SubSeq(s, n + 1, n + 0) = <<>> /\ n \in 0 .. n /\ 0 \in 0 .. n - n /\ n = n + 0 + 0 BY <1>1
  <2>4. \A i \in 1 .. n : Code!IsSpace(s[i]) BY <1>2, <1>f
  <2>5. Cuts(s, <<>>, n, 0)
    <3>1. Len(<<>>) = 0 /\ \A i \in n - 0 + 1 .. n : FALSE BY <1>1
    <3> QED BY <2>3, <2>4, <3>1, <1>1 DEF Cuts
  <2>6. \E l \in 0 .. Len(s) : \E r \in 0 .. Len(s) - l : Cuts(s, <<>>, l, r)
    <3> HIDE DEF found
    <3> QED BY <2>3, <2>5, <1>1
  <2> QED BY <2>2, <2>6 DEF Code!Trimmed, Cuts
<1>3. CASE found # {}
  <2> DEFINE m == Code!Min(found)
             g == Code!Max(found)
  <2>1. /\ m \in 1 .. n /\ m \in found /\ \A i \in found : m <= i
        /\ g \in 1 .. n /\ g \in found /\ \A i \in found : g >= i BY <1>1, <1>3, MinMaxOf
  <2> HIDE DEF m, g
  <2> DEFINE u == SubSeq(s, m, n)
             found2 == {i \in DOMAIN u : ~Code!IsSpace(u[i])}
             k == n - m + 1
  <2>2. Code!trimleft(s) = u BY <1>3, <1>1 DEF Code!trimleft, m
  <2>3. u \in Seq(Code!Byte) /\ DOMAIN u = 1 .. k /\ \A i \in 1 .. k : u[i] = s[m + i - 1] BY <2>1, <1>1
  <2> DEFINE e == g - m + 1
  <2>4. e \in found2 /\ \A i \in found2 : e >= i
    <3>1. e \in 1 .. k /\ m + e - 1 = g BY <2>1, <1>1
    <3>2. \A i \in 1 .. k : m + i - 1 \in 1 .. n BY <2>1, <1>1
    <3> HIDE DEF found, u
    <3>3. \A i \in 1 .. k : i \in found2 <=> m + i - 1 \in found BY <2>3, <3>2, <1>f
    <3> HIDE DEF found2
    <3>4. \A i \in found2 : i \in 1 .. k BY <2>3 DEF found2
    <3> QED BY <3>1, <3>3, <3>4, <2>1, <1>1
  <2>5. Code!Max(found2) = e
    <3>1. found2 \subseteq 0 .. k /\ k \in Nat BY <2>3, <2>1, <1>1
    <3> DEFINE x == Code!Max(found2)
    <3>2. x \in found2 /\ \A i \in found2 : x >= i
      <4> HIDE DEF found2, k
      <4> QED BY <3>1, <2>4, MinMaxOf
    <3> HIDE DEF x, found2, e
    <3>3. x >= e /\ e >= x /\ x \in Int /\ e \in Int BY <3>1, <3>2, <2>4
    <3> QED BY <3>3 DEF x
  <2> DEFINE t == SubSeq(u, 1, e)
  <2>6. Code!trim(s) = t BY <2>2, <2>4, <2>5 DEF Code!trim, Code!trimright
  <2>7. t = SubSeq(s, m, g) /\ Len(t) = e
    <3>1. e \in 1 .. k BY <2>1, <1>1
    <3> HIDE DEF found, found2, u
    <3>2. t \in Seq(Code!Byte) /\ Len(t) = e /\ \A i \in 1 .. e : t[i] = s[m + i - 1]
      BY <3>1, <2>3, <2>1, <1>1
    <3>3. m \in Nat \ {0} /\ g \in Nat /\ m <= g + 1 /\ g <= Len(s) /\ g - m + 1 = e BY <2>1, <1>1, <2>4
    <3> HIDE DEF t, e
    <3>4. SubSeq(s, m, g) \in Seq(Code!Byte) /\ Len(SubSeq(s, m, g)) = e
          /\ \A i \in 1 .. e : SubSeq(s, m, g)[i] = s[m + i - 1] BY <3>3, Piece
    <3>5. t = SubSeq(s, m, g) BY <3>2, <3>4, Same
    <3> QED BY <3>2, <3>5
  <2> DEFINE l == m - 1
             r == n - g
  <2>8. l \in 0 .. n /\ r \in 0 .. n - l /\ n = l + e + r /\ l + 1 = m /\ l + e = g BY <2>1, <1>1
  <2>9. /\ \A i \in 1 .. l : Code!IsSpace(s[i])
        /\ \A i \in n - r + 1 .. n : Code!IsSpace(s[i])
    <3>1. \A i \in 1 .. l : i \in 1 .. n /\ ~(m <= i) BY <2>1, <1>1
    <3>2. \A i \in n - r + 1 .. n : i \in 1 .. n /\ ~(g >= i) BY <2>1, <1>1
    <3> HIDE DEF found, l, r
    <3> QED BY <3>1, <3>2, <2>1, <1>f
  <2>10. \E x \in 0 .. Len(s) : \E y \in 0 .. Len(s) - x : Cuts(s, t, x, y)
    <3> HIDE DEF l, r, t, e
    <3>1. SubSeq(s, l + 1, l + Len(t)) = t /\ n = l + Len(t) + r BY <2>7, <2>8
    <3>2. Cuts(s, t, l, r) BY <3>1, <2>9, <1>1 DEF Cuts
    <3> QED BY <2>8, <3>2, <1>1
  <2>11. ~Code!IsSpace(Head(t)) /\ ~Code!IsSpace(Code!Last(t))
    <3>1. Head(t) = s[m] /\ t[Len(t)] = s[g]
      <4>1. e \in Nat /\ e >= 1 /\ 1 <= k /\ e <= k /\ m + e - 1 = g /\ m + 1 - 1 = m BY <2>1, <1>1
      <4>2. t \in Seq(Code!Byte) /\ Len(t) = e /\ t[1] = u[1] /\ t[e] = u[e]
        <5>1. Len(u) = k BY <2>3, <4>1
        <5>2. 1 \in 1 .. e /\ e \in 1 .. e /\ 1 \in Nat \ {0} /\ 1 <= e + 1 /\ e <= Len(u)
              /\ e - 1 + 1 = e /\ 1 + 1 - 1 = 1 /\ 1 + e - 1 = e BY <4>1, <5>1
        <5> HIDE DEF u, e
        <5>3. /\ t \in Seq(Code!Byte) /\ Len(t) = e - 1 + 1
              /\ \A i \in 1 .. e - 1 + 1 : t[i] = u[1 + i - 1]
          <6>1. e \in Nat /\ 1 \in Nat \ {0} /\ 1 <= e + 1 /\ e <= Len(u) /\ u \in Seq(Code!Byte)
            BY <4>1, <5>2, <2>3
          <6> QED BY <6>1, Piece
        <5> HIDE DEF t
        <5>4. t[1] = u[1 + 1 - 1] /\ t[e] = u[1 + e - 1] BY <5>2, <5>3
        <5> QED BY <5>2, <5>3, <5>4
      <4>3. 1 \in 1 .. k /\ e \in 1 .. k BY <4>1, <2>1, <1>1
      <4>4. u[1] = s[m] /\ u[e] = s[g]
        <5> HIDE DEF u, e, k
        <5> QED BY <4>1, <4>3, <2>3
      <4>5. Head(t) = t[1]
        <5> HIDE DEF t, e
        <5>1. t # <<>> /\ t \in Seq(Code!Byte) BY <4>1, <4>2
        <5> QED BY <5>1, First
      <4> QED BY <4>2, <4>4, <4>5
    <3> HIDE DEF t
    <3> QED BY <3>1, <2>1, <1>f DEF Code!Last
  <2> HIDE DEF t
  <2> QED BY <2>6, <2>10, <2>11 DEF Code!Trimmed, Cuts
<1> QED BY <1>2, <1>3

\* The bytes of the padded message: those of the message, 0x80, zeros.
Marks == {"80", "00", "len"}
\* Element p of the padded message.
Padding(len, p) == IF p <= len THEN p ELSE IF p = len + 1 THEN "80" ELSE "00"

\* f is a list of n elements.
Listed(f, n) == n \in Nat /\ f = [k \in 1 .. n |-> f[k]]
Extended(f, n, e) == [k \in 1 .. n + 1 |-> IF k = n + 1 THEN e ELSE f[k]]

\* What Append makes of a list.
LEMMA Longer ==
  ASSUME NEW f, NEW n, Listed(f, n), NEW e
  PROVE  Append(f, e) = Extended(f, n, e)
<1> USE DEF Listed
<1> DEFINE X == {f[k] : k \in 1 .. n} \union {e}
           g == Append(f, e)
           h == [k \in 1 .. n + 1 |-> IF k = n + 1 THEN e ELSE f[k]]
<1>1. (\A k \in 1 .. n : f[k] \in X) /\ e \in X OBVIOUS
<1> HIDE DEF X
<1>2. f \in Seq(X) /\ Len(f) = n BY <1>1
<1>3. g \in Seq(X) /\ Len(g) = n + 1 /\ \A k \in 1 .. n + 1 : g[k] = IF k = n + 1 THEN e ELSE f[k]
  BY <1>1, <1>2
<1>4. h \in Seq(X) /\ Len(h) = n + 1 /\ \A k \in 1 .. n + 1 : h[k] = IF k = n + 1 THEN e ELSE f[k]
  <2>1. \A k \in 1 .. n + 1 : (IF k = n + 1 THEN e ELSE f[k]) \in X BY <1>1
  <2>2. n + 1 \in Nat /\ h \in [1 .. n + 1 -> X] BY <2>1
  <2>3. \A k \in 1 .. n + 1 : h[k] = IF k = n + 1 THEN e ELSE f[k] OBVIOUS
  <2> HIDE DEF h
  <2>4. h \in Seq(X) /\ Len(h) = n + 1 BY <2>2
  <2> QED BY <2>3, <2>4
<1> HIDE DEF g, h
<1>5. g = h BY <1>3, <1>4, Same
<1> QED BY <1>5 DEF g, h, Extended

\* For a message of any length the rounds of md5.cpp absorb the blocks that
\* RFC 1321 pads it to.
THEOREM Md5PadsAsTheRfcSays == \A len \in Nat : Code!Padded(len)
<1> SUFFICES ASSUME NEW len \in Nat PROVE Code!Padded(len) OBVIOUS
<1> DEFINE q == len \div 64
           r == len % 64
           X == Nat \union Marks
           B(p) == Padding(len, p)
           zeros == (119 - r) % 64
           bytes == [i \in 1 .. len |-> i] \o <<"80">> \o Code!Zeros(zeros)
           Part(a, n) == [i \in 1 .. n |-> B(a + i)]
           Piece64(k) == [i \in 1 .. Code!Min({64, len - 64 * k}) |-> 64 * k + i]
           full == [k \in 1 .. q |-> Code!Fill(Piece64(k - 1))]
           tail == Code!Fill(Append(Piece64(q), "80"))
<1>1. q \in Nat /\ r \in 0 .. 63 /\ len = 64 * q + r /\ len % 64 = r /\ len \div 64 = q OBVIOUS
<1>2. zeros = IF r <= 55 THEN 55 - r ELSE 119 - r BY <1>1
<1>b. \A p \in Nat \ {0} : B(p) \in X BY DEF Padding, Marks
<1> HIDE DEF q, r, X, B
<1>3. /\ bytes \in Seq(X) /\ Len(bytes) = len + 1 + zeros
      /\ \A p \in 1 .. len + 1 + zeros : bytes[p] = B(p)
  <2> DEFINE a == [i \in 1 .. len |-> i]
             z == Code!Zeros(zeros)
  <2>1. a \in Seq(X) /\ Len(a) = len /\ \A p \in 1 .. len : a[p] = p BY DEF X
  <2>2. zeros \in Nat BY <1>1, <1>2
  <2> HIDE DEF zeros
  <2>3. z \in Seq(X) /\ Len(z) = zeros /\ \A p \in 1 .. zeros : z[p] = "00"
    BY <2>2 DEF Code!Zeros, X, Marks
  <2>4. "80" \in X BY DEF X, Marks
  <2> DEFINE c == a \o <<"80">>
  <2>5. c \in Seq(X) /\ Len(c) = len + 1 /\ \A p \in 1 .. len : c[p] = p BY <2>1, <2>4
  <2>6. c[len + 1] = "80" BY <2>1, <2>4
  <2> HIDE DEF a, c, z
  <2> DEFINE d == c \o z
  <2>7. d \in Seq(X) /\ Len(d) = len + 1 + zeros /\ \A p \in 1 .. len + 1 : d[p] = c[p]
    BY <2>2, <2>3, <2>5
  <2>8. \A p \in len + 2 .. len + 1 + zeros : d[p] = z[p - (len + 1)] /\ p - (len + 1) \in 1 .. zeros
    BY <2>2, <2>3, <2>5
  <2> HIDE DEF d
  <2>9. ASSUME NEW p \in 1 .. len + 1 + zeros PROVE d[p] = B(p)
    <3>1. CASE p <= len
      <4>1. p \in 1 .. len /\ p \in 1 .. len + 1 BY <3>1, <2>2
      <4> QED BY <4>1, <3>1, <2>5, <2>7 DEF B, Padding
    <3>2. CASE p = len + 1
      <4>1. p \in 1 .. len + 1 /\ ~(p <= len) BY <3>2
      <4> QED BY <4>1, <3>2, <2>6, <2>7 DEF B, Padding
    <3>3. CASE p > len + 1
      <4>1. p \in len + 2 .. len + 1 + zeros /\ ~(p <= len) /\ p # len + 1 BY <3>3, <2>2
      <4> QED BY <4>1, <2>3, <2>8 DEF B, Padding
    <3> QED BY <3>1, <3>2, <3>3, <2>2
  <2>10. bytes = d BY DEF a, c, d, z
  <2> HIDE DEF bytes
  <2> QED BY <2>7, <2>9, <2>10
<1>4. ASSUME NEW a \in Nat, NEW n \in Nat, a + n <= len + 1 + zeros
      PROVE  SubSeq(bytes, a + 1, a + n) = Part(a, n)
  <2>1. a + 1 \in Nat \ {0} /\ a + n \in Nat /\ a + 1 <= a + n + 1 /\ (a + n) - (a + 1) + 1 = n
        /\ a + n <= Len(bytes) BY <1>3, <1>4
  <2> DEFINE u == SubSeq(bytes, a + 1, a + n)
  <2> HIDE DEF bytes, zeros
  <2>2. u \in Seq(X) /\ Len(u) = n /\ \A i \in 1 .. n : u[i] = bytes[a + 1 + i - 1] BY <2>1, <1>3, Piece
  <2>3. \A i \in 1 .. n : a + 1 + i - 1 = a + i /\ a + i \in 1 .. len + 1 + zeros BY <1>3, <1>4, <2>1
  <2> HIDE DEF u
  <2>4. \A i \in 1 .. n : u[i] = B(a + i) BY <2>2, <2>3, <1>3
  <2>5. u = [i \in 1 .. n |-> u[i]] BY <2>2
  <2> QED BY <2>4, <2>5 DEF u
<1>5. ASSUME NEW k \in 1 .. q PROVE full[k] = Part(64 * (k - 1), 64)
  <2>1. len - 64 * (k - 1) >= 64 /\ len - 64 * (k - 1) \in Int BY <1>1
  <2>2. Code!Min({64, len - 64 * (k - 1)}) = 64 BY <2>1 DEF Code!Min
  <2> DEFINE u == Piece64(k - 1)
  <2>3. u = [i \in 1 .. 64 |-> 64 * (k - 1) + i] BY <2>2
  <2> HIDE DEF u
  <2>4. u \in Seq(Int) /\ Len(u) = 64 BY <2>3, <1>1
  <2>5. Code!Zeros(64 - Len(u)) = <<>> BY <2>4 DEF Code!Zeros
  <2>6. Code!Fill(u) = u
    <3>1. u \o <<>> = u BY <2>4
    <3> QED BY <2>5, <3>1 DEF Code!Fill
  <2>7. \A i \in 1 .. 64 : B(64 * (k - 1) + i) = 64 * (k - 1) + i
    <3>1. \A i \in 1 .. 64 : 64 * (k - 1) + i <= len BY <1>1
    <3> QED BY <3>1 DEF B, Padding
  <2> QED BY <2>3, <2>6, <2>7 DEF u
<1>6. tail = Part(64 * q, 64)
  <2>1. Code!Min({64, len - 64 * q}) = r BY <1>1 DEF Code!Min
  <2> DEFINE u == Piece64(q)
             v == Append(u, "80")
             z == Code!Zeros(64 - Len(v))
  <2>2. u = [i \in 1 .. r |-> 64 * q + i] BY <2>1
  <2>x. "80" \in X /\ "00" \in X /\ \A i \in 1 .. r : 64 * q + i \in X BY <1>1 DEF X, Marks
  <2> HIDE DEF u
  <2>3. u \in Seq(X) /\ Len(u) = r /\ \A i \in 1 .. r : u[i] = 64 * q + i BY <2>2, <1>1, <2>x
  <2>4. v \in Seq(X) /\ Len(v) = r + 1 /\ v[r + 1] = "80" /\ \A i \in 1 .. r : v[i] = u[i]
    BY <2>3, <2>x, <1>1
  <2> HIDE DEF v
  <2>5. z \in Seq(X) /\ Len(z) = 63 - r /\ \A i \in 1 .. 63 - r : z[i] = "00"
    BY <2>4, <2>x, <1>1 DEF Code!Zeros
  <2> HIDE DEF z
  <2> DEFINE w == v \o z
  <2>6. w \in Seq(X) /\ Len(w) = 64 /\ \A i \in 1 .. r + 1 : w[i] = v[i] BY <2>4, <2>5, <1>1
  <2>7. \A i \in r + 2 .. 64 : w[i] = z[i - (r + 1)] /\ i - (r + 1) \in 1 .. 63 - r BY <2>4, <2>5, <1>1
  <2> HIDE DEF w
  <2>8. ASSUME NEW i \in 1 .. 64 PROVE w[i] = B(64 * q + i)
    <3>1. CASE i <= r
      <4>1. i \in 1 .. r /\ i \in 1 .. r + 1 /\ 64 * q + i <= len BY <3>1, <1>1
      <4> QED BY <4>1, <2>3, <2>4, <2>6 DEF B, Padding
    <3>2. CASE i = r + 1
      <4>1. i \in 1 .. r + 1 /\ 64 * q + i = len + 1 /\ ~(64 * q + i <= len) BY <3>2, <1>1
      <4> QED BY <4>1, <3>2, <2>4, <2>6 DEF B, Padding
    <3>3. CASE i > r + 1
      <4>1. i \in r + 2 .. 64 /\ ~(64 * q + i <= len) /\ 64 * q + i # len + 1 BY <3>3, <1>1
      <4> QED BY <4>1, <2>5, <2>7 DEF B, Padding
    <3> QED BY <3>1, <3>2, <3>3, <1>1
  <2>9. w = [i \in 1 .. 64 |-> w[i]] BY <2>6
  <2>10. tail = w BY DEF w, z, v, u, Code!Fill
  <2> HIDE DEF tail
  <2> QED BY <2>8, <2>9, <2>10
<1> DEFINE n == (Len(bytes) + 8) \div 64
           blocks == [k \in 1 .. n |-> IF k < n THEN SubSeq(bytes, 64 * k - 63, 64 * k)
                                       ELSE SubSeq(bytes, 64 * k - 63, 64 * k - 8) \o <<"len">>]
<1>7. full = [k \in 1 .. q |-> Part(64 * (k - 1), 64)]
  <2> HIDE DEF Part
  <2> QED BY <1>5
<1>8. CASE r <= 55
  <2>1. Len(bytes) = 64 * q + 56 /\ n = q + 1 /\ len + 1 + zeros = 64 * q + 56 BY <1>8, <1>1, <1>2, <1>3
  <2>2. SubSeq(tail, 1, 56) = Part(64 * q, 56)
    <3> DEFINE w == [i \in 1 .. 64 |-> B(64 * q + i)]
    <3>1. \A i \in 1 .. 64 : 64 * q + i \in Nat \ {0} BY <1>1
    <3>2. w \in Seq(X) /\ Len(w) = 64 /\ \A i \in 1 .. 64 : w[i] = B(64 * q + i) BY <3>1, <1>b
    <3> HIDE DEF w
    <3>3. SubSeq(w, 1, 56) = [i \in 1 .. 56 |-> w[i]] BY <3>2
    <3> HIDE DEF tail
    <3> QED BY <3>2, <3>3, <1>6 DEF w
  <2>3. Code!Md5Sum(len) = Append(full, Part(64 * q, 56) \o <<"len">>)
    <3>1. ~(len % 64 > 55) BY <1>1, <1>8
    <3>2. Code!Md5Sum(len) = Append(full, SubSeq(tail, 1, 56) \o <<"len">>)
      BY <3>1 DEF Code!Md5Sum, Code!Absorb, q
    <3> HIDE DEF full, tail
    <3> QED BY <3>2, <2>2
  <2>4. ASSUME NEW k \in 1 .. q PROVE SubSeq(bytes, 64 * k - 63, 64 * k) = Part(64 * (k - 1), 64)
    <3>1. 64 * (k - 1) \in Nat /\ 64 \in Nat /\ 64 * (k - 1) + 64 <= len + 1 + zeros
          /\ 64 * (k - 1) + 1 = 64 * k - 63 /\ 64 * (k - 1) + 64 = 64 * k BY <2>1, <1>1
    <3> HIDE DEF bytes, zeros, Part
    <3>2. SubSeq(bytes, 64 * (k - 1) + 1, 64 * (k - 1) + 64) = Part(64 * (k - 1), 64) BY <3>1, <1>4
    <3> QED BY <3>1, <3>2
  <2>5. SubSeq(bytes, 64 * n - 63, 64 * n - 8) = Part(64 * q, 56)
    <3>1. 64 * q \in Nat /\ 56 \in Nat /\ 64 * q + 56 <= len + 1 + zeros
          /\ 64 * q + 1 = 64 * n - 63 /\ 64 * q + 56 = 64 * n - 8 BY <2>1, <1>1
    <3> HIDE DEF bytes, zeros, Part, n
    <3>2. SubSeq(bytes, 64 * q + 1, 64 * q + 56) = Part(64 * q, 56) BY <3>1, <1>4
    <3> QED BY <3>1, <3>2
  <2> HIDE DEF n, bytes, full, Part
  <2>6. Append(full, Part(64 * q, 56) \o <<"len">>) = blocks
    <3> DEFINE e == Part(64 * q, 56) \o <<"len">>
    <3>1. full = [k \in 1 .. q |-> full[k]] /\ \A k \in 1 .. q : full[k] = Part(64 * (k - 1), 64)
      BY <1>7
    <3> HIDE DEF e
    <3>2. Append(full, e) = [k \in 1 .. q + 1 |-> IF k = q + 1 THEN e ELSE full[k]]
      <4>1. Listed(full, q) BY <3>1, <1>1 DEF Listed
      <4>2. Append(full, e) = Extended(full, q, e) BY <4>1, Longer
      <4> QED BY <4>2 DEF Extended
    <3>3. ASSUME NEW k \in 1 .. n
          PROVE  (IF k = q + 1 THEN e ELSE full[k]) = blocks[k]
      <4>1. CASE k < n
        <5>1. k \in 1 .. q /\ k # q + 1 BY <4>1, <2>1, <1>1
        <5> QED BY <5>1, <4>1, <2>4, <3>1
      <4>2. CASE ~(k < n)
        <5>1. k = n /\ k = q + 1 /\ ~(n < n) BY <4>2, <2>1, <1>1
        <5>2. blocks[n] = SubSeq(bytes, 64 * n - 63, 64 * n - 8) \o <<"len">> BY <5>1
        <5> HIDE DEF blocks
        <5> QED BY <5>1, <5>2, <2>5 DEF e
      <4> QED BY <4>1, <4>2
    <3>4. blocks = [k \in 1 .. n |-> blocks[k]] OBVIOUS
    <3> HIDE DEF blocks
    <3> QED BY <3>2, <3>3, <3>4, <2>1 DEF e
  <2> HIDE DEF blocks
  <2> QED BY <2>3, <2>6 DEF Code!Padded, blocks, n, bytes, zeros, r
<1>9. CASE r > 55
  <2>1. Len(bytes) = 64 * q + 120 /\ n = q + 2 /\ len + 1 + zeros = 64 * q + 120
    BY <1>9, <1>1, <1>2, <1>3
  <2>2. Code!Zeros(56) = Part(64 * (q + 1), 56)
    <3>1. \A i \in 1 .. 56 : ~(64 * (q + 1) + i <= len) /\ 64 * (q + 1) + i # len + 1 BY <1>1
    <3> QED BY <3>1 DEF Code!Zeros, B, Padding
  <2>3. Code!Md5Sum(len) = Append(Append(full, Part(64 * q, 64)), Part(64 * (q + 1), 56) \o <<"len">>)
    <3>1. len % 64 > 55 BY <1>1, <1>9
    <3>2. Code!Md5Sum(len) = Append(Append(full, tail), Code!Zeros(56) \o <<"len">>)
      BY <3>1 DEF Code!Md5Sum, Code!Absorb, q
    <3> HIDE DEF full, tail, Part
    <3> QED BY <3>2, <2>2, <1>6
  <2>4. ASSUME NEW k \in 1 .. q + 1 PROVE SubSeq(bytes, 64 * k - 63, 64 * k) = Part(64 * (k - 1), 64)
    <3>1. 64 * (k - 1) \in Nat /\ 64 \in Nat /\ 64 * (k - 1) + 64 <= len + 1 + zeros
          /\ 64 * (k - 1) + 1 = 64 * k - 63 /\ 64 * (k - 1) + 64 = 64 * k BY <2>1, <1>1
    <3> HIDE DEF bytes, zeros, Part
    <3>2. SubSeq(bytes, 64 * (k - 1) + 1, 64 * (k - 1) + 64) = Part(64 * (k - 1), 64) BY <3>1, <1>4
    <3> QED BY <3>1, <3>2
  <2>5. SubSeq(bytes, 64 * n - 63, 64 * n - 8) = Part(64 * (q + 1), 56)
    <3>1. 64 * (q + 1) \in Nat /\ 56 \in Nat /\ 64 * (q + 1) + 56 <= len + 1 + zeros
          /\ 64 * (q + 1) + 1 = 64 * n - 63 /\ 64 * (q + 1) + 56 = 64 * n - 8 BY <2>1, <1>1
    <3> HIDE DEF bytes, zeros, Part, n
    <3>2. SubSeq(bytes, 64 * (q + 1) + 1, 64 * (q + 1) + 56) = Part(64 * (q + 1), 56) BY <3>1, <1>4
    <3> QED BY <3>1, <3>2
  <2> HIDE DEF n, bytes, full, Part
  <2>6. Append(Append(full, Part(64 * q, 64)), Part(64 * (q + 1), 56) \o <<"len">>) = blocks
    <3> DEFINE d == Part(64 * q, 64)
               e == Part(64 * (q + 1), 56) \o <<"len">>
               f == [k \in 1 .. q + 1 |-> IF k = q + 1 THEN d ELSE full[k]]
    <3>1. full = [k \in 1 .. q |-> full[k]] /\ \A k \in 1 .. q : full[k] = Part(64 * (k - 1), 64)
      BY <1>7
    <3> HIDE DEF d, e
    <3>2. Append(full, d) = f
      <4>1. Listed(full, q) BY <3>1, <1>1 DEF Listed
      <4>2. Append(full, d) = Extended(full, q, d) BY <4>1, Longer
      <4> QED BY <4>2 DEF Extended
    <3>3. f = [k \in 1 .. q + 1 |-> f[k]] /\ q + 1 \in Nat /\ (q + 1) + 1 = q + 2 BY <1>1
    <3>4. \A k \in 1 .. q + 1 : f[k] = IF k = q + 1 THEN d ELSE full[k] OBVIOUS
    <3> HIDE DEF f
    <3>5. Append(f, e) = [k \in 1 .. q + 2 |-> IF k = q + 2 THEN e ELSE f[k]]
      <4>1. Listed(f, q + 1) BY <3>3 DEF Listed
      <4>2. Append(f, e) = Extended(f, q + 1, e) BY <4>1, Longer
      <4> QED BY <4>2, <3>3 DEF Extended
    <3>6. ASSUME NEW k \in 1 .. n
          PROVE  (IF k = q + 2 THEN e ELSE f[k]) = blocks[k]
      <4>1. CASE k < n
        <5>1. k \in 1 .. q + 1 /\ (k \in 1 .. q \/ k = q + 1) /\ (q + 1) - 1 = q /\ k # q + 2
          BY <4>1, <2>1, <1>1
        <5>2. blocks[k] = Part(64 * (k - 1), 64) BY <5>1, <4>1, <2>4
        <5> HIDE DEF blocks
        <5>3. f[k] = Part(64 * (k - 1), 64) BY <5>1, <3>1, <3>4 DEF d
        <5> QED BY <5>1, <5>2, <5>3
      <4>2. CASE ~(k < n)
        <5>1. k = n /\ k = q + 2 /\ ~(n < n) BY <4>2, <2>1, <1>1
        <5>2. blocks[n] = SubSeq(bytes, 64 * n - 63, 64 * n - 8) \o <<"len">> BY <5>1
        <5> HIDE DEF blocks
        <5> QED BY <5>1, <5>2, <2>5 DEF e
      <4> QED BY <4>1, <4>2
    <3>7. blocks = [k \in 1 .. n |-> blocks[k]] OBVIOUS
    <3> HIDE DEF blocks
    <3> QED BY <3>2, <3>5, <3>6, <3>7, <2>1 DEF e, d
  <2> HIDE DEF blocks
  <2> QED BY <2>3, <2>6 DEF Code!Padded, blocks, n, bytes, zeros, r
<1> QED BY <1>1, <1>8, <1>9

\* The steps of a recursive function that asks for values further on.
Descends(n, V, st) ==
  /\ n \in Nat /\ V # {}
  /\ st \in [1 .. n -> [[1 .. n -> V] -> V]]
  /\ \A i \in 1 .. n : \A f, g \in [1 .. n -> V] :
       (\A j \in i + 1 .. n : f[j] = g[j]) => st[i][f] = st[i][g]

\* It has a solution, from the last value down.
LEMMA RecursionDownwards ==
  ASSUME NEW n, NEW V, NEW st, Descends(n, V, st)
  PROVE  \E f : Solution(1 .. n, V, st, f)
<1> USE DEF Descends
<1> DEFINE D == 1 .. n
           rank == [i \in D |-> n - i]
<1>1. rank \in [D -> Nat] /\ \A i \in D : rank[i] < n OBVIOUS
<1>2. ASSUME NEW i \in D, NEW f \in [D -> V], NEW g \in [D -> V],
             \A j \in D : rank[j] < rank[i] => f[j] = g[j]
      PROVE  st[i][f] = st[i][g]
  <2>1. \A j \in i + 1 .. n : j \in D /\ rank[j] < rank[i] OBVIOUS
  <2> QED BY <2>1, <1>2
<1>3. Ranked(D, V, rank, n, st)
  <2> HIDE DEF rank
  <2> QED BY <1>1, <1>2 DEF Ranked
<1> QED BY <1>3, RecursionOnRank

\* A file has the begin of what tee was given, all of it where there is room; a
\* loss is an error for a text of the buffer's length or more, and else silent.
THEOREM TeeIsRead ==
  \A data \in Seq(Code!Byte), free \in Nat, buffer \in Nat \ {0} : Code!FileIsWritten(data, free, buffer)
<1> SUFFICES ASSUME NEW data \in Seq(Code!Byte), NEW free \in Nat, NEW buffer \in Nat \ {0}
             PROVE  Code!FileIsWritten(data, free, buffer) OBVIOUS
<1> DEFINE m == Code!Min({Len(data), free})
           got == SubSeq(data, 1, m)
<1>1. Len(data) \in Nat /\ m = IF free >= Len(data) THEN Len(data) ELSE free BY DEF Code!Min
<1> HIDE DEF m
<1>2. Len(got) = m /\ (m = Len(data) => got = data) BY <1>1
<1> HIDE DEF got
<1>3. Code!tee(data, free, buffer) =
        [file |-> {got}, ret |-> IF Len(data) >= buffer /\ free < Len(data) THEN -1 ELSE 0]
  BY DEF Code!tee, got, m
<1>4. Code!cat({got}) = got /\ Code!filesize({got}) = Len(got) BY DEF Code!cat, Code!filesize
<1> DEFINE t == Code!tee(data, free, buffer)
           c == Code!cat(t.file)
<1>5. c = got /\ Code!filesize(t.file) = Len(c)
  <2>1. t.file = {got} BY <1>3
  <2> HIDE DEF t
  <2> QED BY <2>1, <1>4, Zenon
<1>6. c = SubSeq(data, 1, Len(c)) BY <1>2, <1>5 DEF got
<1>7. t.ret = (IF Len(data) >= buffer /\ free < Len(data) THEN -1 ELSE 0) BY <1>3
<1>8. Code!FileIsWritten(data, free, buffer) <=>
        /\ c = SubSeq(data, 1, Len(c)) /\ Code!filesize(t.file) = Len(c)
        /\ IF free >= Len(data) THEN t.ret = 0 /\ c = data
           ELSE Len(c) < Len(data) /\ (t.ret = -1 <=> Len(data) >= buffer)
  BY DEF Code!FileIsWritten
<1> HIDE DEF t, c
<1>9. IF free >= Len(data) THEN t.ret = 0 /\ c = data
      ELSE Len(c) < Len(data) /\ (t.ret = -1 <=> Len(data) >= buffer)
  BY <1>1, <1>2, <1>5, <1>7
<1> QED BY <1>5, <1>6, <1>8, <1>9

\* A printed time is read as the same second, where there is no summer time.
THEOREM TimeIsReadAsPrinted == \A zone, sec : sec \in Nat => Code!TimesAreKept(zone, sec)
<1> SUFFICES ASSUME NEW sec \in Nat
             PROVE  Code!timestamp("fixed", Code!timestr("fixed", sec, Code!Field)) = {sec}
  BY DEF Code!TimesAreKept
<1> DEFINE str == Code!timestr("fixed", sec, Code!Field)
           Junk == [day : 0 .. 1, hour : {0, 12}, isdst : BOOLEAN]
<1>1. DOMAIN str = Code!Field BY DEF Code!timestr
<1>2. str["day"] = sec \div 24 /\ str["hour"] = sec % 24 BY DEF Code!timestr, Code!localtime, Code!Field
<1>3. 24 * (sec \div 24) + (sec % 24) - 0 = sec OBVIOUS
<1>4. [day |-> 0, hour |-> 0, isdst |-> TRUE] \in Junk OBVIOUS
<1> HIDE DEF str
<1>5. Code!timestamp("fixed", str) = {24 * (sec \div 24) + (sec % 24) - 0 : junk \in Junk}
  BY <1>1, <1>2 DEF Code!timestamp, Code!Field
<1> HIDE DEF Junk
<1> QED BY <1>3, <1>4, <1>5 DEF str

\* The units of a text that iconv converts or stops at.
Unit == {"c", "cut"}

\* Two neighbours of a text are one piece of it.
LEMMA Neighbours ==
  ASSUME NEW X, NEW s \in Seq(X), NEW a \in Nat \ {0}, NEW b \in Nat, NEW c \in Nat,
         a <= b + 1, b <= c, c <= Len(s)
  PROVE  SubSeq(s, a, b) \o SubSeq(s, b + 1, c) = SubSeq(s, a, c)
<1> DEFINE u == SubSeq(s, a, b)
           v == SubSeq(s, b + 1, c)
           w == SubSeq(s, a, c)
<1>1. u \in Seq(X) /\ Len(u) = b - a + 1 /\ \A i \in 1 .. b - a + 1 : u[i] = s[a + i - 1] BY Piece
<1>2. v \in Seq(X) /\ Len(v) = c - b /\ \A i \in 1 .. c - b : v[i] = s[b + i] OBVIOUS
<1>3. w \in Seq(X) /\ Len(w) = c - a + 1 /\ \A i \in 1 .. c - a + 1 : w[i] = s[a + i - 1] OBVIOUS
<1> HIDE DEF u, v, w
<1>4. /\ u \o v \in Seq(X) /\ Len(u \o v) = c - a + 1
      /\ \A i \in 1 .. b - a + 1 : (u \o v)[i] = u[i]
      /\ \A i \in b - a + 2 .. c - a + 1 : (u \o v)[i] = v[i - (b - a + 1)] BY <1>1, <1>2
<1>5. ASSUME NEW i \in 1 .. c - a + 1 PROVE (u \o v)[i] = w[i]
  <2>1. CASE i <= b - a + 1
    <3>1. i \in 1 .. b - a + 1 BY <2>1
    <3> QED BY <3>1, <1>1, <1>3, <1>4
  <2>2. CASE i > b - a + 1
    <3>1. i \in b - a + 2 .. c - a + 1 /\ i - (b - a + 1) \in 1 .. c - b
          /\ b + (i - (b - a + 1)) = a + i - 1 BY <2>2
    <3>2. (u \o v)[i] = v[i - (b - a + 1)] BY <3>1, <1>4
    <3>3. v[i - (b - a + 1)] = s[b + (i - (b - a + 1))] BY <3>1, <1>2
    <3>4. w[i] = s[a + i - 1] BY <1>3
    <3> QED BY <3>1, <3>2, <3>3, <3>4
  <2>3. i <= b - a + 1 \/ i > b - a + 1 OBVIOUS
  <2> QED BY <2>1, <2>2, <2>3
<1>6. u \o v = w BY <1>3, <1>4, <1>5, Same
<1> QED BY <1>6 DEF u, v, w

\* What the loop of convert_charset answers from unit i on.
Answers == [to : Seq(Unit), ret : {0, -1}]
\* The chunk from unit i on.
Chunk(text, room, i) == SubSeq(text, i, Code!Min({i + room - 1, Len(text)}))
\* What the loop of convert_charset makes of the chunk from i on and the rest.
Converted(text, room, stale, i, rest) ==
  IF "cut" \in Code!ToSet(Chunk(text, room, i)) THEN [to |-> <<>>, ret |-> -1]
  ELSE IF i + room > Len(text) /\ "sub" \in Code!ToSet(Chunk(text, room, i)) /\ ~stale /\ i = 1
  THEN [to |-> <<>>, ret |-> 0]
  ELSE [to |-> Code!CString(Chunk(text, room, i)) \o rest.to, ret |-> rest.ret]

\* The last unit of the chunk from i on.
ChunkEnd(text, room, i) == IF i + room - 1 <= Len(text) THEN i + room - 1 ELSE Len(text)

\* A piece that ends before it begins is empty.
LEMMA Nothing ==
  ASSUME NEW X, NEW s \in Seq(X), NEW a \in Int, NEW b \in Int, a > b
  PROVE  SubSeq(s, a, b) = <<>>
OBVIOUS

\* What comes of the units i .. end and the rest behind them.
Passed(text, i, end, rest) ==
  IF \E j \in i .. end : text[j] = "cut" THEN [to |-> <<>>, ret |-> -1]
  ELSE [to |-> SubSeq(text, i, end) \o rest.to, ret |-> rest.ret]

\* A chunk that converts whole
LEMMA ChunkIsKept ==
  ASSUME NEW text \in Seq(Unit), NEW room \in Nat \ {0}, NEW stale \in BOOLEAN,
         NEW i \in 1 .. Len(text), NEW rest \in Answers
  PROVE  LET end == ChunkEnd(text, room, i)
         IN /\ Chunk(text, room, i) = SubSeq(text, i, end)
            /\ Converted(text, room, stale, i, rest) \in Answers
            /\ Converted(text, room, stale, i, rest) = Passed(text, i, end, rest)
<1> DEFINE n == Len(text)
           end == ChunkEnd(text, room, i)
           c == SubSeq(text, i, end)
<1>1. n \in Nat /\ end \in Nat /\ i <= end + 1 /\ end <= Len(text) /\ i \in Nat \ {0} /\ i <= end
  BY DEF ChunkEnd
<1>2. Code!Min({i + room - 1, n}) = end BY <1>1 DEF Code!Min, ChunkEnd
<1>3. Chunk(text, room, i) = c BY <1>2 DEF Chunk
<1> HIDE DEF end
<1>4. c \in Seq(Unit) /\ Len(c) = end - i + 1 /\ \A k \in 1 .. end - i + 1 : c[k] = text[i + k - 1]
  BY <1>1, Piece
<1> HIDE DEF c
<1>5. Code!ToSet(c) \subseteq Unit BY <1>4 DEF Code!ToSet
<1>6. "sub" \notin Code!ToSet(c) /\ "nul" \notin Code!ToSet(c) BY <1>5 DEF Unit
<1>7. "cut" \in Code!ToSet(c) <=> \E j \in i .. end : text[j] = "cut"
  <2>1. \A k \in 1 .. end - i + 1 : i + k - 1 \in i .. end BY <1>1
  <2>2. \A j \in i .. end : j - i + 1 \in 1 .. end - i + 1 /\ i + (j - i + 1) - 1 = j BY <1>1
  <2>3. DOMAIN c = 1 .. end - i + 1 BY <1>4, <1>1
  <2>4. \A j \in i .. end : c[j - i + 1] = text[j] BY <2>2, <1>4
  <2>5. ASSUME "cut" \in Code!ToSet(c) PROVE \E j \in i .. end : text[j] = "cut"
    <3>1. PICK k \in DOMAIN c : c[k] = "cut" BY <2>5 DEF Code!ToSet
    <3> QED BY <2>1, <2>3, <3>1, <1>4
  <2>6. ASSUME NEW j \in i .. end, text[j] = "cut" PROVE "cut" \in Code!ToSet(c)
    <3>1. j - i + 1 \in DOMAIN c /\ c[j - i + 1] = "cut" BY <2>2, <2>3, <2>4, <2>6
    <3> QED BY <3>1 DEF Code!ToSet
  <2> QED BY <2>5, <2>6
<1>8. Code!CString(c) = c BY <1>6 DEF Code!CString, Code!ToSet
<1>9. Converted(text, room, stale, i, rest)
      = IF \E j \in i .. end : text[j] = "cut" THEN [to |-> <<>>, ret |-> -1]
        ELSE [to |-> c \o rest.to, ret |-> rest.ret]
  BY <1>3, <1>6, <1>7, <1>8 DEF Converted
<1>10. Converted(text, room, stale, i, rest) \in Answers
  <2>1. c \o rest.to \in Seq(Unit) /\ <<>> \in Seq(Unit) /\ rest.ret \in {0, -1} BY <1>4 DEF Answers
  <2> QED BY <1>9, <2>1 DEF Answers
<1> QED BY <1>3, <1>9, <1>10 DEF c, end, Passed

\* convert_charset is what its turns make.
LEMMA ConversionTurns ==
  ASSUME NEW text \in Seq(Unit), NEW room \in Nat \ {0}, NEW stale \in BOOLEAN
  PROVE  \E from : /\ Code!convert_charset(text, room, stale) = from[1]
                   /\ from \in [1 .. Len(text) + room + 1 -> Answers]
                   /\ \A i \in 1 .. Len(text) + room + 1 :
                        from[i] = IF i > Len(text) THEN [to |-> <<>>, ret |-> 0]
                                  ELSE Converted(text, room, stale, i, from[i + room])
<1> DEFINE n == Len(text)
           m == n + room + 1
           V == Answers
           st == [i \in 1 .. m |-> [f \in [1 .. m -> V] |->
                    IF i > n THEN [to |-> <<>>, ret |-> 0] ELSE Converted(text, room, stale, i, f[i + room])]]
<1>1. n \in Nat /\ m \in Nat /\ n = Len(text) /\ m = n + room + 1 OBVIOUS
<1> HIDE DEF n, m
<1>2. [to |-> <<>>, ret |-> 0] \in V BY DEF Answers
<1>3. \A i \in 1 .. m : i > n \/ (i \in 1 .. Len(text) /\ i + room \in 1 .. m /\ i + room \in i + 1 .. m)
  BY <1>1
<1> HIDE DEF V
<1>4. st \in [1 .. m -> [[1 .. m -> V] -> V]]
  <2>1. ASSUME NEW i \in 1 .. m, NEW f \in [1 .. m -> V], ~(i > n)
        PROVE  Converted(text, room, stale, i, f[i + room]) \in V
    <3>1. i \in 1 .. Len(text) /\ f[i + room] \in V BY <2>1, <1>3
    <3> QED BY <3>1, ChunkIsKept DEF V
  <2> QED BY <1>2, <2>1
<1>5. \A i \in 1 .. m : \A f, g \in [1 .. m -> V] :
        (\A j \in i + 1 .. m : f[j] = g[j]) => st[i][f] = st[i][g]
  BY <1>3
<1>6. PICK f : Solution(1 .. m, V, st, f)
  <2>1. Descends(m, V, st)
    <3> HIDE DEF st
    <3> QED BY <1>1, <1>2, <1>4, <1>5 DEF Descends
  <2> HIDE DEF st
  <2> QED BY <2>1, RecursionDownwards
<1> DEFINE Eq(h) == h = [i \in 1 .. Len(text) + room + 1 |->
                           IF i > Len(text) THEN [to |-> <<>>, ret |-> 0]
                           ELSE Converted(text, room, stale, i, h[i + room])]
           from == CHOOSE h : Eq(h)
<1>7. Eq(f) /\ f \in [1 .. m -> V]
  <2>1. f \in [1 .. m -> V] /\ \A i \in 1 .. m : f[i] = st[i][f]
    <3> HIDE DEF st
    <3> QED BY <1>6 DEF Solution
  <2>2. \A i \in 1 .. m : f[i] = IF i > n THEN [to |-> <<>>, ret |-> 0]
                                 ELSE Converted(text, room, stale, i, f[i + room])
    BY <2>1
  <2> HIDE DEF st
  <2> QED BY <2>1, <2>2, <1>1
<1>8. Eq(from) BY <1>7
<1>9. Code!convert_charset(text, room, stale) = from[1] BY DEF Code!convert_charset, Converted, Chunk
<1> HIDE DEF from
<1>10. from \in [1 .. m -> V]
  <2> DEFINE T == {i \in Int : from[i] \in V}
  <2>1. ASSUME NEW k \in 1 .. m, \A j \in k + 1 .. m : j \in T PROVE k \in T
    <3>1. k \in Int /\ from[k] = IF k > n THEN [to |-> <<>>, ret |-> 0]
                                 ELSE Converted(text, room, stale, k, from[k + room])
      BY <1>8, <1>1
    <3>2. CASE k > n BY <3>1, <3>2, <1>2
    <3>3. CASE ~(k > n)
      <4>1. k \in 1 .. Len(text) /\ from[k + room] \in V BY <3>3, <2>1, <1>3
      <4>2. Converted(text, room, stale, k, from[k + room]) \in V BY <4>1, ChunkIsKept DEF V
      <4> QED BY <3>1, <3>3, <4>2
    <3> QED BY <3>2, <3>3
  <2>2. 1 .. m \subseteq T
    <3> HIDE DEF T
    <3>1. GrowsDown(1, m, T) BY <1>1, <2>1 DEF GrowsDown
    <3> QED BY <3>1, Downwards
  <2>3. from = [i \in 1 .. m |-> from[i]] BY <1>8, <1>1
  <2> QED BY <2>2, <2>3
<1> QED BY <1>8, <1>9, <1>10, <1>1 DEF V

\* What is converted from unit i on.
ConvertedFrom(text, i, c) ==
  /\ c \in Answers
  /\ c.ret = 0 <=> \A j \in i .. Len(text) : text[j] # "cut"
  /\ c.ret = 0 => c.to = SubSeq(text, i, Len(text))

\* A text without zero bytes and replacements is converted whole or not at all,
\* in chunks of any size and whatever errno was (charset.cpp).
THEOREM ConversionIsWhole ==
  \A text \in Seq({"c", "nul", "sub", "cut"}), room \in Nat \ {0} : Code!ConvertsAll(text, room)
<1> SUFFICES ASSUME NEW text \in Seq({"c", "nul", "sub", "cut"}), NEW room \in Nat \ {0},
                    NEW stale \in BOOLEAN, {"nul", "sub"} \intersect Code!ToSet(text) = {}
             PROVE  LET c == Code!convert_charset(text, room, stale)
                    IN /\ (c.ret = 0) = ("cut" \notin Code!ToSet(text))
                       /\ c.ret = 0 => c.to = text BY DEF Code!ConvertsAll
<1> DEFINE n == Len(text)
           m == n + room + 1
<1>1. text \in Seq(Unit) BY DEF Code!ToSet, Unit
<1>2. n \in Nat /\ m \in Nat /\ n = Len(text) /\ m = n + room + 1 OBVIOUS
<1>3. PICK from : /\ Code!convert_charset(text, room, stale) = from[1]
                  /\ from \in [1 .. m -> Answers]
                  /\ \A i \in 1 .. m : from[i] = IF i > n THEN [to |-> <<>>, ret |-> 0]
                                                 ELSE Converted(text, room, stale, i, from[i + room])
  BY <1>1, ConversionTurns
<1> HIDE DEF n, m
<1> DEFINE T == {i \in Int : ConvertedFrom(text, i, from[i])}
<1>4. ASSUME NEW k \in 1 .. m, \A j \in k + 1 .. m : j \in T PROVE k \in T
  <2>1. k \in Int /\ from[k] \in Answers BY <1>2, <1>3
  <2>2. CASE k > n
    <3>1. from[k] = [to |-> <<>>, ret |-> 0] BY <2>2, <1>3
    <3>2. SubSeq(text, k, n) = <<>> /\ \A j \in k .. n : FALSE BY <2>2, <1>1, <1>2
    <3>3. from[k].ret = 0 /\ from[k].to = <<>> BY <3>1
    <3> QED BY <2>1, <3>2, <3>3, <1>2 DEF ConvertedFrom
  <2>3. CASE ~(k > n)
    <3> DEFINE end == ChunkEnd(text, room, k)
               rest == from[k + room]
    <3>1. k \in 1 .. Len(text) /\ k + room \in 1 .. m /\ k + room \in k + 1 .. m BY <2>3, <1>2
    <3>2. ConvertedFrom(text, k + room, rest) /\ rest \in Answers BY <3>1, <1>3, <1>4
    <3> HIDE DEF rest
    <3>3. from[k] = Passed(text, k, end, rest)
      <4>1. from[k] = Converted(text, room, stale, k, rest) BY <2>3, <1>3 DEF rest
      <4> QED BY <4>1, <3>1, <3>2, <1>1, <1>2, ChunkIsKept
    <3>4. end \in Nat /\ k \in Nat \ {0} /\ k <= end + 1 /\ end <= n /\ n <= Len(text)
          /\ (end + 1 = k + room \/ (end = n /\ k + room > n)) BY <3>1, <1>2 DEF ChunkEnd
    <3>5. SubSeq(text, k + room, n) = SubSeq(text, end + 1, n)
      <4>1. CASE end + 1 = k + room BY <4>1
      <4>2. CASE end = n /\ k + room > n
        <5>1. k + room > n /\ end + 1 > n /\ k + room \in Int /\ end + 1 \in Int /\ n \in Int
          BY <4>2, <1>2, <3>4
        <5> HIDE DEF end
        <5>2. SubSeq(text, k + room, n) = <<>> BY <5>1, <1>1, Nothing
        <5>3. SubSeq(text, end + 1, n) = <<>> BY <5>1, <1>1, Nothing
        <5> QED BY <5>2, <5>3
      <4> QED BY <4>1, <4>2, <3>4
    <3>6. SubSeq(text, k, end) \o SubSeq(text, end + 1, n) = SubSeq(text, k, n)
      <4> HIDE DEF end
      <4> QED BY <3>4, <1>1, <1>2, Neighbours
    <3>7. \A j \in k .. n : j \in k .. end \/ j \in k + room .. n BY <3>4, <1>2
    <3>8. \A j \in k .. end : j \in k .. n BY <3>4, <1>2
    <3>9. \A j \in k + room .. n : j \in k .. n BY <3>4, <1>2
    <3> HIDE DEF end
    <3>10. CASE \E j \in k .. end : text[j] = "cut"
      <4>1. from[k].ret = -1 /\ -1 # 0 BY <3>3, <3>10 DEF Passed
      <4>2. \E j \in k .. n : text[j] = "cut" BY <3>8, <3>10
      <4> QED BY <4>1, <4>2, <2>1, <1>2 DEF ConvertedFrom
    <3>11. CASE ~\E j \in k .. end : text[j] = "cut"
      <4>1. from[k].ret = rest.ret /\ from[k].to = SubSeq(text, k, end) \o rest.to
        <5>1. from[k] = [to |-> SubSeq(text, k, end) \o rest.to, ret |-> rest.ret]
          BY <3>3, <3>11 DEF Passed
        <5> DEFINE x == SubSeq(text, k, end) \o rest.to
        <5> HIDE DEF x
        <5>2. from[k] = [to |-> x, ret |-> rest.ret] BY <5>1 DEF x
        <5>3. from[k].ret = rest.ret /\ from[k].to = x BY <5>2
        <5> QED BY <5>3 DEF x
      <4>2. (\A j \in k .. n : text[j] # "cut") <=> (\A j \in k + room .. n : text[j] # "cut")
        BY <3>7, <3>9, <3>11
      <4>3. rest.ret = 0 <=> \A j \in k + room .. n : text[j] # "cut" BY <3>2, <1>2 DEF ConvertedFrom
      <4>4. rest.ret = 0 => rest.to = SubSeq(text, end + 1, n) BY <3>2, <3>5, <1>2 DEF ConvertedFrom
      <4>5. from[k].ret = 0 => from[k].to = SubSeq(text, k, n) BY <4>1, <4>4, <3>6
      <4>6. from[k].ret = 0 <=> \A j \in k .. n : text[j] # "cut" BY <4>1, <4>2, <4>3
      <4> QED BY <4>5, <4>6, <2>1, <1>2 DEF ConvertedFrom
    <3> QED BY <3>10, <3>11
  <2> QED BY <2>2, <2>3
<1>5. 1 .. m \subseteq T
  <2> HIDE DEF T
  <2>1. GrowsDown(1, m, T) BY <1>2, <1>4 DEF GrowsDown
  <2> QED BY <2>1, Downwards
<1>6. ConvertedFrom(text, 1, from[1])
  <2>1. 1 \in 1 .. m BY <1>2
  <2> QED BY <2>1, <1>5
<1>7. SubSeq(text, 1, n) = text BY <1>1, <1>2
<1>8. "cut" \notin Code!ToSet(text) <=> \A j \in 1 .. n : text[j] # "cut" BY <1>1, <1>2 DEF Code!ToSet
<1> DEFINE c == Code!convert_charset(text, room, stale)
<1>9. /\ c.ret = 0 <=> \A j \in 1 .. n : text[j] # "cut"
      /\ c.ret = 0 => c.to = text BY <1>3, <1>6, <1>7, <1>2 DEF ConvertedFrom
<1> HIDE DEF c
<1> QED BY <1>8, <1>9 DEF c

\* No parts make the empty sequence.
LEMMA FlattenNothing == Code!FlattenSeq(<<>>) = <<>>
BY DEF Code!FlattenSeq

\* j is a and b, of m and n elements, behind each other.
Behind(X, j, a, m, b, n) ==
  /\ j \in Seq(X) /\ Len(j) = m + n /\ m \in Nat /\ n \in Nat
  /\ \A i \in 1 .. m : j[i] = a[i]
  /\ \A i \in 1 .. n : j[m + i] = b[i]

\* Two sequences behind each other, by their lengths.
LEMMA TwoJoined ==
  ASSUME NEW X, NEW a \in Seq(X), NEW b \in Seq(X), NEW m, NEW n, m = Len(a), n = Len(b)
  PROVE  Behind(X, a \o b, a, m, b, n)
BY DEF Behind

\* It does not matter which two of three are joined first.
LEMMA ThreeJoined ==
  ASSUME NEW X, NEW a \in Seq(X), NEW b \in Seq(X), NEW c \in Seq(X)
  PROVE  (a \o b) \o c = a \o (b \o c)
<1> DEFINE l == (a \o b) \o c
           r == a \o (b \o c)
           x == a \o b
           y == b \o c
           na == Len(a)  nb == Len(b)  nc == Len(c)
<1>1. na \in Nat /\ nb \in Nat /\ nc \in Nat OBVIOUS
<1>2. /\ x \in Seq(X) /\ Len(x) = na + nb
      /\ \A i \in 1 .. na : x[i] = a[i]
      /\ \A i \in 1 .. nb : x[na + i] = b[i] OBVIOUS
<1>3. /\ y \in Seq(X) /\ Len(y) = nb + nc
      /\ \A i \in 1 .. nb : y[i] = b[i]
      /\ \A i \in 1 .. nc : y[nb + i] = c[i] OBVIOUS
<1> HIDE DEF x, y, na, nb, nc
<1>4. /\ x \o c \in Seq(X) /\ Len(x \o c) = na + nb + nc
      /\ \A i \in 1 .. na + nb : (x \o c)[i] = x[i]
      /\ \A i \in 1 .. nc : (x \o c)[na + nb + i] = c[i]
  <2>1. na + nb = Len(x) /\ nc = Len(c) BY <1>2 DEF nc
  <2>2. Behind(X, x \o c, x, na + nb, c, nc) BY <1>2, <2>1, TwoJoined
  <2> QED BY <2>2 DEF Behind
<1>5. /\ a \o y \in Seq(X) /\ Len(a \o y) = na + nb + nc
      /\ \A i \in 1 .. na : (a \o y)[i] = a[i]
      /\ \A i \in 1 .. nb + nc : (a \o y)[na + i] = y[i]
  <2>1. nb + nc = Len(y) /\ na = Len(a) BY <1>3 DEF na
  <2>2. na + (nb + nc) = na + nb + nc BY <1>1
  <2>3. Behind(X, a \o y, a, na, y, nb + nc) BY <1>3, <2>1, TwoJoined
  <2> QED BY <2>2, <2>3 DEF Behind
<1>6. ASSUME NEW i \in 1 .. na + nb + nc PROVE (x \o c)[i] = (a \o y)[i]
  <2>1. CASE i <= na
    <3>1. i \in 1 .. na /\ i \in 1 .. na + nb BY <2>1, <1>1
    <3> QED BY <3>1, <1>2, <1>4, <1>5
  <2>2. CASE i > na /\ i <= na + nb
    <3> DEFINE j == i - na
    <3>1. j \in 1 .. nb /\ j \in 1 .. nb + nc /\ i = na + j /\ i \in 1 .. na + nb BY <2>2, <1>1
    <3> HIDE DEF j
    <3> QED BY <3>1, <1>2, <1>3, <1>4, <1>5
  <2>3. CASE i > na + nb
    <3> DEFINE j == i - (na + nb)
    <3>1. j \in 1 .. nc /\ nb + j \in 1 .. nb + nc /\ i = na + nb + j /\ i = na + (nb + j) BY <2>3, <1>1
    <3> HIDE DEF j
    <3>2. (x \o c)[i] = c[j] BY <3>1, <1>4
    <3>3. (a \o y)[i] = y[nb + j] BY <3>1, <1>5
    <3> QED BY <3>1, <3>2, <3>3, <1>3
  <2>4. i <= na \/ (i > na /\ i <= na + nb) \/ i > na + nb BY <1>1
  <2> QED BY <2>1, <2>2, <2>3, <2>4
<1>7. x \o c = a \o y BY <1>4, <1>5, <1>6, Same
<1> QED BY <1>7 DEF x, y

\* What stands before the parts stands before the whole.
LEMMA FlattenMore ==
  ASSUME NEW X, NEW a \in Seq(X), NEW parts \in Seq(Seq(X))
  PROVE  Code!FlattenSeq(<<a>> \o parts) = a \o Code!FlattenSeq(parts)
<1> DEFINE ps == <<a>> \o parts
           n == Len(parts)
<1>1. n \in Nat /\ n = Len(parts) /\ ps \in Seq(Seq(X)) /\ Len(ps) = n + 1
      /\ ps[1] = a /\ \A i \in 1 .. n : ps[i + 1] = parts[i] /\ parts[i] \in Seq(X) OBVIOUS
<1> HIDE DEF ps, n
<1>2. PICK so : Beginnings(X, parts, so) BY Flattened
<1>3. PICK sp : Beginnings(X, ps, sp) BY <1>1, Flattened
<1>4. /\ so \in [0 .. n -> Seq(X)] /\ so[0] = <<>> /\ Code!FlattenSeq(parts) = so[n]
      /\ \A i \in 1 .. n : so[i] = so[i - 1] \o parts[i] BY <1>1, <1>2 DEF Beginnings
<1>5. /\ sp[0] = <<>> /\ Code!FlattenSeq(ps) = sp[n + 1]
      /\ \A i \in 1 .. n + 1 : sp[i] = sp[i - 1] \o ps[i] BY <1>1, <1>3 DEF Beginnings
<1> DEFINE T == {i \in Int : sp[i + 1] = a \o so[i]}
<1>6. ASSUME NEW k \in 0 .. n, \A j \in 0 .. k - 1 : j \in T PROVE k \in T
  <2>1. CASE k = 0
    <3>1. 1 \in 1 .. n + 1 /\ 1 - 1 = 0 /\ 0 + 1 = 1 BY <1>1
    <3>2. sp[1] = sp[0] \o ps[1] BY <3>1, <1>5
    <3>3. sp[1] = a /\ a \o so[0] = a BY <3>2, <1>1, <1>4, <1>5
    <3> QED BY <2>1, <3>1, <3>3
  <2>2. CASE k # 0
    <3>1. k \in 1 .. n /\ k - 1 \in 0 .. k - 1 /\ k + 1 \in 1 .. n + 1 /\ k - 1 \in 0 .. n
          /\ (k - 1) + 1 = k /\ (k + 1) - 1 = k BY <2>2, <1>1
    <3>2. sp[k] = a \o so[k - 1] BY <3>1, <1>6
    <3>3. sp[k + 1] = sp[k] \o parts[k] BY <3>1, <1>1, <1>5
    <3>4. so[k] = so[k - 1] \o parts[k] /\ so[k - 1] \in Seq(X) /\ parts[k] \in Seq(X)
      BY <3>1, <1>1, <1>4
    <3> DEFINE b == so[k - 1]
               c == parts[k]
    <3>5. b \in Seq(X) /\ c \in Seq(X) /\ sp[k + 1] = (a \o b) \o c /\ so[k] = b \o c
      BY <3>2, <3>3, <3>4
    <3> HIDE DEF b, c
    <3>6. (a \o b) \o c = a \o (b \o c) BY <3>5, ThreeJoined
    <3>7. sp[k + 1] = a \o so[k] /\ k \in Int BY <3>5, <3>6
    <3> QED BY <3>7
  <2> QED BY <2>1, <2>2
<1>7. 0 .. n \subseteq T
  <2> HIDE DEF T
  <2>1. GrowsUp(0, n, T) BY <1>1, <1>6 DEF GrowsUp
  <2> QED BY <2>1, Upwards
<1>8. sp[n + 1] = a \o so[n] BY <1>7, <1>1
<1> QED BY <1>4, <1>5, <1>8 DEF ps

\* What g makes of the elements of a list, put together.
Mapped(g, list) == Code!FlattenSeq([i \in DOMAIN list |-> g[list[i]]])

\* What stands before the list: x, then the part.
Grows(X, empty, whole, x, part) == empty = <<>> /\ part \in Seq(X) /\ whole = x \o part

\* With one more element in front of the list.
LEMMA MappedMore ==
  ASSUME NEW A, NEW X, NEW g \in [A -> Seq(X)], NEW a \in A, NEW list \in Seq(A)
  PROVE  Grows(X, Mapped(g, <<>>), Mapped(g, <<a>> \o list), g[a], Mapped(g, list))
<1> DEFINE l == <<a>> \o list
           n == Len(list)
           gs == [i \in DOMAIN list |-> g[list[i]]]
           hs == [i \in DOMAIN l |-> g[l[i]]]
<1>0. Mapped(g, <<>>) = <<>>
  <2>1. [i \in DOMAIN <<>> |-> g[<<>>[i]]] = <<>> OBVIOUS
  <2> QED BY <2>1, FlattenNothing DEF Mapped
<1>1. n \in Nat /\ l \in Seq(A) /\ Len(l) = n + 1 /\ DOMAIN l = 1 .. n + 1 /\ DOMAIN list = 1 .. n
      /\ l[1] = a /\ \A i \in 1 .. n : l[i + 1] = list[i] /\ list[i] \in A OBVIOUS
<1> HIDE DEF l, n
<1>3. gs \in Seq(Seq(X)) /\ Len(gs) = n /\ \A i \in 1 .. n : gs[i] = g[list[i]] BY <1>1
<1>4. hs \in Seq(Seq(X)) /\ Len(hs) = n + 1 /\ \A i \in 1 .. n + 1 : hs[i] = g[l[i]]
  <2>1. \A i \in 1 .. n + 1 : l[i] \in A BY <1>1
  <2> QED BY <1>1, <2>1
<1>5. hs = <<g[a]>> \o gs
  <2> DEFINE ks == <<g[a]>> \o gs
  <2> HIDE DEF gs, hs
  <2>1. ks \in Seq(Seq(X)) /\ Len(ks) = n + 1 /\ ks[1] = g[a] /\ \A i \in 1 .. n : ks[i + 1] = gs[i]
    BY <1>1, <1>3
  <2> HIDE DEF ks
  <2>2. ASSUME NEW i \in 1 .. n + 1 PROVE hs[i] = ks[i]
    <3>1. CASE i = 1 BY <3>1, <2>1, <1>1, <1>4
    <3>2. CASE i # 1
      <4>1. i - 1 \in 1 .. n /\ (i - 1) + 1 = i BY <3>2, <1>1
      <4>2. hs[i] = g[list[i - 1]] BY <4>1, <1>1, <1>4
      <4>3. ks[i] = g[list[i - 1]] BY <4>1, <2>1, <1>3
      <4> QED BY <4>2, <4>3
    <3> QED BY <3>1, <3>2
  <2>3. hs = ks BY <2>1, <2>2, <1>4, Same
  <2> QED BY <2>3 DEF ks
<1>6. Code!FlattenSeq(hs) = g[a] \o Code!FlattenSeq(gs)
  <2>1. g[a] \in Seq(X) OBVIOUS
  <2> HIDE DEF gs, hs
  <2> QED BY <2>1, <1>3, <1>5, FlattenMore
<1>7. Code!FlattenSeq(gs) \in Seq(X)
  <2> HIDE DEF gs
  <2> QED BY <1>3, FlattenType
<1> QED BY <1>0, <1>6, <1>7 DEF Mapped, l, Grows

\* A list of sections, each with the separator behind it.
Followed(list, sep) == Code!FlattenSeq([i \in DOMAIN list |-> list[i] \o <<sep>>])

\* With one more section in front of the list.
LEMMA FollowedMore ==
  ASSUME NEW X, NEW sep \in X, NEW a \in Seq(X), NEW list \in Seq(Seq(X))
  PROVE  Grows(X, Followed(<<>>, sep), Followed(<<a>> \o list, sep), a \o <<sep>>, Followed(list, sep))
<1> DEFINE g == [x \in Seq(X) |-> x \o <<sep>>]
<1>1. g \in [Seq(X) -> Seq(X)] /\ g[a] = a \o <<sep>> OBVIOUS
<1>2. ASSUME NEW l \in Seq(Seq(X)) PROVE Followed(l, sep) = Mapped(g, l)
  <2>1. ASSUME NEW i \in DOMAIN l PROVE g[l[i]] = l[i] \o <<sep>>
    <3>1. l[i] \in Seq(X) BY <2>1
    <3> QED BY <3>1
  <2> HIDE DEF g
  <2>2. [i \in DOMAIN l |-> l[i] \o <<sep>>] = [i \in DOMAIN l |-> g[l[i]]] BY <2>1
  <2> QED BY <2>2 DEF Followed, Mapped
<1> HIDE DEF g
<1> DEFINE S == Seq(X)
           l == <<a>> \o list
<1>3. <<>> \in Seq(S) /\ l \in Seq(S) /\ a \in S /\ list \in Seq(S) OBVIOUS
<1>4. Followed(<<>>, sep) = Mapped(g, <<>>) /\ Followed(l, sep) = Mapped(g, l)
      /\ Followed(list, sep) = Mapped(g, list)
  <2> HIDE DEF l
  <2> QED BY <1>2, <1>3
<1>5. g \in [S -> Seq(X)] BY <1>1
<1> HIDE DEF S
<1>6. Grows(X, Mapped(g, <<>>), Mapped(g, l), g[a], Mapped(g, list)) BY <1>3, <1>5, MappedMore
<1> HIDE DEF l
<1>7. Grows(X, Followed(<<>>, sep), Followed(l, sep), a \o <<sep>>, Followed(list, sep))
  BY <1>1, <1>4, <1>6
<1> QED BY <1>7 DEF l

\* What stays of a section.
Kept(x) == IF x = <<>> THEN <<>> ELSE <<x>>

\* NonEmpty keeps the section in front unless it is empty.
LEMMA NonEmptyMore ==
  ASSUME NEW X, NEW a \in Seq(X), NEW list \in Seq(Seq(X))
  PROVE  Grows(Seq(X), Code!NonEmpty(<<>>), Code!NonEmpty(<<a>> \o list), Kept(a), Code!NonEmpty(list))
<1> DEFINE S == Seq(X)
           g == [x \in S |-> Kept(x)]
           l == <<a>> \o list
<1>1. g \in [S -> Seq(S)] /\ g[a] = Kept(a)
  <2>1. \A x \in S : Kept(x) \in Seq(S) BY DEF Kept
  <2> QED BY <2>1
<1>3. <<>> \in Seq(S) /\ l \in Seq(S) /\ a \in S /\ list \in Seq(S) OBVIOUS
<1>2. ASSUME NEW k \in Seq(S) PROVE Code!NonEmpty(k) = Mapped(g, k)
  <2>1. ASSUME NEW i \in DOMAIN k PROVE g[k[i]] = Kept(k[i])
    <3>1. k[i] \in S
      <4> HIDE DEF S
      <4> QED BY <2>1
    <3> HIDE DEF S
    <3> QED BY <3>1
  <2> HIDE DEF g
  <2>2. [i \in DOMAIN k |-> IF k[i] = <<>> THEN <<>> ELSE <<k[i]>>] = [i \in DOMAIN k |-> g[k[i]]]
    BY <2>1 DEF Kept
  <2> QED BY <2>2 DEF Code!NonEmpty, Mapped
<1> HIDE DEF g, S
<1>4. Code!NonEmpty(<<>>) = Mapped(g, <<>>) /\ Code!NonEmpty(l) = Mapped(g, l)
      /\ Code!NonEmpty(list) = Mapped(g, list)
  <2> HIDE DEF l
  <2> QED BY <1>2, <1>3
<1>6. Grows(S, Mapped(g, <<>>), Mapped(g, l), g[a], Mapped(g, list)) BY <1>1, <1>3, MappedMore
<1> HIDE DEF l
<1>7. Grows(S, Code!NonEmpty(<<>>), Code!NonEmpty(l), Kept(a), Code!NonEmpty(list)) BY <1>1, <1>4, <1>6
<1> QED BY <1>7 DEF l, S

\* find_first_of stops at the first separator, or behind the text.
LEMMA NextSeparator ==
  ASSUME NEW s \in Seq(Code!Byte), NEW sep, NEW beg \in 1 .. Len(s) + 1
  PROVE  LET end == Code!NextSep(s, sep, beg)
         IN /\ end \in beg .. Len(s) + 1
            /\ \A i \in beg .. end - 1 : s[i] # sep
            /\ end <= Len(s) => s[end] = sep
<1> DEFINE found == {i \in beg .. Len(s) : s[i] = sep}
           end == Code!NextSep(s, sep, beg)
<1>1. Len(s) \in Nat /\ beg \in Nat OBVIOUS
<1>2. CASE found = {}
  <2>1. end = Len(s) + 1 BY <1>2 DEF Code!NextSep
  <2>2. \A i \in beg .. Len(s) : s[i] # sep BY <1>2
  <2> HIDE DEF end
  <2> QED BY <1>1, <2>1, <2>2 DEF end
<1>3. CASE found # {}
  <2>1. \E i \in found : \A j \in found : i <= j
    <3>1. found \subseteq Nat OBVIOUS
    <3> HIDE DEF found
    <3> QED BY <1>3, <3>1, LeastNumber
  <2>2. end \in found /\ \A j \in found : end <= j
    <3>1. end = CHOOSE i \in found : \A j \in found : i <= j BY <1>3 DEF Code!NextSep
    <3> HIDE DEF found, end
    <3> QED BY <2>1, <3>1
  <2>3. end \in beg .. Len(s) /\ s[end] = sep BY <2>2
  <2>4. ASSUME NEW i \in beg .. end - 1 PROVE s[i] # sep
    <3>1. i \in beg .. Len(s) /\ ~(end <= i)
      <4> HIDE DEF end
      <4> QED BY <2>3, <1>1
    <3> QED BY <3>1, <2>2
  <2> HIDE DEF end
  <2> QED BY <1>1, <2>3, <2>4 DEF end
<1> QED BY <1>2, <1>3

\* The section from beg on.
Section(s, sep, beg) == SubSeq(s, beg, Code!NextSep(s, sep, beg) - 1)
\* What a turn of explode makes of the section and the rest.
Sectioned(s, sep, drop, beg, rest) ==
  (IF Section(s, sep, beg) = <<>> /\ drop THEN <<>> ELSE <<Section(s, sep, beg)>>) \o rest

\* A section is a text.
LEMMA SectionType ==
  ASSUME NEW s \in Seq(Code!Byte), NEW sep, NEW beg \in 1 .. Len(s) + 1
  PROVE  Section(s, sep, beg) \in Seq(Code!Byte)
<1>1. Code!NextSep(s, sep, beg) - 1 <= Len(s) /\ Code!NextSep(s, sep, beg) - 1 \in Nat
      /\ beg <= (Code!NextSep(s, sep, beg) - 1) + 1 BY NextSeparator
<1> QED BY <1>1, Piece DEF Section

\* What explode answers from each place on.
Explodes(s, sep, drop, from) ==
  /\ Code!explode(s, sep, drop) = from[1]
  /\ from \in [1 .. Len(s) + 2 -> Seq(Seq(Code!Byte))]
  /\ from[Len(s) + 2] = <<>>
  /\ \A beg \in 1 .. Len(s) + 1 :
       from[beg] = Sectioned(s, sep, drop, beg, from[Code!NextSep(s, sep, beg) + 1])

\* explode is what its turns make.
LEMMA ExplodeTurns ==
  ASSUME NEW s \in Seq(Code!Byte), NEW sep, NEW drop
  PROVE  \E from : Explodes(s, sep, drop, from)
<1> DEFINE n == Len(s)
           m == n + 2
           V == Seq(Seq(Code!Byte))
           Onward(i) == Code!NextSep(s, sep, i) + 1
           Sec(i, rest) == Sectioned(s, sep, drop, i, rest)
           st == [i \in 1 .. m |-> [f \in [1 .. m -> V] |-> IF i = m THEN <<>> ELSE Sec(i, f[Onward(i)])]]
<1>1. n \in Nat /\ m \in Nat /\ n = Len(s) /\ m = n + 2 OBVIOUS
<1>2. ASSUME NEW i \in 1 .. m, i # m PROVE Onward(i) \in i + 1 .. m /\ i \in 1 .. n + 1
  <2>1. i \in 1 .. Len(s) + 1 BY <1>2
  <2>2. Code!NextSep(s, sep, i) \in i .. Len(s) + 1 BY <2>1, NextSeparator
  <2> QED BY <2>1, <2>2, <1>1
<1> HIDE DEF n, m
<1>3. ASSUME NEW i \in 1 .. m, i # m, NEW rest \in V PROVE Sec(i, rest) \in V
  <2>1. i \in 1 .. Len(s) + 1 BY <1>1, <1>3
  <2>2. Section(s, sep, i) \in Seq(Code!Byte) BY <2>1, SectionType
  <2> QED BY <2>2 DEF Sectioned
<1>4. <<>> \in V OBVIOUS
<1> HIDE DEF V, Sec, Onward
<1>5. st \in [1 .. m -> [[1 .. m -> V] -> V]]
  <2>1. ASSUME NEW i \in 1 .. m, NEW f \in [1 .. m -> V], i # m PROVE Sec(i, f[Onward(i)]) \in V
    <3>1. Onward(i) \in 1 .. m BY <1>1, <1>2, <2>1
    <3> QED BY <3>1, <1>3, <2>1
  <2> QED BY <1>4, <2>1
<1>6. \A i \in 1 .. m : \A f, g \in [1 .. m -> V] :
        (\A j \in i + 1 .. m : f[j] = g[j]) => st[i][f] = st[i][g]
  BY <1>2
<1>7. PICK f : Solution(1 .. m, V, st, f)
  <2>1. Descends(m, V, st)
    <3> HIDE DEF st
    <3> QED BY <1>1, <1>4, <1>5, <1>6 DEF Descends
  <2> HIDE DEF st
  <2> QED BY <2>1, RecursionDownwards
<1> DEFINE Eq(h) == h = [i \in 1 .. Len(s) + 2 |->
                           IF i = Len(s) + 2 THEN <<>> ELSE Sec(i, h[Onward(i)])]
           from == CHOOSE h : Eq(h)
<1>8. Eq(f)
  <2>1. f \in [1 .. m -> V] /\ \A i \in 1 .. m : f[i] = st[i][f]
    <3> HIDE DEF st
    <3> QED BY <1>7 DEF Solution
  <2>2. \A i \in 1 .. m : f[i] = IF i = m THEN <<>> ELSE Sec(i, f[Onward(i)]) BY <2>1
  <2> HIDE DEF st
  <2> QED BY <2>1, <2>2, <1>1
<1>9. Eq(from) BY <1>8
<1>10. Code!explode(s, sep, drop) = from[1] BY DEF Code!explode, Sectioned, Section, Sec, Onward
<1> HIDE DEF from
<1>11. /\ from = [i \in 1 .. m |-> from[i]]
       /\ \A i \in 1 .. m : from[i] = IF i = m THEN <<>> ELSE Sec(i, from[Onward(i)]) BY <1>9, <1>1
<1> DEFINE T == {i \in Int : from[i] \in V}
<1>12. ASSUME NEW k \in 1 .. m, \A j \in k + 1 .. m : j \in T PROVE k \in T
  <2>0. k \in Int /\ from[k] = IF k = m THEN <<>> ELSE Sec(k, from[Onward(k)])
    <3>1. k \in Int BY <1>1
    <3>2. from[k] = IF k = m THEN <<>> ELSE Sec(k, from[Onward(k)])
      <4> HIDE DEF T
      <4> QED BY <1>11
    <3> QED BY <3>1, <3>2
  <2>1. CASE k = m BY <2>0, <2>1, <1>4
  <2>2. CASE k # m
    <3>1. from[Onward(k)] \in V BY <2>2, <1>2, <1>12
    <3>2. Sec(k, from[Onward(k)]) \in V BY <3>1, <2>2, <1>3
    <3> QED BY <2>0, <3>2, <2>2
  <2> QED BY <2>1, <2>2
<1>13. 1 .. m \subseteq T
  <2> HIDE DEF T
  <2>1. GrowsDown(1, m, T) BY <1>1, <1>12 DEF GrowsDown
  <2> QED BY <2>1, Downwards
<1>14. from \in [1 .. m -> V] BY <1>11, <1>13
<1>15. m \in 1 .. m /\ \A i \in 1 .. Len(s) + 1 : i \in 1 .. m /\ i # m BY <1>1
<1>16. from[m] = <<>> BY <1>11, <1>15
<1>17. \A i \in 1 .. Len(s) + 1 : from[i] = Sec(i, from[Onward(i)]) BY <1>11, <1>15
<1> QED BY <1>10, <1>14, <1>16, <1>17, <1>1 DEF Explodes, V, Sec, Onward

\* No section of a list has the separator.
Free(t, sep) == \A p \in DOMAIN t : t[p] # sep
AllFree(list, sep) == \A j \in DOMAIN list : Free(list[j], sep)

\* What explode has made from place i on, with the empty sections and without.
ExplodedFrom(s, sep, i, all, some) ==
  /\ Followed(all, sep) = IF i = Len(s) + 2 THEN <<>> ELSE SubSeq(s, i, Len(s)) \o <<sep>>
  /\ some = Code!NonEmpty(all)
  /\ AllFree(all, sep)
  /\ Len(all) = IF i = Len(s) + 2 THEN 0
                ELSE 1 + Cardinality({j \in i .. Len(s) : s[j] = sep})

\* The sections of s, with a separator behind each, are s and one more separator.
Apart(s, sep, all) ==
  /\ all \in Seq(Seq(Code!Byte)) /\ AllFree(all, sep)
  /\ Code!explode(s, sep, FALSE) = all /\ Code!explode(s, sep, TRUE) = Code!NonEmpty(all)
  /\ Followed(all, sep) = s \o <<sep>>
  /\ Len(all) = 1 + Cardinality({i \in DOMAIN s : s[i] = sep})

\* explode takes every text apart at its separators.
LEMMA ExplodeTakesApart ==
  ASSUME NEW s \in Seq(Code!Byte), NEW sep \in Code!Byte
  PROVE  \E all : Apart(s, sep, all)
<1> DEFINE n == Len(s)
           m == n + 2
           B == Seq(Code!Byte)
           Onward(i) == Code!NextSep(s, sep, i)
           Sec(i) == Section(s, sep, i)
           Seps(i) == {j \in i .. n : s[j] = sep}
<1>1. n \in Nat /\ m \in Nat /\ n = Len(s) /\ m = n + 2 OBVIOUS
<1>2. PICK from : Explodes(s, sep, FALSE, from) BY ExplodeTurns
<1>3. PICK some : Explodes(s, sep, TRUE, some) BY ExplodeTurns
<1> HIDE DEF n, m
<1>4. /\ from \in [1 .. m -> Seq(B)] /\ from[m] = <<>>
      /\ \A i \in 1 .. n + 1 : from[i] = <<Sec(i)>> \o from[Onward(i) + 1]
  BY <1>1, <1>2 DEF Explodes, Sectioned
<1>5. /\ some[m] = <<>>
      /\ \A i \in 1 .. n + 1 : some[i] = (IF Sec(i) = <<>> THEN <<>> ELSE <<Sec(i)>>) \o some[Onward(i) + 1]
  BY <1>1, <1>3 DEF Explodes, Sectioned
<1>6. ASSUME NEW i \in 1 .. n + 1
      PROVE  /\ Onward(i) \in i .. n + 1 /\ Onward(i) + 1 \in i + 1 .. m
             /\ Sec(i) \in B
             /\ \A j \in i .. Onward(i) - 1 : s[j] # sep
             /\ Onward(i) <= n => s[Onward(i)] = sep
  <2>1. i \in 1 .. Len(s) + 1 BY <1>1
  <2>2. /\ Onward(i) \in i .. n + 1
        /\ \A j \in i .. Onward(i) - 1 : s[j] # sep
        /\ Onward(i) <= n => s[Onward(i)] = sep BY <2>1, <1>1, NextSeparator
  <2>3. Onward(i) + 1 \in i + 1 .. m BY <2>2, <1>1
  <2> QED BY <2>1, <2>2, <2>3, SectionType
<1>f. \A i \in 1 .. n + 1 : IsFiniteSet(Seps(i)) /\ Cardinality(Seps(i)) \in Nat
  <2> SUFFICES ASSUME NEW i \in 1 .. n + 1 PROVE IsFiniteSet(Seps(i)) /\ Cardinality(Seps(i)) \in Nat
    OBVIOUS
  <2>1. IsFiniteSet(i .. n) /\ Seps(i) \subseteq i .. n BY <1>1, FS_Interval
  <2> HIDE DEF Seps
  <2> QED BY <2>1, FS_Subset, FS_CardinalityType
<1> DEFINE T == {i \in Int : ExplodedFrom(s, sep, i, from[i], some[i])}
<1>7. ASSUME NEW k \in 1 .. m, \A j \in k + 1 .. m : j \in T PROVE k \in T
  <2>0. k \in Int BY <1>1
  <2>1. CASE k = m
    <3>1. Followed(<<>>, sep) = <<>> /\ Code!NonEmpty(<<>>) = <<>> /\ Len(<<>>) = 0 /\ AllFree(<<>>, sep)
      <4> DEFINE e == <<>>
      <4>1. e \in Seq(Code!Byte) /\ e \in Seq(Seq(Code!Byte)) /\ e = <<>> /\ Len(<<>>) = 0 OBVIOUS
      <4> HIDE DEF e
      <4>2. Grows(Code!Byte, Followed(<<>>, sep), Followed(<<e>> \o e, sep), e \o <<sep>>, Followed(e, sep))
        BY <4>1, FollowedMore
      <4>3. Grows(Seq(Code!Byte), Code!NonEmpty(<<>>), Code!NonEmpty(<<e>> \o e), Kept(e), Code!NonEmpty(e))
        BY <4>1, NonEmptyMore
      <4>4. AllFree(<<>>, sep) BY DEF AllFree
      <4> QED BY <4>1, <4>2, <4>3, <4>4 DEF Grows
    <3>2. ExplodedFrom(s, sep, k, from[k], some[k]) BY <2>1, <3>1, <1>1, <1>4, <1>5 DEF ExplodedFrom
    <3> QED BY <2>0, <3>2
  <2>2. CASE k # m
    <3> DEFINE end == Onward(k)
               sec == Sec(k)
               rest == from[end + 1]
    <3>1. k \in 1 .. n + 1 /\ k # Len(s) + 2 BY <2>2, <1>1
    <3>a. /\ end \in k .. n + 1 /\ end + 1 \in k + 1 .. m /\ sec \in B
          /\ \A j \in k .. end - 1 : s[j] # sep
          /\ end <= n => s[end] = sep
      <4> HIDE DEF Onward, Sec
      <4> QED BY <3>1, <1>6
    <3>b. end + 1 \in 1 .. m
      <4> HIDE DEF end
      <4> QED BY <3>a, <3>1, <1>1
    <3>2. /\ end \in k .. n + 1 /\ end + 1 \in k + 1 .. m /\ end + 1 \in 1 .. m /\ sec \in B
          /\ \A j \in k .. end - 1 : s[j] # sep
          /\ end <= n => s[end] = sep
      <4> HIDE DEF end, sec
      <4> QED BY <3>a, <3>b
    <3>3. ExplodedFrom(s, sep, end + 1, rest, some[end + 1]) BY <3>2, <1>7
    <3>4. rest \in Seq(B) /\ from[k] = <<sec>> \o rest
          /\ some[k] = (IF sec = <<>> THEN <<>> ELSE <<sec>>) \o some[end + 1] BY <3>1, <3>2, <1>4, <1>5
    <3>5. sec = SubSeq(s, k, end - 1) BY DEF Section
    <3> HIDE DEF end, sec, rest
    <3>6. Followed(from[k], sep) = (sec \o <<sep>>) \o Followed(rest, sep)
      <4>1. sep \in Code!Byte /\ sec \in Seq(Code!Byte) /\ rest \in Seq(Seq(Code!Byte)) BY <3>2, <3>4
      <4>2. Grows(Code!Byte, Followed(<<>>, sep), Followed(<<sec>> \o rest, sep), sec \o <<sep>>, Followed(rest, sep))
        BY <4>1, FollowedMore
      <4> QED BY <4>2, <3>4 DEF Grows
    <3>7. Code!NonEmpty(from[k]) = some[k]
      <4>1. sec \in Seq(Code!Byte) /\ rest \in Seq(Seq(Code!Byte)) BY <3>2, <3>4
      <4>2. Grows(Seq(Code!Byte), Code!NonEmpty(<<>>), Code!NonEmpty(<<sec>> \o rest), Kept(sec), Code!NonEmpty(rest))
        BY <4>1, NonEmptyMore
      <4>3. some[end + 1] = Code!NonEmpty(rest) BY <3>3 DEF ExplodedFrom
      <4> QED BY <4>2, <4>3, <3>4 DEF Grows, Kept
    <3>8. Len(from[k]) = 1 + Len(rest) /\ Len(rest) \in Nat BY <3>2, <3>4
    <3>f. AllFree(from[k], sep)
      <4>1. AllFree(rest, sep) BY <3>3 DEF ExplodedFrom
      <4>2. Free(sec, sep)
        <5>1. end - 1 \in Nat /\ k \in Nat \ {0} /\ k <= (end - 1) + 1 /\ end - 1 <= Len(s)
          BY <3>1, <3>2, <1>1
        <5>2. \A p \in 1 .. (end - 1) - k + 1 : sec[p] = s[k + p - 1] /\ k + p - 1 \in k .. end - 1
          BY <5>1, <3>5, Piece
        <5>3. Len(sec) = (end - 1) - k + 1 /\ DOMAIN sec = 1 .. Len(sec) BY <5>1, <3>5, <3>2, Piece
        <5> QED BY <5>2, <5>3, <3>2 DEF Free
      <4>3. ASSUME NEW j \in DOMAIN from[k] PROVE Free(from[k][j], sep)
        <5>1. CASE j = 1 BY <5>1, <3>4, <3>2, <4>2
        <5>2. CASE j # 1
          <6>1. j - 1 \in DOMAIN rest /\ from[k][j] = rest[j - 1] BY <5>2, <3>4, <3>2, <4>3
          <6> QED BY <6>1, <4>1 DEF AllFree
        <5> QED BY <5>1, <5>2
      <4> QED BY <4>3 DEF AllFree
    <3>9. CASE end = n + 1
      <4>1. end + 1 = Len(s) + 2 /\ end - 1 = n BY <3>9, <1>1
      <4>2. Followed(rest, sep) = <<>> /\ Len(rest) = 0 BY <3>3, <4>1 DEF ExplodedFrom
      <4>3. (sec \o <<sep>>) \o <<>> = sec \o <<sep>> BY <3>2
      <4>4. Followed(from[k], sep) = SubSeq(s, k, n) \o <<sep>> BY <3>5, <3>6, <4>1, <4>2, <4>3
      <4>5. Seps(k) = {} BY <3>2, <4>1
      <4>6. Len(from[k]) = 1 + Cardinality(Seps(k)) BY <3>8, <4>2, <4>5, FS_EmptySet
      <4> QED BY <2>0, <3>1, <3>7, <3>f, <4>4, <4>6, <1>1 DEF ExplodedFrom
    <3>10. CASE end # n + 1
      <4>1. end \in k .. n /\ end + 1 # Len(s) + 2 /\ end + 1 \in 1 .. n + 1 /\ end \in Nat /\ s[end] = sep
            /\ k \in Nat \ {0} /\ end - 1 \in Nat /\ k <= (end - 1) + 1 /\ end - 1 <= end /\ end <= Len(s)
            /\ (end - 1) + 1 = end /\ k <= end + 1 /\ end <= n /\ n <= Len(s)
        BY <3>2, <3>10, <1>1, <2>0, <3>1
      <4>2. Followed(rest, sep) = SubSeq(s, end + 1, n) \o <<sep>>
            /\ Len(rest) = 1 + Cardinality(Seps(end + 1)) BY <3>3, <4>1, <1>1 DEF ExplodedFrom
      <4>3. <<sep>> = SubSeq(s, end, end) BY <4>1
      <4>4. sec \o <<sep>> = SubSeq(s, k, end) BY <4>1, <4>3, <3>5, Neighbours
      <4>5. SubSeq(s, k, end) \o SubSeq(s, end + 1, n) = SubSeq(s, k, n) BY <4>1, <1>1, Neighbours
      <4> DEFINE a == SubSeq(s, k, end)
                 b == SubSeq(s, end + 1, n)
      <4>6. a \in B /\ b \in B /\ <<sep>> \in B BY <4>1, <1>1
      <4>7. Followed(from[k], sep) = a \o (b \o <<sep>>) BY <3>6, <4>2, <4>4
      <4>8. a \o (b \o <<sep>>) = (a \o b) \o <<sep>>
        <5> HIDE DEF a, b
        <5> QED BY <4>6, ThreeJoined
      <4>9. Followed(from[k], sep) = SubSeq(s, k, n) \o <<sep>> BY <4>5, <4>7, <4>8
      <4>10. Seps(k) = Seps(end + 1) \union {end} /\ end \notin Seps(end + 1)
        <5>1. \A j \in k .. n : j \in k .. end - 1 \/ j = end \/ j \in end + 1 .. n BY <4>1
        <5>2. \A j \in end + 1 .. n : j \in k .. n /\ j # end BY <4>1
        <5> QED BY <5>1, <5>2, <3>2, <4>1
      <4>11. Cardinality(Seps(k)) = 1 + Cardinality(Seps(end + 1))
        <5>1. IsFiniteSet(Seps(end + 1)) /\ Cardinality(Seps(end + 1)) \in Nat BY <4>1, <1>f
        <5> HIDE DEF Seps
        <5>2. Cardinality(Seps(end + 1) \union {end}) = Cardinality(Seps(end + 1)) + 1
          BY <5>1, <4>10, FS_AddElement
        <5> QED BY <5>1, <5>2, <4>10
      <4>12. Len(from[k]) = 1 + Cardinality(Seps(k)) BY <3>8, <4>2, <4>11
      <4> QED BY <2>0, <3>1, <3>7, <3>f, <4>9, <4>12, <1>1 DEF ExplodedFrom
    <3> QED BY <3>9, <3>10
  <2> QED BY <2>1, <2>2
<1>8. 1 .. m \subseteq T
  <2> HIDE DEF T
  <2>1. GrowsDown(1, m, T) BY <1>1, <1>7 DEF GrowsDown
  <2> QED BY <2>1, Downwards
<1> DEFINE all == from[1]
<1>9. ExplodedFrom(s, sep, 1, all, some[1]) /\ 1 # Len(s) + 2
  <2>1. 1 \in 1 .. m /\ 1 # Len(s) + 2 BY <1>1
  <2> QED BY <2>1, <1>8
<1>10. Code!explode(s, sep, FALSE) = all /\ Code!explode(s, sep, TRUE) = some[1]
  BY <1>2, <1>3 DEF Explodes
<1>11. Followed(all, sep) = s \o <<sep>>
  <2>1. SubSeq(s, 1, Len(s)) = s OBVIOUS
  <2> QED BY <1>9, <2>1 DEF ExplodedFrom
<1>13. Len(all) = 1 + Cardinality({i \in DOMAIN s : s[i] = sep})
  <2>1. DOMAIN s = 1 .. Len(s) OBVIOUS
  <2> QED BY <1>9, <2>1 DEF ExplodedFrom
<1>14. some[1] = Code!NonEmpty(all) /\ AllFree(all, sep) BY <1>9 DEF ExplodedFrom
<1>15. all \in Seq(Seq(Code!Byte)) BY <1>1, <1>4
<1> HIDE DEF all
<1> QED BY <1>10, <1>11, <1>13, <1>14, <1>15 DEF Apart

\* Implode takes the last separator off.
LEMMA ImplodeTakesOneOff ==
  ASSUME NEW X, NEW s \in Seq(X), NEW sep \in X, NEW all, Followed(all, sep) = s \o <<sep>>
  PROVE  Code!implode(all, sep) = s
<1> DEFINE q == s \o <<sep>>
<1>1. q # <<>> /\ SubSeq(q, 1, Len(q) - 1) = s OBVIOUS
<1> HIDE DEF q
<1>2. Code!FlattenSeq([i \in DOMAIN all |-> all[i] \o <<sep>>]) = q BY DEF Followed, q
<1> QED BY <1>1, <1>2 DEF Code!implode, Code!Front

\* explode keeps every section, the empty ones too, of every text.
THEOREM ExplodeKeepsSections ==
  \A s \in Seq(Code!Byte), sep \in Code!Byte : Code!Sections(s, sep)
<1> SUFFICES ASSUME NEW s \in Seq(Code!Byte), NEW sep \in Code!Byte PROVE Code!Sections(s, sep) OBVIOUS
<1>1. PICK all : Apart(s, sep, all) BY ExplodeTakesApart
<1>2. Code!explode(s, sep, FALSE) = all BY <1>1 DEF Apart
<1>3. Code!implode(Code!explode(s, sep, FALSE), sep) = s
  <2>1. Followed(all, sep) = s \o <<sep>> BY <1>1 DEF Apart
  <2> QED BY <1>2, <2>1, ImplodeTakesOneOff
<1>4. Code!explode(s, sep, TRUE) = Code!NonEmpty(Code!explode(s, sep, FALSE)) BY <1>1, <1>2 DEF Apart
<1>5. Len(Code!explode(s, sep, FALSE)) = 1 + Cardinality({i \in DOMAIN s : s[i] = sep})
  BY <1>1, <1>2 DEF Apart
<1>6. \A S : Code!Cardinality(S) = Cardinality(S) BY DEF Code!Cardinality, Cardinality
<1> SUFFICES /\ Code!implode(Code!explode(s, sep, FALSE), sep) = s
             /\ Code!explode(s, sep, TRUE) = Code!NonEmpty(Code!explode(s, sep, FALSE))
             /\ Len(Code!explode(s, sep, FALSE)) = 1 + Cardinality({i \in DOMAIN s : s[i] = sep})
  BY <1>6, Zenon DEF Code!Sections
<1> QED BY <1>3, <1>4, <1>5

\* A list that is not empty is its first element and the rest.
LEMMA Taken ==
  ASSUME NEW X, NEW a \in Seq(X), a # <<>>
  PROVE  /\ a[1] \in X /\ Tail(a) \in Seq(X) /\ Len(Tail(a)) = Len(a) - 1 /\ Len(a) \in Nat \ {0}
         /\ \A i \in 1 .. Len(a) - 1 : Tail(a)[i] = a[i + 1]
         /\ a = <<a[1]>> \o Tail(a)
<1> DEFINE b == <<a[1]>> \o Tail(a)
<1>1. a[1] \in X /\ Tail(a) \in Seq(X) /\ Len(Tail(a)) = Len(a) - 1 /\ Len(a) \in Nat \ {0}
      /\ \A i \in 1 .. Len(a) - 1 : Tail(a)[i] = a[i + 1] OBVIOUS
<1> DEFINE t == Tail(a)
           n == Len(a)
<1>2. t \in Seq(X) /\ Len(t) = n - 1 /\ n \in Nat \ {0} /\ n = Len(a) /\ \A i \in 1 .. n - 1 : t[i] = a[i + 1]
  BY <1>1
<1> HIDE DEF t, n
<1>3. b \in Seq(X) /\ Len(b) = n /\ b[1] = a[1] /\ \A i \in 1 .. n - 1 : b[i + 1] = t[i]
  BY <1>1, <1>2 DEF t
<1> HIDE DEF b
<1>4. ASSUME NEW i \in 1 .. n PROVE a[i] = b[i]
  <2>1. CASE i = 1 BY <2>1, <1>3
  <2>2. CASE i # 1
    <3>1. i - 1 \in 1 .. n - 1 /\ (i - 1) + 1 = i BY <2>2, <1>2
    <3>2. b[i] = t[i - 1] /\ t[i - 1] = a[i] BY <3>1, <1>2, <1>3
    <3> QED BY <3>2
  <2> QED BY <2>1, <2>2
<1>5. a = b BY <1>2, <1>3, <1>4, Same
<1> QED BY <1>1, <1>5 DEF b

\* What stands before the first separator, and what stands behind it.
LEMMA SameBeginning ==
  ASSUME NEW X, NEW sep \in X, NEW x \in Seq(X), NEW y \in Seq(X), NEW u \in Seq(X), NEW v \in Seq(X),
         Free(x, sep), Free(y, sep), (x \o <<sep>>) \o u = (y \o <<sep>>) \o v
  PROVE  x = y /\ u = v
<1> DEFINE l == (x \o <<sep>>) \o u
           r == (y \o <<sep>>) \o v
           nx == Len(x)  ny == Len(y)  nu == Len(u)  nv == Len(v)
<1>1. /\ nx \in Nat /\ ny \in Nat /\ nu \in Nat /\ nv \in Nat
      /\ nx = Len(x) /\ ny = Len(y) /\ nu = Len(u) /\ nv = Len(v)
      /\ DOMAIN x = 1 .. nx /\ DOMAIN y = 1 .. ny OBVIOUS
<1>2. /\ Len(l) = nx + 1 + nu /\ l[nx + 1] = sep
      /\ \A i \in 1 .. nx : l[i] = x[i]
      /\ \A i \in 1 .. nu : l[nx + 1 + i] = u[i] OBVIOUS
<1>3. /\ Len(r) = ny + 1 + nv /\ r[ny + 1] = sep
      /\ \A i \in 1 .. ny : r[i] = y[i]
      /\ \A i \in 1 .. nv : r[ny + 1 + i] = v[i] OBVIOUS
<1>4. l = r OBVIOUS
<1> HIDE DEF l, r, nx, ny, nu, nv
<1>5. nx = ny
  <2>1. ~(nx < ny)
    <3> SUFFICES ASSUME nx < ny PROVE FALSE OBVIOUS
    <3>1. nx + 1 \in 1 .. ny BY <1>1
    <3>2. y[nx + 1] = sep BY <3>1, <1>2, <1>3, <1>4
    <3> QED BY <3>1, <3>2, <1>1 DEF Free
  <2>2. ~(ny < nx)
    <3> SUFFICES ASSUME ny < nx PROVE FALSE OBVIOUS
    <3>1. ny + 1 \in 1 .. nx BY <1>1
    <3>2. x[ny + 1] = sep BY <3>1, <1>2, <1>3, <1>4
    <3> QED BY <3>1, <3>2, <1>1 DEF Free
  <2> QED BY <2>1, <2>2, <1>1
<1>6. x = y
  <2>1. \A i \in 1 .. Len(x) : x[i] = y[i] BY <1>1, <1>2, <1>3, <1>4, <1>5
  <2> QED BY <2>1, <1>1, <1>5, Same
<1>7. u = v
  <2>1. nu = nv BY <1>1, <1>2, <1>3, <1>4, <1>5
  <2>2. \A i \in 1 .. Len(u) : u[i] = v[i] BY <2>1, <1>1, <1>2, <1>3, <1>4, <1>5
  <2> QED BY <2>1, <2>2, <1>1, Same
<1> QED BY <1>6, <1>7

\* A list of n sections is the only one that makes its text.
Only(X, sep, n) ==
  \A a, b \in Seq(Seq(X)) :
    Len(a) = n /\ AllFree(a, sep) /\ AllFree(b, sep) /\ Followed(a, sep) = Followed(b, sep) => a = b

\* The first section and the rest have no separator either.
LEMMA TailFree ==
  ASSUME NEW X, NEW sep, NEW a \in Seq(Seq(X)), a # <<>>, AllFree(a, sep)
  PROVE  Free(a[1], sep) /\ AllFree(Tail(a), sep)
<1>1. /\ Len(Tail(a)) = Len(a) - 1 /\ Len(a) \in Nat \ {0} /\ Tail(a) \in Seq(Seq(X))
      /\ \A i \in 1 .. Len(a) - 1 : Tail(a)[i] = a[i + 1] BY Taken
<1>2. DOMAIN a = 1 .. Len(a) /\ DOMAIN Tail(a) = 1 .. Len(a) - 1 BY <1>1
<1>3. 1 \in DOMAIN a /\ \A i \in DOMAIN Tail(a) : i + 1 \in DOMAIN a BY <1>1, <1>2
<1> QED BY <1>1, <1>2, <1>3 DEF AllFree

\* Sections without separators are the only ones that make their text.
LEMMA FollowedOnce ==
  ASSUME NEW X, NEW sep \in X, NEW a \in Seq(Seq(X)), NEW b \in Seq(Seq(X)),
         AllFree(a, sep), AllFree(b, sep), Followed(a, sep) = Followed(b, sep)
  PROVE  a = b
<1> DEFINE T == {n \in Nat : Only(X, sep, n)}
<1>0. Followed(<<>>, sep) = <<>> BY FlattenNothing DEF Followed
<1>1. ASSUME NEW l \in Seq(Seq(X)), l # <<>>
      PROVE  /\ l[1] \in Seq(X) /\ Tail(l) \in Seq(Seq(X)) /\ Followed(Tail(l), sep) \in Seq(X)
             /\ Followed(l, sep) = (l[1] \o <<sep>>) \o Followed(Tail(l), sep)
             /\ Followed(l, sep) # <<>>
  <2> DEFINE x == l[1]
             t == Tail(l)
  <2>1. x \in Seq(X) /\ t \in Seq(Seq(X)) /\ l = <<x>> \o t BY <1>1, Taken
  <2> HIDE DEF x, t
  <2>2. Grows(X, Followed(<<>>, sep), Followed(<<x>> \o t, sep), x \o <<sep>>, Followed(t, sep))
    BY <2>1, FollowedMore
  <2> DEFINE f == Followed(t, sep)
  <2>3. f \in Seq(X) /\ Followed(l, sep) = (x \o <<sep>>) \o f BY <2>1, <2>2 DEF Grows
  <2> HIDE DEF f
  <2>4. (x \o <<sep>>) \o f # <<>> BY <2>1, <2>3
  <2> QED BY <2>1, <2>3, <2>4 DEF x, t, f
<1>2. 0 \in T
  <2> SUFFICES ASSUME NEW p \in Seq(Seq(X)), NEW q \in Seq(Seq(X)), Len(p) = 0,
                      Followed(p, sep) = Followed(q, sep)
               PROVE  p = q BY DEF Only
  <2>1. p = <<>> OBVIOUS
  <2>2. Followed(q, sep) = <<>> BY <2>1, <1>0
  <2>3. q = <<>> BY <2>2, <1>1
  <2> QED BY <2>1, <2>3
<1>3. ASSUME NEW n \in Nat, n \in T PROVE n + 1 \in T
  <2> SUFFICES ASSUME NEW p \in Seq(Seq(X)), NEW q \in Seq(Seq(X)), Len(p) = n + 1,
                      AllFree(p, sep), AllFree(q, sep), Followed(p, sep) = Followed(q, sep)
               PROVE  p = q BY DEF Only
  <2>1. p # <<>> OBVIOUS
  <2>2. Followed(p, sep) # <<>> BY <2>1, <1>1
  <2>3. q # <<>> BY <2>2, <1>0
  <2>4. /\ p[1] \in Seq(X) /\ q[1] \in Seq(X) /\ Tail(p) \in Seq(Seq(X)) /\ Tail(q) \in Seq(Seq(X))
        /\ Followed(Tail(p), sep) \in Seq(X) /\ Followed(Tail(q), sep) \in Seq(X)
        /\ (p[1] \o <<sep>>) \o Followed(Tail(p), sep) = (q[1] \o <<sep>>) \o Followed(Tail(q), sep)
    BY <2>1, <2>3, <1>1
  <2>5. Free(p[1], sep) /\ Free(q[1], sep) /\ AllFree(Tail(p), sep) /\ AllFree(Tail(q), sep)
    BY <2>1, <2>3, TailFree
  <2>6. p[1] = q[1] /\ Followed(Tail(p), sep) = Followed(Tail(q), sep) BY <2>4, <2>5, SameBeginning
  <2>7. Len(Tail(p)) = n BY <2>1
  <2>8. Tail(p) = Tail(q)
    <3>1. Only(X, sep, n) BY <1>3
    <3> QED BY <3>1, <2>4, <2>5, <2>6, <2>7 DEF Only
  <2>9. p = <<p[1]>> \o Tail(p) BY <2>1, Taken
  <2>10. q = <<q[1]>> \o Tail(q) BY <2>3, Taken
  <2> QED BY <2>6, <2>8, <2>9, <2>10, Zenon
<1>4. Nat \subseteq T
  <2> HIDE DEF T
  <2> QED BY <1>2, <1>3, Induct
<1>5. Only(X, sep, Len(a))
  <2>1. Len(a) \in Nat OBVIOUS
  <2> QED BY <2>1, <1>4
<1> QED BY <1>5 DEF Only

\* A list without empty sections is what NonEmpty leaves of it.
LEMMA NoneEmpty ==
  ASSUME NEW X, NEW list \in Seq(Seq(X)), \A i \in 1 .. Len(list) : list[i] # <<>>
  PROVE  Code!NonEmpty(list) = list
<1> DEFINE parts == [i \in DOMAIN list |-> <<list[i]>>]
           n == Len(list)
<1>1. n \in Nat /\ n = Len(list) /\ DOMAIN list = 1 .. n /\ \A i \in 1 .. n : list[i] \in Seq(X) OBVIOUS
<1>2. parts \in Seq(Seq(Seq(X))) /\ Len(parts) = n /\ \A i \in 1 .. n : parts[i] = <<list[i]>> /\ Len(parts[i]) = 1
  BY <1>1
<1>3. Code!NonEmpty(list) = Code!FlattenSeq(parts)
  <2>1. [i \in DOMAIN list |-> IF list[i] = <<>> THEN <<>> ELSE <<list[i]>>] = parts BY <1>1
  <2> QED BY <2>1 DEF Code!NonEmpty
<1> HIDE DEF parts, n
<1>4. PICK so : Beginnings(Seq(X), parts, so) BY <1>2, Flattened
<1>5. /\ so \in [0 .. n -> Seq(Seq(X))] /\ so[0] = <<>>
      /\ \A i \in 1 .. n : so[i] = so[i - 1] \o parts[i]
      /\ Code!FlattenSeq(parts) = so[n] BY <1>2, <1>4 DEF Beginnings
<1> DEFINE T == {i \in Int : Len(so[i]) = i}
<1>6. ASSUME NEW k \in 0 .. n, \A j \in 0 .. k - 1 : j \in T PROVE k \in T
  <2>1. CASE k = 0
    <3>1. Len(<<>>) = 0 OBVIOUS
    <3> QED BY <3>1, <2>1, <1>5
  <2>2. CASE k # 0
    <3>1. k \in 1 .. n /\ k - 1 \in 0 .. k - 1 /\ k - 1 \in 0 .. n /\ k \in Int BY <2>2, <1>1
    <3> DEFINE b == so[k - 1]
    <3>2. b \in Seq(Seq(X)) /\ so[k] = b \o <<list[k]>> /\ Len(b) = k - 1 BY <3>1, <1>2, <1>5, <1>6
    <3> HIDE DEF b
    <3>3. Len(b \o <<list[k]>>) = k BY <3>1, <3>2
    <3> QED BY <3>1, <3>2, <3>3
  <2> QED BY <2>1, <2>2
<1>7. 0 .. n \subseteq T
  <2> HIDE DEF T
  <2>1. GrowsUp(0, n, T) BY <1>1, <1>6 DEF GrowsUp
  <2> QED BY <2>1, Upwards
<1>8. ASSUME NEW i \in 1 .. n PROVE Code!FlattenSeq(parts)[i] = list[i]
  <2>1. InPlace(parts, so, i) BY <1>2, <1>4, PartsInPlace
  <2>2. Len(so[i - 1]) = i - 1 /\ (i - 1) + 1 = i
    <3>1. i - 1 \in 0 .. n /\ (i - 1) + 1 = i BY <1>1
    <3>2. i - 1 \in T
      <4> HIDE DEF T
      <4> QED BY <3>1, <1>7
    <3> QED BY <3>1, <3>2
  <2>3. 1 \in 1 .. Len(parts[i]) /\ parts[i][1] = list[i] BY <1>2
  <2>4. Code!FlattenSeq(parts)[Len(so[i - 1]) + 1] = parts[i][1] BY <2>1, <2>3 DEF InPlace
  <2> QED BY <2>2, <2>3, <2>4
<1>9. Code!FlattenSeq(parts) \in Seq(Seq(X)) /\ Len(Code!FlattenSeq(parts)) = n
  <2>1. n \in 0 .. n BY <1>1
  <2> QED BY <2>1, <1>5, <1>7
<1> QED BY <1>1, <1>3, <1>8, <1>9, Same

\* What implode makes of sections that are not empty and have no separator is
\* taken apart to the same sections.
LEMMA ExplodeOfImplode ==
  ASSUME NEW sep \in Code!Byte, NEW list \in Seq(Seq(Code!Byte)), AllFree(list, sep),
         \A i \in 1 .. Len(list) : list[i] # <<>>
  PROVE  Code!implode(list, sep) \in Seq(Code!Byte) /\ Code!explode(Code!implode(list, sep), sep, TRUE) = list
<1> DEFINE B == Seq(Code!Byte)
<1>1. CASE list = <<>>
  <2>1. Code!implode(list, sep) = <<>>
    <3>1. [i \in DOMAIN <<>> |-> (<<>>)[i] \o <<sep>>] = <<>> OBVIOUS
    <3> QED BY <3>1, <1>1, FlattenNothing DEF Code!implode
  <2>2. <<>> \in Seq(Code!Byte) OBVIOUS
  <2>3. PICK all : Apart(<<>>, sep, all) BY <2>2, ExplodeTakesApart
  <2>4. Followed(all, sep) = <<sep>> /\ all \in Seq(B) /\ AllFree(all, sep)
    <3>1. <<>> \o <<sep>> = <<sep>> OBVIOUS
    <3> QED BY <3>1, <2>3 DEF Apart
  <2> DEFINE e == <<>>
             one == <<e>>
  <2>5. one \in Seq(B) /\ AllFree(one, sep) /\ e \in B /\ e \in Seq(B) /\ one = <<e>> \o e /\ e \o <<sep>> = <<sep>>
        /\ <<sep>> \o e = <<sep>> /\ e = <<>> BY DEF AllFree, Free
  <2> HIDE DEF e
  <2>6. Grows(Code!Byte, Followed(<<>>, sep), Followed(<<e>> \o e, sep), e \o <<sep>>, Followed(e, sep))
    BY <2>5, FollowedMore
  <2>7. Followed(one, sep) = <<sep>> BY <2>5, <2>6 DEF Grows
  <2> HIDE DEF one
  <2>8. all = one BY <2>4, <2>5, <2>7, FollowedOnce
  <2>9. Grows(B, Code!NonEmpty(<<>>), Code!NonEmpty(<<e>> \o e), Kept(e), Code!NonEmpty(e))
    BY <2>5, NonEmptyMore
  <2>10. Code!NonEmpty(one) = <<>>
    <3>1. Kept(e) = <<>> /\ <<>> \o <<>> = <<>> BY <2>5 DEF Kept
    <3> QED BY <3>1, <2>5, <2>9 DEF Grows
  <2>11. Code!explode(<<>>, sep, TRUE) = <<>> BY <2>3, <2>8, <2>10 DEF Apart
  <2> QED BY <1>1, <2>1, <2>2, <2>11
<1>2. CASE list # <<>>
  <2> DEFINE x == list[1]
             t == Tail(list)
             f == Followed(list, sep)
             s == SubSeq(f, 1, Len(f) - 1)
  <2>1. x \in B /\ t \in Seq(B) /\ list = <<x>> \o t BY <1>2, Taken
  <2>2. f \in B /\ f # <<>> /\ f[Len(f)] = sep
    <3> DEFINE parts == [i \in DOMAIN list |-> list[i] \o <<sep>>]
               n == Len(list)
    <3>1. n \in Nat \ {0} /\ n = Len(list) /\ DOMAIN list = 1 .. n BY <1>2, Taken
    <3>2. parts \in Seq(B) /\ Len(parts) = n /\ \A i \in 1 .. n : parts[i] = list[i] \o <<sep>>
      <4>1. \A i \in 1 .. n : list[i] \o <<sep>> \in B BY <3>1
      <4> QED BY <4>1, <3>1
    <3>3. list[n] \in B /\ n \in 1 .. n BY <3>1
    <3>4. f = Code!FlattenSeq(parts) BY DEF Followed
    <3> HIDE DEF parts, n, f
    <3>5. PICK so : Beginnings(Code!Byte, parts, so) BY <3>2, Flattened
    <3>6. so \in [0 .. n -> B] /\ so[n] = so[n - 1] \o parts[n] /\ f = so[n]
      BY <3>2, <3>3, <3>4, <3>5 DEF Beginnings
    <3> DEFINE b == so[n - 1]
               l == list[n]
    <3>7. b \in B /\ l \in B /\ f = b \o (l \o <<sep>>)
      <4>1. n - 1 \in 0 .. n BY <3>1
      <4> QED BY <4>1, <3>2, <3>3, <3>6
    <3> HIDE DEF b, l
    <3> QED BY <3>7
  <2> HIDE DEF f
  <2>3. s \in B /\ f = s \o <<sep>>
    <3> DEFINE n == Len(f)
    <3>1. n \in Nat \ {0} /\ n = Len(f) BY <2>2
    <3> HIDE DEF n
    <3>2. n - 1 \in Nat /\ n - 1 <= Len(f) /\ 1 <= (n - 1) + 1 BY <3>1
    <3>3. s \in B /\ Len(s) = n - 1 /\ \A i \in 1 .. n - 1 : s[i] = f[i]
      <4>1. /\ SubSeq(f, 1, n - 1) \in B /\ Len(SubSeq(f, 1, n - 1)) = (n - 1) - 1 + 1
            /\ \A i \in 1 .. (n - 1) - 1 + 1 : SubSeq(f, 1, n - 1)[i] = f[1 + i - 1]
        BY <3>2, <2>2, Piece
      <4> QED BY <4>1, <3>1
    <3> HIDE DEF s
    <3> DEFINE q == s \o <<sep>>
    <3>4. q \in B /\ Len(q) = n /\ q[n] = sep /\ \A i \in 1 .. n - 1 : q[i] = s[i]
      <4> DEFINE one == <<sep>>
      <4>1. one \in B /\ Len(one) = 1 /\ one[1] = sep OBVIOUS
      <4> HIDE DEF one
      <4>2. Behind(Code!Byte, s \o one, s, n - 1, one, 1) BY <3>3, <4>1, TwoJoined
      <4>3. (n - 1) + 1 = n /\ 1 \in 1 .. 1 BY <3>1
      <4> QED BY <4>1, <4>2, <4>3 DEF Behind, one
    <3> HIDE DEF q
    <3>5. ASSUME NEW i \in 1 .. n PROVE f[i] = q[i]
      <4>1. i = n \/ i \in 1 .. n - 1 BY <3>1
      <4> QED BY <4>1, <3>1, <3>3, <3>4, <2>2
    <3>6. f = q BY <3>1, <3>4, <3>5, <2>2, Same
    <3> QED BY <3>3, <3>6 DEF q
  <2> HIDE DEF s
  <2>4. Code!implode(list, sep) = s BY <2>3, ImplodeTakesOneOff DEF f
  <2>5. PICK all : Apart(s, sep, all) BY <2>3, ExplodeTakesApart
  <2>6. all = list
    <3>1. Followed(all, sep) = Followed(list, sep) /\ all \in Seq(Seq(Code!Byte)) /\ AllFree(all, sep)
      BY <2>3, <2>5 DEF Apart, f
    <3> QED BY <3>1, FollowedOnce
  <2>7. Code!NonEmpty(list) = list BY NoneEmpty
  <2>8. Code!explode(s, sep, TRUE) = list BY <2>5, <2>6, <2>7 DEF Apart
  <2> QED BY <2>3, <2>4, <2>8
<1> QED BY <1>1, <1>2

\* The decimal digits.
Figure == 48 .. 57

\* v[i] is the number that the first i figures of t are.
Numeral(t, v) ==
  /\ t \in Seq(Figure) /\ v \in [0 .. Len(t) -> Nat] /\ v[0] = 0
  /\ \A i \in 1 .. Len(t) : v[i] = 10 * v[i - 1] + t[i] - 48

\* One figure more.
LEMMA NumeralMore ==
  ASSUME NEW t, NEW v, Numeral(t, v), NEW c \in Figure
  PROVE  \E w : Numeral(t \o <<c>>, w) /\ w[Len(t) + 1] = 10 * v[Len(t)] + c - 48
<1> DEFINE n == Len(t)
           u == t \o <<c>>
           w == [i \in 0 .. n + 1 |-> IF i = n + 1 THEN 10 * v[n] + c - 48 ELSE v[i]]
<1>1. /\ t \in Seq(Figure) /\ n \in Nat /\ n = Len(t) /\ v \in [0 .. n -> Nat] /\ v[0] = 0
      /\ \A i \in 1 .. n : v[i] = 10 * v[i - 1] + t[i] - 48 BY DEF Numeral
<1>2. u \in Seq(Figure) /\ Len(u) = n + 1 /\ u[n + 1] = c /\ \A i \in 1 .. n : u[i] = t[i] BY <1>1
<1> HIDE DEF n, u
<1>3. 10 * v[n] + c - 48 \in Nat BY <1>1 DEF Figure
<1>4. w \in [0 .. n + 1 -> Nat] /\ w[0] = 0 /\ w[n + 1] = 10 * v[n] + c - 48 BY <1>1, <1>3
<1>5. ASSUME NEW i \in 1 .. n + 1 PROVE w[i] = 10 * w[i - 1] + u[i] - 48
  <2>1. CASE i = n + 1
    <3>1. i - 1 = n /\ n \in 0 .. n + 1 /\ n # n + 1 BY <2>1, <1>1
    <3>2. w[i - 1] = v[n] BY <3>1
    <3> QED BY <2>1, <3>2, <1>2, <1>4
  <2>2. CASE i # n + 1
    <3>1. i \in 1 .. n /\ i - 1 \in 0 .. n /\ i - 1 # n + 1 /\ i \in 0 .. n + 1 /\ i - 1 \in 0 .. n + 1
      BY <2>2, <1>1
    <3>2. w[i] = v[i] /\ w[i - 1] = v[i - 1] /\ u[i] = t[i] BY <2>2, <3>1, <1>2
    <3>3. v[i] = 10 * v[i - 1] + t[i] - 48 BY <3>1, <1>1
    <3> QED BY <3>2, <3>3
  <2> QED BY <2>1, <2>2
<1> HIDE DEF w
<1>6. Numeral(u, w) BY <1>2, <1>4, <1>5 DEF Numeral
<1> QED BY <1>1, <1>4, <1>6 DEF u

\* strtoul reads a numeral as its number, unless a leading zero makes it octal.
LEMMA StrtoulReads ==
  ASSUME NEW t, NEW v, Numeral(t, v), t # <<>>, t[1] # 48 \/ Len(t) = 1
  PROVE  Code!Strtoul(t) = v[Len(t)]
<1> DEFINE n == Len(t)
           base == IF t # <<>> /\ t[1] = 48 THEN 8 ELSE 10
           V == Nat \X BOOLEAN
           Advance(i, x) == IF x[2] /\ t[i] \in 48 .. 47 + base THEN <<base * x[1] + t[i] - 48, TRUE>>
                         ELSE <<x[1], FALSE>>
           f == [i \in 0 .. n |-> <<v[i], TRUE>>]
           Eq(h) == h = [i \in 0 .. Len(t) |-> IF i = 0 THEN <<0, TRUE>> ELSE Advance(i, h[i - 1])]
           value == CHOOSE h : Eq(h)
<1>1. /\ n \in Nat \ {0} /\ n = Len(t) /\ v \in [0 .. n -> Nat] /\ v[0] = 0
      /\ \A i \in 1 .. n : t[i] \in Figure /\ v[i] = 10 * v[i - 1] + t[i] - 48 BY DEF Numeral
<1>2. Code!Strtoul(t) = value[n][1] BY DEF Code!Strtoul
<1> HIDE DEF n
<1>3. base = 10 \/ (base = 8 /\ n = 1 /\ t[1] = 48) BY <1>1
<1>4. ASSUME NEW i \in 1 .. n PROVE f[i] = Advance(i, f[i - 1])
  <2>1. i \in 0 .. n /\ i - 1 \in 0 .. n /\ v[i - 1] \in Nat /\ t[i] \in Figure
        /\ v[i] = 10 * v[i - 1] + t[i] - 48
    <3>1. i \in 0 .. n /\ i - 1 \in 0 .. n BY <1>1
    <3> QED BY <3>1, <1>1
  <2>2. f[i - 1] = <<v[i - 1], TRUE>> /\ f[i] = <<v[i], TRUE>> BY <2>1
  <2>3. t[i] \in 48 .. 47 + base
    <3> HIDE DEF base
    <3>1. CASE base = 10 BY <3>1, <2>1 DEF Figure
    <3>2. CASE base = 8 /\ n = 1 /\ t[1] = 48
      <4>1. i = 1 BY <3>2, <1>1
      <4> QED BY <3>2, <4>1
    <3> QED BY <3>1, <3>2, <1>3
  <2>4. base * v[i - 1] + t[i] - 48 = v[i]
    <3> HIDE DEF base
    <3>1. CASE base = 10 BY <3>1, <2>1
    <3>2. CASE base = 8 /\ n = 1 /\ t[1] = 48
      <4>1. i = 1 /\ i - 1 = 0 BY <3>2, <1>1
      <4>2. v[i - 1] = 0 /\ t[i] = 48 BY <3>2, <4>1, <1>1
      <4> QED BY <3>2, <4>2, <2>1
    <3> QED BY <3>1, <3>2, <1>3
  <2> HIDE DEF base, f
  <2>5. f[i - 1][1] = v[i - 1] /\ f[i - 1][2] = TRUE BY <2>2
  <2>6. Advance(i, f[i - 1]) = <<base * v[i - 1] + t[i] - 48, TRUE>> BY <2>3, <2>5
  <2> QED BY <2>2, <2>4, <2>6
<1> HIDE DEF base
<1>5. Eq(f)
  <2>1. f[0] = <<0, TRUE>>
    <3>1. 0 \in 0 .. n BY <1>1
    <3> QED BY <3>1, <1>1
  <2>2. \A i \in 0 .. n : f[i] = IF i = 0 THEN <<0, TRUE>> ELSE Advance(i, f[i - 1])
    <3> HIDE DEF Advance, f
    <3>1. \A i \in 0 .. n : i = 0 \/ i \in 1 .. n BY <1>1
    <3> QED BY <2>1, <3>1, <1>4
  <2>3. f = [i \in 0 .. n |-> f[i]] OBVIOUS
  <2> HIDE DEF f, Advance
  <2> QED BY <2>2, <2>3, <1>1
<1>6. Eq(value)
  <2> HIDE DEF f, Advance
  <2> QED BY <1>5
<1> HIDE DEF value
<1>7. value[0] = <<0, TRUE>> /\ \A i \in 1 .. n : value[i] = Advance(i, value[i - 1])
  <2> HIDE DEF Advance
  <2>1. 0 \in 0 .. n /\ \A i \in 1 .. n : i \in 0 .. n /\ i # 0 BY <1>1
  <2> QED BY <2>1, <1>1, <1>6
<1> DEFINE T == {i \in Int : value[i] = f[i]}
<1>8. ASSUME NEW k \in 0 .. n, \A j \in 0 .. k - 1 : j \in T PROVE k \in T
  <2> HIDE DEF Advance, f
  <2>0. f[0] = <<0, TRUE>>
    <3>1. 0 \in 0 .. n BY <1>1
    <3> QED BY <3>1, <1>1 DEF f
  <2>1. CASE k = 0
    <3>1. value[k] = f[k] /\ k \in Int BY <2>1, <2>0, <1>7
    <3> QED BY <3>1
  <2>2. CASE k # 0
    <3>1. k \in 1 .. n /\ k - 1 \in 0 .. k - 1 /\ k \in Int BY <2>2, <1>1
    <3>2. value[k - 1] = f[k - 1] BY <3>1, <1>8
    <3>3. value[k] = f[k] BY <3>1, <3>2, <1>4, <1>7
    <3> QED BY <3>1, <3>3
  <2> QED BY <2>1, <2>2
<1>9. 0 .. n \subseteq T
  <2> HIDE DEF T
  <2>1. GrowsUp(0, n, T) BY <1>1, <1>8 DEF GrowsUp
  <2> QED BY <2>1, Upwards
<1>10. value[n] = <<v[n], TRUE>>
  <2>1. n \in 0 .. n BY <1>1
  <2> QED BY <2>1, <1>9
<1> QED BY <1>1, <1>2, <1>10

\* A text of figures that is read as n.
ReadAs(t, n) ==
  /\ t \in Seq(Figure) /\ t # <<>> /\ (t[1] # 48 \/ Len(t) = 1)
  /\ n > 0 => t[1] # 48
  /\ \E v : Numeral(t, v) /\ v[Len(t)] = n

\* One figure is read as its number.
LEMMA OneFigure ==
  ASSUME NEW k \in 0 .. 9
  PROVE  ReadAs(<<48 + k>>, k)
<1> DEFINE v == [i \in 0 .. 1 |-> IF i = 1 THEN k ELSE 0]
           t == <<48 + k>>
<1>1. t \in Seq(Figure) /\ Len(t) = 1 /\ t[1] = 48 + k /\ t # <<>> BY DEF Figure
<1> HIDE DEF t
<1>2. v \in [0 .. 1 -> Nat] /\ v[0] = 0 /\ v[1] = k OBVIOUS
<1> HIDE DEF v
<1>3. v[1] = 10 * v[1 - 1] + t[1] - 48 BY <1>1, <1>2
<1>4. Numeral(t, v)
  <2>1. \A i \in 1 .. 1 : i = 1 OBVIOUS
  <2> QED BY <2>1, <1>1, <1>2, <1>3 DEF Numeral
<1>5. k > 0 => t[1] # 48 BY <1>1
<1> QED BY <1>1, <1>2, <1>4, <1>5 DEF ReadAs, t

\* One figure more, behind a number that is not zero.
LEMMA FigureMore ==
  ASSUME NEW t, NEW n \in Nat \ {0}, ReadAs(t, n), NEW k \in 0 .. 9
  PROVE  ReadAs(t \o <<48 + k>>, 10 * n + k)
<1>1. PICK v : Numeral(t, v) /\ v[Len(t)] = n BY DEF ReadAs
<1>2. 48 + k \in Figure BY DEF Figure
<1> DEFINE c == 48 + k
           u == t \o <<c>>
<1>3. PICK w : Numeral(t \o <<c>>, w) /\ w[Len(t) + 1] = 10 * v[Len(t)] + c - 48
  <2> HIDE DEF c
  <2> QED BY <1>1, <1>2, NumeralMore DEF c
<1>4. t \in Seq(Figure) /\ t # <<>> /\ t[1] # 48 BY DEF ReadAs
<1>5. u \in Seq(Figure) /\ Len(u) = Len(t) + 1 /\ u # <<>> /\ u[1] = t[1]
  <2> HIDE DEF c
  <2> QED BY <1>2, <1>4 DEF c
<1>6. w[Len(u)] = 10 * n + k
  <2> HIDE DEF u
  <2> QED BY <1>1, <1>3, <1>5
<1>7. Numeral(u, w) BY <1>3
<1> HIDE DEF u
<1>8. u[1] # 48 BY <1>4, <1>5
<1>9. ReadAs(u, 10 * n + k) BY <1>5, <1>6, <1>7, <1>8 DEF ReadAs
<1> QED BY <1>9 DEF u

\* The decimal text of a number is read as that number.
LEMMA DecimalIsRead ==
  ASSUME NEW n \in Nat
  PROVE  /\ Code!Decimal(n) \in Seq(Figure) /\ Code!Decimal(n) # <<>>
         /\ Code!Strtoul(Code!Decimal(n)) = n
<1> DEFINE V == Seq(Figure)
           Onward(k, rest) == IF k < 10 THEN <<48 + k>> ELSE rest \o <<48 + (k % 10)>>
           rank == [k \in 0 .. n |-> k]
           st == [k \in 0 .. n |-> [f \in [0 .. n -> V] |-> Onward(k, f[k \div 10])]]
           Eq(h) == h = [k \in 0 .. n |-> IF k < 10 THEN <<48 + k>> ELSE h[k \div 10] \o <<48 + (k % 10)>>]
           digits == CHOOSE h : Eq(h)
<1>1. Code!Decimal(n) = digits[n] BY DEF Code!Decimal
<1>2. ASSUME NEW k \in 0 .. n, k >= 10
      PROVE  k \div 10 \in 0 .. k - 1 /\ k \div 10 \in 0 .. n /\ k \div 10 > 0 /\ k % 10 \in 0 .. 9
             /\ k = 10 * (k \div 10) + (k % 10) BY <1>2
<1>3. ASSUME NEW k \in 0 .. n, NEW rest \in V PROVE Onward(k, rest) \in V
  <2>1. CASE k < 10
    <3>1. 48 + k \in Figure BY <2>1 DEF Figure
    <3> QED BY <2>1, <3>1
  <2>2. CASE ~(k < 10)
    <3>1. 48 + (k % 10) \in Figure BY <2>2, <1>2 DEF Figure
    <3> DEFINE c == 48 + (k % 10)
    <3> HIDE DEF c
    <3>2. rest \o <<c>> \in V BY <3>1 DEF c
    <3> QED BY <3>2, <2>2 DEF c
  <2> QED BY <2>1, <2>2
<1>4. \E f : Solution(0 .. n, V, st, f)
  <2>1. V # {} /\ n + 1 \in Nat /\ rank \in [0 .. n -> Nat] /\ \A i \in 0 .. n : rank[i] < n + 1
    <3>1. <<>> \in V OBVIOUS
    <3>2. rank \in [0 .. n -> Nat] /\ \A i \in 0 .. n : rank[i] < n + 1
      <4> HIDE DEF V
      <4> QED OBVIOUS
    <3> HIDE DEF V, rank
    <3> QED BY <3>1, <3>2
  <2>2. st \in [0 .. n -> [[0 .. n -> V] -> V]]
    <3>1. ASSUME NEW k \in 0 .. n, NEW f \in [0 .. n -> V] PROVE Onward(k, f[k \div 10]) \in V
      <4>1. k \div 10 \in 0 .. n OBVIOUS
      <4> HIDE DEF V, Onward
      <4> QED BY <4>1, <1>3
    <3> HIDE DEF Onward, V
    <3> QED BY <3>1
  <2>3. ASSUME NEW i \in 0 .. n, NEW f \in [0 .. n -> V], NEW g \in [0 .. n -> V],
               \A j \in 0 .. n : rank[j] < rank[i] => f[j] = g[j]
        PROVE  st[i][f] = st[i][g]
    <3>1. CASE i < 10 BY <3>1
    <3>2. CASE ~(i < 10)
      <4>1. i \div 10 \in 0 .. n /\ rank[i \div 10] < rank[i] BY <3>2, <1>2
      <4>2. f[i \div 10] = g[i \div 10] BY <4>1, <2>3
      <4>3. st[i][f] = Onward(i, f[i \div 10]) /\ st[i][g] = Onward(i, g[i \div 10])
        <5> HIDE DEF Onward, V
        <5> QED OBVIOUS
      <4> QED BY <4>2, <4>3
    <3> QED BY <3>1, <3>2
  <2> HIDE DEF V, rank, st
  <2>4. Ranked(0 .. n, V, rank, n + 1, st) BY <2>1, <2>2, <2>3 DEF Ranked
  <2> QED BY <2>4, RecursionOnRank
<1>5. PICK f : Solution(0 .. n, V, st, f) BY <1>4
<1>6. Eq(f)
  <2>1. f \in [0 .. n -> V] /\ \A k \in 0 .. n : f[k] = st[k][f]
    <3> HIDE DEF st, V
    <3> QED BY <1>5 DEF Solution
  <2>2. ASSUME NEW k \in 0 .. n PROVE f[k] = Onward(k, f[k \div 10])
    <3> HIDE DEF Onward, V
    <3> QED BY <2>1
  <2> HIDE DEF st
  <2> QED BY <2>1, <2>2
<1>7. Eq(digits)
  <2> HIDE DEF Eq
  <2> QED BY <1>6
<1> HIDE DEF digits
<1> DEFINE T == {k \in Int : ReadAs(digits[k], k)}
<1>8. ASSUME NEW k \in 0 .. n, \A j \in 0 .. k - 1 : j \in T PROVE k \in T
  <2>0. k \in Int OBVIOUS
  <2>1. CASE k < 10
    <3>1. digits[k] = <<48 + k>> /\ k \in 0 .. 9 BY <2>1, <1>7
    <3>2. ReadAs(digits[k], k) BY <3>1, OneFigure
    <3> QED BY <3>2, <2>0
  <2>2. CASE ~(k < 10)
    <3> DEFINE a == k \div 10
               b == k % 10
    <3>1. a \in 0 .. k - 1 /\ a > 0 /\ b \in 0 .. 9 /\ k = 10 * a + b BY <2>2, <1>2
    <3>2. digits[k] = digits[a] \o <<48 + b>> BY <2>2, <1>7
    <3> HIDE DEF a, b
    <3>3. ReadAs(digits[a], a) BY <3>1, <1>8
    <3>4. a \in Nat \ {0} BY <3>1
    <3>5. ReadAs(digits[a] \o <<48 + b>>, 10 * a + b) BY <3>1, <3>3, <3>4, FigureMore
    <3>6. ReadAs(digits[k], k) BY <3>1, <3>2, <3>5
    <3> QED BY <3>6, <2>0
  <2> QED BY <2>1, <2>2
<1>9. 0 .. n \subseteq T
  <2> HIDE DEF T
  <2>1. GrowsUp(0, n, T) BY <1>8 DEF GrowsUp
  <2> QED BY <2>1, Upwards
<1>10. ReadAs(digits[n], n)
  <2>1. n \in 0 .. n OBVIOUS
  <2> QED BY <2>1, <1>9
<1> DEFINE t == digits[n]
<1>11. PICK v : Numeral(t, v) /\ v[Len(t)] = n BY <1>10 DEF ReadAs
<1>12. t \in Seq(Figure) /\ t # <<>> /\ (t[1] # 48 \/ Len(t) = 1) BY <1>10 DEF ReadAs
<1> HIDE DEF t
<1>13. Code!Strtoul(t) = n BY <1>11, <1>12, StrtoulReads
<1> QED BY <1>1, <1>12, <1>13 DEF t

\* Figures are bytes, and no separator.
LEMMA FiguresAreFree ==
  ASSUME NEW list \in Seq(Seq(Figure)), NEW sep \in Code!Byte \ Figure
  PROVE  list \in Seq(Seq(Code!Byte)) /\ AllFree(list, sep)
<1>1. Figure \subseteq Code!Byte BY DEF Figure, Code!Byte
<1>2. ASSUME NEW j \in DOMAIN list PROVE list[j] \in Seq(Code!Byte) /\ Free(list[j], sep)
  <2> DEFINE t == list[j]
  <2>1. t \in Seq(Figure) BY <1>2
  <2> HIDE DEF t
  <2>2. t \in Seq(Code!Byte) BY <1>1, <2>1
  <2>3. ASSUME NEW p \in DOMAIN t PROVE t[p] # sep
    <3>1. t[p] \in Figure BY <2>1, <2>3
    <3> QED BY <3>1
  <2> QED BY <2>2, <2>3 DEF Free, t
<1>3. list \in Seq(Seq(Code!Byte)) BY <1>2
<1> QED BY <1>2, <1>3 DEF AllFree

\* Numbers that are written with a separator between them are read as they were.
LEMMA NumbersBetween ==
  ASSUME NEW list, NEW n \in Nat, list \in [1 .. n -> Nat], NEW sep \in Code!Byte \ Figure
  PROVE  LET texts == [i \in 1 .. n |-> Code!Decimal(list[i])]
         IN Code!explode(Code!implode(texts, sep), sep, TRUE) = texts
<1> DEFINE texts == [i \in 1 .. n |-> Code!Decimal(list[i])]
<1>1. ASSUME NEW i \in 1 .. n PROVE Code!Decimal(list[i]) \in Seq(Figure) /\ Code!Decimal(list[i]) # <<>>
  <2>1. list[i] \in Nat OBVIOUS
  <2> QED BY <2>1, DecimalIsRead
<1>2. texts \in Seq(Seq(Figure)) /\ Len(texts) = n /\ \A i \in 1 .. n : texts[i] # <<>> BY <1>1
<1> HIDE DEF texts
<1>3. texts \in Seq(Seq(Code!Byte)) /\ AllFree(texts, sep) BY <1>2, FiguresAreFree
<1>4. \A i \in 1 .. Len(texts) : texts[i] # <<>> BY <1>2
<1>5. Code!explode(Code!implode(texts, sep), sep, TRUE) = texts BY <1>3, <1>4, ExplodeOfImplode
<1> QED BY <1>5 DEF texts

\* A list of numbers is read as it was, behind what was there.
THEOREM NumbersAreKept ==
  \A list \in Seq(Nat), there \in Seq(Nat) : Code!ListsAreKept(list, there)
<1> SUFFICES ASSUME NEW list \in Seq(Nat), NEW there \in Seq(Nat) PROVE Code!ListsAreKept(list, there)
  OBVIOUS
<1> DEFINE n == Len(list)
           texts == [i \in 1 .. n |-> Code!Decimal(list[i])]
           s == Code!implode(texts, 124)
           read == [i \in DOMAIN texts |-> Code!Strtoul(texts[i])]
<1>1. n \in Nat /\ list \in [1 .. n -> Nat] /\ DOMAIN list = 1 .. n /\ 124 \in Code!Byte \ Figure
  BY DEF Code!Byte, Figure
<1>2. Code!explode(s, 124, TRUE) = texts
  <2> HIDE DEF n
  <2> QED BY <1>1, NumbersBetween
<1>3. read = list
  <2>1. \A i \in 1 .. n : Code!Strtoul(Code!Decimal(list[i])) = list[i]
    <3>1. \A i \in 1 .. n : list[i] \in Nat BY <1>1
    <3> HIDE DEF n
    <3> QED BY <3>1, DecimalIsRead
  <2> HIDE DEF n
  <2> QED BY <1>1, <2>1
<1>4. Code!Implode([i \in DOMAIN list |-> Code!Decimal(list[i])], 124) = s BY <1>1 DEF Code!Implode
<1> HIDE DEF s, n
<1>5. Code!Numbers(there, s, 124) = there \o read BY <1>2 DEF Code!Numbers
<1> HIDE DEF read, texts
<1>6. Code!Numbers(there, s, 124) = there \o list BY <1>3, <1>5
<1> QED BY <1>4, <1>6 DEF Code!ListsAreKept

\* The bits of a word of this width, as the text of their numbers.
BitsOf(bits, width) == bits \intersect 1 .. width

\* bit2str writes the numbers of the bits, all of them and no other.
LEMMA BitsAreListed ==
  ASSUME NEW bits \in SUBSET (1 .. 64), NEW width \in Nat
  PROVE  \E list \in Seq({Code!Decimal(i) : i \in BitsOf(bits, width)}) :
           /\ Code!bit2str(bits, width, 124) = Code!implode(list, 124)
           /\ \A i \in BitsOf(bits, width) : Code!Decimal(i) \in Code!ToSet(list)
<1> DEFINE X == {Code!Decimal(i) : i \in BitsOf(bits, width)}
           parts == [i \in 1 .. width |-> IF i \in bits THEN <<Code!Decimal(i)>> ELSE <<>>]
           list == Code!FlattenSeq(parts)
<1>1. parts \in Seq(Seq(X)) /\ Len(parts) = width /\ \A i \in BitsOf(bits, width) : parts[i] = <<Code!Decimal(i)>>
  <2>1. ASSUME NEW i \in 1 .. width PROVE (IF i \in bits THEN <<Code!Decimal(i)>> ELSE <<>>) \in Seq(X)
    <3>1. CASE i \in bits
      <4>1. Code!Decimal(i) \in X BY <3>1 DEF BitsOf
      <4> HIDE DEF X
      <4> QED BY <3>1, <4>1
    <3>2. CASE i \notin bits BY <3>2
    <3> QED BY <3>1, <3>2
  <2> HIDE DEF X
  <2> QED BY <2>1 DEF BitsOf
<1> HIDE DEF X
<1>2. list \in Seq(X)
  <2> HIDE DEF parts
  <2> QED BY <1>1, FlattenType
<1>3. Code!bit2str(bits, width, 124) = Code!implode(list, 124) BY DEF Code!bit2str
<1> HIDE DEF parts
<1>4. PICK so : Beginnings(X, parts, so) BY <1>1, Flattened
<1>5. ASSUME NEW i \in BitsOf(bits, width) PROVE Code!Decimal(i) \in Code!ToSet(list)
  <2>1. i \in 1 .. Len(parts) /\ parts[i] = <<Code!Decimal(i)>> /\ Len(parts[i]) = 1
    <3>1. i \in 1 .. width BY DEF BitsOf
    <3>2. parts[i] = <<Code!Decimal(i)>> BY <1>1
    <3>3. Len(<<Code!Decimal(i)>>) = 1 OBVIOUS
    <3> QED BY <3>1, <3>2, <3>3, <1>1
  <2>2. InPlace(parts, so, i) BY <1>1, <1>4, <2>1, PartsInPlace
  <2> DEFINE p == Len(so[i - 1])
  <2>3. so[i - 1] \in Seq(X)
    <3>1. i - 1 \in 0 .. Len(parts) BY <2>1, <1>1
    <3> QED BY <3>1, <1>4 DEF Beginnings
  <2>4. p \in Nat /\ p + 1 <= Len(list) /\ list[p + 1] = Code!Decimal(i)
    <3>1. p \in Nat BY <2>3
    <3>2. p + 1 = Len(so[i]) /\ Len(so[i]) <= Len(list) BY <2>1, <2>2 DEF InPlace
    <3>3. list[p + 1] = parts[i][1]
      <4>1. 1 \in 1 .. Len(parts[i]) BY <2>1
      <4> QED BY <4>1, <2>2 DEF InPlace
    <3> HIDE DEF p, list
    <3> QED BY <3>1, <3>2, <3>3, <2>1
  <2> HIDE DEF p, list
  <2>5. p + 1 \in DOMAIN list BY <2>4, <1>2
  <2> QED BY <2>4, <2>5 DEF Code!ToSet
<1> HIDE DEF list
<1> QED BY <1>2, <1>3, <1>5 DEF X

\* str2bit reads the bits that bit2str wrote.
LEMMA BitsRead ==
  ASSUME NEW bits \in SUBSET (1 .. 64), NEW width \in Nat
  PROVE  Code!str2bit(Code!bit2str(bits, width, 124), 124) = BitsOf(bits, width)
<1> DEFINE X == {Code!Decimal(i) : i \in BitsOf(bits, width)}
<1>1. PICK list \in Seq(X) :
        /\ Code!bit2str(bits, width, 124) = Code!implode(list, 124)
        /\ \A i \in BitsOf(bits, width) : Code!Decimal(i) \in Code!ToSet(list) BY BitsAreListed
<1>2. \A i \in BitsOf(bits, width) : i \in Nat BY DEF BitsOf
<1>3. ASSUME NEW x \in X PROVE x \in Seq(Figure) /\ x # <<>> /\ Code!Strtoul(x) \in BitsOf(bits, width)
  <2>1. PICK i \in BitsOf(bits, width) : x = Code!Decimal(i) OBVIOUS
  <2> HIDE DEF X
  <2> QED BY <2>1, <1>2, DecimalIsRead
<1> HIDE DEF X
<1>4. list \in Seq(Seq(Figure)) /\ \A i \in 1 .. Len(list) : list[i] # <<>> /\ list[i] \in X
  <2>1. \A i \in 1 .. Len(list) : list[i] \in X OBVIOUS
  <2> QED BY <2>1, <1>3
<1>5. 124 \in Code!Byte \ Figure BY DEF Code!Byte, Figure
<1>6. list \in Seq(Seq(Code!Byte)) /\ AllFree(list, 124) BY <1>4, <1>5, FiguresAreFree
<1>7. Code!explode(Code!implode(list, 124), 124, TRUE) = list BY <1>4, <1>5, <1>6, ExplodeOfImplode
<1>8. Code!str2bit(Code!bit2str(bits, width, 124), 124) = {Code!Strtoul(sec) : sec \in Code!ToSet(list)} \intersect 1 .. 64
  BY <1>1, <1>7 DEF Code!str2bit
<1>9. ASSUME NEW sec \in Code!ToSet(list) PROVE Code!Strtoul(sec) \in BitsOf(bits, width)
  <2>1. sec \in X BY <1>4 DEF Code!ToSet
  <2> QED BY <2>1, <1>3
<1>10. ASSUME NEW i \in BitsOf(bits, width) PROVE \E sec \in Code!ToSet(list) : i = Code!Strtoul(sec)
  <2>1. Code!Decimal(i) \in Code!ToSet(list) /\ Code!Strtoul(Code!Decimal(i)) = i
    BY <1>1, <1>2, DecimalIsRead
  <2> QED BY <2>1
<1>11. BitsOf(bits, width) \subseteq 1 .. 64 BY DEF BitsOf
<1> QED BY <1>8, <1>9, <1>10, <1>11

\* Bits survive the way through their text.
THEOREM BitsAreKept == \A bits \in SUBSET (1 .. 64) : Code!BitsRoundTrip(bits)
<1> SUFFICES ASSUME NEW bits \in SUBSET (1 .. 64) PROVE Code!BitsRoundTrip(bits) OBVIOUS
<1>1. Code!str2bit(Code!bit2str(bits, 64, 124), 124) = BitsOf(bits, 64) BY BitsRead
<1>2. Code!str2bit(Code!bit2str(bits, 32, 124), 124) = BitsOf(bits, 32) BY BitsRead
<1>3. BitsOf(bits, 64) = bits BY DEF BitsOf
<1> QED BY <1>1, <1>2, <1>3 DEF Code!BitsRoundTrip, BitsOf

\* The sections of s that are not empty.
Parted(s, sep) == Code!explode(s, sep, TRUE)

\* They are texts.
LEMMA PartedType ==
  ASSUME NEW s \in Seq(Code!Byte), NEW sep \in Code!Byte
  PROVE  Parted(s, sep) \in Seq(Seq(Code!Byte))
<1>1. PICK all : Apart(s, sep, all) BY ExplodeTakesApart
<1>2. all \in Seq(Seq(Code!Byte)) /\ Parted(s, sep) = Code!NonEmpty(all) BY <1>1 DEF Apart, Parted
<1> DEFINE a == <<>>
<1>3. a \in Seq(Code!Byte) OBVIOUS
<1> HIDE DEF a
<1>4. Grows(Seq(Code!Byte), Code!NonEmpty(<<>>), Code!NonEmpty(<<a>> \o all), Kept(a), Code!NonEmpty(all))
  BY <1>2, <1>3, NonEmptyMore
<1> QED BY <1>2, <1>4 DEF Grows

\* A section, its separator and the rest.
LEMMA PartedMore ==
  ASSUME NEW sep \in Code!Byte, NEW x \in Seq(Code!Byte), Free(x, sep), NEW t \in Seq(Code!Byte)
  PROVE  Parted((x \o <<sep>>) \o t, sep) = Kept(x) \o Parted(t, sep)
<1> DEFINE B == Seq(Code!Byte)
           y == x \o <<sep>>
           s == y \o t
           one == <<sep>>
<1>1. y \in B /\ s \in B /\ one \in B OBVIOUS
<1>2. PICK all : Apart(t, sep, all) BY ExplodeTakesApart
<1>3. PICK mine : Apart(s, sep, mine) BY <1>1, ExplodeTakesApart
<1>4. all \in Seq(Seq(Code!Byte)) /\ AllFree(all, sep) /\ Parted(t, sep) = Code!NonEmpty(all)
      /\ Followed(all, sep) = t \o one BY <1>2 DEF Apart, Parted
<1>5. mine \in Seq(Seq(Code!Byte)) /\ AllFree(mine, sep) /\ Parted(s, sep) = Code!NonEmpty(mine)
      /\ Followed(mine, sep) = s \o one BY <1>3 DEF Apart, Parted
<1> DEFINE more == <<x>> \o all
<1>6. more \in Seq(Seq(Code!Byte)) /\ AllFree(more, sep)
  <2>1. more \in Seq(Seq(Code!Byte)) /\ Len(more) = 1 + Len(all) /\ Len(all) \in Nat
        /\ more[1] = x /\ \A i \in 1 .. Len(all) : more[i + 1] = all[i] BY <1>4
  <2> HIDE DEF more
  <2>2. ASSUME NEW j \in DOMAIN more PROVE Free(more[j], sep)
    <3>1. CASE j = 1 BY <3>1, <2>1
    <3>2. CASE j # 1
      <4>0. DOMAIN more = 1 .. 1 + Len(all) /\ DOMAIN all = 1 .. Len(all) BY <2>1, <1>4
      <4>1. j - 1 \in 1 .. Len(all) /\ (j - 1) + 1 = j /\ j - 1 \in DOMAIN all BY <3>2, <2>1, <4>0
      <4> QED BY <4>1, <2>1, <1>4 DEF AllFree
    <3> QED BY <3>1, <3>2
  <2> QED BY <2>1, <2>2 DEF AllFree
<1>7. Grows(Code!Byte, Followed(<<>>, sep), Followed(<<x>> \o all, sep), x \o <<sep>>, Followed(all, sep))
  BY <1>4, FollowedMore
<1>8. Followed(more, sep) = s \o one
  <2>1. Followed(more, sep) = y \o (t \o one) BY <1>4, <1>7 DEF Grows
  <2> HIDE DEF y, one, more
  <2>2. (y \o t) \o one = y \o (t \o one) BY <1>1, ThreeJoined
  <2> QED BY <2>1, <2>2
<1>9. mine = more
  <2> HIDE DEF more, s
  <2> QED BY <1>5, <1>6, <1>8, FollowedOnce
<1>10. Grows(Seq(Code!Byte), Code!NonEmpty(<<>>), Code!NonEmpty(<<x>> \o all), Kept(x), Code!NonEmpty(all))
  BY <1>4, NonEmptyMore
<1> HIDE DEF s, y, one
<1>11. Parted(s, sep) = Kept(x) \o Parted(t, sep) BY <1>4, <1>5, <1>9, <1>10 DEF Grows
<1> QED BY <1>11 DEF s, y, one

\* A text without the separator is one section.
LEMMA PartedOne ==
  ASSUME NEW sep \in Code!Byte, NEW x \in Seq(Code!Byte), Free(x, sep)
  PROVE  Parted(x, sep) = Kept(x)
<1> DEFINE B == Seq(Code!Byte)
           one == <<x>>
           e == <<>>
<1>1. one \in Seq(Seq(Code!Byte)) /\ AllFree(one, sep) /\ one = <<x>> \o e /\ e \in Seq(Seq(Code!Byte))
      /\ e = <<>> BY DEF AllFree
<1>2. PICK all : Apart(x, sep, all) BY ExplodeTakesApart
<1>3. all \in Seq(Seq(Code!Byte)) /\ AllFree(all, sep) /\ Parted(x, sep) = Code!NonEmpty(all)
      /\ Followed(all, sep) = x \o <<sep>> BY <1>2 DEF Apart, Parted
<1> HIDE DEF e, one
<1>4. Grows(Code!Byte, Followed(<<>>, sep), Followed(<<x>> \o e, sep), x \o <<sep>>, Followed(e, sep))
  BY <1>1, FollowedMore
<1>5. Followed(one, sep) = x \o <<sep>>
  <2>1. (x \o <<sep>>) \o <<>> = x \o <<sep>> OBVIOUS
  <2> QED BY <2>1, <1>1, <1>4 DEF Grows
<1>6. all = one BY <1>1, <1>3, <1>5, FollowedOnce
<1>7. Grows(Seq(Code!Byte), Code!NonEmpty(<<>>), Code!NonEmpty(<<x>> \o e), Kept(x), Code!NonEmpty(e))
  BY <1>1, NonEmptyMore
<1>8. Kept(x) \o <<>> = Kept(x) BY DEF Kept
<1> QED BY <1>1, <1>3, <1>6, <1>7, <1>8 DEF Grows

\* k separators.
Gap(k, sep) == [i \in 1 .. k |-> sep]

\* One separator more.
LEMMA GapMore ==
  ASSUME NEW X, NEW sep \in X, NEW k \in Nat
  PROVE  /\ Gap(0, sep) = <<>> /\ Gap(k, sep) \in Seq(X) /\ Len(Gap(k, sep)) = k
         /\ Gap(k + 1, sep) = <<sep>> \o Gap(k, sep)
<1> DEFINE g == Gap(k, sep)
           h == Gap(k + 1, sep)
           r == <<sep>> \o g
<1>1. g \in Seq(X) /\ Len(g) = k /\ \A i \in 1 .. k : g[i] = sep BY DEF Gap
<1>2. h \in Seq(X) /\ Len(h) = k + 1 /\ \A i \in 1 .. k + 1 : h[i] = sep BY DEF Gap
<1> HIDE DEF g, h
<1>3. r \in Seq(X) /\ Len(r) = k + 1 /\ r[1] = sep /\ \A i \in 1 .. k : r[i + 1] = g[i] BY <1>1
<1> HIDE DEF r
<1>4. ASSUME NEW i \in 1 .. k + 1 PROVE h[i] = r[i]
  <2>1. i = 1 \/ (i - 1 \in 1 .. k /\ (i - 1) + 1 = i) OBVIOUS
  <2>2. CASE i = 1 BY <2>2, <1>2, <1>3
  <2>3. CASE i - 1 \in 1 .. k /\ (i - 1) + 1 = i BY <2>3, <1>1, <1>2, <1>3
  <2> QED BY <2>1, <2>2, <2>3
<1>5. h = r BY <1>2, <1>3, <1>4, Same
<1>6. Gap(0, sep) = <<>> BY DEF Gap
<1> QED BY <1>1, <1>5, <1>6 DEF g, h, r

\* Separators in front change nothing.
LEMMA PartedBehindGap ==
  ASSUME NEW sep \in Code!Byte, NEW t \in Seq(Code!Byte), NEW n \in Nat
  PROVE  Parted(Gap(n, sep) \o t, sep) = Parted(t, sep)
<1> DEFINE T == {k \in Nat : Parted(Gap(k, sep) \o t, sep) = Parted(t, sep)}
<1>1. 0 \in T
  <2>1. <<>> \o t = t OBVIOUS
  <2> QED BY <2>1, GapMore
<1>2. ASSUME NEW k \in Nat, k \in T PROVE k + 1 \in T
  <2> DEFINE g == Gap(k, sep)
             e == <<>>
             one == <<sep>>
             u == g \o t
  <2>1. g \in Seq(Code!Byte) /\ Gap(k + 1, sep) = one \o g BY GapMore
  <2>2. e \in Seq(Code!Byte) /\ Free(e, sep) /\ e \o one = one /\ one \in Seq(Code!Byte) BY DEF Free
  <2> HIDE DEF g
  <2>3. u \in Seq(Code!Byte) /\ Parted(u, sep) = Parted(t, sep) BY <2>1, <1>2 DEF g
  <2>4. (one \o g) \o t = one \o (g \o t)
    <3> HIDE DEF one
    <3> QED BY <2>1, <2>2, ThreeJoined
  <2> HIDE DEF u
  <2>5. Parted((e \o one) \o u, sep) = Kept(e) \o Parted(u, sep)
    <3> HIDE DEF e
    <3> QED BY <2>2, <2>3, PartedMore
  <2>6. Kept(e) \o Parted(u, sep) = Parted(u, sep)
    <3> DEFINE p == Parted(u, sep)
    <3>1. p \in Seq(Seq(Code!Byte)) BY <2>3, PartedType
    <3> HIDE DEF p
    <3>2. <<>> \o p = p BY <3>1
    <3> QED BY <3>2 DEF Kept, p
  <2> HIDE DEF e, one
  <2>7. Parted(Gap(k + 1, sep) \o t, sep) = Parted(t, sep) BY <2>1, <2>2, <2>3, <2>4, <2>5, <2>6 DEF u
  <2> QED BY <2>7
<1>3. Nat \subseteq T
  <2> HIDE DEF T
  <2> QED BY <1>1, <1>2, Induct
<1> QED BY <1>3

\* The last place of a sequence.
LEMMA LastPlace ==
  ASSUME NEW X, NEW a \in Seq(X), a # <<>>
  PROVE  Len(a) \in DOMAIN a
OBVIOUS

\* The last of two texts is that of the second.
LEMMA LastOfMore ==
  ASSUME NEW X, NEW a \in Seq(X), NEW b \in Seq(X), b # <<>>
  PROVE  a \o b # <<>> /\ (a \o b)[Len(a \o b)] = b[Len(b)]
<1> DEFINE n == Len(b)
<1>1. n \in 1 .. n /\ n = Len(b) /\ n \in Nat OBVIOUS
<1> HIDE DEF n
<1>2. Behind(X, a \o b, a, Len(a), b, n) BY <1>1, TwoJoined
<1>3. Len(a \o b) = Len(a) + n /\ (a \o b)[Len(a) + n] = b[n] /\ Len(a) \in Nat BY <1>1, <1>2 DEF Behind
<1>4. a \o b # <<>> BY <1>1, <1>3
<1> QED BY <1>1, <1>3, <1>4

\* Words, each behind a gap.
Words(list, pad, sep) == Code!FlattenSeq([i \in DOMAIN list |-> Gap(pad, sep) \o list[i]])

\* Texts that are not empty and have no separator.
Word(sep) == {t \in Seq(Code!Byte) : t # <<>> /\ Free(t, sep)}

\* With one more word in front.
LEMMA WordsMore ==
  ASSUME NEW sep \in Code!Byte, NEW pad \in Nat, NEW a \in Seq(Code!Byte), NEW list \in Seq(Seq(Code!Byte))
  PROVE  Grows(Code!Byte, Words(<<>>, pad, sep), Words(<<a>> \o list, pad, sep),
               Gap(pad, sep) \o a, Words(list, pad, sep))
<1> DEFINE X == Code!Byte
           S == Seq(X)
           gap == Gap(pad, sep)
           g == [x \in S |-> gap \o x]
           l == <<a>> \o list
<1>0. gap \in S BY GapMore
<1> HIDE DEF gap
<1>1. g \in [S -> Seq(X)] /\ g[a] = gap \o a BY <1>0
<1>3. <<>> \in Seq(S) /\ l \in Seq(S) /\ a \in S /\ list \in Seq(S) OBVIOUS
<1>2. ASSUME NEW k \in Seq(S) PROVE Words(k, pad, sep) = Mapped(g, k)
  <2>1. ASSUME NEW i \in DOMAIN k PROVE g[k[i]] = gap \o k[i]
    <3>1. k[i] \in S
      <4> HIDE DEF S
      <4> QED BY <2>1
    <3> HIDE DEF S
    <3> QED BY <3>1
  <2> HIDE DEF g
  <2>2. [i \in DOMAIN k |-> gap \o k[i]] = [i \in DOMAIN k |-> g[k[i]]] BY <2>1
  <2> QED BY <2>2 DEF Words, Mapped, gap
<1> HIDE DEF g, S
<1>4. Words(<<>>, pad, sep) = Mapped(g, <<>>) /\ Words(l, pad, sep) = Mapped(g, l)
      /\ Words(list, pad, sep) = Mapped(g, list)
  <2> HIDE DEF l
  <2> QED BY <1>2, <1>3
<1> HIDE DEF X
<1>5. Grows(X, Mapped(g, <<>>), Mapped(g, l), g[a], Mapped(g, list)) BY <1>1, <1>3, MappedMore
<1> HIDE DEF l
<1>6. Grows(X, Words(<<>>, pad, sep), Words(l, pad, sep), gap \o a, Words(list, pad, sep))
  BY <1>1, <1>4, <1>5
<1> QED BY <1>6 DEF l, X, gap

\* The text begins with the separator, ends without it.
Begins(text, sep) == \E u \in Seq(Code!Byte) : text = <<sep>> \o u
Ends(text, sep) == text # <<>> /\ text[Len(text)] # sep
Found(list, pad, sep) ==
  /\ Parted(Words(list, pad, sep), sep) = list
  /\ Words(list, pad, sep) = <<>> \/ Begins(Words(list, pad, sep), sep)
  /\ list # <<>> => Ends(Words(list, pad, sep), sep)
WordsParted(n, pad, sep) == \A list \in Seq(Word(sep)) : Len(list) = n => Found(list, pad, sep)

\* Words are found as they are, however many separators stand before each.
LEMMA WordsAreFound ==
  ASSUME NEW sep \in Code!Byte, NEW pad \in Nat \ {0}, NEW list \in Seq(Word(sep))
  PROVE  /\ Parted(Words(list, pad, sep), sep) = list /\ Words(list, pad, sep) \in Seq(Code!Byte)
         /\ list # <<>> => Ends(Words(list, pad, sep), sep)
<1> DEFINE B == Seq(Code!Byte)
           T == {n \in Nat : WordsParted(n, pad, sep)}
<1>w. Word(sep) \subseteq B BY DEF Word
<1>0. ASSUME NEW l \in Seq(Word(sep)) PROVE l \in Seq(Seq(Code!Byte)) /\ Words(l, pad, sep) \in Seq(Code!Byte)
  <2>1. l \in Seq(Seq(Code!Byte)) BY <1>w
  <2> DEFINE a == <<>>
  <2>2. a \in Seq(Code!Byte) OBVIOUS
  <2> HIDE DEF a
  <2>3. Grows(Code!Byte, Words(<<>>, pad, sep), Words(<<a>> \o l, pad, sep), Gap(pad, sep) \o a, Words(l, pad, sep))
    BY <2>1, <2>2, WordsMore
  <2> QED BY <2>1, <2>3 DEF Grows
<1>e. Words(<<>>, pad, sep) = <<>> BY FlattenNothing DEF Words
<1>1. 0 \in T
  <2> SUFFICES ASSUME NEW l \in Seq(Word(sep)), Len(l) = 0
               PROVE  Parted(Words(l, pad, sep), sep) = l /\ Words(l, pad, sep) = <<>> /\ l = <<>>
    BY DEF WordsParted, Found
  <2>1. l = <<>> OBVIOUS
  <2> DEFINE e == <<>>
  <2>2. e \in Seq(Code!Byte) /\ Free(e, sep) /\ Kept(e) = e /\ e = <<>> BY DEF Free, Kept
  <2> HIDE DEF e
  <2>3. Parted(e, sep) = e BY <2>2, PartedOne
  <2> QED BY <2>1, <2>2, <2>3, <1>e
<1>2. ASSUME NEW n \in Nat, n \in T PROVE n + 1 \in T
  <2> SUFFICES ASSUME NEW l \in Seq(Word(sep)), Len(l) = n + 1
               PROVE  /\ Parted(Words(l, pad, sep), sep) = l
                      /\ Begins(Words(l, pad, sep), sep) /\ Ends(Words(l, pad, sep), sep)
    BY DEF WordsParted, Found
  <2> DEFINE a == l[1]
             t == Tail(l)
             text == Words(t, pad, sep)
             gap == Gap(pad, sep)
             one == <<sep>>
  <2>1. l # <<>> OBVIOUS
  <2>2. a \in Word(sep) /\ t \in Seq(Word(sep)) /\ Len(t) = n /\ l = <<a>> \o t
    <3>1. /\ l[1] \in Word(sep) /\ Tail(l) \in Seq(Word(sep)) /\ Len(Tail(l)) = Len(l) - 1
          /\ l = <<l[1]>> \o Tail(l) BY <2>1, Taken
    <3> QED BY <3>1
  <2> HIDE DEF a, t
  <2>3. a \in Seq(Code!Byte) /\ a # <<>> /\ Free(a, sep) /\ Kept(a) = <<a>> BY <2>2 DEF Word, Kept
  <2>4. t \in Seq(Seq(Code!Byte)) /\ text \in Seq(Code!Byte) BY <2>2, <1>0
  <2>5. Parted(text, sep) = t /\ (text = <<>> \/ Begins(text, sep)) /\ (t # <<>> => Ends(text, sep))
        /\ (t = <<>> => text = <<>>)
    <3>1. WordsParted(n, pad, sep) BY <1>2
    <3>2. Found(t, pad, sep) BY <3>1, <2>2 DEF WordsParted
    <3> QED BY <3>2, <1>e DEF Found
  <2>6. gap \in Seq(Code!Byte) /\ one \in Seq(Code!Byte)
    <3>1. pad \in Nat OBVIOUS
    <3>2. gap \in Seq(Code!Byte) BY <3>1, GapMore
    <3> HIDE DEF gap
    <3> QED BY <3>2
  <2> DEFINE rest == a \o text
  <2>7. Words(l, pad, sep) = gap \o rest
    <3>1. Grows(Code!Byte, Words(<<>>, pad, sep), Words(<<a>> \o t, pad, sep), Gap(pad, sep) \o a, Words(t, pad, sep))
      BY <2>3, <2>4, WordsMore
    <3>2. Words(l, pad, sep) = (gap \o a) \o text BY <3>1, <2>2 DEF Grows
    <3> HIDE DEF gap, text
    <3>3. (gap \o a) \o text = gap \o (a \o text) BY <2>3, <2>4, <2>6, ThreeJoined
    <3> QED BY <3>2, <3>3
  <2> HIDE DEF text
  <2>8. rest \in Seq(Code!Byte) BY <2>3, <2>4
  <2>9. Parted(rest, sep) = <<a>> \o t
    <3>1. CASE text = <<>>
      <4>1. rest = a BY <3>1, <2>3
      <4>2. Parted(a, sep) = <<a>> BY <2>3, PartedOne
      <4>3. t = <<>>
        <5> DEFINE e == <<>>
        <5>1. e \in Seq(Code!Byte) /\ Free(e, sep) /\ Kept(e) = e /\ e = <<>> BY DEF Free, Kept
        <5> HIDE DEF e
        <5>2. Parted(e, sep) = e BY <5>1, PartedOne
        <5> QED BY <3>1, <5>1, <5>2, <2>5
      <4>4. <<a>> \o <<>> = <<a>> OBVIOUS
      <4> QED BY <4>1, <4>2, <4>3, <4>4
    <3>2. CASE text # <<>>
      <4>1. PICK u \in Seq(Code!Byte) : text = one \o u BY <3>2, <2>5 DEF Begins
      <4>2. rest = (a \o one) \o u
        <5> HIDE DEF one
        <5>1. (a \o one) \o u = a \o (one \o u) BY <2>3, <2>6, <4>1, ThreeJoined
        <5> QED BY <4>1, <5>1
      <4>3. Parted((a \o <<sep>>) \o u, sep) = Kept(a) \o Parted(u, sep) BY <2>3, PartedMore
      <4>4. Parted(u, sep) = Parted(text, sep)
        <5> DEFINE e == <<>>
        <5>1. e \in Seq(Code!Byte) /\ Free(e, sep) /\ Kept(e) = e /\ e = <<>> /\ e \o one = one
          BY DEF Free, Kept
        <5> HIDE DEF e
        <5>2. Parted((e \o <<sep>>) \o u, sep) = Kept(e) \o Parted(u, sep) BY <5>1, PartedMore
        <5> DEFINE p == Parted(u, sep)
        <5>3. p \in Seq(Seq(Code!Byte)) BY PartedType
        <5> HIDE DEF p
        <5>4. <<>> \o p = p BY <5>3
        <5> QED BY <4>1, <5>1, <5>2, <5>4 DEF p
      <4> QED BY <4>2, <4>3, <4>4, <2>3, <2>5
    <3> QED BY <3>1, <3>2
  <2> HIDE DEF rest
  <2>10. Parted(gap \o rest, sep) = Parted(rest, sep) BY <2>8, PartedBehindGap
  <2>11. Begins(gap \o rest, sep)
    <3> DEFINE k == pad - 1
               h == Gap(k, sep)
    <3>1. k \in Nat /\ k + 1 = pad OBVIOUS
    <3> HIDE DEF k
    <3>2. h \in Seq(Code!Byte) /\ gap = one \o h BY <3>1, GapMore
    <3> HIDE DEF h, gap, one
    <3>3. (one \o h) \o rest = one \o (h \o rest) /\ h \o rest \in Seq(Code!Byte)
      BY <3>2, <2>6, <2>8, ThreeJoined
    <3> QED BY <3>2, <3>3 DEF one, Begins
  <2>12. Ends(gap \o rest, sep)
    <3>1. Ends(rest, sep)
      <4>1. CASE t = <<>>
        <5>0. text = <<>> BY <4>1, <2>5
        <5>1. rest = a /\ Len(a) \in DOMAIN a
          <6>1. a \o <<>> = a BY <2>3
          <6>2. Len(a) \in DOMAIN a BY <2>3, LastPlace
          <6> QED BY <6>1, <6>2, <5>0 DEF rest
        <5> QED BY <5>1, <2>3 DEF Ends, Free
      <4>2. CASE t # <<>>
        <5>1. text # <<>> /\ text[Len(text)] # sep BY <4>2, <2>5 DEF Ends
        <5>2. rest # <<>> /\ rest[Len(rest)] = text[Len(text)]
          <6>1. a \in Seq(Code!Byte) /\ text \in Seq(Code!Byte) /\ text # <<>> BY <5>1, <2>3, <2>4
          <6>2. a \o text # <<>> /\ (a \o text)[Len(a \o text)] = text[Len(text)] BY <6>1, LastOfMore
          <6> QED BY <6>2 DEF rest
        <5> QED BY <5>1, <5>2 DEF Ends
      <4> QED BY <4>1, <4>2
    <3> DEFINE all == gap \o rest
    <3> HIDE DEF gap, rest
    <3>2. rest # <<>> /\ rest[Len(rest)] # sep BY <3>1 DEF Ends
    <3>3. all # <<>> /\ all[Len(all)] = rest[Len(rest)] BY <3>2, <2>6, <2>8, LastOfMore
    <3> HIDE DEF all
    <3>4. Ends(all, sep) BY <3>2, <3>3 DEF Ends
    <3> QED BY <3>4 DEF all
  <2> QED BY <2>2, <2>7, <2>9, <2>10, <2>11, <2>12
<1>3. Nat \subseteq T
  <2> HIDE DEF T
  <2> QED BY <1>1, <1>2, Induct
<1>4. WordsParted(Len(list), pad, sep)
  <2>1. Len(list) \in Nat OBVIOUS
  <2> QED BY <2>1, <1>3
<1>5. Found(list, pad, sep) BY <1>4 DEF WordsParted
<1> QED BY <1>0, <1>5 DEF Found

\* trim takes the blanks off a text whose ends are none.
LEMMA TrimOf ==
  ASSUME NEW b \in Seq(Code!Byte), NEW t \in Seq(Code!Byte), t # <<>>,
         \A i \in 1 .. Len(b) : Code!IsSpace(b[i]), ~Code!IsSpace(t[1]), ~Code!IsSpace(t[Len(t)])
  PROVE  Code!trim(b \o t) = t
<1> DEFINE x == b \o t
           n == Len(b)
           m == Len(t)
           found == {i \in DOMAIN x : ~Code!IsSpace(x[i])}
           last == {i \in DOMAIN t : ~Code!IsSpace(t[i])}
<1>1. n \in Nat /\ n = Len(b) /\ m \in Nat \ {0} /\ m = Len(t) OBVIOUS
<1> HIDE DEF n, m
<1>2. x \in Seq(Code!Byte) /\ Len(x) = n + m /\ (\A i \in 1 .. n : x[i] = b[i]) /\ (\A i \in 1 .. m : x[n + i] = t[i])
  <2>1. Behind(Code!Byte, x, b, n, t, m) BY <1>1, TwoJoined
  <2> QED BY <2>1 DEF Behind
<1> HIDE DEF x
<1>3. DOMAIN x = 1 .. n + m /\ DOMAIN t = 1 .. m BY <1>1, <1>2
<1>4. n + 1 \in found /\ found \subseteq n + 1 .. n + m
  <2>1. n + 1 \in 1 .. n + m /\ x[n + 1] = t[1] BY <1>1, <1>2
  <2>2. ASSUME NEW i \in found PROVE i \in n + 1 .. n + m
    <3>1. i \in 1 .. n + m /\ ~Code!IsSpace(x[i]) BY <1>3
    <3>2. i \notin 1 .. n BY <3>1, <1>1, <1>2
    <3> QED BY <3>1, <3>2, <1>1
  <2> QED BY <2>1, <2>2, <1>3
<1>5. Code!Min(found) = n + 1
  <2> HIDE DEF found
  <2>1. found # {} /\ n + 1 \in Nat /\ n + m \in Nat BY <1>1, <1>4
  <2> DEFINE k == Code!Min(found)
  <2>2. k \in found /\ \A j \in found : k <= j BY <1>4, <2>1, MinMaxOf
  <2> HIDE DEF k
  <2>3. k \in n + 1 .. n + m /\ k <= n + 1 BY <1>4, <2>2
  <2>4. k = n + 1 BY <1>1, <2>3
  <2> QED BY <2>4 DEF k
<1>6. SubSeq(x, n + 1, n + m) = t
  <2> DEFINE p == SubSeq(x, n + 1, n + m)
  <2>0. n + 1 \in Nat \ {0} /\ n + m \in Nat /\ n + 1 <= (n + m) + 1 /\ n + m <= Len(x) BY <1>1, <1>2
  <2>1. p \in Seq(Code!Byte) /\ Len(p) = (n + m) - (n + 1) + 1
        /\ \A i \in 1 .. (n + m) - (n + 1) + 1 : p[i] = x[(n + 1) + i - 1] BY <2>0, <1>2, Piece
  <2> HIDE DEF p
  <2>2. Len(p) = m BY <2>1, <1>1
  <2>3. ASSUME NEW i \in 1 .. m PROVE p[i] = t[i]
    <3>1. i \in 1 .. (n + m) - (n + 1) + 1 /\ (n + 1) + i - 1 = n + i BY <1>1
    <3> QED BY <3>1, <2>1, <1>2
  <2>4. p = t BY <2>1, <2>2, <2>3, <1>1, Same
  <2> QED BY <2>4 DEF p
<1>7. Code!trimleft(x) = t
  <2>1. found # {} BY <1>4
  <2> QED BY <2>1, <1>2, <1>5, <1>6 DEF Code!trimleft
<1>8. m \in last /\ last \subseteq 1 .. m BY <1>1, <1>3
<1>9. Code!Max(last) = m
  <2> HIDE DEF last
  <2>1. last # {} /\ 1 \in Nat /\ m \in Nat BY <1>1, <1>8
  <2> DEFINE k == Code!Max(last)
  <2>2. k \in last /\ \A j \in last : k >= j BY <1>8, <2>1, MinMaxOf
  <2> HIDE DEF k
  <2>3. k \in 1 .. m /\ k >= m BY <1>8, <2>2
  <2>4. k = m BY <1>1, <2>3
  <2> QED BY <2>4 DEF k
<1>10. SubSeq(t, 1, m) = t BY <1>1
<1>11. Code!trimright(t) = t
  <2>1. last # {} BY <1>8
  <2> QED BY <2>1, <1>9, <1>10 DEF Code!trimright
<1> QED BY <1>7, <1>11 DEF Code!trim, x

\* The figures of a list of numbers, each behind blanks: read, they are the list.
LEMMA CountersAreRead ==
  ASSUME NEW count \in [Code!Counters -> Nat], NEW pad \in Nat \ {0}
  PROVE  LET text == Words([c \in Code!Counters |-> Code!Decimal(count[c])], pad, 32)
         IN /\ text \in Seq(Code!Byte) /\ Free(text, 58) /\ text # <<>>
            /\ Code!explode(Code!trim(text), 32, TRUE) = [c \in Code!Counters |-> Code!Decimal(count[c])]
<1> DEFINE texts == [c \in Code!Counters |-> Code!Decimal(count[c])]
           text == Words(texts, pad, 32)
<1>0. Code!Counters = 1 .. 16 /\ 32 \in Code!Byte \ Figure /\ 58 \in Code!Byte \ Figure /\ 32 # 58
  BY DEF Code!Counters, Code!Byte, Figure
<1>1. ASSUME NEW c \in 1 .. 16 PROVE texts[c] \in Seq(Figure) /\ texts[c] # <<>> BY <1>0, DecimalIsRead
<1>2. texts \in Seq(Seq(Figure)) /\ Len(texts) = 16 /\ DOMAIN texts = 1 .. 16
  <2>1. DOMAIN texts = 1 .. 16 /\ texts = [c \in 1 .. 16 |-> texts[c]] BY <1>0
  <2> HIDE DEF texts
  <2> QED BY <2>1, <1>1
<1> HIDE DEF texts
<1>3. texts \in Seq(Seq(Code!Byte)) /\ AllFree(texts, 32) BY <1>0, <1>2, FiguresAreFree
<1>4. texts \in Seq(Word(32)) /\ texts # <<>>
  <2>1. ASSUME NEW c \in 1 .. 16 PROVE texts[c] \in Word(32)
    <3>1. texts[c] \in Seq(Code!Byte) /\ Free(texts[c], 32)
      <4> DEFINE B == Seq(Code!Byte)
      <4>1. texts \in Seq(B) /\ c \in DOMAIN texts BY <1>2, <1>3
      <4> HIDE DEF B
      <4>2. texts[c] \in B BY <4>1
      <4> QED BY <4>1, <4>2, <1>3 DEF AllFree, B
    <3>2. texts[c] # <<>> BY <1>1
    <3> DEFINE x == texts[c]
    <3> HIDE DEF x
    <3>3. x \in Word(32) BY <3>1, <3>2 DEF Word, x
    <3> QED BY <3>3 DEF x
  <2>2. texts # <<>>
    <3>1. Len(<<>>) = 0 OBVIOUS
    <3>2. Len(texts) # 0
      <4>1. Len(texts) = 16 BY <1>2
      <4> QED BY <4>1
    <3> QED BY <3>1, <3>2, Zenon
  <2>3. texts \in Seq(Word(32))
    <3> DEFINE W == Word(32)
    <3>1. \A c \in 1 .. 16 : texts[c] \in W BY <2>1
    <3> HIDE DEF W
    <3>2. texts \in Seq(W)
      <4>1. texts = [c \in 1 .. 16 |-> texts[c]] BY <1>2
      <4>2. [c \in 1 .. 16 |-> texts[c]] \in Seq(W) BY <3>1
      <4> QED BY <4>1, <4>2
    <3> QED BY <3>2 DEF W
  <2> QED BY <2>2, <2>3
<1>5. Parted(text, 32) = texts /\ text \in Seq(Code!Byte) /\ Ends(text, 32) BY <1>0, <1>4, WordsAreFound
<1>6. text \in Seq(Figure \union {32})
  <2> DEFINE X == Figure \union {32}
             parts == [i \in DOMAIN texts |-> Gap(pad, 32) \o texts[i]]
  <2>1. Gap(pad, 32) \in Seq(X) BY DEF Gap
  <2>2. ASSUME NEW i \in 1 .. 16 PROVE texts[i] \in Seq(X)
    <3>1. texts[i] \in Seq(Figure) /\ Figure \subseteq X BY <1>1
    <3> HIDE DEF X
    <3> QED BY <3>1
  <2> HIDE DEF X
  <2>3. parts \in Seq(Seq(X))
    <3> DEFINE g == Gap(pad, 32)
    <3>1. ASSUME NEW i \in 1 .. 16 PROVE g \o texts[i] \in Seq(X)
      <4>1. g \in Seq(X) /\ texts[i] \in Seq(X) BY <2>1, <2>2
      <4> HIDE DEF g
      <4> QED BY <4>1
    <3> HIDE DEF g
    <3>2. [i \in 1 .. 16 |-> g \o texts[i]] \in Seq(Seq(X)) BY <3>1
    <3> QED BY <3>2, <1>2 DEF g
  <2> HIDE DEF parts
  <2>4. Code!FlattenSeq(parts) \in Seq(X) BY <2>3, FlattenType
  <2> QED BY <2>4 DEF Words, parts, X
<1>7. Free(text, 58)
  <2> HIDE DEF text
  <2>1. \A p \in DOMAIN text : text[p] \in Figure \union {32} BY <1>6
  <2> QED BY <2>1, <1>0 DEF Free
<1> DEFINE a == texts[1]
           more == Tail(texts)
           t == a \o Words(more, pad, 32)
           gap == Gap(pad, 32)
<1>8. a \in Seq(Figure) /\ a # <<>> /\ a \in Seq(Code!Byte) /\ more \in Seq(Word(32)) /\ texts = <<a>> \o more
      /\ more \in Seq(Seq(Code!Byte))
  <2>1. more \in Seq(Word(32)) /\ texts = <<a>> \o more BY <1>4, Taken
  <2>0. 1 \in 1 .. 16 OBVIOUS
  <2>2. a \in Seq(Figure) /\ a # <<>> BY <1>1, <2>0
  <2>3. a \in Seq(Code!Byte)
    <3>1. Figure \subseteq Code!Byte BY DEF Figure, Code!Byte
    <3> HIDE DEF a
    <3> QED BY <3>1, <2>2
  <2>4. Word(32) \subseteq Seq(Code!Byte) BY DEF Word
  <2> HIDE DEF a, more
  <2> QED BY <2>1, <2>2, <2>3, <2>4
<1> HIDE DEF a, more
<1>9. Words(more, pad, 32) \in Seq(Code!Byte) /\ gap \in Seq(Code!Byte)
  <2>1. Words(more, pad, 32) \in Seq(Code!Byte) BY <1>0, <1>8, WordsAreFound
  <2>2. pad \in Nat OBVIOUS
  <2>3. gap \in Seq(Code!Byte) BY <1>0, <2>2, GapMore
  <2> QED BY <2>1, <2>3
<1>10. text = gap \o t /\ t \in Seq(Code!Byte) /\ t # <<>> /\ t[1] = a[1]
  <2> DEFINE w == Words(more, pad, 32)
  <2>1. Grows(Code!Byte, Words(<<>>, pad, 32), Words(<<a>> \o more, pad, 32), Gap(pad, 32) \o a, Words(more, pad, 32))
    BY <1>0, <1>8, WordsMore
  <2>2. text = (gap \o a) \o w BY <1>8, <2>1 DEF Grows
  <2> HIDE DEF w, gap, text
  <2>3. w \in Seq(Code!Byte) BY <1>9 DEF w
  <2>4. (gap \o a) \o w = gap \o (a \o w)
    <3>1. gap \in Seq(Code!Byte) /\ a \in Seq(Code!Byte) BY <1>8, <1>9
    <3> QED BY <3>1, <2>3, ThreeJoined
  <2>5. a \o w \in Seq(Code!Byte) /\ a \o w # <<>> /\ (a \o w)[1] = a[1] BY <1>8, <2>3
  <2> QED BY <2>2, <2>4, <2>5 DEF w
<1> HIDE DEF t
<1>11. ~Code!IsSpace(a[1])
  <2>1. a[1] \in Figure BY <1>8
  <2> QED BY <2>1 DEF Figure, Code!IsSpace, Code!Space
<1>12. ~Code!IsSpace(t[Len(t)])
  <2> HIDE DEF text
  <2>1. text[Len(text)] \in Figure
    <3>1. text # <<>> /\ text[Len(text)] # 32 BY <1>5 DEF Ends
    <3>2. Len(text) \in DOMAIN text BY <3>1, <1>5, LastPlace
    <3> QED BY <3>1, <3>2, <1>6
  <2>2. text[Len(text)] = t[Len(t)]
    <3> HIDE DEF gap
    <3>1. gap \in Seq(Code!Byte) /\ t \in Seq(Code!Byte) /\ t # <<>> /\ text = gap \o t BY <1>9, <1>10
    <3>2. (gap \o t)[Len(gap \o t)] = t[Len(t)] BY <3>1, LastOfMore
    <3> QED BY <3>1, <3>2
  <2> QED BY <2>1, <2>2 DEF Figure, Code!IsSpace, Code!Space
<1>13. \A i \in 1 .. Len(gap) : Code!IsSpace(gap[i]) BY DEF Gap, Code!IsSpace, Code!Space
<1> HIDE DEF gap, text
<1>14. Code!trim(text) = t BY <1>9, <1>10, <1>11, <1>12, <1>13, TrimOf
<1>15. Parted(t, 32) = texts
  <2>1. pad \in Nat OBVIOUS
  <2>2. Parted(Gap(pad, 32) \o t, 32) = Parted(t, 32) BY <2>1, <1>0, <1>10, PartedBehindGap
  <2> QED BY <2>2, <1>5, <1>10 DEF gap
<1> QED BY <1>5, <1>7, <1>10, <1>14, <1>15 DEF Parted, Ends, text, texts

\* A line of the file: a colon behind the name, which has none.
LEMMA LineIsParted ==
  ASSUME NEW d \in Devices, NEW indent \in Nat, NEW pad \in Nat \ {0}
  PROVE  LET line == Code!Line(d, indent, pad)
             text == Words([c \in Code!Counters |-> Code!Decimal(d.count[c])], pad, 32)
         IN /\ line \in Seq(Code!Byte)
            /\ Parted(line, 58) = <<Gap(indent, 32) \o d.name, text>>
            /\ Code!trim(Gap(indent, 32) \o d.name) = d.name
<1> DEFINE line == Code!Line(d, indent, pad)
           text == Words([c \in Code!Counters |-> Code!Decimal(d.count[c])], pad, 32)
           gap == Gap(indent, 32)
           name == d.name
           x == gap \o name
<1>0. 32 \in Code!Byte /\ 58 \in Code!Byte /\ name \in Names /\ d.count \in [Code!Counters -> Nat]
  BY DEF Code!Byte, Devices
<1>1. text \in Seq(Code!Byte) /\ Free(text, 58) /\ text # <<>> BY <1>0, CountersAreRead
<1>2. line = (x \o <<58>>) \o text BY DEF Code!Line, Code!Blank, Code!Colon, Words, Gap
<1>3. gap \in Seq(Code!Byte) /\ Len(gap) = indent /\ \A i \in 1 .. indent : gap[i] = 32
  <2>1. gap \in Seq(Code!Byte) /\ Len(gap) = indent BY <1>0, GapMore
  <2> QED BY <2>1 DEF Gap
<1> HIDE DEF gap, name, text, line
<1> DEFINE Good == Code!Byte \ ({58} \union {c \in Code!Byte : Code!IsSpace(c)})
<1>4. name \in Seq(Good) /\ name # <<>> BY <1>0 DEF Names
<1>5. \A c \in Good : c \in Code!Byte /\ c # 58 /\ ~Code!IsSpace(c) OBVIOUS
<1> HIDE DEF Good
<1>6. name \in Seq(Code!Byte) /\ \A i \in DOMAIN name : name[i] # 58 /\ ~Code!IsSpace(name[i])
  <2>1. \A i \in DOMAIN name : name[i] \in Good BY <1>4
  <2>2. name \in Seq(Code!Byte)
    <3>1. Good \subseteq Code!Byte BY <1>5
    <3> QED BY <3>1, <1>4
  <2> QED BY <2>1, <2>2, <1>5
<1>7. x \in Seq(Code!Byte) /\ x # <<>> BY <1>3, <1>4, <1>6
<1>8. Free(x, 58)
  <2> DEFINE n == Len(name)
  <2>1. n \in Nat /\ n = Len(name) /\ DOMAIN name = 1 .. n BY <1>6
  <2> HIDE DEF n
  <2>2. Behind(Code!Byte, x, gap, indent, name, n) BY <1>3, <1>6, <2>1, TwoJoined
  <2> HIDE DEF x
  <2>3. /\ Len(x) = indent + n /\ DOMAIN x = 1 .. indent + n
        /\ \A i \in 1 .. indent : x[i] = 32
        /\ \A i \in 1 .. n : x[indent + i] = name[i] BY <2>2, <1>3 DEF Behind
  <2>4. ASSUME NEW p \in 1 .. indent + n PROVE x[p] # 58
    <3>1. p \in 1 .. indent \/ (p - indent \in 1 .. n /\ indent + (p - indent) = p) BY <2>1
    <3>2. CASE p \in 1 .. indent BY <3>2, <2>3
    <3>3. CASE p - indent \in 1 .. n /\ indent + (p - indent) = p
      <4>1. x[p] = name[p - indent] BY <3>3, <2>3
      <4> QED BY <4>1, <3>3, <2>1, <1>6
    <3> QED BY <3>1, <3>2, <3>3
  <2> QED BY <2>3, <2>4 DEF Free
<1>9. Code!trim(x) = name
  <2>1. \A i \in 1 .. Len(gap) : Code!IsSpace(gap[i]) BY <1>3 DEF Code!IsSpace, Code!Space
  <2>2. 1 \in DOMAIN name /\ Len(name) \in DOMAIN name BY <1>4, <1>6
  <2> QED BY <2>1, <2>2, <1>3, <1>4, <1>6, TrimOf
<1> HIDE DEF x
<1>10. Parted((x \o <<58>>) \o text, 58) = Kept(x) \o Parted(text, 58)
  BY <1>0, <1>1, <1>7, <1>8, PartedMore
<1>11. Parted(text, 58) = Kept(text) BY <1>0, <1>1, PartedOne
<1>12. Kept(x) \o Kept(text) = <<x, text>>
  <2>1. Kept(x) = <<x>> /\ Kept(text) = <<text>> BY <1>1, <1>7 DEF Kept
  <2>2. <<x>> \o <<text>> = <<x, text>>
    <3> DEFINE l == <<x>> \o <<text>>
               r == <<x, text>>
    <3>1. l \in Seq(Seq(Code!Byte)) /\ Len(l) = 2 /\ l[1] = x /\ l[2] = text
      <4> DEFINE B == Seq(Code!Byte)
      <4>1. x \in B /\ text \in B BY <1>1, <1>7
      <4> HIDE DEF B
      <4>2. l \in Seq(B) /\ Len(l) = 2 /\ l[1] = x /\ l[2] = text BY <4>1
      <4> QED BY <4>2 DEF B
    <3>2. r \in Seq(Seq(Code!Byte)) /\ Len(r) = 2 /\ r[1] = x /\ r[2] = text BY <1>1, <1>7
    <3> HIDE DEF l, r
    <3>3. \A i \in 1 .. 2 : l[i] = r[i] BY <3>1, <3>2
    <3>4. l = r BY <3>1, <3>2, <3>3, Same
    <3> QED BY <3>4 DEF l, r
  <2> QED BY <2>1, <2>2
<1>13. line \in Seq(Code!Byte)
  <2> DEFINE one == <<58>>
  <2>1. one \in Seq(Code!Byte) BY <1>0
  <2> HIDE DEF one
  <2>2. (x \o one) \o text \in Seq(Code!Byte) BY <2>1, <1>1, <1>7
  <2> QED BY <2>2, <1>2 DEF one
<1> QED BY <1>2, <1>9, <1>10, <1>11, <1>12, <1>13 DEF line, text, gap, name, x

\* Every interface gets its own counters.
THEOREM CountersAreKept ==
  \A devices \in Seq(Devices), indent \in Nat, pad \in Nat \ {0}, name \in Names :
    Code!InterfaceIsRead(devices, indent, pad, name)
<1> SUFFICES ASSUME NEW devices \in Seq(Devices), NEW indent \in Nat, NEW pad \in Nat \ {0}, NEW name \in Names
             PROVE  Code!InterfaceIsRead(devices, indent, pad, name) OBVIOUS
<1> DEFINE n == Len(devices)
           first == <<73, 124, 32, 82>>
           lines == [i \in DOMAIN devices |-> Code!Line(devices[i], indent, pad)]
           file == <<first>> \o lines
           mine == {i \in DOMAIN devices : devices[i].name = name}
           PartsOf(line) == Code!Explode(<<>>, line, Code!Colon, TRUE)
           at == {i \in DOMAIN file : Code!Trim(PartsOf(file[i])[1]) = name}
           gap == Gap(indent, 32)
           texts(i) == [c \in Code!Counters |-> Code!Decimal(devices[i].count[c])]
           words(i) == Words(texts(i), pad, 32)
<1>1. n \in Nat /\ n = Len(devices) /\ DOMAIN devices = 1 .. n
      /\ \A i \in 1 .. n : devices[i] \in Devices OBVIOUS
<1>2. ASSUME NEW line \in Seq(Code!Byte) PROVE PartsOf(line) = Parted(line, 58)
  <2> DEFINE p == Parted(line, 58)
  <2>1. 58 \in Code!Byte BY DEF Code!Byte
  <2>2. p \in Seq(Seq(Code!Byte)) BY <2>1, PartedType
  <2>3. PartsOf(line) = <<>> \o p BY DEF Code!Explode, Code!Colon, Parted
  <2> HIDE DEF p, PartsOf
  <2>4. <<>> \o p = p BY <2>2
  <2> QED BY <2>3, <2>4 DEF p
<1>3. first \in Seq(Code!Byte) /\ Len(first) = 4 /\ first[3] = 32 /\ first # <<>>
      /\ Free(first, 58) /\ ~Code!IsSpace(first[1]) /\ ~Code!IsSpace(first[4])
  BY DEF Code!Byte, Free, Code!IsSpace, Code!Space
<1> HIDE DEF n, first
<1>4. file \in Seq(Seq(Code!Byte)) /\ Len(file) = n + 1 /\ file[1] = first /\ DOMAIN file = 1 .. n + 1
      /\ \A i \in 1 .. n : file[i + 1] = Code!Line(devices[i], indent, pad)
  <2> DEFINE B == Seq(Code!Byte)
             L(i) == Code!Line(devices[i], indent, pad)
  <2>1. \A i \in 1 .. n : L(i) \in B BY <1>1, LineIsParted
  <2> HIDE DEF B, L
  <2>2. lines = [i \in 1 .. n |-> L(i)] BY <1>1 DEF L
  <2>3. lines \in Seq(B) /\ Len(lines) = n /\ \A i \in 1 .. n : lines[i] = L(i) BY <1>1, <2>1, <2>2
  <2> HIDE DEF lines
  <2>4. first \in B BY <1>3 DEF B
  <2>5. file \in Seq(B) /\ Len(file) = n + 1 /\ file[1] = first /\ DOMAIN file = 1 .. n + 1
        /\ \A i \in 1 .. n : file[i + 1] = lines[i] BY <1>1, <2>3, <2>4
  <2> QED BY <2>3, <2>5 DEF B, L
<1> HIDE DEF file
<1>5. Code!Trim(PartsOf(file[1])[1]) # name
  <2>1. 58 \in Code!Byte /\ Kept(first) = <<first>> BY <1>3 DEF Code!Byte, Kept
  <2>2. Parted(first, 58) = <<first>> BY <2>1, <1>3, PartedOne
  <2>3. PartsOf(file[1])[1] = first
    <3>1. PartsOf(first) = <<first>>
      <4> HIDE DEF PartsOf
      <4> QED BY <2>2, <1>2, <1>3
    <3> HIDE DEF PartsOf
    <3> QED BY <3>1, <1>4
  <2>4. Code!Trim(first) = first
    <3> DEFINE e == <<>>
    <3>1. e \in Seq(Code!Byte) /\ Len(e) = 0 /\ e \o first = first BY <1>3
    <3> HIDE DEF e
    <3>2. \A i \in 1 .. Len(e) : Code!IsSpace(e[i]) BY <3>1
    <3>3. Code!trim(e \o first) = first BY <3>1, <3>2, <1>3, TrimOf
    <3> QED BY <3>1, <3>3 DEF Code!Trim
  <2>5. first # name
    <3> SUFFICES ASSUME first = name PROVE FALSE OBVIOUS
    <3> DEFINE Good == Code!Byte \ ({58} \union {c \in Code!Byte : Code!IsSpace(c)})
    <3>1. first \in Seq(Good) BY DEF Names
    <3>2. 32 \notin Good BY DEF Code!IsSpace, Code!Space
    <3> HIDE DEF Good
    <3>3. first[3] \in Good
      <4>1. 3 \in 1 .. Len(first) BY <1>3
      <4> QED BY <4>1, <3>1
    <3> QED BY <3>2, <3>3, <1>3
  <2> HIDE DEF PartsOf
  <2> QED BY <2>3, <2>4, <2>5
<1>6. ASSUME NEW i \in 1 .. n
      PROVE  /\ Code!Trim(PartsOf(file[i + 1])[1]) = devices[i].name
             /\ PartsOf(file[i + 1])[2] = words(i)
  <2> DEFINE line == Code!Line(devices[i], indent, pad)
             x == gap \o devices[i].name
  <2>1. devices[i] \in Devices BY <1>1
  <2>2. line \in Seq(Code!Byte) /\ Parted(line, 58) = <<x, words(i)>> /\ Code!trim(x) = devices[i].name
    BY <2>1, LineIsParted
  <2> HIDE DEF x, words, line
  <2>3. PartsOf(line) = <<x, words(i)>>
    <3> HIDE DEF PartsOf
    <3> QED BY <2>2, <1>2
  <2>4. file[i + 1] = line BY <1>4 DEF line
  <2> HIDE DEF PartsOf
  <2>5. PartsOf(file[i + 1])[1] = x /\ PartsOf(file[i + 1])[2] = words(i) BY <2>3, <2>4
  <2> QED BY <2>2, <2>5 DEF Code!Trim
<1>7. at \subseteq 1 .. n + 1 /\ \A i \in 1 .. n + 1 : i \in at <=> (i # 1 /\ i - 1 \in mine)
  <2> HIDE DEF PartsOf
  <2>1. at \subseteq 1 .. n + 1 BY <1>4
  <2>2. ASSUME NEW i \in 1 .. n + 1 PROVE i \in at <=> (i # 1 /\ i - 1 \in mine)
    <3>1. CASE i = 1 BY <3>1, <1>5
    <3>2. CASE i # 1
      <4>1. i - 1 \in 1 .. n /\ (i - 1) + 1 = i BY <3>2, <1>1
      <4>2. Code!Trim(PartsOf(file[i])[1]) = devices[i - 1].name BY <4>1, <1>6
      <4>3. i \in DOMAIN file /\ i - 1 \in DOMAIN devices BY <4>1, <1>1, <1>4
      <4> QED BY <3>2, <4>2, <4>3
    <3> QED BY <3>1, <3>2
  <2> QED BY <2>1, <2>2
<1>8. mine \subseteq 1 .. n BY <1>1
<1> HIDE DEF at, mine
<1>9. CASE mine = {}
  <2>1. at = {} BY <1>7, <1>9
  <2>2. Code!interface(file, name) = Code!NoInterface BY <2>1 DEF Code!interface, at
  <2> QED BY <1>9, <2>2 DEF Code!InterfaceIsRead, mine, file, first
<1>10. CASE mine # {}
  <2> DEFINE k == Code!Min(mine)
             w == words(k)
             d == devices[k]
  <2>1. k \in 1 .. n /\ k \in mine /\ \A j \in mine : k <= j
    <3>1. 1 \in Nat /\ n \in Nat BY <1>1
    <3>2. k \in mine /\ \A j \in mine : k <= j BY <3>1, <1>8, <1>10, MinMaxOf
    <3> HIDE DEF k
    <3> QED BY <3>2, <1>8
  <2> HIDE DEF k
  <2>2. Code!Min(at) = k + 1 /\ at # {}
    <3>1. k + 1 \in at
      <4>1. k + 1 \in 1 .. n + 1 /\ k + 1 # 1 /\ (k + 1) - 1 = k BY <2>1, <1>1
      <4> QED BY <4>1, <2>1, <1>7
    <3>2. 1 \in Nat /\ n + 1 \in Nat /\ at # {} BY <3>1, <1>1
    <3> DEFINE m == Code!Min(at)
    <3>3. m \in at /\ \A j \in at : m <= j BY <3>2, <1>7, MinMaxOf
    <3> HIDE DEF m
    <3>4. m \in 1 .. n + 1 /\ m <= k + 1 /\ k <= m - 1 BY <3>1, <3>3, <1>7, <2>1
    <3>5. m = k + 1 BY <3>4, <2>1, <1>1
    <3> QED BY <3>2, <3>5 DEF m
  <2>3. d \in Devices /\ d.count \in [Code!Counters -> Nat] BY <2>1, <1>1 DEF Devices
  <2>4. Code!explode(Code!trim(w), 32, TRUE) = texts(k) BY <2>3, CountersAreRead
  <2> DEFINE data == Code!Numbers(<<>>, Code!Trim(PartsOf(file[Code!Min(at)])[2]), Code!Blank)
             read == [c \in Code!Counters |-> Code!Strtoul(Code!Decimal(d.count[c]))]
  <2>5. data = read
    <3>1. PartsOf(file[Code!Min(at)])[2] = w
      <4> HIDE DEF PartsOf, w
      <4> QED BY <2>1, <2>2, <1>6 DEF w
    <3> HIDE DEF PartsOf, w
    <3>2. data = <<>> \o [i \in DOMAIN texts(k) |-> Code!Strtoul(texts(k)[i])]
      BY <2>4, <3>1 DEF Code!Numbers, Code!Trim, Code!Blank
    <3>3. [i \in DOMAIN texts(k) |-> Code!Strtoul(texts(k)[i])] = read OBVIOUS
    <3> DEFINE E(c) == Code!Strtoul(Code!Decimal(d.count[c]))
    <3>4. read \in Seq({E(c) : c \in 1 .. 16})
      <4>1. read = [c \in 1 .. 16 |-> E(c)] BY DEF Code!Counters
      <4> HIDE DEF E, read
      <4> QED BY <4>1
    <3> HIDE DEF data, read, texts, E
    <3>5. <<>> \o read = read BY <3>4
    <3> QED BY <3>2, <3>3, <3>5
  <2>6. read = d.count
    <3>1. \A c \in Code!Counters : d.count[c] \in Nat BY <2>3
    <3>2. \A c \in Code!Counters : Code!Strtoul(Code!Decimal(d.count[c])) = d.count[c]
      BY <3>1, DecimalIsRead
    <3> HIDE DEF d
    <3> QED BY <2>3, <3>2
  <2> HIDE DEF read
  <2>7. Code!interface(file, name) = [c \in Code!Counters |-> data[c]]
    <3> HIDE DEF data
    <3> QED BY <2>2 DEF Code!interface, at, data
  <2> HIDE DEF data, d
  <2>8. Code!interface(file, name) = d.count BY <2>3, <2>5, <2>6, <2>7
  <2> QED BY <2>8, <1>10 DEF Code!InterfaceIsRead, mine, file, first, d, k
<1> QED BY <1>9, <1>10

\* All of a sequence.
LEMMA WholePiece ==
  ASSUME NEW X, NEW s \in Seq(X)
  PROVE  SubSeq(s, 1, Len(s)) = s
<1>1. /\ SubSeq(s, 1, Len(s)) \in Seq(X) /\ Len(SubSeq(s, 1, Len(s))) = Len(s)
      /\ \A i \in 1 .. Len(s) : SubSeq(s, 1, Len(s))[i] = s[i] OBVIOUS
<1> QED BY <1>1, Same

\* A header is found under the name the client sent it with, whether ClearSilver
\* knows it or only the environment (getHeader of cgx.cpp).
THEOREM HeadersAreFound ==
  \A name \in Seq(Atom), known \in BOOLEAN, value \in Atom : Code!HeaderFound(name, known, value)
<1> SUFFICES ASSUME NEW name \in Seq(Atom), NEW known \in BOOLEAN, NEW value \in Atom, Len(name) <= 58
             PROVE  LET hdf == IF known THEN [n \in {name} |-> value] ELSE <<>>
                        env == [n \in {Code!EnvName(name)} |-> value]
                    IN Code!getHeader(hdf, env, name, "default") = value BY DEF Code!HeaderFound
<1> DEFINE hdf == IF known THEN [n \in {name} |-> value] ELSE <<>>
           env == [n \in {Code!EnvName(name)} |-> value]
<1>1. Code!Min({58, Len(name)}) = Len(name) BY DEF Code!Min
<1>2. SubSeq(name, 1, Code!Min({58, Len(name)})) = name BY <1>1, WholePiece
<1>3. Code!getHeader(hdf, env, name, "default") =
        IF name \in DOMAIN hdf THEN hdf[name]
        ELSE IF Code!EnvName(name) \in DOMAIN env THEN env[Code!EnvName(name)] ELSE "default"
  <2> HIDE DEF hdf, env
  <2> QED BY <1>2 DEF Code!getHeader
<1>4. name \in DOMAIN hdf => hdf[name] = value BY WholePiece
<1>5. env[Code!EnvName(name)] = value /\ Code!EnvName(name) \in DOMAIN env OBVIOUS
<1> QED
  <2> HIDE DEF hdf, env
  <2>1. Code!getHeader(hdf, env, name, "default") = value BY <1>3, <1>4, <1>5
  <2> QED BY <2>1 DEF hdf, env

\* The sections that are not empty
LEMMA FirstOfSections ==
  ASSUME NEW list \in Seq(Atom)
  PROVE  LET some == Code!FlattenSeq([i \in DOMAIN list |-> IF list[i] = Code!Empty THEN <<>> ELSE <<list[i]>>])
         IN IF \A i \in DOMAIN list : list[i] = Code!Empty THEN some = <<>>
            ELSE /\ some # <<>>
                 /\ \E i \in DOMAIN list : /\ list[i] # Code!Empty /\ Head(some) = list[i]
                                           /\ \A j \in 1 .. i - 1 : list[j] = Code!Empty
<1> DEFINE n == Len(list)
           parts == [i \in DOMAIN list |-> IF list[i] = Code!Empty THEN <<>> ELSE <<list[i]>>]
           some == Code!FlattenSeq(parts)
<1>1. parts \in Seq(Seq(Atom)) /\ Len(parts) = n /\ n \in Nat /\ DOMAIN list = 1 .. n
  <2>1. n \in Nat /\ DOMAIN list = 1 .. n OBVIOUS
  <2>2. \A i \in 1 .. n : list[i] \in Atom OBVIOUS
  <2>3. \A i \in 1 .. n : (IF list[i] = Code!Empty THEN <<>> ELSE <<list[i]>>) \in Seq(Atom) BY <2>2
  <2>4. parts \in [1 .. n -> Seq(Atom)] BY <2>1, <2>3
  <2> QED BY <2>1, <2>4
<1>2. Code!FlattenSeq(parts) = Code!FlattenSeq(parts) BY DEF Code!FlattenSeq, Code!FlattenSeq
<1>n. \A i \in 1 .. n : parts[i] = IF list[i] = Code!Empty THEN <<>> ELSE <<list[i]>> OBVIOUS
<1>s. \A i \in 1 .. n : list[i] \in Atom OBVIOUS
<1> HIDE DEF parts, n
<1>3. PICK so : Beginnings(Atom, parts, so) BY <1>1, Flattened
<1>4. /\ so \in [0 .. n -> Seq(Atom)] /\ so[0] = <<>> /\ some = so[n]
      /\ \A i \in 1 .. n : so[i] = so[i - 1] \o parts[i] BY <1>1, <1>2, <1>3 DEF Beginnings
<1> DEFINE Holds(k) == IF \A i \in 1 .. k : list[i] = Code!Empty THEN so[k] = <<>>
                       ELSE /\ so[k] # <<>>
                            /\ \E i \in 1 .. k : /\ list[i] # Code!Empty /\ so[k][1] = list[i]
                                                 /\ \A j \in 1 .. i - 1 : list[j] = Code!Empty
<1>5. ASSUME NEW k \in 0 .. n, \A j \in 0 .. k - 1 : Holds(j) PROVE Holds(k)
  <2>1. CASE k = 0 BY <2>1, <1>4
  <2>2. CASE k # 0
    <3>0. k \in 1 .. n /\ k - 1 \in 0 .. n /\ k - 1 \in 0 .. k - 1 BY <2>2, <1>1
    <3>1. so[k - 1] \in Seq(Atom) /\ Holds(k - 1) /\ so[k] = so[k - 1] \o parts[k] BY <3>0, <1>4, <1>5
    <3>2. CASE list[k] = Code!Empty
      <4>1. so[k] = so[k - 1]
        <5>1. parts[k] = <<>> BY <3>0, <3>2, <1>n
        <5>2. so[k - 1] \in Seq(Atom) /\ so[k] = so[k - 1] \o <<>> BY <3>1, <5>1
        <5> QED BY <5>2
      <4>2. Holds(k - 1) BY <3>1
      <4>3. \A i \in 1 .. k : i = k \/ i \in 1 .. k - 1 BY <3>0
      <4>4. 1 .. k - 1 \subseteq 1 .. k OBVIOUS
      <4>5. CASE \A i \in 1 .. k - 1 : list[i] = Code!Empty BY <4>1, <4>2, <4>3, <4>5, <3>2
      <4>6. CASE ~(\A i \in 1 .. k - 1 : list[i] = Code!Empty) BY <4>1, <4>2, <4>4, <4>6
      <4> QED BY <4>5, <4>6
    <3>3. CASE list[k] # Code!Empty
      <4>1. so[k] = so[k - 1] \o <<list[k]>> /\ list[k] \in Atom BY <3>0, <3>1, <3>3, <1>n, <1>s
      <4>2. so[k] # <<>> /\ so[k][1] = IF so[k - 1] = <<>> THEN list[k] ELSE so[k - 1][1] BY <3>1, <4>1
      <4>3. CASE \A i \in 1 .. k - 1 : list[i] = Code!Empty BY <4>2, <4>3, <3>1, <3>3, <3>0
      <4>4. CASE ~(\A i \in 1 .. k - 1 : list[i] = Code!Empty)
        <5>1. PICK i \in 1 .. k - 1 : list[i] # Code!Empty /\ so[k - 1][1] = list[i] /\ \A j \in 1 .. i - 1 : list[j] = Code!Empty
          BY <3>1, <4>4
        <5>2. so[k - 1] # <<>> BY <3>1, <4>4
        <5> QED BY <5>1, <5>2, <4>2, <3>0
      <4> QED BY <4>3, <4>4
    <3> QED BY <3>2, <3>3
  <2> QED BY <2>1, <2>2
<1>6. \A k \in 0 .. n : Holds(k)
  <2> DEFINE T == {k \in 0 .. n : Holds(k)}
  <2>1. \A k \in 0 .. n : (\A j \in 0 .. k - 1 : j \in T) => k \in T
    <3> SUFFICES ASSUME NEW k \in 0 .. n, \A j \in 0 .. k - 1 : j \in T PROVE k \in T OBVIOUS
    <3>1. \A j \in 0 .. k - 1 : Holds(j) OBVIOUS
    <3>2. Holds(k)
      <4> HIDE DEF Holds
      <4> QED BY <3>1, <1>5
    <3> QED BY <3>2
  <2>2. GrowsUp(0, n, T)
    <3> HIDE DEF T
    <3> QED BY <2>1, <1>1 DEF GrowsUp
  <2>3. 0 .. n \subseteq T
    <3> HIDE DEF T
    <3> QED BY <2>2, Upwards
  <2> QED BY <2>3
<1>7. Holds(n) BY <1>6, <1>1
<1>8. some \in Seq(Atom) BY <1>4, <1>1
<1>9. some # <<>> => Head(some) = some[1] BY <1>8
<1>10. IF \A i \in DOMAIN list : list[i] = Code!Empty THEN some = <<>>
       ELSE /\ some # <<>>
            /\ \E i \in DOMAIN list : /\ list[i] # Code!Empty /\ Head(some) = list[i]
                                      /\ \A j \in 1 .. i - 1 : list[j] = Code!Empty
  <2> HIDE DEF some
  <2> QED BY <1>1, <1>4, <1>7, <1>9
<1> QED BY <1>10 DEF parts

\* The client is found at the nearest place that names it (cgx.cpp).
THEOREM AddressIsNearest ==
  \A real \in Atom, forwarded \in Seq(Atom), remote \in Atom : Code!NearestAddress(real, forwarded, remote)
<1> SUFFICES ASSUME NEW real \in Atom, NEW forwarded \in Seq(Atom), NEW remote \in Atom
             PROVE  Code!NearestAddress(real, forwarded, remote) OBVIOUS
<1> DEFINE n == Len(forwarded)
           names == (<<real>> \o forwarded) \o <<remote>>
           given == {i \in DOMAIN names : names[i] # Code!Empty}
           some == Code!FlattenSeq([i \in DOMAIN forwarded |->
                                      IF forwarded[i] = Code!Empty THEN <<>> ELSE <<forwarded[i]>>])
           addr == Code!getRemoteAddr(real, forwarded, remote)
<1>1. /\ n \in Nat /\ DOMAIN names = 1 .. n + 2 /\ names[1] = real /\ names[n + 2] = remote
      /\ \A i \in 1 .. n : names[i + 1] = forwarded[i] OBVIOUS
<1>2. IF \A i \in DOMAIN forwarded : forwarded[i] = Code!Empty THEN some = <<>>
      ELSE /\ some # <<>>
           /\ \E i \in DOMAIN forwarded : /\ forwarded[i] # Code!Empty /\ Head(some) = forwarded[i]
                                          /\ \A j \in 1 .. i - 1 : forwarded[j] = Code!Empty
  BY FirstOfSections
<1>3. addr = IF real # Code!Empty THEN real ELSE IF some # <<>> THEN Head(some) ELSE remote
  BY DEF Code!getRemoteAddr
<1>4. DOMAIN forwarded = 1 .. n OBVIOUS
<1> HIDE DEF names, some, n, addr
<1>5. ASSUME NEW p \in 1 .. n + 2, names[p] # Code!Empty, \A j \in 1 .. p - 1 : names[j] = Code!Empty
      PROVE  given # {} /\ Code!Min(given) = p
  <2>1. p \in given /\ \A q \in given : p <= q /\ q \in Int BY <1>5, <1>1
  <2> DEFINE m == Code!Min(given)
  <2> HIDE DEF given
  <2>2. \E x \in given : \A y \in given : x <= y BY <2>1
  <2>3. m \in given /\ \A y \in given : m <= y BY <2>2 DEF Code!Min
  <2>4. p \in Int BY <1>1
  <2> HIDE DEF m
  <2>5. m = p BY <2>1, <2>3, <2>4
  <2> QED BY <2>1, <2>5 DEF m
<1>6. addr = IF given = {} THEN Code!Empty ELSE names[Code!Min(given)]
  <2>1. CASE real # Code!Empty
    <3>1. given # {} /\ Code!Min(given) = 1 BY <1>1, <1>5, <2>1
    <3> HIDE DEF given
    <3> QED BY <3>1, <2>1, <1>1, <1>3
  <2>2. CASE real = Code!Empty /\ \E i \in 1 .. n : forwarded[i] # Code!Empty
    <3>1. PICK i \in 1 .. n : /\ forwarded[i] # Code!Empty /\ Head(some) = forwarded[i]
                              /\ \A j \in 1 .. i - 1 : forwarded[j] = Code!Empty BY <1>2, <1>4, <2>2
    <3>2. some # <<>> BY <1>2, <1>4, <2>2
    <3>3. i + 1 \in 1 .. n + 2 /\ names[i + 1] = forwarded[i] BY <1>1, <3>1
    <3>4. ASSUME NEW j \in 1 .. (i + 1) - 1 PROVE names[j] = Code!Empty
      <4>1. j = 1 \/ (j - 1 \in 1 .. i - 1 /\ j - 1 \in 1 .. n /\ (j - 1) + 1 = j) BY <1>1, <3>1
      <4> QED BY <4>1, <1>1, <2>2, <3>1
    <3>5. given # {} /\ Code!Min(given) = i + 1 BY <3>1, <3>3, <3>4, <1>5
    <3> HIDE DEF given
    <3> QED BY <3>1, <3>2, <3>3, <3>5, <2>2, <1>3
  <2>3. CASE real = Code!Empty /\ \A i \in 1 .. n : forwarded[i] = Code!Empty
    <3>1. addr = remote BY <1>2, <1>3, <1>4, <2>3
    <3>2. ASSUME NEW j \in 1 .. (n + 2) - 1 PROVE names[j] = Code!Empty
      <4>1. j = 1 \/ (j - 1 \in 1 .. n /\ (j - 1) + 1 = j) BY <1>1
      <4> QED BY <4>1, <1>1, <2>3
    <3>3. CASE remote = Code!Empty
      <4>1. \A j \in 1 .. n + 2 : j = n + 2 \/ j \in 1 .. (n + 2) - 1 BY <1>1
      <4>2. given = {} BY <4>1, <3>2, <3>3, <1>1
      <4> QED BY <4>2, <3>1, <3>3
    <3>4. CASE remote # Code!Empty
      <4>1. given # {} /\ Code!Min(given) = n + 2 BY <1>1, <1>5, <3>2, <3>4
      <4> HIDE DEF given
      <4> QED BY <4>1, <3>1, <1>1
    <3> QED BY <3>3, <3>4
  <2> QED BY <2>1, <2>2, <2>3
<1>7. Code!NearestAddress(real, forwarded, remote) <=>
        addr = IF given = {} THEN Code!Empty ELSE names[Code!Min(given)]
  BY DEF Code!NearestAddress, addr, names
<1> QED BY <1>6, <1>7

\* strstr finds the first token from a place on, or none (0).
LEMMA FirstToken ==
  ASSUME NEW page, NEW n \in Nat, n = Len(page), NEW from \in Nat \ {0}, NEW token
  PROVE  LET i == Code!strstr(page, from, token)
         IN \/ i = 0 /\ \A j \in from .. n : page[j] # token
            \/ i \in from .. n /\ page[i] = token /\ \A j \in from .. i - 1 : page[j] # token
<1> DEFINE at == {i \in from .. n : page[i] = token}
           i == Code!strstr(page, from, token)
<1>1. i = IF at = {} THEN 0 ELSE Code!Min(at) BY DEF Code!strstr
<1>2. CASE at = {} BY <1>1, <1>2
<1>3. CASE at # {}
  <2>1. at \subseteq from .. n /\ at \subseteq Nat OBVIOUS
  <2>2. \E x \in at : \A y \in at : x <= y
    <3> HIDE DEF at
    <3> QED BY <2>1, <1>3, LeastNumber
  <2>3. Code!Min(at) \in at /\ \A y \in at : Code!Min(at) <= y
    <3> HIDE DEF at
    <3> QED BY <2>2 DEF Code!Min
  <2>4. i \in at /\ \A y \in at : i <= y BY <1>1, <1>3, <2>3
  <2> HIDE DEF i
  <2>5. i \in from .. n /\ page[i] = token BY <2>4
  <2>6. ASSUME NEW j \in from .. i - 1, page[j] = token PROVE FALSE
    <3>1. j \in from .. n BY <2>5
    <3>2. j \in at BY <3>1, <2>6
    <3> QED BY <3>2, <2>4, <2>5, <2>6
  <2> QED BY <2>5, <2>6 DEF i
<1> QED BY <1>2, <1>3

\* The end and the quote of the directive at i.
EndOf(page, i)   == Code!strstr(page, i + 1, "end")
QuoteOf(page, i) == Code!strstr(page, i + 1, "q")

\* Each directive has a quote and an end before the next one.
Directives(page) ==
  \A i \in 1 .. Len(page) : page[i] = "inc" =>
    /\ QuoteOf(page, i) # 0 /\ QuoteOf(page, i) < EndOf(page, i)
    /\ \A j \in 1 .. Len(page) : page[j] = "inc" /\ j > i => EndOf(page, i) < j

\* The directive at i has been rewritten.
IncludeAt(page, p, i) ==
  /\ p[i] = "cs" /\ p[i + 1] = Code!CsColon /\ p[EndOf(page, i)] = "csend"
  /\ QuoteOf(page, i) > i + 1 => p[QuoteOf(page, i)] = "q"

\* k is written over for a directive that begins before b.
Inside(page, b, k) ==
  \E i \in 1 .. b - 1 : page[i] = "inc" /\ (k \in i .. QuoteOf(page, i) \/ k = EndOf(page, i))

\* What a page may have after it was rewritten
Token == Atom \union {"cs", "csend", Code!Blanked, Code!CsColon}

\* p is page with the directives before b rewritten.
Upto(page, p, b) ==
  /\ b \in 1 .. Len(page) + 1 /\ p \in Seq(Token) /\ Len(p) = Len(page)
  /\ \A k \in b .. Len(page) : p[k] = page[k]
  /\ \A k \in 1 .. b - 1 : p[k] # "inc" /\ (p[k] = page[k] \/ Inside(page, b, k))
  /\ \A i \in 1 .. b - 1 : page[i] = "inc" => EndOf(page, i) < b /\ IncludeAt(page, p, i)

NoInclude(p, n) == \A k \in 1 .. n : p[k] # "inc"

\* The first directive that is left is rewritten, or none is left.
LEMMA OneTurn ==
  ASSUME NEW page \in Seq(Atom), Directives(page), NEW p, NEW b, Upto(page, p, b)
  PROVE  \/ NoInclude(p, Len(page)) /\ Code!Turn(p) = p
         \/ \E c \in b + 1 .. Len(page) + 1 : Upto(page, Code!Turn(p), c)
<1> DEFINE n == Len(page)
           start == Code!strstr(p, 1, "inc")
           end == Code!strstr(p, start + 1, "end")
           quote == Code!strstr(p, start + 1, "q")
<1>0. n \in Nat /\ n = Len(page) OBVIOUS
<1> HIDE DEF n
<1>1. /\ b \in 1 .. n + 1 /\ p \in Seq(Token) /\ Len(p) = n
      /\ \A k \in b .. n : p[k] = page[k]
      /\ \A k \in 1 .. b - 1 : p[k] # "inc" /\ (p[k] = page[k] \/ Inside(page, b, k))
      /\ \A i \in 1 .. b - 1 : page[i] = "inc" => EndOf(page, i) < b /\ IncludeAt(page, p, i)
  BY <1>0 DEF Upto
<1>2. \/ start = 0 /\ \A j \in 1 .. n : p[j] # "inc"
      \/ start \in 1 .. n /\ p[start] = "inc" /\ \A j \in 1 .. start - 1 : p[j] # "inc"
  <2>1. 1 \in Nat \ {0} /\ n = Len(p) BY <1>1
  <2>2. LET i == Code!strstr(p, 1, "inc")
        IN \/ i = 0 /\ \A j \in 1 .. n : p[j] # "inc"
           \/ i \in 1 .. n /\ p[i] = "inc" /\ \A j \in 1 .. i - 1 : p[j] # "inc"
    BY <1>0, <2>1, FirstToken
  <2> QED BY <2>2
<1>3. Code!Turn(p) = IF start = 0 \/ end = 0 \/ quote = 0 THEN p ELSE Code!Rewritten(p, start, quote, end)
  BY DEF Code!Turn
<1>4. CASE start = 0
  <2>1. NoInclude(p, n) BY <1>2, <1>4, <1>0 DEF NoInclude
  <2> QED BY <1>3, <1>4, <2>1, <1>0
<1>5. CASE start # 0
  <2>1. start \in 1 .. n /\ p[start] = "inc" /\ \A j \in 1 .. start - 1 : p[j] # "inc" BY <1>2, <1>5
  <2> HIDE DEF start
  <2>2. start \in b .. n /\ page[start] = "inc" BY <2>1, <1>1, <1>0
  <2>3. /\ QuoteOf(page, start) # 0 /\ QuoteOf(page, start) < EndOf(page, start)
        /\ \A j \in 1 .. n : page[j] = "inc" /\ j > start => EndOf(page, start) < j
    BY <2>1, <2>2, <1>0 DEF Directives
  <2>4. ASSUME NEW token PROVE Code!strstr(p, start + 1, token) = Code!strstr(page, start + 1, token)
    <3>1. start + 1 \in Nat \ {0} BY <2>1
    <3>2. \A j \in start + 1 .. n : p[j] = page[j] BY <1>1, <2>2, <1>0
    <3>3. {i \in start + 1 .. n : p[i] = token} = {i \in start + 1 .. n : page[i] = token} BY <3>2
    <3> QED BY <3>3, <1>0, <1>1 DEF Code!strstr
  <2>5. end = EndOf(page, start) /\ quote = QuoteOf(page, start) BY <2>4 DEF EndOf, QuoteOf
  <2>6. quote \in start + 1 .. n /\ page[quote] = "q"
    <3>1. start + 1 \in Nat \ {0} BY <2>1
    <3>2. quote = 0 \/ (quote \in start + 1 .. n /\ page[quote] = "q")
      BY <3>1, <2>5, <1>0, FirstToken DEF QuoteOf
    <3> QED BY <3>2, <2>3, <2>5
  <2>7. end \in start + 1 .. n /\ page[end] = "end"
    <3>1. start + 1 \in Nat \ {0} BY <2>1
    <3>2. end = 0 \/ (end \in start + 1 .. n /\ page[end] = "end")
      BY <3>1, <2>5, <1>0, FirstToken DEF EndOf
    <3> QED BY <3>2, <2>3, <2>5, <2>6, <2>1
  <2>8. quote < end /\ \A j \in 1 .. n : page[j] = "inc" /\ j > start => end < j BY <2>3, <2>5
  <2> DEFINE c == end + 1
             q == Code!Rewritten(p, start, quote, end)
             New(k) == IF k = end THEN "csend" ELSE IF k = start THEN "cs"
                       ELSE IF k = start + 1 THEN Code!CsColon
                       ELSE IF k \in start + 2 .. quote - 1 THEN Code!Blanked ELSE p[k]
  <2>9. Code!Turn(p) = q BY <1>3, <1>5, <2>6, <2>7, <2>1
  <2>10. DOMAIN p = 1 .. n /\ \A k \in 1 .. n : p[k] \in Token BY <1>1
  <2>11. q \in Seq(Token) /\ Len(q) = n /\ \A k \in 1 .. n : q[k] = New(k)
    <3>1. q = [k \in 1 .. n |-> New(k)] BY <2>10 DEF Code!Rewritten
    <3> HIDE DEF q, end, quote
    <3>2. \A k \in 1 .. n : q[k] = New(k) BY <3>1
    <3>3. q \in [1 .. n -> Token] BY <3>1, <2>10 DEF Token
    <3>4. q \in Seq(Token) /\ Len(q) = n BY <3>3, <1>0
    <3> QED BY <3>2, <3>4
  <2>17. /\ \A k \in 1 .. start - 1 : k \in 1 .. n /\ New(k) = p[k]
         /\ New(start) = "cs" /\ New(start + 1) = Code!CsColon /\ New(end) = "csend"
         /\ quote > start + 1 => New(quote) = p[quote] BY <2>1, <2>6, <2>7, <2>8, <1>0
  <2>12. c \in b + 1 .. n + 1 /\ c \in 1 .. n + 1 BY <2>2, <2>7, <1>1, <1>0
  <2>13. \A k \in c .. n : q[k] = page[k] BY <2>11, <2>7, <2>2, <2>8, <2>6, <1>1, <1>0
  <2>14. ASSUME NEW k \in 1 .. c - 1 PROVE q[k] # "inc" /\ (q[k] = page[k] \/ Inside(page, c, k))
    <3>1. k \in 1 .. n /\ q[k] = New(k) BY <2>11, <2>12, <1>0
    <3>2. CASE k < start
      <4>1. p[k] # "inc" /\ q[k] = p[k] BY <3>1, <3>2, <2>1, <2>7, <2>6
      <4>2. k \in b .. n \/ k \in 1 .. b - 1 BY <3>1, <1>1, <1>0
      <4>3. p[k] = page[k] \/ Inside(page, b, k) BY <4>2, <1>1
      <4>4. 1 .. b - 1 \subseteq 1 .. c - 1 BY <2>12, <1>1, <1>0
      <4> QED BY <4>1, <4>3, <4>4 DEF Inside
    <3>3. CASE k >= start
      <4>1. k \in start .. quote \/ k = end \/ (k > quote /\ q[k] = page[k])
        BY <3>1, <3>3, <2>1, <2>2, <2>6, <2>7, <2>12, <1>1, <1>0
      <4>2. start \in 1 .. c - 1 BY <2>1, <2>7, <1>0
      <4>3. q[k] = page[k] \/ Inside(page, c, k) BY <4>1, <4>2, <2>2, <2>5 DEF Inside
      <4>4. k > start => p[k] # "inc"
        <5>1. SUFFICES ASSUME k > start, p[k] = "inc" PROVE FALSE OBVIOUS
        <5>2. page[k] = "inc" BY <5>1, <3>1, <2>2, <1>1, <1>0
        <5> QED BY <5>1, <5>2, <3>1, <2>8, <2>7, <2>12
      <4> QED BY <4>3, <4>4, <3>1, <3>3, <2>1 DEF Code!Blanked, Code!CsColon
    <3> QED BY <3>1, <3>2, <3>3, <2>1
  <2>15. ASSUME NEW i \in 1 .. c - 1, page[i] = "inc" PROVE EndOf(page, i) < c /\ IncludeAt(page, q, i)
    <3>0. i \in 1 .. n BY <2>12, <1>0
    <3>1. CASE i < b
      <4>0. i \in 1 .. b - 1 BY <3>0, <3>1, <1>1, <1>0
      <4>1. EndOf(page, i) < b /\ IncludeAt(page, p, i) BY <4>0, <1>1, <2>15
      <4>2. EndOf(page, i) \in i + 1 .. n /\ QuoteOf(page, i) \in i + 1 .. n /\ QuoteOf(page, i) < EndOf(page, i)
        <5>1. QuoteOf(page, i) # 0 /\ QuoteOf(page, i) < EndOf(page, i) /\ i + 1 \in Nat \ {0}
          BY <3>0, <2>15, <1>0 DEF Directives
        <5>2. QuoteOf(page, i) = 0 \/ QuoteOf(page, i) \in i + 1 .. n
          BY <5>1, <1>0, FirstToken DEF QuoteOf
        <5>3. EndOf(page, i) = 0 \/ EndOf(page, i) \in i + 1 .. n BY <5>1, <1>0, FirstToken DEF EndOf
        <5> QED BY <5>1, <5>2, <5>3, <3>0
      <4>3. \A k \in 1 .. start - 1 : q[k] = p[k] BY <2>11, <2>17
      <4>4. /\ i \in 1 .. start - 1 /\ EndOf(page, i) \in 1 .. start - 1 /\ QuoteOf(page, i) \in 1 .. start - 1
            /\ EndOf(page, i) < c /\ i + 1 \in 1 .. start - 1
        BY <4>0, <4>1, <4>2, <2>2, <2>7, <3>0, <1>1, <1>0
      <4> QED BY <4>1, <4>3, <4>4 DEF IncludeAt
    <3>2. CASE i >= b /\ i < start
      <4>1. p[i] = "inc" /\ i \in 1 .. start - 1 BY <3>0, <3>2, <2>15, <1>1, <1>0, <2>1
      <4> QED BY <4>1, <2>1
    <3>3. CASE i = start
      <4>1. EndOf(page, i) = end /\ QuoteOf(page, i) = quote BY <3>3, <2>5
      <4>0. {start, start + 1, end} \subseteq 1 .. n BY <2>1, <2>6, <2>7, <2>8, <1>0
      <4> HIDE DEF New, q
      <4>2. q[start] = "cs" /\ q[start + 1] = Code!CsColon /\ q[end] = "csend" BY <2>11, <2>17, <4>0
      <4>3. quote > start + 1 => q[quote] = p[quote] /\ p[quote] = "q" BY <2>11, <2>17, <2>6, <2>8, <2>2, <2>7, <1>1, <1>0
      <4> QED BY <4>1, <4>2, <4>3, <3>3, <2>7 DEF IncludeAt
    <3>4. CASE i > start BY <3>0, <3>4, <2>15, <2>8, <2>7, <2>12
    <3> QED BY <3>0, <3>1, <3>2, <3>3, <3>4, <2>1, <1>1
  <2>16. Upto(page, q, c)
    <3> HIDE DEF c
    <3> QED BY <2>11, <2>12, <2>13, <2>14, <2>15, <1>0 DEF Upto
  <2> QED BY <2>9, <2>12, <2>16, <1>0
<1> QED BY <1>4, <1>5

\* Where HandleSSI ends: as many turns as the page is long.
LEMMA TurnsOfHandleSSI ==
  ASSUME NEW page \in Seq(Atom), Directives(page)
  PROVE  LET done == Code!HandleSSI(page)
         IN done.returns /\ Upto(page, done.page, Len(page) + 1)
<1> DEFINE n == Len(page)
           Good(p, k) == \E b \in 1 .. n + 1 : Upto(page, p, b) /\ (b > k \/ NoInclude(p, n))
           V == {p \in Seq(Token) : \E b \in 1 .. n + 1 : Upto(page, p, b)}
           st == [k \in 1 .. n |-> [p \in V |-> Code!Turn(p)]]
<1>0. n \in Nat /\ n = Len(page) OBVIOUS
<1> HIDE DEF n
<1>1. \A p, b : Upto(page, p, b) => p \in V BY <1>0 DEF Upto
<1>2. Upto(page, page, 1)
  <2>1. page \in Seq(Token) BY DEF Token
  <2> QED BY <1>0, <2>1 DEF Upto
<1>3. ASSUME NEW p, NEW k \in 0 .. n, Good(p, k) PROVE Good(Code!Turn(p), k + 1)
  <2>1. PICK b \in 1 .. n + 1 : Upto(page, p, b) /\ (b > k \/ NoInclude(p, n)) BY <1>3
  <2>2. CASE NoInclude(p, n) /\ Code!Turn(p) = p BY <2>1, <2>2
  <2>3. CASE \E c \in b + 1 .. n + 1 : Upto(page, Code!Turn(p), c)
    <3>1. PICK c \in b + 1 .. n + 1 : Upto(page, Code!Turn(p), c) BY <2>3
    <3>2. CASE b > k
      <4>1. c \in 1 .. n + 1 /\ c > k + 1 BY <3>1, <3>2, <1>0
      <4> QED BY <4>1, <3>1
    <3>3. CASE NoInclude(p, n)
      <4>1. Code!Turn(p) = p
        <5>1. p \in Seq(Token) /\ n = Len(p) BY <2>1, <1>0 DEF Upto
        <5>2. Code!strstr(p, 1, "inc") = 0
          <6>1. LET i == Code!strstr(p, 1, "inc")
                IN \/ i = 0 /\ \A j \in 1 .. n : p[j] # "inc"
                   \/ i \in 1 .. n /\ p[i] = "inc" /\ \A j \in 1 .. i - 1 : p[j] # "inc"
            <7>1. 1 \in Nat \ {0} /\ n \in Nat /\ n = Len(p) BY <5>1, <1>0
            <7> HIDE DEF Good
            <7> QED BY <7>1, FirstToken
          <6> QED BY <6>1, <3>3 DEF NoInclude
        <5> QED BY <5>2 DEF Code!Turn
      <4> QED BY <4>1, <2>1, <3>3
    <3> QED BY <2>1, <3>2, <3>3
  <2> QED BY <2>1, <2>2, <2>3, <1>0, OneTurn
<1>4. \A p : p \in V => Code!Turn(p) \in V
  <2> SUFFICES ASSUME NEW p, p \in V PROVE Code!Turn(p) \in V OBVIOUS
  <2>1. PICK b \in 1 .. n + 1 : Upto(page, p, b) OBVIOUS
  <2>2. Good(p, 0) /\ 0 \in 0 .. n BY <2>1, <1>0
  <2>3. Good(Code!Turn(p), 0 + 1)
    <3> HIDE DEF Good
    <3> QED BY <2>2, <1>3
  <2>4. PICK c \in 1 .. n + 1 : Upto(page, Code!Turn(p), c) BY <2>3
  <2> HIDE DEF V
  <2> QED BY <2>4, <1>1
<1> HIDE DEF V
<1>5. PICK f : Iterates(n, V, page, st, f)
  <2>1. Steps(n, V, page, st) BY <1>0, <1>1, <1>2, <1>4 DEF Steps
  <2> HIDE DEF st
  <2> QED BY <2>1, Iteration
<1> DEFINE Eq(h) == h = [k \in 0 .. Len(page) |-> IF k = 0 THEN page ELSE Code!Turn(h[k - 1])]
           after == CHOOSE h : Eq(h)
<1>6. Eq(f)
  <2>1. f \in [0 .. n -> V] /\ f[0] = page /\ \A i \in 1 .. n : f[i] = st[i][f[i - 1]]
    <3> HIDE DEF st
    <3> QED BY <1>5 DEF Iterates
  <2>2. ASSUME NEW k \in 0 .. n PROVE f[k] = IF k = 0 THEN page ELSE Code!Turn(f[k - 1])
    <3>1. CASE k = 0 BY <3>1, <2>1
    <3>2. CASE k # 0
      <4>1. k \in 1 .. n /\ k - 1 \in 0 .. n BY <3>2, <1>0
      <4>2. f[k - 1] \in V /\ f[k] = st[k][f[k - 1]]
        <5> HIDE DEF st
        <5> QED BY <2>1, <4>1
      <4> QED BY <4>1, <4>2, <3>2
    <3> QED BY <3>1, <3>2
  <2> HIDE DEF st
  <2> QED BY <2>1, <2>2, <1>0
<1>7. Eq(after) BY <1>6
<1> DEFINE done == Code!HandleSSI(page)
<1>8. done.page = after[n] /\ done.returns = (Code!strstr(after[n], 1, "inc") = 0)
  BY <1>0 DEF Code!HandleSSI
<1> HIDE DEF after, done, st
<1>9. after[0] = page /\ \A k \in 0 .. n : k # 0 => after[k] = Code!Turn(after[k - 1]) BY <1>7, <1>0
<1> HIDE DEF Eq
<1>10. ASSUME NEW k \in 0 .. n, \A j \in 0 .. k - 1 : Good(after[j], j) PROVE Good(after[k], k)
  <2>1. CASE k = 0 BY <2>1, <1>9, <1>2, <1>0
  <2>2. CASE k # 0
    <3>1. k - 1 \in 0 .. n /\ k - 1 \in 0 .. k - 1 /\ (k - 1) + 1 = k BY <2>2, <1>0
    <3>2. Good(after[k - 1], k - 1) BY <1>10, <3>1
    <3> HIDE DEF Good
    <3>3. Good(Code!Turn(after[k - 1]), (k - 1) + 1) BY <3>1, <3>2, <1>3
    <3> QED BY <3>3, <3>1, <2>2, <1>9
  <2> QED BY <2>1, <2>2
<1>11. Good(after[n], n)
  <2> DEFINE T == {k \in 0 .. n : Good(after[k], k)}
  <2> HIDE DEF Good
  <2>1. \A k \in 0 .. n : (\A j \in 0 .. k - 1 : j \in T) => k \in T BY <1>10
  <2>2. GrowsUp(0, n, T)
    <3> HIDE DEF T
    <3> QED BY <2>1, <1>0 DEF GrowsUp
  <2>3. 0 .. n \subseteq T
    <3> HIDE DEF T
    <3> QED BY <2>2, Upwards
  <2>4. n \in 0 .. n BY <1>0
  <2> QED BY <2>3, <2>4
<1> DEFINE p == after[n]
<1> HIDE DEF p
<1>12. PICK b \in 1 .. n + 1 : Upto(page, p, b) /\ (b > n \/ NoInclude(p, n)) BY <1>11 DEF p
<1>13. /\ p \in Seq(Token) /\ Len(p) = n
       /\ \A k \in b .. n : p[k] = page[k]
       /\ \A k \in 1 .. b - 1 : p[k] # "inc" /\ (p[k] = page[k] \/ Inside(page, b, k))
       /\ \A i \in 1 .. b - 1 : page[i] = "inc" => EndOf(page, i) < b /\ IncludeAt(page, p, i)
  BY <1>12, <1>0 DEF Upto
<1>14. NoInclude(p, n)
  <2>1. CASE b > n
    <3>1. \A k \in 1 .. n : k \in 1 .. b - 1 BY <2>1, <1>0
    <3> QED BY <3>1, <1>13 DEF NoInclude
  <2> QED BY <2>1, <1>12
<1>15. done.returns
  <2>1. LET i == Code!strstr(p, 1, "inc")
        IN \/ i = 0 /\ \A j \in 1 .. n : p[j] # "inc"
           \/ i \in 1 .. n /\ p[i] = "inc" /\ \A j \in 1 .. i - 1 : p[j] # "inc"
    BY <1>13, <1>0, FirstToken
  <2>2. Code!strstr(p, 1, "inc") = 0 BY <2>1, <1>14 DEF NoInclude
  <2> QED BY <2>2, <1>8 DEF p
<1>16. Upto(page, p, n + 1)
  <2>1. n + 1 \in 1 .. n + 1 /\ \A k \in n + 1 .. n : p[k] = page[k] BY <1>0
  <2>2. \A k \in 1 .. (n + 1) - 1 : k \in b .. n \/ k \in 1 .. b - 1 BY <1>0, <1>12
  <2>3. 1 .. b - 1 \subseteq 1 .. (n + 1) - 1 BY <1>0, <1>12
  <2>4. ASSUME NEW k \in 1 .. (n + 1) - 1 PROVE p[k] # "inc" /\ (p[k] = page[k] \/ Inside(page, n + 1, k))
    <3>1. p[k] # "inc" BY <1>14, <1>0 DEF NoInclude
    <3>2. p[k] = page[k] \/ Inside(page, b, k) BY <2>2, <1>13
    <3>3. Inside(page, b, k) => Inside(page, n + 1, k) BY <2>3 DEF Inside
    <3> QED BY <3>1, <3>2, <3>3
  <2>5. ASSUME NEW i \in 1 .. (n + 1) - 1, page[i] = "inc" PROVE EndOf(page, i) < n + 1 /\ IncludeAt(page, p, i)
    <3>1. i \in b .. n => p[i] = "inc" BY <2>5, <1>13
    <3>2. i \in 1 .. b - 1 BY <3>1, <2>2, <1>14, <1>0 DEF NoInclude
    <3>3. EndOf(page, i) < b /\ IncludeAt(page, p, i) BY <3>2, <2>5, <1>13
    <3>4. EndOf(page, i) \in Int
      <4>1. i + 1 \in Nat \ {0} BY <3>2
      <4>2. EndOf(page, i) = 0 \/ EndOf(page, i) \in i + 1 .. n BY <4>1, <1>0, FirstToken DEF EndOf
      <4> QED BY <4>2, <3>2
    <3> QED BY <3>3, <3>4, <1>0, <1>12
  <2> QED BY <2>1, <2>4, <2>5, <1>13, <1>0 DEF Upto
<1> QED BY <1>8, <1>15, <1>16, <1>0 DEF p, done

\* Every directive of a page becomes an include of its own, and the names in them
\* and the text between them are untouched, however many there are; a quote is
\* lost where it stands right behind the directive (HandleSSI of cgx.cpp).
THEOREM IncludesAreRewritten == \A page \in Seq(Atom) : Code!IncludesRewritten(page)
<1> SUFFICES ASSUME NEW page \in Seq(Atom) PROVE Code!IncludesRewritten(page) OBVIOUS
<1> DEFINE n == Len(page)
           incs == {i \in DOMAIN page : page[i] = "inc"}
           Wf == \A i \in incs :
             /\ QuoteOf(page, i) # 0 /\ QuoteOf(page, i) < EndOf(page, i)
             /\ \A j \in incs : j > i => EndOf(page, i) < j
           done == Code!HandleSSI(page)
<1>1. n \in Nat /\ DOMAIN page = 1 .. n /\ n = Len(page) OBVIOUS
<1>2. Wf => Directives(page) BY <1>1 DEF Directives
<1>3. Wf => done.returns /\ Upto(page, done.page, n + 1) BY <1>1, <1>2, TurnsOfHandleSSI
<1>4. ASSUME Upto(page, done.page, n + 1)
      PROVE  /\ \A k \in 1 .. n : \/ \E i \in incs : k \in i .. QuoteOf(page, i) \/ k = EndOf(page, i)
                                \/ done.page[k] = page[k]
             /\ \A i \in incs : IncludeAt(page, done.page, i)
  <2> DEFINE p == done.page
  <2> HIDE DEF p
  <2>1. /\ \A k \in 1 .. n : p[k] = page[k] \/ Inside(page, n + 1, k)
        /\ \A i \in 1 .. n : page[i] = "inc" => IncludeAt(page, p, i) BY <1>1, <1>4 DEF Upto, p
  <2>2. \A k : Inside(page, n + 1, k) => \E i \in incs : k \in i .. QuoteOf(page, i) \/ k = EndOf(page, i)
    BY <1>1 DEF Inside
  <2> QED BY <2>1, <2>2, <1>1 DEF p
<1>5. Code!IncludesRewritten(page) <=>
        (Wf => /\ done.returns
               /\ \A k \in DOMAIN page : \/ \E i \in incs : k \in i .. QuoteOf(page, i) \/ k = EndOf(page, i)
                                         \/ done.page[k] = page[k]
               /\ \A i \in incs : IncludeAt(page, done.page, i))
  BY DEF Code!IncludesRewritten, EndOf, QuoteOf, IncludeAt
<1> HIDE DEF Wf, done
<1> QED BY <1>1, <1>3, <1>4, <1>5 DEF IncludeAt

\* it folds the steps over sets of places, the greatest place last.
Folds(n, V, base, st, it) ==
  /\ it \in [SUBSET (1 .. n) -> V]
  /\ \A s \in SUBSET (1 .. n) :
       it[s] = IF s = {} THEN base ELSE st[Code!Max(s)][it[s \ {Code!Max(s)}]]

\* The greatest place of a set that is not empty
LEMMA GreatestPlace ==
  ASSUME NEW n \in Nat, NEW s \in SUBSET (1 .. n), s # {}
  PROVE  /\ Code!Max(s) \in 1 .. n /\ Code!Max(s) \in s /\ s \ {Code!Max(s)} \in SUBSET (1 .. n)
         /\ \A k \in s : k <= Code!Max(s)
<1>1. 1 \in Nat /\ s \subseteq 1 .. n OBVIOUS
<1>2. Code!Max(s) \in s /\ \A k \in s : Code!Max(s) >= k BY <1>1, MinMaxOf
<1> QED BY <1>1, <1>2

\* A fold from the left over n elements has a value.
LEMMA FoldExists ==
  ASSUME NEW n, NEW V, NEW base, NEW st, Steps(n, V, base, st)
  PROVE  \E it : Folds(n, V, base, st, it)
<1> USE DEF Steps
<1> DEFINE D == SUBSET (1 .. n)
           rank == [s \in D |-> IF s = {} THEN 0 ELSE Code!Max(s)]
           Prior(s) == s \ {Code!Max(s)}
           step == [s \in D |-> [f \in [D -> V] |-> IF s = {} THEN base ELSE st[Code!Max(s)][f[Prior(s)]]]]
<1>1. ASSUME NEW s \in D, s # {}
      PROVE  /\ Code!Max(s) \in 1 .. n /\ Prior(s) \in D /\ Code!Max(s) \in Nat
             /\ rank[Prior(s)] < rank[s]
  <2>1. /\ Code!Max(s) \in 1 .. n /\ Code!Max(s) \in s /\ Prior(s) \in D
        /\ \A k \in s : k <= Code!Max(s) BY <1>1, GreatestPlace
  <2>2. rank[s] = Code!Max(s) /\ rank[s] \in 1 .. n BY <1>1, <2>1
  <2>3. CASE Prior(s) = {} BY <2>1, <2>2, <2>3
  <2>4. CASE Prior(s) # {}
    <3> DEFINE t == Prior(s)
    <3>1. t \in D /\ t # {} /\ t \subseteq s /\ Code!Max(s) \notin t BY <2>1, <2>4
    <3> HIDE DEF t
    <3>2. Code!Max(t) \in t /\ Code!Max(t) \in 1 .. n BY <3>1, GreatestPlace
    <3>3. Code!Max(t) # Code!Max(s) /\ Code!Max(t) <= Code!Max(s) BY <3>1, <3>2, <2>1
    <3>4. rank[t] = Code!Max(t) BY <3>1
    <3>5. rank[t] < rank[s]
      <4> HIDE DEF rank
      <4> QED BY <3>2, <3>3, <3>4, <2>1, <2>2
    <3> QED BY <2>1, <3>5 DEF t
  <2> QED BY <2>1, <2>3, <2>4
<1>2. rank \in [D -> Nat] /\ \A s \in D : rank[s] < n + 1
  <2>1. ASSUME NEW s \in D PROVE rank[s] \in Nat /\ rank[s] < n + 1
    <3>1. CASE s = {} BY <3>1
    <3>2. CASE s # {}
      <4>1. rank[s] = Code!Max(s) BY <3>2
      <4>2. Code!Max(s) \in 1 .. n BY <3>2, <1>1
      <4> HIDE DEF rank
      <4> QED BY <4>1, <4>2
    <3> QED BY <3>1, <3>2
  <2> QED BY <2>1
<1>3. step \in [D -> [[D -> V] -> V]]
  <2>1. ASSUME NEW s \in D, NEW f \in [D -> V]
        PROVE  (IF s = {} THEN base ELSE st[Code!Max(s)][f[Prior(s)]]) \in V
    <3>1. CASE s = {} BY <3>1
    <3>2. CASE s # {}
      <4>1. Code!Max(s) \in 1 .. n /\ f[Prior(s)] \in V BY <1>1, <3>2
      <4> QED BY <4>1, <3>2
    <3> QED BY <3>1, <3>2
  <2> HIDE DEF Prior, D
  <2> QED BY <2>1
<1>4. ASSUME NEW s \in D, NEW f \in [D -> V], NEW g \in [D -> V],
             \A t \in D : rank[t] < rank[s] => f[t] = g[t]
      PROVE  step[s][f] = step[s][g]
  <2>1. step[s][f] = (IF s = {} THEN base ELSE st[Code!Max(s)][f[Prior(s)]]) OBVIOUS
  <2>2. step[s][g] = (IF s = {} THEN base ELSE st[Code!Max(s)][g[Prior(s)]]) OBVIOUS
  <2>3. s # {} => f[Prior(s)] = g[Prior(s)]
    <3> HIDE DEF Prior, rank
    <3> QED BY <1>1, <1>4
  <2> HIDE DEF step, Prior
  <2> QED BY <2>1, <2>2, <2>3
<1>5. Ranked(D, V, rank, n + 1, step)
  <2>1. V # {} /\ n + 1 \in Nat OBVIOUS
  <2> HIDE DEF D, rank, step
  <2> QED BY <1>2, <1>3, <1>4, <2>1 DEF Ranked
<1>6. PICK it : it \in [D -> V] /\ \A s \in D : it[s] = step[s][it]
  <2> HIDE DEF D, rank, step
  <2>1. PICK it : Solution(D, V, step, it) BY <1>5, RecursionOnRank
  <2> QED BY <2>1 DEF Solution
<1> QED BY <1>6 DEF Folds

\* 1 .. k is 1 .. k - 1 and its greatest number k.
LEMMA OnePlaceLess ==
  ASSUME NEW n \in Nat, NEW k \in 1 .. n
  PROVE  /\ Code!Max(1 .. k) = k /\ (1 .. k) \ {k} = 1 .. k - 1
         /\ 1 .. k \in SUBSET (1 .. n) /\ 1 .. k # {}
<1>1. 1 .. k \in SUBSET (1 .. n) /\ 1 .. k # {} /\ k \in 1 .. k OBVIOUS
<1> DEFINE m == Code!Max(1 .. k)
<1>2. m \in 1 .. k /\ \A j \in 1 .. k : j <= m BY <1>1, GreatestPlace
<1> HIDE DEF m
<1>3. m = k BY <1>1, <1>2
<1>4. (1 .. k) \ {k} = 1 .. k - 1 OBVIOUS
<1> QED BY <1>1, <1>3, <1>4 DEF m

\* The last place up to k that is in S, 0 for none; and how many there are.
Latest(S, k) == Code!Max({0} \union {i \in 1 .. k : i \in S})
Count(S, k)  == Cardinality({i \in 1 .. k : i \in S})

\* The last place, with one more place.
LEMMA LatestMore ==
  ASSUME NEW S, NEW k \in Nat
  PROVE  /\ Latest(S, 0) = 0
         /\ Latest(S, k) \in 0 .. k /\ (Latest(S, k) # 0 => Latest(S, k) \in S)
         /\ \A i \in 1 .. k : i \in S => i <= Latest(S, k)
         /\ Latest(S, k + 1) = IF k + 1 \in S THEN k + 1 ELSE Latest(S, k)
<1>1. ASSUME NEW j \in Nat
      PROVE  /\ Latest(S, j) \in {0} \union {i \in 1 .. j : i \in S}
             /\ \A i \in {0} \union {i \in 1 .. j : i \in S} : Latest(S, j) >= i
  <2> DEFINE T == {0} \union {i \in 1 .. j : i \in S}
  <2>1. T \subseteq 0 .. j /\ T # {} /\ 0 \in Nat OBVIOUS
  <2> HIDE DEF T
  <2>2. Code!Max(T) \in T /\ \A i \in T : Code!Max(T) >= i BY <2>1, MinMaxOf
  <2> QED BY <2>2 DEF T, Latest
<1>2. Latest(S, 0) = 0 BY <1>1
<1>3. /\ Latest(S, k) \in 0 .. k /\ (Latest(S, k) # 0 => Latest(S, k) \in S)
      /\ \A i \in 1 .. k : i \in S => i <= Latest(S, k) BY <1>1
<1>4. Latest(S, k + 1) = IF k + 1 \in S THEN k + 1 ELSE Latest(S, k)
  <2>1. /\ Latest(S, k + 1) \in 0 .. k + 1 /\ (Latest(S, k + 1) # 0 => Latest(S, k + 1) \in S)
        /\ \A i \in 1 .. k + 1 : i \in S => i <= Latest(S, k + 1)
    <3>1. k + 1 \in Nat OBVIOUS
    <3> QED BY <3>1, <1>1
  <2>2. CASE k + 1 \in S BY <2>1, <2>2
  <2>3. CASE k + 1 \notin S
    <3>1. Latest(S, k + 1) \in 0 .. k BY <2>1, <2>3
    <3>2. Latest(S, k) <= Latest(S, k + 1) BY <1>3, <2>1
    <3>3. Latest(S, k + 1) <= Latest(S, k) BY <1>3, <2>1, <3>1
    <3> QED BY <3>1, <3>2, <3>3, <1>3, <2>3
  <2> QED BY <2>2, <2>3
<1> QED BY <1>2, <1>3, <1>4

\* The number of places, with one more.
LEMMA CountMore ==
  ASSUME NEW S, NEW k \in Nat
  PROVE  /\ Count(S, 0) = 0 /\ Count(S, k) \in Nat
         /\ Count(S, k + 1) = IF k + 1 \in S THEN Count(S, k) + 1 ELSE Count(S, k)
<1> DEFINE T(j) == {i \in 1 .. j : i \in S}
<1>1. T(0) = {} /\ Cardinality({}) = 0 BY FS_EmptySet
<1>2. IsFiniteSet(T(k)) /\ Cardinality(T(k)) \in Nat
  <2>1. IsFiniteSet(1 .. k) BY FS_Interval
  <2>2. T(k) \subseteq 1 .. k OBVIOUS
  <2> HIDE DEF T
  <2>3. IsFiniteSet(T(k)) BY <2>1, <2>2, FS_Subset
  <2> QED BY <2>3, FS_CardinalityType
<1>3. T(k + 1) = IF k + 1 \in S THEN T(k) \union {k + 1} ELSE T(k) OBVIOUS
<1>4. k + 1 \notin T(k) OBVIOUS
<1>5. Cardinality(T(k) \union {k + 1}) = Cardinality(T(k)) + 1
  <2> HIDE DEF T
  <2> QED BY <1>2, <1>4, FS_AddElement
<1>6. \A j : Count(S, j) = Cardinality(T(j)) BY DEF Count
<1> HIDE DEF T
<1> QED BY <1>1, <1>2, <1>3, <1>5, <1>6

\* Calls of a CCS that are ready, that set the value, that output one, that lose
\* a structure, that fail
ReadyAt(steps)    == {i \in DOMAIN steps : steps[i].op = "Init" /\ steps[i].fails = Code!None}
WorksAt(steps, i) == \E j \in ReadyAt(steps) : j <= i
Setting(c)        == (c.op = "SetValue" /\ c.fails = Code!None) \/ (c.op = "SetValueHDF" /\ c.fails # "first_line")
Failing(c, works) == IF c.op = "Init" THEN c.fails # Code!None /\ ~works ELSE ~works \/ c.fails # Code!None
SetAt(steps)      == {i \in DOMAIN steps : WorksAt(steps, i) /\ Setting(steps[i])}
OutputAt(steps)   == {i \in DOMAIN steps : WorksAt(steps, i) /\ steps[i].op = "Render" /\ steps[i].fails = Code!None}
LostAt(steps)     == {i \in DOMAIN steps : WorksAt(steps, i) /\ steps[i].op = "Render" /\ steps[i].fails = "malloc"}
FailedAt(steps)   == {i \in DOMAIN steps : Failing(steps[i], WorksAt(steps, i))}
ValueAt(steps, k) == IF Latest(SetAt(steps), k) = 0 THEN Code!None ELSE steps[Latest(SetAt(steps), k)].value
Message(c, works) == IF works \/ c.op = "Init" THEN c.fails ELSE Code!NotInit

Values  == Atom \union {Code!None}
Reasons == {"none", "hdf_init", "hdf_set", "first_line", "last_line", "cs_init", "malloc", "cs_parse", "cs_render", "not_init"}

\* A CCS by its fields, and the steps as what they make of each
Engine(h, i, m, o, p, r) == [hdf |-> h, init |-> i, msg |-> m, output |-> o, parses |-> p, ret |-> r]
Readies(c)            == c.op = "Init" /\ c.fails = Code!None
DataAfter(h, i, c)    == IF ~i THEN IF Readies(c) THEN {Code!None} ELSE h ELSE IF Setting(c) THEN {c.value} ELSE h
InitAfter(i, c)       == IF Readies(c) THEN TRUE ELSE i
OutputAfter(h, i, o, c) == IF i /\ c.op = "Render" /\ c.fails = Code!None THEN CHOOSE x \in h : TRUE ELSE o
ParsesAfter(i, p, c)  == IF i /\ c.op = "Render" /\ c.fails = "malloc" THEN p + 1 ELSE p
MsgAfter(i, m, c)     == IF Failing(c, i) THEN Message(c, i) ELSE m
RetAfter(h, i, c)     == IF c.op = "GetValue" THEN IF i THEN CHOOSE x \in h : TRUE ELSE Code!None
                         ELSE IF Failing(c, i) THEN -1 ELSE 0

\* What one call does
LEMMA OneCall ==
  ASSUME NEW h, NEW i \in BOOLEAN, NEW m, NEW o, NEW p, NEW r, NEW c \in TplCalls
  PROVE  Code!Call(Engine(h, i, m, o, p, r), c) =
           Engine(DataAfter(h, i, c), InitAfter(i, c), MsgAfter(i, m, c), OutputAfter(h, i, o, c),
                  ParsesAfter(i, p, c), RetAfter(h, i, c))
<1> DEFINE w == Engine(h, i, m, o, p, r)
           v == Code!Call(w, c)
           val == CHOOSE x \in h : TRUE
           goal == Engine(DataAfter(h, i, c), InitAfter(i, c), MsgAfter(i, m, c), OutputAfter(h, i, o, c),
                          ParsesAfter(i, p, c), RetAfter(h, i, c))
<1>v. w.init = i /\ Code!Value(w) = val BY DEF Engine, Code!Value
<1>e. \A y : Code!Ends(w, y) = Engine(h, i, m, o, p, y) BY DEF Engine, Code!Ends
<1>1. /\ w.init = i /\ Code!Value(w) = val
      /\ \A y : Code!SetErrMsg(w, y) = Engine(h, i, y, o, p, -1)
      /\ \A y : Code!Ends(w, y) = Engine(h, i, m, o, p, y)
  <2>1. ASSUME NEW y PROVE Code!SetErrMsg(w, y) = Engine(h, i, y, o, p, -1)
    <3>1. Code!SetErrMsg(w, y) = [Engine(h, i, m, o, p, -1) EXCEPT !.msg = y] BY <1>e DEF Code!SetErrMsg
    <3> QED BY <3>1 DEF Engine
  <2> QED BY <2>1, <1>v, <1>e
<1> HIDE DEF w, val, goal
<1>g. goal = Engine(DataAfter(h, i, c), InitAfter(i, c), MsgAfter(i, m, c), OutputAfter(h, i, o, c),
                    ParsesAfter(i, p, c), RetAfter(h, i, c))
  BY DEF goal
<1>s. SUFFICES v = goal BY DEF goal, w
<1> DEFINE g(a, b, d, e, f, x) == /\ DataAfter(h, i, c) = a /\ InitAfter(i, c) = b /\ MsgAfter(i, m, c) = d
                                  /\ OutputAfter(h, i, o, c) = e /\ ParsesAfter(i, p, c) = f /\ RetAfter(h, i, c) = x
<1>G. \A a, b, d, e, f, x : g(a, b, d, e, f, x) => goal = Engine(a, b, d, e, f, x) BY <1>g
<1> HIDE DEF g
<1>7. CASE c.op = "Init"
  <2>1. v = Code!Init(w, c.fails) /\ c.fails \in {"none", "hdf_init"} BY <1>7 DEF Code!Call, TplCalls
  <2>2. CASE i
    <3>1. v = Engine(h, i, m, o, p, 0) BY <2>1, <2>2, <1>1 DEF Code!Init
    <3>2. g(h, i, m, o, p, 0)
      BY <1>7, <2>2 DEF g, DataAfter, InitAfter, MsgAfter, OutputAfter, ParsesAfter, RetAfter, Readies, Setting, Failing, Message, Code!None
    <3> QED BY <3>1, <3>2, <1>G
  <2>3. CASE ~i /\ c.fails = "hdf_init"
    <3>1. v = Engine(h, i, c.fails, o, p, -1) BY <2>1, <2>3, <1>1 DEF Code!Init
    <3>2. g(h, i, c.fails, o, p, -1)
      BY <1>7, <2>3 DEF g, DataAfter, InitAfter, MsgAfter, OutputAfter, ParsesAfter, RetAfter, Readies, Setting, Failing, Message, Code!None
    <3> QED BY <3>1, <3>2, <1>G
  <2>4. CASE ~i /\ c.fails = "none"
    <3>1. v = Engine({Code!None}, TRUE, m, o, p, 0)
      <4> DEFINE yes == TRUE
      <4>1. v = Code!Ends([[w EXCEPT !.hdf = {Code!None}] EXCEPT !.init = yes], 0)
        BY <2>1, <2>4, <1>1 DEF Code!Init
      <4> HIDE DEF yes
      <4>2. v = Engine({Code!None}, yes, m, o, p, 0)
        <5>1. [w EXCEPT !.hdf = {Code!None}] = Engine({Code!None}, i, m, o, p, r) BY DEF Engine, w
        <5>2. [Engine({Code!None}, i, m, o, p, r) EXCEPT !.init = yes] = Engine({Code!None}, yes, m, o, p, r)
          BY DEF Engine
        <5>3. Code!Ends(Engine({Code!None}, yes, m, o, p, r), 0) = Engine({Code!None}, yes, m, o, p, 0)
          BY DEF Engine, Code!Ends
        <5> QED BY <4>1, <5>1, <5>2, <5>3
      <4> QED BY <4>2 DEF yes
    <3>2. g({Code!None}, TRUE, m, o, p, 0)
      BY <1>7, <2>4 DEF g, DataAfter, InitAfter, MsgAfter, OutputAfter, ParsesAfter, RetAfter, Readies, Setting, Failing, Message, Code!None
    <3> QED BY <3>1, <3>2, <1>G
  <2> QED BY <2>1, <2>2, <2>3, <2>4
<1>8. CASE c.op = "GetValue"
  <2>1. v = Code!GetValue(w) /\ c.fails = "none" BY <1>8 DEF Code!Call, TplCalls
  <2>2. CASE i
    <3>1. v = Engine(h, i, m, o, p, val)
      <4>1. v = [w EXCEPT !.ret = val] BY <2>1, <2>2, <1>1 DEF Code!GetValue
      <4> QED BY <4>1 DEF Engine, w
    <3>2. g(h, i, m, o, p, val)
      BY <1>8, <2>1, <2>2 DEF g, DataAfter, InitAfter, MsgAfter, OutputAfter, ParsesAfter, RetAfter, Readies, Setting, Failing, Message, Code!None, val
    <3> QED BY <3>1, <3>2, <1>G
  <2>3. CASE ~i
    <3>1. v = Engine(h, i, Code!NotInit, o, p, Code!None)
      <4>1. v = [Engine(h, i, Code!NotInit, o, p, -1) EXCEPT !.ret = Code!None]
        BY <2>1, <2>3, <1>1 DEF Code!GetValue
      <4> QED BY <4>1 DEF Engine
    <3>2. g(h, i, Code!NotInit, o, p, Code!None)
      BY <1>8, <2>1, <2>3 DEF g, DataAfter, InitAfter, MsgAfter, OutputAfter, ParsesAfter, RetAfter, Readies, Setting, Failing, Message, Code!None
    <3> QED BY <3>1, <3>2, <1>G
  <2> QED BY <2>2, <2>3
<1>9. CASE c.op \in {"SetValue", "SetValueHDF"}
  <2>2. CASE ~i
    <3>1. v = Engine(h, i, Code!NotInit, o, p, -1)
      BY <2>2, <1>1, <1>9 DEF Code!Call, Code!SetValue, Code!SetValueHDF
    <3>2. g(h, i, Code!NotInit, o, p, -1)
      BY <1>9, <2>2 DEF g, DataAfter, InitAfter, MsgAfter, OutputAfter, ParsesAfter, RetAfter, Readies, Setting, Failing, Message, Code!None
    <3> QED BY <3>1, <3>2, <1>G
  <2>3. CASE i /\ c.op = "SetValue" /\ c.fails = Code!None
    <3>1. v = Engine({c.value}, i, m, o, p, 0)
      <4>1. v = [Engine(h, i, m, o, p, 0) EXCEPT !.hdf = {c.value}]
        BY <2>3, <1>1 DEF Code!Call, Code!SetValue, Code!None
      <4> QED BY <4>1 DEF Engine
    <3>2. g({c.value}, i, m, o, p, 0)
      BY <2>3 DEF g, DataAfter, InitAfter, MsgAfter, OutputAfter, ParsesAfter, RetAfter, Readies, Setting, Failing, Message, Code!None
    <3> QED BY <3>1, <3>2, <1>G
  <2>4. CASE i /\ c.op = "SetValue" /\ c.fails # Code!None
    <3>1. v = Engine(h, i, c.fails, o, p, -1)
      <4>1. c.fails = "hdf_set" BY <2>4 DEF TplCalls, Code!None
      <4> QED BY <4>1, <2>4, <1>1 DEF Code!Call, Code!SetValue
    <3>2. g(h, i, c.fails, o, p, -1)
      BY <2>4 DEF g, DataAfter, InitAfter, MsgAfter, OutputAfter, ParsesAfter, RetAfter, Readies, Setting, Failing, Message, Code!None
    <3> QED BY <3>1, <3>2, <1>G
  <2>5. CASE i /\ c.op = "SetValueHDF" /\ c.fails = "first_line"
    <3>1. v = Engine(h, i, c.fails, o, p, -1) BY <2>5, <1>1 DEF Code!Call, Code!SetValueHDF, Code!None
    <3>2. g(h, i, c.fails, o, p, -1)
      BY <2>5 DEF g, DataAfter, InitAfter, MsgAfter, OutputAfter, ParsesAfter, RetAfter, Readies, Setting, Failing, Message, Code!None
    <3> QED BY <3>1, <3>2, <1>G
  <2>6. CASE i /\ c.op = "SetValueHDF" /\ c.fails # "first_line"
    <3> DEFINE x == [w EXCEPT !.hdf = {c.value}]
    <3>1. x = Engine({c.value}, i, m, o, p, r) BY DEF Engine, w
    <3>2. v = IF c.fails = Code!None THEN Code!Ends(x, 0) ELSE Code!SetErrMsg(x, c.fails)
      BY <2>6, <1>1 DEF Code!Call, Code!SetValueHDF
    <3> HIDE DEF x
    <3>3. Code!Ends(x, 0) = Engine({c.value}, i, m, o, p, 0) /\ Code!SetErrMsg(x, c.fails) = Engine({c.value}, i, c.fails, o, p, -1)
      <4>1. \A y : Code!Ends(x, y) = Engine({c.value}, i, m, o, p, y) BY <3>1 DEF Code!Ends, Engine
      <4> QED BY <4>1 DEF Code!SetErrMsg, Engine
    <3>4. CASE c.fails = Code!None
      <4>1. g({c.value}, i, m, o, p, 0)
        BY <2>6, <3>4 DEF g, DataAfter, InitAfter, MsgAfter, OutputAfter, ParsesAfter, RetAfter, Readies, Setting, Failing, Message, Code!None
      <4> QED BY <3>2, <3>3, <3>4, <4>1, <1>G
    <3>5. CASE c.fails # Code!None
      <4>1. g({c.value}, i, c.fails, o, p, -1)
        BY <2>6, <3>5 DEF g, DataAfter, InitAfter, MsgAfter, OutputAfter, ParsesAfter, RetAfter, Readies, Setting, Failing, Message, Code!None
      <4> QED BY <3>2, <3>3, <3>5, <4>1, <1>G
    <3> QED BY <3>4, <3>5
  <2> QED BY <2>2, <2>3, <2>4, <2>5, <2>6, <1>9
<1>10. CASE c.op = "Render"
  <2>1. c.fails \in {"none", "cs_init", "malloc", "cs_parse", "cs_render"} /\ v = Code!Render(w, c.fails)
    BY <1>10 DEF TplCalls, Code!Call
  <2>2. CASE ~i
    <3>1. v = Engine(h, i, Code!NotInit, o, p, -1) BY <2>1, <2>2, <1>1 DEF Code!Render
    <3>2. g(h, i, Code!NotInit, o, p, -1)
      BY <1>10, <2>2 DEF g, DataAfter, InitAfter, MsgAfter, OutputAfter, ParsesAfter, RetAfter, Readies, Setting, Failing, Message, Code!None
    <3> QED BY <3>1, <3>2, <1>G
  <2>3. CASE i /\ c.fails = "malloc"
    <3>1. v = Engine(h, i, c.fails, o, p + 1, -1)
      <4>1. v = [Engine(h, i, c.fails, o, p, -1) EXCEPT !.parses = @ + 1]
        BY <2>1, <2>3, <1>1 DEF Code!Render
      <4> QED BY <4>1 DEF Engine
    <3>2. g(h, i, c.fails, o, p + 1, -1)
      BY <1>10, <2>3 DEF g, DataAfter, InitAfter, MsgAfter, OutputAfter, ParsesAfter, RetAfter, Readies, Setting, Failing, Message, Code!None
    <3> QED BY <3>1, <3>2, <1>G
  <2>4. CASE i /\ c.fails \in {"cs_init", "cs_parse", "cs_render"}
    <3>1. v = Engine(h, i, c.fails, o, p, -1) BY <2>1, <2>4, <1>1 DEF Code!Render
    <3>2. g(h, i, c.fails, o, p, -1)
      BY <1>10, <2>4 DEF g, DataAfter, InitAfter, MsgAfter, OutputAfter, ParsesAfter, RetAfter, Readies, Setting, Failing, Message, Code!None
    <3> QED BY <3>1, <3>2, <1>G
  <2>5. CASE i /\ c.fails = "none"
    <3>1. v = Engine(h, i, m, val, p, 0)
      <4>1. v = [Engine(h, i, m, o, p, 0) EXCEPT !.output = val] BY <2>1, <2>5, <1>1 DEF Code!Render
      <4> QED BY <4>1 DEF Engine
    <3>2. g(h, i, m, val, p, 0)
      BY <1>10, <2>5 DEF g, DataAfter, InitAfter, MsgAfter, OutputAfter, ParsesAfter, RetAfter, Readies, Setting, Failing, Message, Code!None, val
    <3> QED BY <3>1, <3>2, <1>G
  <2> QED BY <2>1, <2>2, <2>3, <2>4, <2>5
<1>11. c.op \in {"Init", "GetValue", "SetValue", "SetValueHDF", "Render"} BY DEF TplCalls
<1> QED BY <1>7, <1>8, <1>9, <1>10, <1>11

Engines == {w \in [hdf : SUBSET Values, init : BOOLEAN, msg : Reasons, output : Values,
                   parses : Nat, ret : Values \union {0, -1}] : w.init => w.hdf # {}}

\* The fields after a call, and that it leaves a CCS
LEMMA OneStep ==
  ASSUME NEW w \in Engines, NEW c \in TplCalls
  PROVE  LET v == Code!Call(w, c)
         IN /\ v \in Engines
            /\ v.hdf = DataAfter(w.hdf, w.init, c) /\ v.init = InitAfter(w.init, c) /\ v.msg = MsgAfter(w.init, w.msg, c)
            /\ v.output = OutputAfter(w.hdf, w.init, w.output, c) /\ v.parses = ParsesAfter(w.init, w.parses, c)
            /\ v.ret = RetAfter(w.hdf, w.init, c)
<1> DEFINE v == Code!Call(w, c)
           val == CHOOSE x \in w.hdf : TRUE
           h == DataAfter(w.hdf, w.init, c)
           i == InitAfter(w.init, c)
           m == MsgAfter(w.init, w.msg, c)
           o == OutputAfter(w.hdf, w.init, w.output, c)
           p == ParsesAfter(w.init, w.parses, c)
           r == RetAfter(w.hdf, w.init, c)
<1>1. /\ w = Engine(w.hdf, w.init, w.msg, w.output, w.parses, w.ret)
      /\ w.hdf \in SUBSET Values /\ w.init \in BOOLEAN /\ w.msg \in Reasons /\ w.output \in Values
      /\ w.parses \in Nat /\ (w.init => w.hdf # {}) BY DEF Engines, Engine
<1>2. v = Engine(h, i, m, o, p, r)
  <2>1. Code!Call(Engine(w.hdf, w.init, w.msg, w.output, w.parses, w.ret), c) = Engine(h, i, m, o, p, r)
    BY <1>1, OneCall
  <2> QED BY <2>1, <1>1
<1>3. w.init => val \in Values
  <2>1. w.init => \E x \in w.hdf : TRUE BY <1>1
  <2> QED BY <2>1, <1>1
<1>4. /\ c.fails \in Reasons /\ (Setting(c) => c.value \in Atom)
      /\ c.op \in {"Init", "GetValue", "SetValue", "SetValueHDF", "Render"}
  <2>1. c.fails \in Reasons BY DEF TplCalls, Reasons
  <2>2. Setting(c) => c.value \in Atom
    <3>1. \/ c \in [op : {"Init"}, fails : {"none", "hdf_init"}]
          \/ c \in [op : {"GetValue"}, fails : {"none"}]
          \/ c \in [op : {"SetValue"}, value : Atom, fails : {"none", "hdf_set"}]
          \/ c \in [op : {"SetValueHDF"}, value : Atom, fails : {"none", "first_line", "last_line"}]
          \/ c \in [op : {"Render"}, fails : {"none", "cs_init", "malloc", "cs_parse", "cs_render"}]
      BY DEF TplCalls
    <3>2. \A F : c \in [op : {"SetValue"}, value : Atom, fails : F] => c.value \in Atom OBVIOUS
    <3>3. \A F : c \in [op : {"SetValueHDF"}, value : Atom, fails : F] => c.value \in Atom OBVIOUS
    <3>4. \A F : \A op \in {"Init", "GetValue", "Render"} : c \in [op : {op}, fails : F] => c.op = op
      OBVIOUS
    <3>5. Setting(c) => c.op = "SetValue" \/ c.op = "SetValueHDF" BY DEF Setting
    <3> QED BY <3>1, <3>2, <3>3, <3>4, <3>5
  <2>3. c.op \in {"Init", "GetValue", "SetValue", "SetValueHDF", "Render"} BY DEF TplCalls
  <2> QED BY <2>1, <2>2, <2>3
<1> HIDE DEF v, val
<1>5. h \in SUBSET Values /\ (i => h # {}) BY <1>1, <1>4 DEF DataAfter, InitAfter, Values
<1>6. i \in BOOLEAN BY <1>1 DEF InitAfter
<1>7. m \in Reasons BY <1>1, <1>4 DEF MsgAfter, Message, Code!NotInit, Reasons
<1>8. o \in Values BY <1>1, <1>3 DEF OutputAfter, val
<1>9. p \in Nat BY <1>1 DEF ParsesAfter
<1>10. r \in Values \union {0, -1} BY <1>1, <1>3 DEF RetAfter, val, Values
<1> HIDE DEF h, i, m, o, p, r
<1>11. v \in Engines BY <1>2, <1>5, <1>6, <1>7, <1>8, <1>9, <1>10 DEF Engines, Engine
<1>12. v.hdf = h /\ v.init = i /\ v.msg = m /\ v.output = o /\ v.parses = p /\ v.ret = r
  BY <1>2 DEF Engine
<1> QED BY <1>11, <1>12 DEF h, i, m, o, p, r, v

\* The states a CCS goes through, and that the fold of the steps ends in the last
Passes(steps, w) ==
  /\ w \in [0 .. Len(steps) -> Engines] /\ w[0] = Code!CCS
  /\ \A k \in 1 .. Len(steps) : w[k] = Code!Call(w[k - 1], steps[k])

\* Every sequence of calls has such states.
LEMMA CallsOfTpl ==
  ASSUME NEW steps \in Seq(TplCalls)
  PROVE  \E w : Passes(steps, w) /\ Code!FoldLeft(Code!Call, Code!CCS, steps) = w[Len(steps)]
<1> DEFINE n == Len(steps)
           st == [k \in 1 .. n |-> [w \in Engines |-> Code!Call(w, steps[k])]]
<1>0. n \in Nat /\ n = Len(steps) /\ DOMAIN steps = 1 .. n /\ \A k \in 1 .. n : steps[k] \in TplCalls
  OBVIOUS
<1> HIDE DEF n
<1>1. Code!CCS \in Engines BY DEF Code!CCS, Code!None, Engines, Values, Reasons
<1>2. Steps(n, Engines, Code!CCS, st)
  <2>1. \A k \in 1 .. n : \A w \in Engines : Code!Call(w, steps[k]) \in Engines BY <1>0, OneStep
  <2> HIDE DEF Engines
  <2> QED BY <1>0, <1>1, <2>1 DEF Steps
<1>s. \A k \in 1 .. n : \A w \in Engines : st[k][w] = Code!Call(w, steps[k]) OBVIOUS
<1> HIDE DEF st
<1>3. PICK f : Folds(n, Engines, Code!CCS, st, f) BY <1>2, FoldExists
<1> DEFINE Eq(h) == h = [s \in SUBSET (DOMAIN steps) |->
                           IF s = {} THEN Code!CCS ELSE Code!Call(h[s \ {Code!Max(s)}], steps[Code!Max(s)])]
           iter == CHOOSE h : Eq(h)
<1>4. Eq(f)
  <2>1. /\ f \in [SUBSET (1 .. n) -> Engines]
        /\ \A s \in SUBSET (1 .. n) : f[s] = IF s = {} THEN Code!CCS ELSE st[Code!Max(s)][f[s \ {Code!Max(s)}]]
    BY <1>3 DEF Folds
  <2>2. ASSUME NEW s \in SUBSET (1 .. n), s # {}
        PROVE  f[s] = Code!Call(f[s \ {Code!Max(s)}], steps[Code!Max(s)])
    <3>1. Code!Max(s) \in 1 .. n /\ s \ {Code!Max(s)} \in SUBSET (1 .. n) BY <2>2, <1>0, GreatestPlace
    <3> QED BY <3>1, <2>1, <2>2, <1>s
  <2> QED BY <2>1, <2>2, <1>0
<1>5. Eq(iter) BY <1>4
<1>6. \A s : Code!Max(s) = Code!Max(s) BY DEF Code!Max, Code!Max
<1>7. Code!FoldLeft(Code!Call, Code!CCS, steps) = iter[1 .. n]
  BY <1>0, <1>6 DEF Code!FoldLeft, Code!MapThenFoldSet
<1> HIDE DEF iter
<1> DEFINE w == [k \in 0 .. n |-> iter[1 .. k]]
<1>8. iter[{}] = Code!CCS BY <1>5, <1>0
<1>9. ASSUME NEW k \in 1 .. n PROVE iter[1 .. k] = Code!Call(iter[1 .. k - 1], steps[k])
  <2>1. Code!Max(1 .. k) = k /\ (1 .. k) \ {k} = 1 .. k - 1 /\ 1 .. k \in SUBSET (1 .. n) /\ 1 .. k # {}
    BY <1>0, OnePlaceLess
  <2>2. iter[1 .. k] = Code!Call(iter[(1 .. k) \ {Code!Max(1 .. k)}], steps[Code!Max(1 .. k)])
    BY <1>5, <1>0, <2>1
  <2> QED BY <2>1, <2>2
<1> HIDE DEF Eq
<1>10. w[0] = Code!CCS /\ (\A k \in 1 .. n : w[k] = Code!Call(w[k - 1], steps[k])) /\ w[n] = iter[1 .. n]
  <2>1. 1 .. 0 = {} /\ 0 \in 0 .. n /\ n \in 0 .. n /\ \A k \in 1 .. n : k \in 0 .. n /\ k - 1 \in 0 .. n
    BY <1>0
  <2> QED BY <2>1, <1>8, <1>9
<1>11. w \in [0 .. n -> Engines]
  <2> DEFINE T == {k \in 0 .. n : w[k] \in Engines}
  <2>1. ASSUME NEW k \in 0 .. n, \A j \in 0 .. k - 1 : w[j] \in Engines PROVE w[k] \in Engines
    <3> HIDE DEF w
    <3>1. CASE k = 0 BY <3>1, <1>1, <1>10
    <3>2. CASE k # 0
      <4>1. k \in 1 .. n /\ k - 1 \in 0 .. k - 1 BY <3>2, <1>0
      <4>2. w[k] = Code!Call(w[k - 1], steps[k]) /\ w[k - 1] \in Engines /\ steps[k] \in TplCalls
        BY <4>1, <2>1, <1>10, <1>0
      <4> QED BY <4>2, OneStep
    <3> QED BY <3>1, <3>2
  <2> HIDE DEF w
  <2>2. GrowsUp(0, n, T)
    <3>1. \A k \in 0 .. n : (\A j \in 0 .. k - 1 : j \in T) => k \in T BY <2>1
    <3> HIDE DEF T
    <3> QED BY <3>1, <1>0 DEF GrowsUp
  <2>3. 0 .. n \subseteq T
    <3> HIDE DEF T
    <3> QED BY <2>2, Upwards
  <2>4. \A k \in 0 .. n : w[k] \in Engines BY <2>3
  <2> QED BY <2>4 DEF w
<1> HIDE DEF w
<1> QED BY <1>7, <1>10, <1>11, <1>0 DEF Passes

\* What the steps up to k have left in a CCS
AfterCalls(steps, w, k) ==
  /\ w.init <=> WorksAt(steps, k)
  /\ w.hdf = IF WorksAt(steps, k) THEN {ValueAt(steps, k)} ELSE {}
  /\ w.output = IF Latest(OutputAt(steps), k) = 0 THEN Code!None ELSE ValueAt(steps, Latest(OutputAt(steps), k))
  /\ w.parses = Count(LostAt(steps), k)
  /\ w.msg = IF Latest(FailedAt(steps), k) = 0 THEN Code!None
             ELSE Message(steps[Latest(FailedAt(steps), k)], WorksAt(steps, Latest(FailedAt(steps), k)))
  /\ k # 0 => w.ret = IF steps[k].op = "GetValue" THEN ValueAt(steps, k)
                      ELSE IF Failing(steps[k], WorksAt(steps, k)) THEN -1 ELSE 0

\* That is so after every call.
LEMMA CallsLeave ==
  ASSUME NEW steps \in Seq(TplCalls), NEW w, Passes(steps, w)
  PROVE  \A k \in 0 .. Len(steps) : AfterCalls(steps, w[k], k)
<1> DEFINE n == Len(steps)
<1>0. n \in Nat /\ n = Len(steps) /\ DOMAIN steps = 1 .. n /\ \A k \in 1 .. n : steps[k] \in TplCalls
  OBVIOUS
<1>1. /\ w \in [0 .. n -> Engines] /\ w[0] = Code!CCS
      /\ \A k \in 1 .. n : w[k] = Code!Call(w[k - 1], steps[k]) BY DEF Passes
<1> HIDE DEF n
<1>2. AfterCalls(steps, w[0], 0)
  <2>1. ~WorksAt(steps, 0) BY <1>0 DEF WorksAt, ReadyAt
  <2>2. Latest(OutputAt(steps), 0) = 0 /\ Latest(FailedAt(steps), 0) = 0 /\ Count(LostAt(steps), 0) = 0
    BY LatestMore, CountMore
  <2>3. /\ ~Code!CCS.init /\ Code!CCS.hdf = {} /\ Code!CCS.output = Code!None /\ Code!CCS.parses = 0
        /\ Code!CCS.msg = Code!None BY DEF Code!CCS
  <2> QED BY <1>1, <2>1, <2>2, <2>3 DEF AfterCalls
<1>3. ASSUME NEW k \in 1 .. n, AfterCalls(steps, w[k - 1], k - 1) PROVE AfterCalls(steps, w[k], k)
  <2> DEFINE c == steps[k]
             j == k - 1
             u == w[k - 1]
             v == w[k]
  <2>1. /\ j \in Nat /\ k = j + 1 /\ k \in Nat /\ c \in TplCalls /\ u \in Engines
        /\ v = Code!Call(u, c) /\ k \in DOMAIN steps /\ c = steps[k] BY <1>0, <1>1
  <2>u. AfterCalls(steps, u, j) BY <1>3
  <2> HIDE DEF c, j, u, v
  <2>2. /\ v.hdf = DataAfter(u.hdf, u.init, c) /\ v.init = InitAfter(u.init, c) /\ v.msg = MsgAfter(u.init, u.msg, c)
        /\ v.output = OutputAfter(u.hdf, u.init, u.output, c) /\ v.parses = ParsesAfter(u.init, u.parses, c)
        /\ v.ret = RetAfter(u.hdf, u.init, c) BY <2>1, OneStep
  <2> DEFINE works == WorksAt(steps, j)
  <2>3. WorksAt(steps, k) <=> works \/ Readies(c)
    <3>1. k \in ReadyAt(steps) <=> Readies(c) BY <2>1 DEF ReadyAt, Readies
    <3>2. \A i \in ReadyAt(steps) : i \in Int BY <1>0 DEF ReadyAt
    <3>3. \A i \in ReadyAt(steps) : i <= k <=> i <= j \/ i = k BY <3>2, <2>1
    <3>4. k <= k BY <2>1
    <3> QED BY <3>1, <3>3, <3>4 DEF WorksAt
  <2>4. Readies(c) => ~Setting(c) /\ c.op # "Render" /\ c.op # "GetValue" BY DEF Readies, Setting
  <2>5. k \in SetAt(steps) <=> works /\ Setting(c) BY <2>1, <2>3, <2>4 DEF SetAt
  <2>6. k \in OutputAt(steps) <=> works /\ c.op = "Render" /\ c.fails = Code!None
    BY <2>1, <2>3, <2>4 DEF OutputAt
  <2>7. k \in LostAt(steps) <=> works /\ c.op = "Render" /\ c.fails = "malloc"
    BY <2>1, <2>3, <2>4 DEF LostAt
  <2>8. Failing(c, WorksAt(steps, k)) <=> Failing(c, works) BY <2>3 DEF Failing, Readies
  <2>9. k \in FailedAt(steps) <=> Failing(c, works)
    <3>1. k \in FailedAt(steps) <=> Failing(c, WorksAt(steps, k)) BY <2>1 DEF FailedAt
    <3> QED BY <3>1, <2>8
  <2>10. Failing(c, works) => Message(c, WorksAt(steps, k)) = Message(c, works)
    BY <2>3 DEF Failing, Readies, Message
  <2>11. \A S : Latest(S, k) = IF k \in S THEN k ELSE Latest(S, j) BY <2>1, LatestMore
  <2>12. k # 0 BY <2>1
  <2>13. ValueAt(steps, k) = IF works /\ Setting(c) THEN c.value ELSE ValueAt(steps, j)
    BY <2>1, <2>5, <2>11, <2>12 DEF ValueAt
  <2>14. ~works => ValueAt(steps, j) = Code!None
    <3> SUFFICES ASSUME Latest(SetAt(steps), j) # 0 PROVE works BY DEF ValueAt
    <3>1. Latest(SetAt(steps), j) \in 0 .. j /\ Latest(SetAt(steps), j) \in SetAt(steps)
      BY <2>1, LatestMore
    <3> DEFINE i == Latest(SetAt(steps), j)
    <3> HIDE DEF i
    <3>2. i \in 0 .. j /\ WorksAt(steps, i) BY <3>1 DEF SetAt, i
    <3>3. PICK q \in ReadyAt(steps) : q <= i BY <3>2 DEF WorksAt
    <3>4. q \in Int BY <1>0 DEF ReadyAt
    <3>5. q <= j BY <3>2, <3>3, <3>4, <2>1
    <3> QED BY <3>5 DEF WorksAt
  <2>15. /\ u.init <=> works
         /\ u.hdf = IF works THEN {ValueAt(steps, j)} ELSE {}
         /\ u.output = IF Latest(OutputAt(steps), j) = 0 THEN Code!None ELSE ValueAt(steps, Latest(OutputAt(steps), j))
         /\ u.parses = Count(LostAt(steps), j)
         /\ u.msg = IF Latest(FailedAt(steps), j) = 0 THEN Code!None
                    ELSE Message(steps[Latest(FailedAt(steps), j)], WorksAt(steps, Latest(FailedAt(steps), j)))
    BY <2>u DEF AfterCalls
  <2>16. works => (CHOOSE x \in u.hdf : TRUE) = ValueAt(steps, j) BY <2>15
  <2> HIDE DEF works
  <2>17. v.init <=> WorksAt(steps, k) BY <2>2, <2>3, <2>15 DEF InitAfter
  <2>18. v.hdf = IF WorksAt(steps, k) THEN {ValueAt(steps, k)} ELSE {}
    <3>1. CASE works BY <3>1, <2>2, <2>3, <2>13, <2>15 DEF DataAfter
    <3>2. CASE ~works /\ Readies(c) BY <3>2, <2>2, <2>3, <2>13, <2>14, <2>15 DEF DataAfter
    <3>3. CASE ~works /\ ~Readies(c) BY <3>3, <2>2, <2>3, <2>15 DEF DataAfter
    <3> QED BY <3>1, <3>2, <3>3
  <2>19. v.output = IF Latest(OutputAt(steps), k) = 0 THEN Code!None ELSE ValueAt(steps, Latest(OutputAt(steps), k))
    <3>1. CASE k \in OutputAt(steps)
      <4>1. ~Setting(c) BY <3>1, <2>6 DEF Setting
      <4>2. Latest(OutputAt(steps), k) = k BY <3>1, <2>11
      <4>3. v.output = ValueAt(steps, j) BY <3>1, <2>2, <2>6, <2>15, <2>16 DEF OutputAfter
      <4> QED BY <4>1, <4>2, <4>3, <2>12, <2>13
    <3>2. CASE k \notin OutputAt(steps)
      <4>1. v.output = u.output BY <3>2, <2>2, <2>6, <2>15 DEF OutputAfter
      <4>2. Latest(OutputAt(steps), k) = Latest(OutputAt(steps), j) BY <3>2, <2>11
      <4> QED BY <4>1, <4>2, <2>15
    <3> QED BY <3>1, <3>2
  <2>20. v.parses = Count(LostAt(steps), k)
    <3>1. Count(LostAt(steps), k) = IF k \in LostAt(steps) THEN Count(LostAt(steps), j) + 1 ELSE Count(LostAt(steps), j)
      BY <2>1, CountMore
    <3> QED BY <3>1, <2>2, <2>7, <2>15 DEF ParsesAfter
  <2>21. v.msg = IF Latest(FailedAt(steps), k) = 0 THEN Code!None
                 ELSE Message(steps[Latest(FailedAt(steps), k)], WorksAt(steps, Latest(FailedAt(steps), k)))
    <3>1. Failing(c, u.init) <=> Failing(c, works) BY <2>15 DEF Failing
    <3>2. CASE Failing(c, works)
      <4>1. Latest(FailedAt(steps), k) = k BY <3>2, <2>9, <2>11
      <4>2. v.msg = Message(c, u.init) BY <3>1, <3>2, <2>2 DEF MsgAfter
      <4>3. Message(c, u.init) = Message(c, works) BY <2>15 DEF Message
      <4> QED BY <4>1, <4>2, <4>3, <3>2, <2>1, <2>10, <2>12
    <3>3. CASE ~Failing(c, works)
      <4>1. Latest(FailedAt(steps), k) = Latest(FailedAt(steps), j) BY <3>3, <2>9, <2>11
      <4>2. v.msg = u.msg BY <3>1, <3>3, <2>2 DEF MsgAfter
      <4> QED BY <4>1, <4>2, <2>15
    <3> QED BY <3>2, <3>3
  <2>22. v.ret = IF c.op = "GetValue" THEN ValueAt(steps, k) ELSE IF Failing(c, WorksAt(steps, k)) THEN -1 ELSE 0
    <3>1. Failing(c, u.init) <=> Failing(c, works) BY <2>15 DEF Failing
    <3>2. CASE c.op = "GetValue"
      <4>1. ~Setting(c) BY <3>2 DEF Setting
      <4>2. v.ret = IF u.init THEN CHOOSE x \in u.hdf : TRUE ELSE Code!None BY <3>2, <2>2 DEF RetAfter
      <4> QED BY <3>2, <4>1, <4>2, <2>13, <2>14, <2>15, <2>16
    <3>3. CASE c.op # "GetValue"
      <4>1. v.ret = IF Failing(c, u.init) THEN -1 ELSE 0 BY <3>3, <2>2 DEF RetAfter
      <4> QED BY <3>1, <3>3, <4>1, <2>8
    <3> QED BY <3>2, <3>3
  <2>23. AfterCalls(steps, v, k) BY <2>1, <2>17, <2>18, <2>19, <2>20, <2>21, <2>22 DEF AfterCalls
  <2> QED BY <2>23 DEF v
<1>4. \A k \in 0 .. n : AfterCalls(steps, w[k], k)
  <2> DEFINE T == {k \in 0 .. n : AfterCalls(steps, w[k], k)}
  <2>1. ASSUME NEW k \in 0 .. n, \A j \in 0 .. k - 1 : j \in T PROVE k \in T
    <3>1. CASE k = 0 BY <3>1, <1>2
    <3>2. CASE k # 0
      <4>1. k \in 1 .. n /\ k - 1 \in 0 .. k - 1 BY <3>2, <1>0
      <4>2. AfterCalls(steps, w[k - 1], k - 1) BY <4>1, <2>1
      <4> QED BY <4>1, <4>2, <1>3
    <3> QED BY <3>1, <3>2
  <2>2. GrowsUp(0, n, T)
    <3> HIDE DEF T
    <3> QED BY <2>1, <1>0 DEF GrowsUp
  <2>3. 0 .. n \subseteq T
    <3> HIDE DEF T
    <3> QED BY <2>2, Upwards
  <2> QED BY <2>3
<1> QED BY <1>4, <1>0

\* The greatest of 0 and a set is that of the set, where it has any.
LEMMA MaxOfSome ==
  ASSUME NEW n \in Nat, NEW S \in SUBSET (1 .. n), S # {}
  PROVE  Code!Max({0} \union S) = Code!Max(S)
<1> DEFINE a == Code!Max(S)
           b == Code!Max({0} \union S)
<1>1. a \in S /\ a \in 1 .. n /\ \A k \in S : k <= a BY GreatestPlace
<1>2. b \in {0} \union S /\ \A k \in {0} \union S : b >= k
  <2>1. 0 \in Nat /\ {0} \union S \subseteq 0 .. n OBVIOUS
  <2> DEFINE T == {0} \union S
  <2>2. T \subseteq 0 .. n /\ T # {} BY <2>1
  <2> HIDE DEF T
  <2>3. Code!Max(T) \in T /\ \A k \in T : Code!Max(T) >= k BY <2>2, MinMaxOf
  <2> QED BY <2>3 DEF T
<1> HIDE DEF a, b
<1>3. b >= a /\ b \in Int BY <1>1, <1>2
<1>4. b \in S BY <1>1, <1>2, <1>3
<1>5. a = b BY <1>1, <1>3, <1>4
<1> QED BY <1>5 DEF a, b

\* A program gets from a CCS what it set last, also when steps failed in
\* between (cs.cpp).
THEOREM OutputsAreWhatWasSet == \A steps \in Seq(TplCalls) : Code!OutputsWhatWasSet(steps)
<1> SUFFICES ASSUME NEW steps \in Seq(TplCalls) PROVE Code!OutputsWhatWasSet(steps) OBVIOUS
<1> DEFINE n == Len(steps)
           end == Code!FoldLeft(Code!Call, Code!CCS, steps)
<1>0. n \in Nat /\ n = Len(steps) /\ DOMAIN steps = 1 .. n /\ \A k \in 1 .. n : steps[k] \in TplCalls
  OBVIOUS
<1> HIDE DEF n
<1>1. AfterCalls(steps, end, n)
  <2>1. PICK w : Passes(steps, w) /\ end = w[n] BY CallsOfTpl, <1>0
  <2>2. n \in 0 .. n BY <1>0
  <2> QED BY <2>1, <2>2, CallsLeave, <1>0
<1> HIDE DEF end
<1> DEFINE Sets(i) == CASE steps[i].op = "SetValue" -> steps[i].fails = Code!None
                        [] steps[i].op = "SetValueHDF" -> steps[i].fails # "first_line"
                        [] OTHER -> FALSE
           Fails(i) == IF steps[i].op = "Init" THEN steps[i].fails # Code!None /\ ~WorksAt(steps, i)
                       ELSE ~WorksAt(steps, i) \/ steps[i].fails # Code!None
           Renders(i) == WorksAt(steps, i) /\ steps[i].op = "Render" /\ steps[i].fails = Code!None
           lastRender == Code!Max({0} \union {i \in DOMAIN steps : Renders(i)})
           lastFail == Code!Max({0} \union {i \in DOMAIN steps : Fails(i)})
           set(i) == {j \in 1 .. i : WorksAt(steps, j) /\ Sets(j)}
           At(i) == IF set(i) = {} THEN Code!None ELSE steps[Code!Max(set(i))].value
<1>2. \A S : Code!Max(S) = Code!Max(S) BY DEF Code!Max, Code!Max
<1>3. \A i : Sets(i) <=> Setting(steps[i]) BY DEF Setting
<1>4. \A S : S \subseteq 1 .. n => {i \in 1 .. n : i \in S} = S OBVIOUS
<1>5. lastRender = Latest(OutputAt(steps), n)
  <2>1. OutputAt(steps) = {i \in DOMAIN steps : Renders(i)} /\ OutputAt(steps) \subseteq 1 .. n
    BY <1>0 DEF OutputAt
  <2>2. {i \in 1 .. n : i \in OutputAt(steps)} = {i \in DOMAIN steps : Renders(i)} BY <2>1, <1>4
  <2> QED BY <2>2, <1>2 DEF Latest
<1>6. lastFail = Latest(FailedAt(steps), n)
  <2>1. FailedAt(steps) = {i \in DOMAIN steps : Fails(i)} /\ FailedAt(steps) \subseteq 1 .. n
    BY <1>0 DEF FailedAt, Failing
  <2>2. {i \in 1 .. n : i \in FailedAt(steps)} = {i \in DOMAIN steps : Fails(i)} BY <2>1, <1>4
  <2> QED BY <2>2, <1>2 DEF Latest
<1>7. ASSUME NEW i \in 0 .. n PROVE At(i) = ValueAt(steps, i)
  <2>1. set(i) = {j \in 1 .. i : j \in SetAt(steps)}
    <3>1. \A j \in 1 .. i : j \in DOMAIN steps BY <1>0
    <3> HIDE DEF Sets
    <3> QED BY <3>1, <1>3 DEF SetAt
  <2> DEFINE S == {j \in 1 .. i : j \in SetAt(steps)}
  <2>2. Latest(SetAt(steps), i) = Code!Max({0} \union S) BY DEF Latest
  <2>3. S \in SUBSET (1 .. i) /\ i \in Nat BY <1>0
  <2>4. At(i) = IF S = {} THEN Code!None ELSE steps[Code!Max(S)].value
    <3> HIDE DEF set, S
    <3> QED BY <2>1, <1>2 DEF S
  <2>5. CASE S = {}
    <3>1. Latest(SetAt(steps), i) = 0
      <4>1. Latest(SetAt(steps), i) \in 0 .. i /\ (Latest(SetAt(steps), i) # 0 => Latest(SetAt(steps), i) \in SetAt(steps))
        BY <2>3, LatestMore
      <4> QED BY <4>1, <2>5
    <3> HIDE DEF At
    <3> QED BY <3>1, <2>4, <2>5 DEF ValueAt
  <2>6. CASE S # {}
    <3>1. Code!Max({0} \union S) = Code!Max(S) /\ Code!Max(S) \in 1 .. i
      <4> HIDE DEF S
      <4> QED BY <2>3, <2>6, MaxOfSome, GreatestPlace
    <3>2. Latest(SetAt(steps), i) # 0 BY <3>1, <2>2
    <3> HIDE DEF At, S
    <3> QED BY <3>1, <3>2, <2>2, <2>4, <2>6 DEF ValueAt
  <2> QED BY <2>5, <2>6
<1>8. Cardinality({i \in DOMAIN steps : WorksAt(steps, i) /\ steps[i].op = "Render" /\ steps[i].fails = "malloc"})
        = Count(LostAt(steps), n)
  <2>1. {i \in DOMAIN steps : WorksAt(steps, i) /\ steps[i].op = "Render" /\ steps[i].fails = "malloc"}
          = {i \in 1 .. n : i \in LostAt(steps)}
    BY <1>0 DEF LostAt
  <2> QED BY <2>1 DEF Count
<1>9. \A k \in 1 .. n : Fails(k) <=> Failing(steps[k], WorksAt(steps, k)) BY DEF Failing
<1> HIDE DEF Fails
<1>10. Latest(OutputAt(steps), n) \in 0 .. n /\ n \in 0 .. n BY <1>0, LatestMore
<1>11. /\ end.output = IF lastRender = 0 THEN Code!None ELSE At(lastRender)
       /\ end.parses = Cardinality({i \in DOMAIN steps :
                          WorksAt(steps, i) /\ steps[i].op = "Render" /\ steps[i].fails = "malloc"})
       /\ end.msg = IF lastFail = 0 THEN Code!None
                    ELSE IF WorksAt(steps, lastFail) \/ steps[lastFail].op = "Init" THEN steps[lastFail].fails
                    ELSE Code!NotInit
  <2> HIDE DEF lastRender, lastFail, At
  <2> QED BY <1>1, <1>5, <1>6, <1>7, <1>8, <1>10 DEF AfterCalls, Message
<1>12. n > 0 => /\ steps[n].op # "GetValue" => (end.ret = 0 <=> ~Fails(n))
                /\ steps[n].op = "GetValue" => end.ret = At(n)
  <2> HIDE DEF At
  <2> SUFFICES ASSUME n > 0
               PROVE  /\ steps[n].op # "GetValue" => (end.ret = 0 <=> ~Fails(n))
                      /\ steps[n].op = "GetValue" => end.ret = At(n) OBVIOUS
  <2>1. n \in 1 .. n /\ n # 0 BY <1>0
  <2>2. end.ret = IF steps[n].op = "GetValue" THEN ValueAt(steps, n)
                  ELSE IF Failing(steps[n], WorksAt(steps, n)) THEN -1 ELSE 0
    BY <1>1, <2>1 DEF AfterCalls
  <2>3. At(n) = ValueAt(steps, n) /\ (Fails(n) <=> Failing(steps[n], WorksAt(steps, n)))
    BY <2>1, <1>7, <1>9, <1>10
  <2> QED BY <2>2, <2>3
<1>13. Code!Destroy(end).hdf = {}
  <2>1. PICK w : Passes(steps, w) /\ end = w[n] BY CallsOfTpl, <1>0 DEF end
  <2>2. end \in Engines BY <2>1, <1>0 DEF Passes
  <2>3. end = Engine(end.hdf, end.init, end.msg, end.output, end.parses, end.ret)
    BY <2>2 DEF Engines, Engine
  <2> QED BY <2>3 DEF Code!Destroy, Engine
<1>14. \A S : Code!Cardinality(S) = Cardinality(S) BY DEF Code!Cardinality, Cardinality
<1> DEFINE lost == Code!Cardinality({i \in DOMAIN steps :
                     WorksAt(steps, i) /\ steps[i].op = "Render" /\ steps[i].fails = "malloc"})
<1>15. end.parses = lost BY <1>11, <1>14
<1> HIDE DEF lastRender, lastFail, lost, At
<1>16. /\ end.output = IF lastRender = 0 THEN Code!None ELSE At(lastRender)
       /\ end.parses = lost
       /\ end.msg = IF lastFail = 0 THEN Code!None
                    ELSE IF WorksAt(steps, lastFail) \/ steps[lastFail].op = "Init" THEN steps[lastFail].fails
                    ELSE Code!NotInit
       /\ n > 0 => /\ steps[n].op # "GetValue" => (end.ret = 0 <=> ~Fails(n))
                   /\ steps[n].op = "GetValue" => end.ret = At(n)
       /\ Code!Destroy(end).hdf = {} BY <1>11, <1>12, <1>13, <1>15
<1> QED
  BY <1>16 DEF Code!OutputsWhatWasSet, WorksAt, ReadyAt, Fails, end, lastRender, lastFail, lost, At, n

------------------------
\* No file is in the way of a directory and of those above it.
Passable(dir, blocked) == \A n \in 1 .. Len(dir) : SubSeq(dir, 1, n) \notin blocked

\* The directories that can be there
Reachable(dirs, blocked) == <<>> \in dirs /\ dirs \subseteq {d \in Seq(Atom) : Passable(d, blocked)}

\* A beginning of a sequence, and the beginning of a beginning.
LEMMA Beginning ==
  ASSUME NEW X, NEW s \in Seq(X), NEW n \in 0 .. Len(s)
  PROVE  /\ SubSeq(s, 1, n) \in Seq(X) /\ Len(SubSeq(s, 1, n)) = n
         /\ \A m \in 0 .. n : SubSeq(SubSeq(s, 1, n), 1, m) = SubSeq(s, 1, m)
         /\ n > 0 => Code!Dir(SubSeq(s, 1, n)) = SubSeq(s, 1, n - 1)
<1>1. SubSeq(s, 1, n) \in Seq(X) /\ Len(SubSeq(s, 1, n)) = n /\ \A i \in 1 .. n : SubSeq(s, 1, n)[i] = s[i]
  OBVIOUS
<1>2. ASSUME NEW m \in 0 .. n PROVE SubSeq(SubSeq(s, 1, n), 1, m) = SubSeq(s, 1, m) OBVIOUS
<1>3. n > 0 => Code!Dir(SubSeq(s, 1, n)) = SubSeq(SubSeq(s, 1, n), 1, n - 1) /\ n - 1 \in 0 .. n
  BY <1>1 DEF Code!Dir, Code!Front
<1> QED BY <1>1, <1>2, <1>3

\* What mkdir has made of a path, directory by directory
Makes(dirs, blocked, name, mkdirs) ==
  /\ mkdirs \in [0 .. Len(name) - 1 -> SUBSET Seq(Atom)] /\ mkdirs[0] = dirs
  /\ \A n \in 1 .. Len(name) - 1 :
       mkdirs[n] = IF SubSeq(name, 1, n - 1) \in mkdirs[n - 1] /\ SubSeq(name, 1, n) \notin blocked
                 THEN mkdirs[n - 1] \union {SubSeq(name, 1, n)} ELSE mkdirs[n - 1]

\* The directories after each prefix of a name, one after the other, are those of
\* MakeSubDir.
LEMMA MakesExist ==
  ASSUME NEW dirs \in SUBSET Seq(Atom), NEW blocked, NEW name \in Seq(Atom), name # <<>>
  PROVE  \E mkdirs : Makes(dirs, blocked, name, mkdirs) /\ Code!MakeSubDir(dirs, blocked, name) = mkdirs[Len(name) - 1]
<1> DEFINE m == Len(name) - 1
           V == SUBSET Seq(Atom)
           Part(k) == SubSeq(name, 1, k)
           S(k, D) == IF Code!Dir(Part(k)) \in D /\ Part(k) \notin blocked THEN D \union {Part(k)} ELSE D
           st == [k \in 1 .. m |-> [D \in V |-> S(k, D)]]
<1>1. m \in Nat OBVIOUS
<1>2. \A k \in 1 .. m : Part(k) \in Seq(Atom) /\ Code!Dir(Part(k)) = SubSeq(name, 1, k - 1)
  <2> TAKE k \in 1 .. m
  <2>1. k \in 0 .. Len(name) /\ k > 0 OBVIOUS
  <2> QED BY <2>1, Beginning
<1> HIDE DEF m, Part
<1>3. Steps(m, V, dirs, st)
  <2>1. \A k \in 1 .. m : \A D \in V : S(k, D) \in V BY <1>2
  <2> HIDE DEF S
  <2> QED BY <1>1, <2>1 DEF Steps
<1> HIDE DEF S
<1>4. PICK g : Iterates(m, V, dirs, st, g) BY <1>3, Iteration
<1> DEFINE F(h) == h = [k \in 0 .. m |-> IF k = 0 THEN dirs ELSE S(k, h[k - 1])]
<1>5. F(g)
  <2>1. g \in [0 .. m -> V] /\ g[0] = dirs /\ \A k \in 1 .. m : g[k] = st[k][g[k - 1]]
    BY <1>4 DEF Iterates
  <2>2. \A k \in 1 .. m : g[k] = S(k, g[k - 1])
    <3> TAKE k \in 1 .. m
    <3>1. g[k - 1] \in V BY <2>1, <1>1
    <3> QED BY <3>1, <2>1
  <2>3. \A k \in 0 .. m : g[k] = IF k = 0 THEN dirs ELSE S(k, g[k - 1]) BY <2>1, <2>2, <1>1
  <2>4. g = [k \in 0 .. m |-> g[k]] BY <2>1
  <2> QED BY <2>3, <2>4
<1> DEFINE h == CHOOSE h : F(h)
<1>6. F(h) BY <1>5
<1>7. Code!MakeSubDir(dirs, blocked, name) = h[m] BY DEF Code!MakeSubDir, S, m, Part
<1> HIDE DEF h
<1>8. h[0] = dirs /\ \A k \in 1 .. m : h[k] = S(k, h[k - 1]) BY <1>6, <1>1
<1>9. \A k \in 0 .. m : h[k] \in V
  <2> DEFINE T == {k \in 0 .. m : h[k] \in V}
  <2>1. ASSUME NEW k \in 0 .. m, \A j \in 0 .. k - 1 : j \in T PROVE k \in T
    <3>1. CASE k = 0 BY <3>1, <1>8
    <3>2. CASE k # 0
      <4>1. k \in 1 .. m /\ h[k - 1] \in V BY <2>1, <3>2, <1>1
      <4> QED BY <4>1, <1>8, <1>2 DEF S
    <3> QED BY <3>1, <3>2
  <2>2. GrowsUp(0, m, T) BY <2>1, <1>1 DEF GrowsUp
  <2>3. 0 .. m \subseteq T BY <2>2, Upwards
  <2> QED BY <2>3
<1>10. Makes(dirs, blocked, name, h)
  <2>1. h \in [0 .. m -> V] BY <1>6, <1>9
  <2>2. \A k \in 1 .. m : h[k] = IF SubSeq(name, 1, k - 1) \in h[k - 1] /\ Part(k) \notin blocked
                                 THEN h[k - 1] \union {Part(k)} ELSE h[k - 1]
    BY <1>8, <1>2 DEF S
  <2> QED BY <2>1, <2>2, <1>8 DEF Makes, m, Part
<1> QED BY <1>7, <1>10 DEF m

\* MakeSubDir takes no directory away, makes that of a file with nothing in the way,
\* and makes none below one that is not there.
LEMMA DirectoriesMade ==
  ASSUME NEW dirs, NEW blocked, Reachable(dirs, blocked), NEW name \in Seq(Atom), name # <<>>
  PROVE  LET after == Code!MakeSubDir(dirs, blocked, name)
         IN Reachable(after, blocked) /\ dirs \subseteq after
            /\ (Passable(Code!Dir(name), blocked) => Code!Dir(name) \in after)
<1> DEFINE m == Len(name) - 1
<1>1. m \in Nat /\ Code!Dir(name) = SubSeq(name, 1, m) /\ m \in 0 .. Len(name)
  BY DEF Code!Dir, Code!Front
<1>2. dirs \in SUBSET Seq(Atom) BY DEF Reachable
<1>3. PICK mkdirs : Makes(dirs, blocked, name, mkdirs) /\ Code!MakeSubDir(dirs, blocked, name) = mkdirs[m]
  BY <1>2, MakesExist
<1>4. /\ mkdirs[0] = dirs
      /\ \A n \in 1 .. m : mkdirs[n] = IF SubSeq(name, 1, n - 1) \in mkdirs[n - 1] /\ SubSeq(name, 1, n) \notin blocked
                                     THEN mkdirs[n - 1] \union {SubSeq(name, 1, n)} ELSE mkdirs[n - 1]
  BY <1>3 DEF Makes
<1> HIDE DEF m
<1> DEFINE Unhindered(n) == \A i \in 1 .. n : SubSeq(name, 1, i) \notin blocked
           T == {n \in 0 .. m : Reachable(mkdirs[n], blocked) /\ dirs \subseteq mkdirs[n]
                                /\ (Unhindered(n) => SubSeq(name, 1, n) \in mkdirs[n])}
<1>5. \A n \in 0 .. m : SubSeq(name, 1, n) \in Seq(Atom) /\ Len(SubSeq(name, 1, n)) = n
                        /\ \A i \in 0 .. n : SubSeq(SubSeq(name, 1, n), 1, i) = SubSeq(name, 1, i)
  <2> TAKE n \in 0 .. m
  <2>1. n \in 0 .. Len(name) BY <1>1
  <2> QED BY <2>1, Beginning
<1>6. ASSUME NEW n \in 0 .. m, \A j \in 0 .. n - 1 : j \in T PROVE n \in T
  <2>1. CASE n = 0
    <3>1. SubSeq(name, 1, 0) = <<>> OBVIOUS
    <3> QED BY <2>1, <3>1, <1>4 DEF Reachable
  <2>2. CASE n # 0
    <3>1. n \in 1 .. m /\ n - 1 \in 0 .. m /\ n - 1 \in T BY <1>6, <2>2, <1>1
    <3>2. Reachable(mkdirs[n - 1], blocked) /\ dirs \subseteq mkdirs[n - 1] /\ (Unhindered(n - 1) => SubSeq(name, 1, n - 1) \in mkdirs[n - 1])
      BY <3>1
    <3>3. Unhindered(n) <=> Unhindered(n - 1) /\ SubSeq(name, 1, n) \notin blocked
      <4>1. \A i \in 1 .. n : i = n \/ i \in 1 .. n - 1 BY <3>1
      <4>2. \A i \in 1 .. n - 1 : i \in 1 .. n BY <3>1
      <4>3. n \in 1 .. n BY <3>1
      <4> QED BY <4>1, <4>2, <4>3
    <3>4. CASE SubSeq(name, 1, n - 1) \in mkdirs[n - 1] /\ SubSeq(name, 1, n) \notin blocked
      <4>1. mkdirs[n] = mkdirs[n - 1] \union {SubSeq(name, 1, n)} BY <3>1, <3>4, <1>4
      <4>2. Passable(SubSeq(name, 1, n - 1), blocked) BY <3>2, <3>4 DEF Reachable
      <4>3. \A i \in 1 .. n - 1 : SubSeq(name, 1, i) \notin blocked
        <5> TAKE i \in 1 .. n - 1
        <5>1. Len(SubSeq(name, 1, n - 1)) = n - 1 /\ SubSeq(SubSeq(name, 1, n - 1), 1, i) = SubSeq(name, 1, i)
          BY <1>5, <3>1
        <5> QED BY <5>1, <4>2 DEF Passable
      <4>4. Passable(SubSeq(name, 1, n), blocked)
        <5>1. Len(SubSeq(name, 1, n)) = n /\ \A i \in 1 .. n : SubSeq(SubSeq(name, 1, n), 1, i) = SubSeq(name, 1, i)
          BY <1>5, <3>1
        <5>2. \A i \in 1 .. n : SubSeq(name, 1, i) \notin blocked BY <4>3, <3>4, <3>1
        <5> QED BY <5>1, <5>2 DEF Passable
      <4>5. SubSeq(name, 1, n) \in Seq(Atom) BY <1>5
      <4>6. Reachable(mkdirs[n], blocked) BY <4>1, <4>4, <4>5, <3>2 DEF Reachable
      <4> HIDE DEF Unhindered
      <4> QED BY <4>1, <4>6, <3>2
    <3>5. CASE ~(SubSeq(name, 1, n - 1) \in mkdirs[n - 1] /\ SubSeq(name, 1, n) \notin blocked)
      <4>1. mkdirs[n] = mkdirs[n - 1] BY <3>1, <3>5, <1>4
      <4>2. ~Unhindered(n) BY <3>2, <3>3, <3>5
      <4> HIDE DEF Unhindered
      <4> QED BY <4>1, <4>2, <3>2
    <3> QED BY <3>4, <3>5
  <2> QED BY <2>1, <2>2
<1>7. GrowsUp(0, m, T)
  <2> HIDE DEF T
  <2> QED BY <1>6, <1>1 DEF GrowsUp
<1>8. 0 .. m \subseteq T BY <1>7, Upwards
<1>9. m \in T BY <1>8, <1>1
<1>10. Passable(SubSeq(name, 1, m), blocked) => Unhindered(m)
  <2>1. Len(SubSeq(name, 1, m)) = m /\ \A i \in 1 .. m : SubSeq(SubSeq(name, 1, m), 1, i) = SubSeq(name, 1, i)
    BY <1>5, <1>1
  <2> QED BY <2>1 DEF Passable
<1> HIDE DEF Unhindered
<1>11. Reachable(mkdirs[m], blocked) /\ dirs \subseteq mkdirs[m]
       /\ (Passable(SubSeq(name, 1, m), blocked) => SubSeq(name, 1, m) \in mkdirs[m]) BY <1>9, <1>10
<1> QED BY <1>1, <1>3, <1>11

------------------------
\* What a CLog can be
Sinks == {"stdout", "file", "online"}
Filing == UNION {[D -> Seq(Nat)] : D \in SUBSET Seq(Atom)}
Logs == [level : Int, sinks : SUBSET Sinks, name : Seq(Atom), printed : Seq(Nat), vOnlineLog : Seq(Nat),
         dirs : SUBSET Seq(Atom), blocked : SUBSET Seq(Atom), nolog : SUBSET Seq(Atom), files : Filing]

Logger(l, s, n, p, o, d, b, x, f) ==
  [level |-> l, sinks |-> s, name |-> n, printed |-> p, vOnlineLog |-> o,
   dirs |-> d, blocked |-> b, nolog |-> x, files |-> f]

\* Its fields
LEMMA LoggerFields ==
  ASSUME NEW w \in Logs
  PROVE  /\ w = Logger(w.level, w.sinks, w.name, w.printed, w.vOnlineLog, w.dirs, w.blocked, w.nolog, w.files)
         /\ w.level \in Int /\ w.sinks \in SUBSET Sinks /\ w.name \in Seq(Atom) /\ w.printed \in Seq(Nat)
         /\ w.vOnlineLog \in Seq(Nat) /\ w.dirs \in SUBSET Seq(Atom) /\ w.blocked \in SUBSET Seq(Atom)
         /\ w.nolog \in SUBSET Seq(Atom) /\ w.files \in Filing
<1> HIDE DEF Sinks, Filing
<1> QED BY DEF Logs, Logger

\* A log call has a line for a sink; it can write it to the file.
Speaks(w, c, sink) == c.op = "log" /\ c.level <= w.level /\ sink \in w.sinks
Writes(w, c) == /\ Speaks(w, c, "file") /\ w.name \notin w.nolog
                /\ w.name # <<>> /\ Code!Dir(w.name) \in w.dirs
LineAdded(files, name, i) ==
  [x \in DOMAIN files \union {name} |->
     IF x = name THEN Append(IF name \in DOMAIN files THEN files[name] ELSE <<>>, i) ELSE files[x]]

\* What one call makes of each field
LevelNext(w, c) == IF c.op = "level" THEN c.level ELSE w.level
SinksNext(w, c) == IF c.op = "on" THEN w.sinks \union {c.sink}
                   ELSE IF c.op = "off" THEN w.sinks \ {c.sink}
                   ELSE IF c.op = "to" THEN (w.sinks \union {"file"}) \ {"stdout"} ELSE w.sinks
NameNext(w, c)  == IF c.op = "to" THEN c.name ELSE w.name
PrintedNext(w, i, c) == IF Speaks(w, c, "stdout") THEN Append(w.printed, i) ELSE w.printed
OnlineNext(w, i, c) == IF c.op = "clear" THEN <<>>
                       ELSE IF Speaks(w, c, "online") THEN Append(w.vOnlineLog, i) ELSE w.vOnlineLog
DirsNext(w, c)  == IF c.op = "to" /\ c.name \notin DOMAIN w.files
                   THEN Code!MakeSubDir(w.dirs, w.blocked, c.name) ELSE w.dirs
NologNext(w, c) == IF c.op = "nolog" THEN w.nolog \union {c.name}
                   ELSE IF c.op = "rm" THEN w.nolog \ {c.name} ELSE w.nolog
FilesNext(w, i, c) == IF Writes(w, c) THEN LineAdded(w.files, w.name, i) ELSE w.files

OneLogCall(w, i, c, v) ==
  /\ v.level = LevelNext(w, c) /\ v.sinks = SinksNext(w, c) /\ v.name = NameNext(w, c)
  /\ v.printed = PrintedNext(w, i, c) /\ v.vOnlineLog = OnlineNext(w, i, c) /\ v.dirs = DirsNext(w, c)
  /\ v.blocked = w.blocked /\ v.nolog = NologNext(w, c) /\ v.files = FilesNext(w, i, c)

\* One more line in one of the files is again files with lines.
LEMMA FilesMore ==
  ASSUME NEW files \in Filing, NEW name \in Seq(Atom), NEW i \in Nat
  PROVE  LineAdded(files, name, i) \in Filing
<1>1. PICK D \in SUBSET Seq(Atom) : files \in [D -> Seq(Nat)] BY DEF Filing
<1>2. D \union {name} \in SUBSET Seq(Atom) OBVIOUS
<1>3. \A x \in D : files[x] \in Seq(Nat) BY <1>1
<1>4. LineAdded(files, name, i) \in [D \union {name} -> Seq(Nat)]
  <2>1. DOMAIN files = D BY <1>1
  <2>2. \A x \in D \union {name} :
          (IF x = name THEN Append(IF name \in DOMAIN files THEN files[name] ELSE <<>>, i) ELSE files[x]) \in Seq(Nat)
    BY <2>1, <1>3
  <2> QED BY <2>1, <2>2 DEF LineAdded
<1> QED BY <1>2, <1>4 DEF Filing

\* What MakeSubDir makes are directories.
LEMMA DirsMore ==
  ASSUME NEW dirs \in SUBSET Seq(Atom), NEW blocked, NEW name \in Seq(Atom), name # <<>>
  PROVE  Code!MakeSubDir(dirs, blocked, name) \in SUBSET Seq(Atom)
<1>1. PICK mkdirs : Makes(dirs, blocked, name, mkdirs) /\ Code!MakeSubDir(dirs, blocked, name) = mkdirs[Len(name) - 1]
  BY MakesExist
<1>2. Len(name) - 1 \in 0 .. Len(name) - 1 OBVIOUS
<1> QED BY <1>1, <1>2 DEF Makes

\* What one call does to the level, each sink, the name, the directories, the
\* switches and the files.
LEMMA LogCallGives ==
  ASSUME NEW w \in Logs, NEW i \in Nat, NEW c \in LogCalls
  PROVE  LET v == Code!LogCall(w, i, c) IN v \in Logs /\ OneLogCall(w, i, c, v)
<1> DEFINE v == Code!LogCall(w, i, c)
           l == w.level
           s == w.sinks
           n == w.name
           p == w.printed
           o == w.vOnlineLog
           d == w.dirs
           b == w.blocked
           x == w.nolog
           f == w.files
<1> SUFFICES v \in Logs /\ OneLogCall(w, i, c, v) OBVIOUS
<1>0. /\ w = Logger(l, s, n, p, o, d, b, x, f)
      /\ l \in Int /\ s \in SUBSET Sinks /\ n \in Seq(Atom) /\ p \in Seq(Nat) /\ o \in Seq(Nat) /\ d \in SUBSET Seq(Atom)
      /\ b \in SUBSET Seq(Atom) /\ x \in SUBSET Seq(Atom) /\ f \in Filing BY LoggerFields
<1>a. ASSUME NEW l1 \in Int, NEW s1 \in SUBSET Sinks, NEW n1 \in Seq(Atom), NEW p1 \in Seq(Nat), NEW o1 \in Seq(Nat),
             NEW d1 \in SUBSET Seq(Atom), NEW x1 \in SUBSET Seq(Atom), NEW f1 \in Filing,
             v = Logger(l1, s1, n1, p1, o1, d1, b, x1, f1)
      PROVE  /\ v \in Logs /\ v.level = l1 /\ v.sinks = s1 /\ v.name = n1 /\ v.printed = p1 /\ v.vOnlineLog = o1
             /\ v.dirs = d1 /\ v.blocked = b /\ v.nolog = x1 /\ v.files = f1
  <2> HIDE DEF v, l, s, n, p, o, d, b, x, f
  <2>1. b \in SUBSET Seq(Atom) BY <1>0
  <2>2. Logger(l1, s1, n1, p1, o1, d1, b, x1, f1) \in Logs BY <1>a, <2>1 DEF Logs, Logger
  <2>3. v \in Logs BY <1>a, <2>2
  <2> QED BY <1>a, <2>3 DEF Logger
<1> HIDE DEF l, s, n, p, o, d, b, x, f
<1>c. /\ c.op # "level" => LevelNext(w, c) = l
      /\ c.op \notin {"on", "off", "to"} => SinksNext(w, c) = s
      /\ c.op # "to" => NameNext(w, c) = n /\ DirsNext(w, c) = d
      /\ c.op \notin {"nolog", "rm"} => NologNext(w, c) = x
  <2>1. c.op # "level" => LevelNext(w, c) = l BY DEF LevelNext, l
  <2>2. c.op \notin {"on", "off", "to"} => SinksNext(w, c) = s BY DEF SinksNext, s
  <2>3. c.op # "to" => NameNext(w, c) = n BY DEF NameNext, n
  <2>4. c.op # "to" => DirsNext(w, c) = d BY DEF DirsNext, d
  <2>5. c.op \notin {"nolog", "rm"} => NologNext(w, c) = x BY DEF NologNext, x
  <2> QED BY <2>1, <2>2, <2>3, <2>4, <2>5
<1>d. ASSUME ~Writes(w, c) /\ \A sink : ~Speaks(w, c, sink)
      PROVE  PrintedNext(w, i, c) = p /\ (c.op # "clear" => OnlineNext(w, i, c) = o) /\ FilesNext(w, i, c) = f
  <2>1. PrintedNext(w, i, c) = p BY <1>d DEF PrintedNext, p
  <2>2. c.op # "clear" => OnlineNext(w, i, c) = o BY <1>d DEF OnlineNext, o
  <2>3. FilesNext(w, i, c) = f BY <1>d DEF FilesNext, f
  <2> QED BY <2>1, <2>2, <2>3
<1>e. c.op # "log" => PrintedNext(w, i, c) = p /\ (c.op # "clear" => OnlineNext(w, i, c) = o) /\ FilesNext(w, i, c) = f
  <2>1. c.op # "log" => ~Writes(w, c) /\ \A sink : ~Speaks(w, c, sink) BY DEF Writes, Speaks
  <2> QED BY <2>1, <1>d
<1>f. w.blocked = b /\ w.level = l /\ w.sinks = s /\ w.name = n /\ w.printed = p /\ w.vOnlineLog = o /\ w.dirs = d
      /\ w.nolog = x /\ w.files = f BY DEF l, s, n, p, o, d, b, x, f
<1>1. CASE c \in [op : {"log", "level"}, level : Int]
  <2>1. CASE c.op = "log"
    <3> DEFINE p1 == IF "stdout" \in s THEN Append(p, i) ELSE p
               f1 == IF Writes(w, c) THEN LineAdded(f, n, i) ELSE f
               o1 == IF "online" \in s THEN Append(o, i) ELSE o
               a0 == Logger(l, s, n, p, o, d, b, x, f)
               a1 == Logger(l, s, n, p1, o, d, b, x, f)
               a2 == Logger(l, s, n, p1, o, d, b, x, f1)
    <3>0. c.level \in Int BY <1>1
    <3>1. CASE w.level < c.level
      <4>1. v = w BY <2>1, <3>1 DEF Code!LogCall, Code!DoLog
      <4>2. ~(c.level <= w.level) BY <3>0, <3>1, <1>0 DEF l
      <4>3. ~Writes(w, c) /\ \A sink : ~Speaks(w, c, sink) BY <4>2 DEF Writes, Speaks
      <4> HIDE DEF v
      <4>4. PrintedNext(w, i, c) = p /\ OnlineNext(w, i, c) = o /\ FilesNext(w, i, c) = f
        BY <4>3, <1>d, <2>1
      <4>5. LevelNext(w, c) = l /\ SinksNext(w, c) = s /\ NameNext(w, c) = n /\ DirsNext(w, c) = d /\ NologNext(w, c) = x
        BY <1>c, <2>1
      <4> QED BY <4>1, <4>4, <4>5, <1>f DEF OneLogCall
    <3>2. CASE ~(w.level < c.level)
      <4>1. c.level <= w.level BY <3>0, <3>2, <1>0 DEF l
      <4>2. p1 \in Seq(Nat) /\ o1 \in Seq(Nat) /\ f1 \in Filing BY <1>0, FilesMore
      <4>3. Code!LogToStdout(w, i) = a1
        <5>1. \A e : [a0 EXCEPT !.printed = e] = Logger(l, s, n, e, o, d, b, x, f) BY DEF Logger
        <5>2. a0.sinks = s /\ a0.printed = p BY DEF Logger
        <5> HIDE DEF a0
        <5>3. Code!LogToStdout(a0, i) = IF "stdout" \in s THEN [a0 EXCEPT !.printed = Append(p, i)] ELSE a0
          BY <5>2 DEF Code!LogToStdout
        <5>4. Code!LogToStdout(a0, i) = a1 BY <5>1, <5>3 DEF a0
        <5> QED BY <5>4, <1>0 DEF a0
      <4>4. Code!LogToFile(a1, i) = a2
        <5>1. a1.name = n /\ a1.sinks = s /\ a1.nolog = x /\ a1.dirs = d /\ a1.files = f BY DEF Logger
        <5>2. \A e : [a1 EXCEPT !.files = e] = Logger(l, s, n, p1, o, d, b, x, e) BY DEF Logger
        <5>3. Writes(w, c) <=> /\ "file" \in s /\ n \notin x /\ n # <<>> /\ Code!Dir(n) \in d
          BY <2>1, <4>1 DEF Writes, Speaks, s, n, x, d
        <5> HIDE DEF a1
        <5>4. Code!LogToFile(a1, i) = IF Writes(w, c) THEN [a1 EXCEPT !.files = LineAdded(f, n, i)] ELSE a1
          BY <5>1, <5>3 DEF Code!LogToFile, LineAdded, Code!Exists, Code!Unset
        <5> QED BY <5>2, <5>4 DEF a1
      <4>5. Code!LogOnline(a2, i) = Logger(l, s, n, p1, o1, d, b, x, f1)
        <5>1. a2.sinks = s /\ a2.vOnlineLog = o BY DEF Logger
        <5>2. \A e : [a2 EXCEPT !.vOnlineLog = e] = Logger(l, s, n, p1, e, d, b, x, f1) BY DEF Logger
        <5> HIDE DEF a2
        <5>3. Code!LogOnline(a2, i) = IF "online" \in s THEN [a2 EXCEPT !.vOnlineLog = Append(o, i)] ELSE a2
          BY <5>1 DEF Code!LogOnline
        <5> QED BY <5>2, <5>3 DEF a2
      <4>6. v = Logger(l, s, n, p1, o1, d, b, x, f1)
        BY <2>1, <3>2, <4>3, <4>4, <4>5 DEF Code!LogCall, Code!DoLog
      <4> HIDE DEF p1, f1, o1, v
      <4>7. /\ v \in Logs /\ v.level = l /\ v.sinks = s /\ v.name = n /\ v.printed = p1 /\ v.vOnlineLog = o1
            /\ v.dirs = d /\ v.blocked = b /\ v.nolog = x /\ v.files = f1 BY <1>0, <1>a, <4>2, <4>6
      <4>8. \A sink : Speaks(w, c, sink) <=> sink \in s BY <2>1, <4>1 DEF Speaks, s
      <4>9. PrintedNext(w, i, c) = p1 BY <4>8 DEF PrintedNext, p1, p, s
      <4>10. OnlineNext(w, i, c) = o1 BY <4>8, <2>1 DEF OnlineNext, o1, o, s
      <4>11. FilesNext(w, i, c) = f1 BY DEF FilesNext, f1, f, n
      <4>12. LevelNext(w, c) = l /\ SinksNext(w, c) = s /\ NameNext(w, c) = n /\ DirsNext(w, c) = d /\ NologNext(w, c) = x
        BY <1>c, <2>1
      <4> QED BY <4>7, <4>9, <4>10, <4>11, <4>12, <1>f DEF OneLogCall
    <3> QED BY <3>1, <3>2
  <2>2. CASE c.op = "level"
    <3>1. v = [w EXCEPT !.level = c.level] BY <2>2 DEF Code!LogCall, Code!SetLogLevel
    <3>2. c.level \in Int BY <1>1
    <3> HIDE DEF v
    <3>3. v = Logger(c.level, s, n, p, o, d, b, x, f)
      <4>1. [Logger(l, s, n, p, o, d, b, x, f) EXCEPT !.level = c.level] = Logger(c.level, s, n, p, o, d, b, x, f)
        BY DEF Logger
      <4>2. v = [Logger(l, s, n, p, o, d, b, x, f) EXCEPT !.level = c.level] BY <3>1, <1>0, Zenon
      <4> QED BY <4>1, <4>2
    <3>4. /\ v \in Logs /\ v.level = c.level /\ v.sinks = s /\ v.name = n /\ v.printed = p /\ v.vOnlineLog = o
          /\ v.dirs = d /\ v.blocked = b /\ v.nolog = x /\ v.files = f BY <1>0, <1>a, <3>2, <3>3
    <3>5. LevelNext(w, c) = c.level BY <2>2 DEF LevelNext
    <3>6. /\ SinksNext(w, c) = s /\ NameNext(w, c) = n /\ DirsNext(w, c) = d /\ NologNext(w, c) = x
          /\ PrintedNext(w, i, c) = p /\ OnlineNext(w, i, c) = o /\ FilesNext(w, i, c) = f
      BY <1>c, <1>e, <2>2
    <3> QED BY <3>4, <3>5, <3>6, <1>f DEF OneLogCall
  <2> QED BY <1>1, <2>1, <2>2
<1>2. CASE c \in [op : {"on", "off"}, sink : {"stdout", "file", "online"}]
  <2>1. c.sink \in Sinks BY <1>2 DEF Sinks
  <2> DEFINE s1 == IF c.op = "on" THEN s \union {c.sink} ELSE s \ {c.sink}
  <2>2. c.op \in {"on", "off"} /\ s1 \in SUBSET Sinks BY <1>2, <2>1, <1>0
  <2>3. v = [w EXCEPT !.sinks = s1] BY <2>2 DEF Code!LogCall, Code!SetSwitch, s
  <2> HIDE DEF v
  <2>4. v = Logger(l, s1, n, p, o, d, b, x, f)
    <3>1. [Logger(l, s, n, p, o, d, b, x, f) EXCEPT !.sinks = s1] = Logger(l, s1, n, p, o, d, b, x, f)
      BY DEF Logger
    <3>2. v = [Logger(l, s, n, p, o, d, b, x, f) EXCEPT !.sinks = s1] BY <2>3, <1>0, Zenon
    <3> QED BY <3>1, <3>2
  <2>5. /\ v \in Logs /\ v.level = l /\ v.sinks = s1 /\ v.name = n /\ v.printed = p /\ v.vOnlineLog = o
        /\ v.dirs = d /\ v.blocked = b /\ v.nolog = x /\ v.files = f
    <3> HIDE DEF s1
    <3> QED BY <1>0, <1>a, <2>2, <2>4
  <2>6. SinksNext(w, c) = s1 BY <2>2 DEF SinksNext, s
  <2>7. /\ LevelNext(w, c) = l /\ NameNext(w, c) = n /\ DirsNext(w, c) = d /\ NologNext(w, c) = x
        /\ PrintedNext(w, i, c) = p /\ OnlineNext(w, i, c) = o /\ FilesNext(w, i, c) = f
    BY <1>c, <1>e, <2>2
  <2> HIDE DEF s1
  <2> QED BY <2>5, <2>6, <2>7, <1>f DEF OneLogCall
<1>3. CASE c \in [op : {"to", "nolog", "rm"}, name : Seq(Atom) \ {<<>>}]
  <2>1. c.name \in Seq(Atom) /\ c.name # <<>> /\ c.op \in {"to", "nolog", "rm"} BY <1>3
  <2>2. CASE c.op = "to"
    <3> DEFINE s1 == (s \union {"file"}) \ {"stdout"}
               d1 == IF c.name \in DOMAIN f THEN d ELSE Code!MakeSubDir(d, b, c.name)
    <3>1. v = [w EXCEPT !.name = c.name, !.sinks = s1, !.dirs = d1]
      BY <2>2 DEF Code!LogCall, Code!SetLogFile, Code!Exists, s, d, b, f
    <3>2. s1 \in SUBSET Sinks /\ d1 \in SUBSET Seq(Atom)
      <4>1. Code!MakeSubDir(d, b, c.name) \in SUBSET Seq(Atom) BY <2>1, <1>0, DirsMore
      <4> QED BY <4>1, <1>0 DEF Sinks
    <3> HIDE DEF v, s1, d1
    <3>3. v = Logger(l, s1, c.name, p, o, d1, b, x, f)
      <4>1. [Logger(l, s, n, p, o, d, b, x, f) EXCEPT !.name = c.name] = Logger(l, s, c.name, p, o, d, b, x, f)
        BY DEF Logger
      <4>2. [Logger(l, s, c.name, p, o, d, b, x, f) EXCEPT !.sinks = s1] = Logger(l, s1, c.name, p, o, d, b, x, f)
        BY DEF Logger
      <4>3. [Logger(l, s1, c.name, p, o, d, b, x, f) EXCEPT !.dirs = d1] = Logger(l, s1, c.name, p, o, d1, b, x, f)
        BY DEF Logger
      <4>4. v = [[[Logger(l, s, n, p, o, d, b, x, f) EXCEPT !.name = c.name] EXCEPT !.sinks = s1] EXCEPT !.dirs = d1]
        <5>1. [w EXCEPT !.name = c.name, !.sinks = s1, !.dirs = d1] = [[[w EXCEPT !.name = c.name] EXCEPT !.sinks = s1] EXCEPT !.dirs = d1]
          OBVIOUS
        <5>2. v = [[[w EXCEPT !.name = c.name] EXCEPT !.sinks = s1] EXCEPT !.dirs = d1]
          BY <3>1, <5>1, Zenon
        <5> QED BY <5>2, <1>0, Zenon
      <4> QED BY <4>1, <4>2, <4>3, <4>4, Zenon
    <3>4. /\ v \in Logs /\ v.level = l /\ v.sinks = s1 /\ v.name = c.name /\ v.printed = p
          /\ v.vOnlineLog = o /\ v.dirs = d1 /\ v.blocked = b /\ v.nolog = x /\ v.files = f
      BY <1>0, <1>a, <3>2, <3>3, <2>1
    <3>5. SinksNext(w, c) = s1 BY <2>2 DEF SinksNext, s1, s
    <3>6. NameNext(w, c) = c.name BY <2>2 DEF NameNext
    <3>7. DirsNext(w, c) = d1 BY <2>2 DEF DirsNext, d1, d, b, f
    <3>8. /\ LevelNext(w, c) = l /\ NologNext(w, c) = x
          /\ PrintedNext(w, i, c) = p /\ OnlineNext(w, i, c) = o /\ FilesNext(w, i, c) = f
      BY <1>c, <1>e, <2>2
    <3> QED BY <3>4, <3>5, <3>6, <3>7, <3>8, <1>f DEF OneLogCall
  <2>3. CASE c.op \in {"nolog", "rm"}
    <3> DEFINE x1 == IF c.op = "nolog" THEN x \union {c.name} ELSE x \ {c.name}
    <3>1. v = [w EXCEPT !.nolog = x1] BY <2>3 DEF Code!LogCall, x
    <3>2. x1 \in SUBSET Seq(Atom) BY <1>0, <2>1
    <3> HIDE DEF v
    <3>3. v = Logger(l, s, n, p, o, d, b, x1, f)
      <4>1. [Logger(l, s, n, p, o, d, b, x, f) EXCEPT !.nolog = x1] = Logger(l, s, n, p, o, d, b, x1, f)
        BY DEF Logger
      <4>2. v = [Logger(l, s, n, p, o, d, b, x, f) EXCEPT !.nolog = x1] BY <3>1, <1>0, Zenon
      <4> QED BY <4>1, <4>2
    <3>4. /\ v \in Logs /\ v.level = l /\ v.sinks = s /\ v.name = n /\ v.printed = p /\ v.vOnlineLog = o
          /\ v.dirs = d /\ v.blocked = b /\ v.nolog = x1 /\ v.files = f
      <4> HIDE DEF x1
      <4> QED BY <1>0, <1>a, <3>2, <3>3
    <3>5. NologNext(w, c) = x1 BY <2>3 DEF NologNext, x
    <3>6. /\ LevelNext(w, c) = l /\ SinksNext(w, c) = s /\ NameNext(w, c) = n /\ DirsNext(w, c) = d
          /\ PrintedNext(w, i, c) = p /\ OnlineNext(w, i, c) = o /\ FilesNext(w, i, c) = f
      BY <1>c, <1>e, <2>3
    <3> HIDE DEF x1
    <3> QED BY <3>4, <3>5, <3>6, <1>f DEF OneLogCall
  <2> QED BY <2>1, <2>2, <2>3
<1>4. CASE c \in [op : {"clear"}]
  <2>1. c.op = "clear" /\ v = [w EXCEPT !.vOnlineLog = <<>>]
    BY <1>4 DEF Code!LogCall, Code!ClearOnlineLog
  <2> HIDE DEF v
  <2>2. v = Logger(l, s, n, p, <<>>, d, b, x, f)
    <3>1. [Logger(l, s, n, p, o, d, b, x, f) EXCEPT !.vOnlineLog = <<>>] = Logger(l, s, n, p, <<>>, d, b, x, f)
      BY DEF Logger
    <3>2. v = [Logger(l, s, n, p, o, d, b, x, f) EXCEPT !.vOnlineLog = <<>>] BY <2>1, <1>0, Zenon
    <3> QED BY <3>1, <3>2
  <2>3. /\ v \in Logs /\ v.level = l /\ v.sinks = s /\ v.name = n /\ v.printed = p /\ v.vOnlineLog = <<>>
        /\ v.dirs = d /\ v.blocked = b /\ v.nolog = x /\ v.files = f
    <3>1. <<>> \in Seq(Nat) OBVIOUS
    <3> QED BY <1>0, <1>a, <2>2, <3>1
  <2>4. OnlineNext(w, i, c) = <<>> BY <2>1 DEF OnlineNext
  <2>5. /\ LevelNext(w, c) = l /\ SinksNext(w, c) = s /\ NameNext(w, c) = n /\ DirsNext(w, c) = d
        /\ NologNext(w, c) = x /\ PrintedNext(w, i, c) = p /\ FilesNext(w, i, c) = f BY <1>c, <1>e, <2>1
  <2> QED BY <2>3, <2>4, <2>5, <1>f DEF OneLogCall
<1> QED BY <1>1, <1>2, <1>3, <1>4 DEF LogCalls

\* The states of a program that logs, call after call
LogRuns(prog, blocked, w) ==
  /\ w \in [0 .. Len(prog) -> Logs] /\ w[0] = Code!CLog(blocked)
  /\ \A k \in 1 .. Len(prog) : OneLogCall(w[k - 1], k, prog[k], w[k])

\* The logger after each call of a program, one after the other, is that of Run.
LEMMA RunOfLog ==
  ASSUME NEW prog \in Seq(LogCalls), NEW blocked \in SUBSET Seq(Atom)
  PROVE  \E w : LogRuns(prog, blocked, w) /\ Code!Run(prog, blocked) = w[Len(prog)]
<1> DEFINE n == Len(prog)
           base == Code!CLog(blocked)
           st == [k \in 1 .. n |-> [w \in Logs |-> Code!LogCall(w, k, prog[k])]]
<1>0. n \in Nat /\ \A k \in 1 .. n : prog[k] \in LogCalls /\ k \in Nat OBVIOUS
<1>1. base \in Logs
  <2>2. <<>> \in Filing
    <3>1. <<>> \in [{} -> Seq(Nat)] OBVIOUS
    <3> QED BY <3>1 DEF Filing
  <2> QED BY <2>2 DEF Code!CLog, Code!Msg, Code!Unset, Logs, Sinks
<1> HIDE DEF base, n
<1>2. \A k \in 1 .. n : \A w \in Logs : Code!LogCall(w, k, prog[k]) \in Logs /\ OneLogCall(w, k, prog[k], Code!LogCall(w, k, prog[k]))
  BY <1>0, LogCallGives
<1>3. Steps(n, Logs, base, st)
  <2> HIDE DEF Logs
  <2> QED BY <1>0, <1>1, <1>2 DEF Steps
<1>4. PICK g : Iterates(n, Logs, base, st, g) BY <1>3, Iteration
<1> DEFINE F(h) == h = [k \in 0 .. n |-> IF k = 0 THEN base ELSE Code!LogCall(h[k - 1], k, prog[k])]
           h == CHOOSE h : F(h)
<1>5. F(g)
  <2>1. g \in [0 .. n -> Logs] /\ g[0] = base /\ \A k \in 1 .. n : g[k] = st[k][g[k - 1]]
    BY <1>4 DEF Iterates
  <2>2. \A k \in 1 .. n : g[k] = Code!LogCall(g[k - 1], k, prog[k])
    <3> TAKE k \in 1 .. n
    <3>1. g[k - 1] \in Logs BY <2>1, <1>0
    <3> HIDE DEF Logs
    <3> QED BY <3>1, <2>1
  <2>3. \A k \in 0 .. n : g[k] = IF k = 0 THEN base ELSE Code!LogCall(g[k - 1], k, prog[k])
    BY <2>1, <2>2, <1>0
  <2>4. g = [k \in 0 .. n |-> g[k]] BY <2>1
  <2> QED BY <2>3, <2>4
<1>6. F(h) BY <1>5
<1>7. Code!Run(prog, blocked) = h[n] BY DEF Code!Run, base, n
<1> HIDE DEF h
<1>8. h[0] = base /\ \A k \in 1 .. n : h[k] = Code!LogCall(h[k - 1], k, prog[k]) BY <1>6, <1>0
<1>9. \A k \in 0 .. n : h[k] \in Logs
  <2> DEFINE T == {k \in 0 .. n : h[k] \in Logs}
  <2>1. ASSUME NEW k \in 0 .. n, \A j \in 0 .. k - 1 : j \in T PROVE k \in T
    <3>1. CASE k = 0 BY <3>1, <1>1, <1>8
    <3>2. CASE k # 0
      <4>1. k \in 1 .. n /\ h[k - 1] \in Logs BY <2>1, <3>2, <1>0
      <4> HIDE DEF Logs
      <4> QED BY <4>1, <1>8, <1>2
    <3> QED BY <3>1, <3>2
  <2>2. GrowsUp(0, n, T) BY <2>1, <1>0 DEF GrowsUp
  <2>3. 0 .. n \subseteq T BY <2>2, Upwards
  <2> QED BY <2>3
<1>10. \A k \in 1 .. n : OneLogCall(h[k - 1], k, prog[k], h[k])
  <2> TAKE k \in 1 .. n
  <2>1. h[k - 1] \in Logs BY <1>9, <1>0
  <2> HIDE DEF Logs
  <2> QED BY <2>1, <1>8, <1>2
<1>11. h \in [0 .. n -> Logs]
  <2> HIDE DEF Logs
  <2> QED BY <1>6, <1>9
<1>12. LogRuns(prog, blocked, h) BY <1>8, <1>10, <1>11 DEF LogRuns, base, n
<1> QED BY <1>7, <1>12 DEF n

------------------------
\* The last call of a set before a place, with one more place.
LEMMA LastMore ==
  ASSUME NEW S, NEW k \in Nat \ {0}
  PROVE  /\ Code!LastBefore(S, 1) = 0
         /\ Code!LastBefore(S, k) \in 0 .. k - 1
         /\ Code!LastBefore(S, k + 1) = IF k \in S THEN k ELSE Code!LastBefore(S, k)
<1>1. \A j \in Nat : Code!LastBefore(S, j + 1) = Latest(S, j)
  <2> TAKE j \in Nat
  <2>1. (j + 1) - 1 = j OBVIOUS
  <2> QED BY <2>1 DEF Code!LastBefore, Latest
<1>2. k - 1 \in Nat /\ (k - 1) + 1 = k /\ 0 + 1 = 1 OBVIOUS
<1>3. Latest(S, 0) = 0 /\ Latest(S, k - 1) \in 0 .. k - 1 BY <1>2, LatestMore
<1>4. Latest(S, (k - 1) + 1) = IF (k - 1) + 1 \in S THEN (k - 1) + 1 ELSE Latest(S, k - 1)
  BY <1>2, LatestMore
<1>5. Code!LastBefore(S, 1) = Latest(S, 0) /\ Code!LastBefore(S, k) = Latest(S, k - 1) /\ Code!LastBefore(S, k + 1) = Latest(S, k)
  BY <1>1, <1>2
<1> QED BY <1>2, <1>3, <1>4, <1>5

\* Members of CallsOf
LEMMA OfOps ==
  ASSUME NEW prog \in Seq(LogCalls), NEW ops, NEW k \in 1 .. Len(prog)
  PROVE  k \in Code!CallsOf(prog, ops) <=> prog[k].op \in ops BY DEF Code!CallsOf

\* What the calls have said of the level and of the name, with one more call.
LEMMA LevelMore ==
  ASSUME NEW prog \in Seq(LogCalls), NEW k \in 1 .. Len(prog)
  PROVE  /\ Code!LevelAt(prog, 1) = Code!Msg
         /\ Code!LevelAt(prog, k + 1) = IF prog[k].op = "level" THEN prog[k].level ELSE Code!LevelAt(prog, k)
<1> DEFINE S == Code!CallsOf(prog, {"level"})
<1>1. k \in S <=> prog[k].op = "level" BY OfOps
<1>2. k \in Nat \ {0} OBVIOUS
<1> HIDE DEF S
<1>3. Code!LastBefore(S, 1) = 0 /\ Code!LastBefore(S, k + 1) = IF k \in S THEN k ELSE Code!LastBefore(S, k)
  BY <1>2, LastMore
<1> QED BY <1>1, <1>2, <1>3 DEF Code!LevelAt, S

\* The name of the file is that of the last SetLogFile.
LEMMA NameMore ==
  ASSUME NEW prog \in Seq(LogCalls), NEW k \in 1 .. Len(prog)
  PROVE  /\ Code!NameAt(prog, 1) = <<>>
         /\ Code!NameAt(prog, k + 1) = IF prog[k].op = "to" THEN prog[k].name ELSE Code!NameAt(prog, k)
<1> DEFINE S == Code!CallsOf(prog, {"to"})
<1>1. k \in S <=> prog[k].op = "to" BY OfOps
<1>2. k \in Nat \ {0} OBVIOUS
<1> HIDE DEF S
<1>3. Code!LastBefore(S, 1) = 0 /\ Code!LastBefore(S, k + 1) = IF k \in S THEN k ELSE Code!LastBefore(S, k)
  BY <1>2, LastMore
<1> QED BY <1>1, <1>2, <1>3 DEF Code!NameAt, Code!Unset, S

\* A call about a sink turns it on or off; others leave it.
AboutSink(c, sink) == (c.op \in {"on", "off"} /\ c.sink = sink) \/ (c.op = "to" /\ sink # "online")
TurnsOn(c, sink) == c.op = "on" \/ (c.op = "to" /\ sink = "file")

\* A sink is on or off as the last call about it said.
LEMMA OnMore ==
  ASSUME NEW prog \in Seq(LogCalls), NEW k \in 1 .. Len(prog), NEW sink
  PROVE  /\ Code!OnAt(prog, sink, 1) <=> sink = "stdout"
         /\ Code!OnAt(prog, sink, k + 1) <=> IF AboutSink(prog[k], sink) THEN TurnsOn(prog[k], sink)
                                              ELSE Code!OnAt(prog, sink, k)
<1> DEFINE S == {j \in Code!CallsOf(prog, {"on", "off"}) : prog[j].sink = sink}
                \union (IF sink = "online" THEN {} ELSE Code!CallsOf(prog, {"to"}))
           a == Code!LastBefore(S, 1)
           b == Code!LastBefore(S, k)
           c == Code!LastBefore(S, k + 1)
           On(j) == IF j = 0 THEN sink = "stdout" ELSE TurnsOn(prog[j], sink)
<1>1. k \in S <=> AboutSink(prog[k], sink)
  <2>1. k \in Code!CallsOf(prog, {"on", "off"}) <=> prog[k].op \in {"on", "off"} BY OfOps
  <2>2. k \in Code!CallsOf(prog, {"to"}) <=> prog[k].op \in {"to"} BY OfOps
  <2> QED BY <2>1, <2>2 DEF AboutSink
<1>2. k \in Nat \ {0} OBVIOUS
<1>3. (Code!OnAt(prog, sink, 1) <=> On(a)) /\ (Code!OnAt(prog, sink, k) <=> On(b)) /\ (Code!OnAt(prog, sink, k + 1) <=> On(c))
  BY DEF Code!OnAt, TurnsOn
<1> HIDE DEF S
<1>4. a = 0 /\ c = IF k \in S THEN k ELSE b BY <1>2, LastMore
<1> HIDE DEF a, b, c
<1>5. On(a) <=> sink = "stdout" BY <1>4
<1>6. On(c) <=> IF k \in S THEN TurnsOn(prog[k], sink) ELSE On(b) BY <1>4, <1>2
<1> HIDE DEF On
<1> QED BY <1>1, <1>3, <1>5, <1>6

\* A name is switched off by the last call that is about its switch.
LEMMA OffMore ==
  ASSUME NEW prog \in Seq(LogCalls), NEW k \in 1 .. Len(prog), NEW name
  PROVE  /\ ~Code!OffAt(prog, name, 1)
         /\ Code!OffAt(prog, name, k + 1) <=> IF prog[k].op \in {"nolog", "rm"} /\ prog[k].name = name
                                               THEN prog[k].op = "nolog" ELSE Code!OffAt(prog, name, k)
<1> DEFINE S == {j \in Code!CallsOf(prog, {"nolog", "rm"}) : prog[j].name = name}
           a == Code!LastBefore(S, 1)
           b == Code!LastBefore(S, k)
           c == Code!LastBefore(S, k + 1)
           Off(j) == j # 0 /\ prog[j].op = "nolog"
<1>1. k \in S <=> prog[k].op \in {"nolog", "rm"} /\ prog[k].name = name
  <2>1. k \in Code!CallsOf(prog, {"nolog", "rm"}) <=> prog[k].op \in {"nolog", "rm"} BY OfOps
  <2> QED BY <2>1
<1>2. k \in Nat \ {0} OBVIOUS
<1>3. (Code!OffAt(prog, name, 1) <=> Off(a)) /\ (Code!OffAt(prog, name, k) <=> Off(b)) /\ (Code!OffAt(prog, name, k + 1) <=> Off(c))
  BY DEF Code!OffAt
<1> HIDE DEF S
<1>4. a = 0 /\ c = IF k \in S THEN k ELSE b BY <1>2, LastMore
<1> HIDE DEF a, b, c
<1>5. ~Off(a) BY <1>4
<1>6. Off(c) <=> IF k \in S THEN prog[k].op = "nolog" ELSE Off(b) BY <1>4, <1>2
<1> HIDE DEF Off
<1> QED BY <1>1, <1>3, <1>5, <1>6

------------------------
\* What the calls up to k have configured
ConfiguredAt(prog, blocked, w, k) ==
  /\ w.level = Code!LevelAt(prog, k + 1) /\ w.name = Code!NameAt(prog, k + 1) /\ w.blocked = blocked
  /\ \A sink \in Sinks : sink \in w.sinks <=> Code!OnAt(prog, sink, k + 1)
  /\ \A name : name \in w.nolog <=> Code!OffAt(prog, name, k + 1)

\* A call leaves the logger configured as the calls up to it said.
LEMMA ConfiguredMore ==
  ASSUME NEW prog \in Seq(LogCalls), NEW blocked, NEW k \in 1 .. Len(prog), NEW w \in Logs, NEW v,
         ConfiguredAt(prog, blocked, w, k - 1), OneLogCall(w, k, prog[k], v)
  PROVE  ConfiguredAt(prog, blocked, v, k)
<1>1. (k - 1) + 1 = k OBVIOUS
<1>2. v.level = Code!LevelAt(prog, k + 1) BY <1>1, LevelMore DEF ConfiguredAt, OneLogCall, LevelNext
<1>3. v.name = Code!NameAt(prog, k + 1) BY <1>1, NameMore DEF ConfiguredAt, OneLogCall, NameNext
<1>4. v.blocked = blocked BY DEF ConfiguredAt, OneLogCall
<1>5. ASSUME NEW sink \in Sinks PROVE sink \in v.sinks <=> Code!OnAt(prog, sink, k + 1)
  <2> DEFINE c == prog[k]
  <2>1. sink \in w.sinks <=> Code!OnAt(prog, sink, k) BY <1>1 DEF ConfiguredAt
  <2>2. Code!OnAt(prog, sink, k + 1) <=> IF AboutSink(c, sink) THEN TurnsOn(c, sink) ELSE Code!OnAt(prog, sink, k)
    BY OnMore
  <2>3. v.sinks = SinksNext(w, c) BY DEF OneLogCall
  <2>4. sink \in SinksNext(w, c) <=> IF AboutSink(c, sink) THEN TurnsOn(c, sink) ELSE sink \in w.sinks
    <3>1. CASE c.op = "on" BY <3>1 DEF SinksNext, AboutSink, TurnsOn
    <3>2. CASE c.op = "off" BY <3>2 DEF SinksNext, AboutSink, TurnsOn
    <3>3. CASE c.op = "to" BY <3>3 DEF SinksNext, AboutSink, TurnsOn, Sinks
    <3>4. CASE c.op \notin {"on", "off", "to"} BY <3>4 DEF SinksNext, AboutSink
    <3> QED BY <3>1, <3>2, <3>3, <3>4
  <2> HIDE DEF c
  <2> QED BY <2>1, <2>2, <2>3, <2>4
<1>6. ASSUME NEW name PROVE name \in v.nolog <=> Code!OffAt(prog, name, k + 1)
  <2>1. name \in w.nolog <=> Code!OffAt(prog, name, k) BY <1>1 DEF ConfiguredAt
  <2> QED BY <2>1, OffMore DEF OneLogCall, NologNext
<1> QED BY <1>2, <1>3, <1>4, <1>5, <1>6 DEF ConfiguredAt

------------------------
\* The directory of the file can be there unless a file is in the way.
LEMMA HinderedDir ==
  ASSUME NEW name \in Seq(Atom), name # <<>>, NEW blocked
  PROVE  Code!Dir(name) \in Seq(Atom) /\ (Code!Hindered(name, blocked) <=> ~Passable(Code!Dir(name), blocked))
<1> DEFINE m == Len(name) - 1
<1>1. m \in Nat /\ m \in 0 .. Len(name) /\ Code!Dir(name) = SubSeq(name, 1, m)
  BY DEF Code!Dir, Code!Front
<1>2. /\ SubSeq(name, 1, m) \in Seq(Atom) /\ Len(SubSeq(name, 1, m)) = m
      /\ \A i \in 0 .. m : SubSeq(SubSeq(name, 1, m), 1, i) = SubSeq(name, 1, i) BY <1>1, Beginning
<1>3. Passable(Code!Dir(name), blocked) <=> \A i \in 1 .. m : SubSeq(name, 1, i) \notin blocked
  <2> HIDE DEF m
  <2>1. \A i \in 1 .. m : i \in 0 .. m BY <1>1
  <2> DEFINE d == Code!Dir(name)
  <2>2. Len(d) = m /\ \A i \in 1 .. m : SubSeq(d, 1, i) = SubSeq(name, 1, i) BY <1>1, <1>2, <2>1
  <2> QED BY <2>2 DEF Passable
<1> QED BY <1>1, <1>2, <1>3 DEF Code!Hindered

\* The directories of the file in use and of all files there are, as far as
\* they can be.
DirsHold(blocked, w) ==
  /\ Reachable(w.dirs, blocked)
  /\ w.name # <<>> /\ Passable(Code!Dir(w.name), blocked) => Code!Dir(w.name) \in w.dirs
  /\ \A x \in DOMAIN w.files : Code!Dir(x) \in w.dirs

\* A call leaves the directories there: that of the file in use, when nothing is in
\* its way, and those of the files.
LEMMA DirsHoldMore ==
  ASSUME NEW blocked, NEW i, NEW w \in Logs, w.blocked = blocked, NEW c \in LogCalls, NEW v,
         DirsHold(blocked, w), OneLogCall(w, i, c, v)
  PROVE  DirsHold(blocked, v)
<1>1. v.dirs = DirsNext(w, c) /\ v.name = NameNext(w, c) /\ v.files = FilesNext(w, i, c)
  BY DEF OneLogCall
<1>2. /\ Reachable(w.dirs, blocked) /\ (w.name # <<>> /\ Passable(Code!Dir(w.name), blocked) => Code!Dir(w.name) \in w.dirs)
      /\ \A x \in DOMAIN w.files : Code!Dir(x) \in w.dirs BY DEF DirsHold
<1>3. \A x \in DOMAIN v.files : Code!Dir(x) \in w.dirs
  <2>1. CASE Writes(w, c)
    <3>1. v.files = LineAdded(w.files, w.name, i) BY <1>1, <2>1 DEF FilesNext
    <3>2. DOMAIN v.files = DOMAIN w.files \union {w.name} BY <3>1 DEF LineAdded
    <3>3. Code!Dir(w.name) \in w.dirs BY <2>1 DEF Writes
    <3> QED BY <3>2, <3>3, <1>2
  <2>2. CASE ~Writes(w, c)
    <3>1. v.files = w.files BY <1>1, <2>2 DEF FilesNext
    <3> QED BY <3>1, <1>2
  <2> QED BY <2>1, <2>2
<1>4. CASE c.op # "to"
  <2>1. v.dirs = w.dirs /\ v.name = w.name BY <1>1, <1>4 DEF DirsNext, NameNext
  <2> QED BY <2>1, <1>2, <1>3 DEF DirsHold
<1>5. CASE c.op = "to"
  <2>1. c.name \in Seq(Atom) /\ c.name # <<>> BY <1>5 DEF LogCalls
  <2>2. v.name = c.name BY <1>1, <1>5 DEF NameNext
  <2>3. CASE c.name \in DOMAIN w.files
    <3>1. v.dirs = w.dirs /\ Code!Dir(c.name) \in w.dirs BY <1>1, <1>2, <2>3 DEF DirsNext
    <3> QED BY <3>1, <2>2, <1>2, <1>3 DEF DirsHold
  <2>4. CASE c.name \notin DOMAIN w.files
    <3>1. v.dirs = Code!MakeSubDir(w.dirs, blocked, c.name) BY <1>1, <1>5, <2>4 DEF DirsNext
    <3>2. Reachable(v.dirs, blocked) /\ w.dirs \subseteq v.dirs /\ (Passable(Code!Dir(c.name), blocked) => Code!Dir(c.name) \in v.dirs)
      BY <3>1, <2>1, <1>2, DirectoriesMade
    <3> QED BY <3>2, <2>2, <1>3 DEF DirsHold
  <2> QED BY <2>3, <2>4
<1> QED BY <1>4, <1>5

------------------------
\* The call at k has a line for a sink.
LEMMA SpeaksAt ==
  ASSUME NEW prog \in Seq(LogCalls), NEW blocked, NEW k \in 1 .. Len(prog), NEW w, NEW sink \in Sinks,
         ConfiguredAt(prog, blocked, w, k - 1)
  PROVE  Speaks(w, prog[k], sink) <=> k \in Code!Logged(prog) /\ Code!OnAt(prog, sink, k)
<1>1. (k - 1) + 1 = k OBVIOUS
<1>2. w.level = Code!LevelAt(prog, k) /\ (sink \in w.sinks <=> Code!OnAt(prog, sink, k))
  BY <1>1 DEF ConfiguredAt
<1>3. k \in Code!CallsOf(prog, {"log"}) <=> prog[k].op \in {"log"} BY OfOps
<1> QED BY <1>2, <1>3 DEF Speaks, Code!Logged

\* ... and for a file.
LEMMA WritesAt ==
  ASSUME NEW prog \in Seq(LogCalls), NEW blocked, NEW k \in 1 .. Len(prog), NEW w \in Logs, NEW name \in Seq(Atom),
         ConfiguredAt(prog, blocked, w, k - 1), DirsHold(blocked, w)
  PROVE  k \in Code!Filed(prog, blocked, name) <=> Writes(w, prog[k]) /\ w.name = name
<1>1. (k - 1) + 1 = k OBVIOUS
<1>2. w.name = Code!NameAt(prog, k) /\ (name \in w.nolog <=> Code!OffAt(prog, name, k))
  BY <1>1 DEF ConfiguredAt
<1>3. Speaks(w, prog[k], "file") <=> k \in Code!Logged(prog) /\ Code!OnAt(prog, "file", k)
  <2>1. "file" \in Sinks BY DEF Sinks
  <2> QED BY <2>1, SpeaksAt
<1>4. k \in Code!Filed(prog, blocked, name) <=>
        /\ k \in Code!Logged(prog) /\ Code!OnAt(prog, "file", k) /\ Code!NameAt(prog, k) = name
        /\ name # <<>> /\ ~Code!OffAt(prog, name, k) /\ ~Code!Hindered(name, blocked)
  BY DEF Code!Filed, Code!Unset
<1>5. w.name = name /\ name # <<>> => (Code!Dir(name) \in w.dirs <=> ~Code!Hindered(name, blocked))
  <2> SUFFICES ASSUME w.name = name, name # <<>>
               PROVE  Code!Dir(name) \in w.dirs <=> ~Code!Hindered(name, blocked) OBVIOUS
  <2>1. Code!Hindered(name, blocked) <=> ~Passable(Code!Dir(name), blocked) BY HinderedDir
  <2>2. Code!Dir(name) \in w.dirs => Passable(Code!Dir(name), blocked) BY DEF DirsHold, Reachable
  <2>3. Passable(Code!Dir(name), blocked) => Code!Dir(name) \in w.dirs BY DEF DirsHold
  <2> QED BY <2>1, <2>2, <2>3
<1> QED BY <1>2, <1>3, <1>4, <1>5 DEF Writes

------------------------
\* The members of a set up to k
Through(S, k) == {i \in S : i <= k}

\* The elements of a set of calls up to one call are those before it, and it.
LEMMA ThroughMore ==
  ASSUME NEW n \in Nat, NEW S \in SUBSET (1 .. n), NEW k \in 1 .. n
  PROVE  /\ Through(S, 0) = {} /\ Through(S, n) = S
         /\ Through(S, k) = IF k \in S THEN Through(S, k - 1) \union {k} ELSE Through(S, k - 1)
         /\ \A i \in Through(S, k - 1) : i < k
<1>0. \A i \in S : i \in 1 .. n /\ ~(i <= 0) /\ i <= n OBVIOUS
<1>1. Through(S, 0) = {} /\ Through(S, n) = S /\ \A i \in Through(S, k - 1) : i < k
  <2>1. Through(S, 0) = {} BY <1>0 DEF Through
  <2>2. Through(S, n) = S BY <1>0 DEF Through
  <2>3. \A i \in Through(S, k - 1) : i < k BY <1>0 DEF Through
  <2> QED BY <2>1, <2>2, <2>3
<1>2. \A i \in S : i <= k <=> i <= k - 1 \/ i = k OBVIOUS
<1>3. Through(S, k) = IF k \in S THEN Through(S, k - 1) \union {k} ELSE Through(S, k - 1)
  <2>1. CASE k \in S BY <1>2, <2>1 DEF Through
  <2>2. CASE k \notin S BY <1>2, <2>2 DEF Through
  <2> QED BY <2>1, <2>2
<1> QED BY <1>1, <1>3

\* A line more at the end of a list in order.
LEMMA InOrderMore ==
  ASSUME NEW list \in Seq(Nat), NEW S, NEW k \in Nat, Code!InOrder(list, S), \A i \in S : i < k
  PROVE  Code!InOrder(Append(list, k), S \union {k})
<1> DEFINE m == Len(list)
           more == Append(list, k)
<1>1. m \in Nat /\ DOMAIN list = 1 .. m /\ DOMAIN more = 1 .. m + 1 /\ more[m + 1] = k /\ \A i \in 1 .. m : more[i] = list[i]
  OBVIOUS
<1> HIDE DEF more, m
<1>2. S = {list[i] : i \in 1 .. m} /\ \A i, j \in 1 .. m : i < j => list[i] < list[j]
  BY <1>1 DEF Code!InOrder, Code!ToSet
<1>3. {more[i] : i \in 1 .. m + 1} = S \union {k}
  <2>1. \A i \in 1 .. m + 1 : i = m + 1 \/ i \in 1 .. m BY <1>1
  <2>2. m + 1 \in 1 .. m + 1 /\ \A i \in 1 .. m : i \in 1 .. m + 1 BY <1>1
  <2> QED BY <2>1, <2>2, <1>1, <1>2
<1>4. ASSUME NEW i \in 1 .. m + 1, NEW j \in 1 .. m + 1, i < j PROVE more[i] < more[j]
  <2>1. i \in 1 .. m BY <1>1, <1>4
  <2>2. CASE j = m + 1
    <3>1. more[i] \in S /\ more[j] = k BY <2>1, <2>2, <1>1, <1>2
    <3> QED BY <3>1
  <2>3. CASE j # m + 1
    <3>1. j \in 1 .. m BY <2>3, <1>1
    <3> QED BY <2>1, <3>1, <1>1, <1>2, <1>4
  <2> QED BY <2>2, <2>3
<1>5. Code!InOrder(more, S \union {k}) BY <1>1, <1>3, <1>4 DEF Code!InOrder, Code!ToSet
<1> QED BY <1>5 DEF more

------------------------
\* A sink has the lines of S that came up to k.
HasLines(list, S, k) == Code!InOrder(list, Through(S, k))

\* The lines for the vector that no clear call took
KeptOnline(prog, k) ==
  {i \in Code!Logged(prog) : /\ i <= k /\ Code!OnAt(prog, "online", i)
                              /\ \A j \in Code!CallsOf(prog, {"clear"}) : j <= k => j < i}

LinesHold(prog, blocked, w, k) ==
  /\ HasLines(w.printed, Code!Printed(prog), k)
  /\ Code!InOrder(w.vOnlineLog, KeptOnline(prog, k))
  /\ DOMAIN w.files = {name \in Seq(Atom) : Through(Code!Filed(prog, blocked, name), k) # {}}
  /\ \A name \in DOMAIN w.files : HasLines(w.files[name], Code!Filed(prog, blocked, name), k)

\* One more place by itself
LEMMA ThroughOne ==
  ASSUME NEW n \in Nat, NEW S \in SUBSET (1 .. n), NEW k \in 1 .. n
  PROVE  Through(S, k) = IF k \in S THEN Through(S, k - 1) \union {k} ELSE Through(S, k - 1)
<1>1. n \in Nat /\ S \in SUBSET (1 .. n) /\ k \in 1 .. n OBVIOUS
<1> QED  BY ONLY <1>1, ThroughMore, SMT

\* One more call for a sink that has a line of it or not.
LEMMA HasMore ==
  ASSUME NEW n \in Nat, NEW S \in SUBSET (1 .. n), NEW k \in 1 .. n, NEW list \in Seq(Nat), HasLines(list, S, k - 1)
  PROVE  /\ k \in S => HasLines(Append(list, k), S, k)
         /\ k \notin S => HasLines(list, S, k)
<1>1. /\ Through(S, k) = IF k \in S THEN Through(S, k - 1) \union {k} ELSE Through(S, k - 1)
      /\ \A i \in Through(S, k - 1) : i < k
  <2>1. Through(S, k) = IF k \in S THEN Through(S, k - 1) \union {k} ELSE Through(S, k - 1)
    BY ThroughMore
  <2>2. \A i \in Through(S, k - 1) : i < k BY ThroughMore
  <2> QED BY <2>1, <2>2
<1>2. Code!InOrder(list, Through(S, k - 1)) /\ k \in Nat BY DEF HasLines
<1>3. Code!InOrder(Append(list, k), Through(S, k - 1) \union {k})
  <2> DEFINE T == Through(S, k - 1)
  <2>1. Code!InOrder(list, T) /\ \A i \in T : i < k BY <1>1, <1>2
  <2> HIDE DEF T
  <2>2. Code!InOrder(Append(list, k), T \union {k}) BY <2>1, <1>2, InOrderMore
  <2> QED BY <2>2 DEF T
<1> QED BY <1>1, <1>2, <1>3 DEF HasLines

\* The numbers of the lines are numbers of calls.
LEMMA LinesAreCalls ==
  ASSUME NEW prog \in Seq(LogCalls)
  PROVE  /\ Code!Logged(prog) \in SUBSET (1 .. Len(prog)) /\ Code!Printed(prog) \in SUBSET (1 .. Len(prog))
         /\ \A blocked, name : Code!Filed(prog, blocked, name) \in SUBSET (1 .. Len(prog))
<1>1. Code!Logged(prog) \in SUBSET (1 .. Len(prog)) BY DEF Code!Logged, Code!CallsOf
<1> QED BY <1>1 DEF Code!Printed, Code!Filed

\* The lines on stdout, one call further.
LEMMA PrintedMore ==
  ASSUME NEW prog \in Seq(LogCalls), NEW blocked, NEW k \in 1 .. Len(prog), NEW w \in Logs, NEW v,
         ConfiguredAt(prog, blocked, w, k - 1), OneLogCall(w, k, prog[k], v),
         HasLines(w.printed, Code!Printed(prog), k - 1)
  PROVE  HasLines(v.printed, Code!Printed(prog), k)
<1> DEFINE S == Code!Printed(prog)
<1>1. S \in SUBSET (1 .. Len(prog)) /\ Len(prog) \in Nat /\ w.printed \in Seq(Nat)
  BY LinesAreCalls, LoggerFields
<1>2. Speaks(w, prog[k], "stdout") <=> k \in S
  <2>1. "stdout" \in Sinks BY DEF Sinks
  <2>2. Speaks(w, prog[k], "stdout") <=> k \in Code!Logged(prog) /\ Code!OnAt(prog, "stdout", k)
    BY <2>1, SpeaksAt
  <2> QED BY <2>2 DEF Code!Printed
<1>3. v.printed = IF Speaks(w, prog[k], "stdout") THEN Append(w.printed, k) ELSE w.printed
  BY DEF OneLogCall, PrintedNext
<1> HIDE DEF S
<1>4. HasLines(w.printed, S, k - 1) BY DEF S
<1>5. (k \in S => HasLines(Append(w.printed, k), S, k)) /\ (k \notin S => HasLines(w.printed, S, k))
  BY <1>1, <1>4, HasMore
<1>6. HasLines(v.printed, S, k) BY <1>2, <1>3, <1>5
<1> QED BY <1>6 DEF S

\* The lines in the vector, one call further: they start again when it is cleared.
LEMMA OnlineMore ==
  ASSUME NEW prog \in Seq(LogCalls), NEW blocked, NEW k \in 1 .. Len(prog), NEW w \in Logs, NEW v,
         ConfiguredAt(prog, blocked, w, k - 1), OneLogCall(w, k, prog[k], v),
         Code!InOrder(w.vOnlineLog, KeptOnline(prog, k - 1))
  PROVE  Code!InOrder(v.vOnlineLog, KeptOnline(prog, k))
<1> DEFINE K == KeptOnline(prog, k - 1)
           O == {i \in Code!Logged(prog) : Code!OnAt(prog, "online", i)}
           C == Code!CallsOf(prog, {"clear"})
<1>1. Code!Logged(prog) \in SUBSET (1 .. Len(prog)) /\ w.vOnlineLog \in Seq(Nat) /\ k \in Nat
  BY LinesAreCalls, LoggerFields
<1>2. Speaks(w, prog[k], "online") <=> k \in O
  <2>1. "online" \in Sinks BY DEF Sinks
  <2>2. Speaks(w, prog[k], "online") <=> k \in Code!Logged(prog) /\ Code!OnAt(prog, "online", k)
    BY <2>1, SpeaksAt
  <2> QED BY <2>2
<1>3. k \in C <=> prog[k].op = "clear" BY OfOps
<1>4. v.vOnlineLog = IF prog[k].op = "clear" THEN <<>>
                     ELSE IF Speaks(w, prog[k], "online") THEN Append(w.vOnlineLog, k) ELSE w.vOnlineLog
  BY DEF OneLogCall, OnlineNext
<1>5. \A m \in Nat : KeptOnline(prog, m) = {i \in O : i <= m /\ \A j \in C : j <= m => j < i}
  BY DEF KeptOnline
<1>6. O \in SUBSET (1 .. Len(prog)) /\ C \in SUBSET (1 .. Len(prog)) /\ k - 1 \in Nat
  BY <1>1 DEF Code!CallsOf
<1>7. K = {i \in O : i <= k - 1 /\ \A j \in C : j <= k - 1 => j < i} BY <1>5, <1>6
<1>8. KeptOnline(prog, k) = {i \in O : i <= k /\ \A j \in C : j <= k => j < i} BY <1>5, <1>1
<1>9. Speaks(w, prog[k], "online") => prog[k].op # "clear" BY DEF Speaks
<1> HIDE DEF K, O, C
<1>10. \A i \in O : i <= k <=> i <= k - 1 \/ i = k BY <1>6
<1>11. \A j \in C : j <= k <=> j <= k - 1 \/ j = k BY <1>6
<1>12. Code!InOrder(w.vOnlineLog, K) BY DEF K
<1>13. \A i \in K : i < k BY <1>6, <1>7
<1>14. CASE prog[k].op = "clear"
  <2>1. KeptOnline(prog, k) = {}
    <3>1. k \in C /\ k <= k BY <1>3, <1>14
    <3>2. \A i \in O : ~(i <= k /\ k < i) BY <1>6
    <3> QED BY <1>8, <3>1, <3>2
  <2>2. Code!InOrder(<<>>, {}) BY DEF Code!InOrder, Code!ToSet
  <2> QED BY <2>1, <2>2, <1>4, <1>14
<1>15. CASE prog[k].op # "clear"
  <2>1. k \notin C BY <1>3, <1>15
  <2>2. \A j \in C : j <= k <=> j <= k - 1 BY <2>1, <1>11
  <2>3. KeptOnline(prog, k) = {i \in O : i <= k /\ \A j \in C : j <= k - 1 => j < i} BY <1>8, <2>2
  <2>4. CASE k \in O
    <3>1. \A j \in C : j <= k - 1 => j < k BY <1>6
    <3>2. KeptOnline(prog, k) = K \union {k} BY <2>3, <2>4, <3>1, <1>7, <1>10
    <3>3. Code!InOrder(Append(w.vOnlineLog, k), K \union {k}) BY <1>1, <1>12, <1>13, InOrderMore
    <3> QED BY <3>2, <3>3, <1>2, <1>4, <1>15, <2>4
  <2>5. CASE k \notin O
    <3>1. KeptOnline(prog, k) = K BY <2>3, <2>5, <1>7, <1>10
    <3> QED BY <3>1, <1>2, <1>4, <1>12, <1>15, <2>5
  <2> QED BY <2>4, <2>5
<1> QED BY <1>14, <1>15

\* The lines of each file, one call further: a file is there once it has a line.
LEMMA FiledMore ==
  ASSUME NEW prog \in Seq(LogCalls), NEW blocked, NEW k \in 1 .. Len(prog), NEW w \in Logs, NEW v,
         ConfiguredAt(prog, blocked, w, k - 1), DirsHold(blocked, w), OneLogCall(w, k, prog[k], v),
         DOMAIN w.files = {name \in Seq(Atom) : Through(Code!Filed(prog, blocked, name), k - 1) # {}},
         \A name \in DOMAIN w.files : HasLines(w.files[name], Code!Filed(prog, blocked, name), k - 1)
  PROVE  /\ DOMAIN v.files = {name \in Seq(Atom) : Through(Code!Filed(prog, blocked, name), k) # {}}
         /\ \A name \in DOMAIN v.files : HasLines(v.files[name], Code!Filed(prog, blocked, name), k)
<1> DEFINE F(name) == Code!Filed(prog, blocked, name)
           n == Len(prog)
<1>0. \A m \in Nat : \A S \in SUBSET (1 .. m) : \A j \in 1 .. m :
        Through(S, j) = IF j \in S THEN Through(S, j - 1) \union {j} ELSE Through(S, j - 1)
  BY ThroughOne
<1>1. n \in Nat /\ k \in 1 .. n /\ w.name \in Seq(Atom) /\ \A name : F(name) \in SUBSET (1 .. n)
  BY LinesAreCalls, LoggerFields
<1>2. \A name \in Seq(Atom) : k \in F(name) <=> Writes(w, prog[k]) /\ w.name = name BY WritesAt
<1>3. v.files = IF Writes(w, prog[k]) THEN LineAdded(w.files, w.name, k) ELSE w.files
  BY DEF OneLogCall, FilesNext
<1>4. \A name \in DOMAIN w.files : name \in Seq(Atom) /\ w.files[name] \in Seq(Nat)
  <2>1. w.files \in Filing BY LoggerFields
  <2>2. PICK D \in SUBSET Seq(Atom) : w.files \in [D -> Seq(Nat)] BY <2>1 DEF Filing
  <2> QED BY <2>2
<1> HIDE DEF F, n
<1>5. \A name : Through(F(name), k) = IF k \in F(name) THEN Through(F(name), k - 1) \union {k} ELSE Through(F(name), k - 1)
  <2>1. ASSUME NEW S \in SUBSET (1 .. n)
        PROVE  Through(S, k) = IF k \in S THEN Through(S, k - 1) \union {k} ELSE Through(S, k - 1)
    BY <1>0, <1>1
  <2> QED BY <2>1, <1>1
<1>6. /\ DOMAIN w.files = {name \in Seq(Atom) : Through(F(name), k - 1) # {}}
      /\ \A name \in DOMAIN w.files : HasLines(w.files[name], F(name), k - 1) BY DEF F
<1>7. \A name \in DOMAIN w.files : /\ k \in F(name) => HasLines(Append(w.files[name], k), F(name), k)
                                   /\ k \notin F(name) => HasLines(w.files[name], F(name), k)
  BY <1>1, <1>4, <1>6, HasMore
<1>8. CASE ~Writes(w, prog[k])
  <2>1. v.files = w.files /\ \A name \in Seq(Atom) : k \notin F(name) /\ Through(F(name), k) = Through(F(name), k - 1)
    BY <1>2, <1>3, <1>5, <1>8
  <2>2. DOMAIN v.files = {name \in Seq(Atom) : Through(F(name), k) # {}} BY <2>1, <1>6
  <2>3. \A name \in DOMAIN v.files : HasLines(v.files[name], F(name), k) BY <2>1, <1>4, <1>7
  <2> QED BY <2>2, <2>3 DEF F
<1>9. CASE Writes(w, prog[k])
  <2> DEFINE x == w.name
  <2>1. v.files = LineAdded(w.files, x, k) /\ k \in F(x) /\ x \in Seq(Atom) BY <1>1, <1>2, <1>3, <1>9
  <2>2. \A name \in Seq(Atom) : name # x => k \notin F(name) /\ Through(F(name), k) = Through(F(name), k - 1)
    BY <1>2, <1>5
  <2>3. Through(F(x), k) = Through(F(x), k - 1) \union {k} BY <2>1, <1>5
  <2> HIDE DEF x
  <2>4. DOMAIN v.files = DOMAIN w.files \union {x} BY <2>1 DEF LineAdded
  <2>5. DOMAIN v.files = {name \in Seq(Atom) : Through(F(name), k) # {}} BY <2>1, <2>2, <2>3, <2>4, <1>6
  <2>6. ASSUME NEW name \in DOMAIN v.files PROVE HasLines(v.files[name], F(name), k)
    <3>1. CASE name # x
      <4>1. v.files[name] = w.files[name] /\ name \in DOMAIN w.files
        BY <2>1, <2>4, <2>6, <3>1 DEF LineAdded
      <4> QED BY <4>1, <3>1, <2>2, <1>4, <1>7
    <3>2. CASE name = x /\ x \in DOMAIN w.files
      <4>1. v.files[name] = Append(w.files[x], k) BY <2>1, <2>4, <2>6, <3>2 DEF LineAdded
      <4> QED BY <4>1, <3>2, <2>1, <1>7
    <3>3. CASE name = x /\ x \notin DOMAIN w.files
      <4>1. v.files[name] = Append(<<>>, k) BY <2>1, <2>4, <2>6, <3>3 DEF LineAdded
      <4>2. Through(F(x), k - 1) = {} BY <2>1, <3>3, <1>6
      <4>3. HasLines(<<>>, F(x), k - 1) BY <4>2 DEF HasLines, Code!InOrder, Code!ToSet
      <4>4. <<>> \in Seq(Nat) OBVIOUS
      <4>5. HasLines(Append(<<>>, k), F(x), k) BY <4>3, <4>4, <2>1, <1>1, HasMore
      <4> QED BY <4>1, <4>5, <3>3
    <3> QED BY <3>1, <3>2, <3>3
  <2> QED BY <2>5, <2>6 DEF F
<1> QED BY <1>8, <1>9

------------------------
\* What holds after k calls: the inductive invariant of a program that logs.
LogHolds(prog, blocked, w, k) ==
  ConfiguredAt(prog, blocked, w, k) /\ DirsHold(blocked, w) /\ LinesHold(prog, blocked, w, k)

\* A new logger is configured as no call, and has no lines.
LEMMA LogStarts ==
  ASSUME NEW prog \in Seq(LogCalls), NEW blocked \in SUBSET Seq(Atom)
  PROVE  LogHolds(prog, blocked, Code!CLog(blocked), 0)
<1> DEFINE w == Code!CLog(blocked)
<1>1. /\ w.level = Code!Msg /\ w.sinks = {"stdout"} /\ w.name = <<>> /\ w.printed = <<>> /\ w.vOnlineLog = <<>>
      /\ w.dirs = {<<>>} /\ w.blocked = blocked /\ w.nolog = {} /\ w.files = <<>>
  BY DEF Code!CLog, Code!Unset
<1> HIDE DEF w
<1>2. \A S : Code!LastBefore(S, 1) = 0
  <2>1. 1 \in Nat \ {0} OBVIOUS
  <2> QED BY <2>1, LastMore
<1>3. ConfiguredAt(prog, blocked, w, 0)
  <2>1. Code!LevelAt(prog, 1) = Code!Msg BY <1>2 DEF Code!LevelAt
  <2>2. Code!NameAt(prog, 1) = <<>> BY <1>2 DEF Code!NameAt, Code!Unset
  <2>3. \A sink : Code!OnAt(prog, sink, 1) <=> sink = "stdout" BY <1>2 DEF Code!OnAt
  <2>4. \A name : ~Code!OffAt(prog, name, 1) BY <1>2 DEF Code!OffAt
  <2>5. 0 + 1 = 1 OBVIOUS
  <2> QED BY <1>1, <2>1, <2>2, <2>3, <2>4, <2>5 DEF ConfiguredAt
<1>4. DirsHold(blocked, w)
  <2>1. Passable(<<>>, blocked) /\ <<>> \in Seq(Atom) /\ DOMAIN w.files = {} BY <1>1 DEF Passable
  <2> QED BY <1>1, <2>1 DEF DirsHold, Reachable
<1>5. LinesHold(prog, blocked, w, 0)
  <2> DEFINE n == Len(prog)
  <2>1. ASSUME NEW S \in SUBSET (1 .. n) PROVE Through(S, 0) = {}
    <3>1. \A i \in S : ~(i <= 0) OBVIOUS
    <3> QED BY <3>1 DEF Through
  <2>2. Code!InOrder(<<>>, {}) BY DEF Code!InOrder, Code!ToSet
  <2>3. Through(Code!Printed(prog), 0) = {} /\ \A name : Through(Code!Filed(prog, blocked, name), 0) = {}
    BY <2>1, LinesAreCalls
  <2>4. KeptOnline(prog, 0) = {}
    <3>1. \A i \in Code!Logged(prog) : ~(i <= 0) BY LinesAreCalls
    <3> QED BY <3>1 DEF KeptOnline
  <2>5. DOMAIN w.files = {} BY <1>1
  <2>6. HasLines(w.printed, Code!Printed(prog), 0) BY <1>1, <2>2, <2>3 DEF HasLines
  <2> QED BY <1>1, <2>2, <2>3, <2>4, <2>5, <2>6 DEF LinesHold
<1> QED BY <1>3, <1>4, <1>5 DEF LogHolds, w

\* The inductive invariant of a program: after each of its calls the logger is
\* configured, has its directories and the lines so far.
LEMMA LogsHold ==
  ASSUME NEW prog \in Seq(LogCalls), NEW blocked \in SUBSET Seq(Atom), NEW w, LogRuns(prog, blocked, w)
  PROVE  \A k \in 0 .. Len(prog) : LogHolds(prog, blocked, w[k], k)
<1> DEFINE n == Len(prog)
           T == {k \in 0 .. n : LogHolds(prog, blocked, w[k], k)}
<1>1. n \in Nat /\ n = Len(prog) /\ \A k \in 1 .. n : prog[k] \in LogCalls OBVIOUS
<1>2. /\ \A k \in 0 .. n : w[k] \in Logs
      /\ w[0] = Code!CLog(blocked) /\ \A k \in 1 .. n : OneLogCall(w[k - 1], k, prog[k], w[k])
  <2> HIDE DEF Logs
  <2> QED BY DEF LogRuns
<1> HIDE DEF n
<1>3. ASSUME NEW k \in 0 .. n, \A j \in 0 .. k - 1 : j \in T PROVE k \in T
  <2>1. CASE k = 0 BY <2>1, <1>2, LogStarts
  <2>2. CASE k # 0
    <3> DEFINE u == w[k - 1]
               v == w[k]
    <3>1. k \in 1 .. n /\ k - 1 \in 0 .. n /\ k - 1 \in T BY <1>1, <1>3, <2>2
    <3>2. LogHolds(prog, blocked, u, k - 1) /\ u \in Logs /\ OneLogCall(u, k, prog[k], v) BY <3>1, <1>2
    <3> HIDE DEF u, v
    <3>3. ConfiguredAt(prog, blocked, u, k - 1) /\ DirsHold(blocked, u) /\ LinesHold(prog, blocked, u, k - 1)
      BY <3>2 DEF LogHolds
    <3>4. k \in 1 .. Len(prog) /\ prog[k] \in LogCalls BY <3>1, <1>1
    <3>5. ConfiguredAt(prog, blocked, v, k) BY <3>2, <3>3, <3>4, ConfiguredMore
    <3>6. u.blocked = blocked BY <3>3 DEF ConfiguredAt
    <3>7. DirsHold(blocked, v) BY <3>2, <3>3, <3>4, <3>6, DirsHoldMore
    <3>8. LinesHold(prog, blocked, v, k)
      <4>1. HasLines(v.printed, Code!Printed(prog), k)
        <5>1. HasLines(u.printed, Code!Printed(prog), k - 1) BY <3>3 DEF LinesHold
        <5> QED BY <5>1, <3>2, <3>3, <3>4, PrintedMore
      <4>2. Code!InOrder(v.vOnlineLog, KeptOnline(prog, k))
        <5>1. Code!InOrder(u.vOnlineLog, KeptOnline(prog, k - 1)) BY <3>3 DEF LinesHold
        <5> QED BY <5>1, <3>2, <3>3, <3>4, OnlineMore
      <4>3. /\ DOMAIN v.files = {name \in Seq(Atom) : Through(Code!Filed(prog, blocked, name), k) # {}}
            /\ \A name \in DOMAIN v.files : HasLines(v.files[name], Code!Filed(prog, blocked, name), k)
        <5>1. /\ DOMAIN u.files = {name \in Seq(Atom) : Through(Code!Filed(prog, blocked, name), k - 1) # {}}
              /\ \A name \in DOMAIN u.files : HasLines(u.files[name], Code!Filed(prog, blocked, name), k - 1)
          BY <3>3 DEF LinesHold
        <5> QED BY <5>1, <3>2, <3>3, <3>4, FiledMore
      <4> QED BY <4>1, <4>2, <4>3 DEF LinesHold
    <3>9. LogHolds(prog, blocked, w[k], k) BY <3>5, <3>7, <3>8 DEF LogHolds, v
    <3> QED BY <3>9
  <2> QED BY <2>1, <2>2
<1>4. GrowsUp(0, n, T)
  <2> HIDE DEF T
  <2> QED BY <1>1, <1>3 DEF GrowsUp
<1>5. 0 .. n \subseteq T BY <1>4, Upwards
<1> QED BY <1>1, <1>5

\* Every line of a program goes to the sinks that are on when it is logged, and
\* to no other, whatever fails in one of them (log.h).
THEOREM SinksHaveTheirLines ==
  \A prog \in Seq(LogCalls), blocked \in SUBSET Seq(Atom) : Code!EachSinkHasItsLines(prog, blocked)
<1> SUFFICES ASSUME NEW prog \in Seq(LogCalls), NEW blocked \in SUBSET Seq(Atom)
             PROVE  Code!EachSinkHasItsLines(prog, blocked) OBVIOUS
<1> DEFINE n == Len(prog)
           end == Code!Run(prog, blocked)
<1>1. PICK w : LogRuns(prog, blocked, w) /\ end = w[n] BY RunOfLog
<1>2. \A k \in 0 .. n : LogHolds(prog, blocked, w[k], k) BY <1>1, LogsHold
<1>3. n \in Nat /\ n \in 0 .. n /\ DOMAIN prog = 1 .. n OBVIOUS
<1>4. LinesHold(prog, blocked, end, n) BY <1>1, <1>2, <1>3 DEF LogHolds
<1>5. \A i \in DOMAIN prog : Code!NameAt(prog, i) \in Seq(Atom)
  <2> TAKE i \in DOMAIN prog
  <2>1. i - 1 \in 0 .. n /\ (i - 1) + 1 = i BY <1>3
  <2>2. w[i - 1].name = Code!NameAt(prog, i) BY <2>1, <1>2 DEF LogHolds, ConfiguredAt
  <2>3. w[i - 1] \in Logs
    <3> HIDE DEF Logs
    <3> QED BY <2>1, <1>1 DEF LogRuns
  <2> QED BY <2>2, <2>3, LoggerFields
<1> HIDE DEF end
<1>6. \A S \in SUBSET (1 .. n) : Through(S, n) = S
  <2> TAKE S \in SUBSET (1 .. n)
  <2>1. \A i \in S : i <= n BY <1>3
  <2> QED BY <2>1 DEF Through
<1>7. Code!InOrder(end.printed, Code!Printed(prog))
  <2>1. Through(Code!Printed(prog), n) = Code!Printed(prog) BY <1>6, LinesAreCalls
  <2> QED BY <2>1, <1>4 DEF LinesHold, HasLines
<1>8. Code!InOrder(end.vOnlineLog, Code!Online(prog))
  <2>1. (\A i \in Code!Logged(prog) : i <= n) /\ \A j \in Code!CallsOf(prog, {"clear"}) : j <= n
    BY <1>3, LinesAreCalls DEF Code!CallsOf
  <2>2. KeptOnline(prog, n) = Code!Online(prog) BY <2>1 DEF KeptOnline, Code!Online
  <2> QED BY <2>2, <1>4 DEF LinesHold
<1>9. ASSUME NEW name \in {Code!NameAt(prog, i) : i \in DOMAIN prog}
      PROVE  LET lines == Code!Filed(prog, blocked, name)
             IN IF lines = {} THEN ~Code!Exists(end, name)
                ELSE Code!Exists(end, name) /\ Code!InOrder(end.files[name], lines)
  <2> DEFINE lines == Code!Filed(prog, blocked, name)
  <2>1. name \in Seq(Atom) BY <1>5
  <2>2. Through(lines, n) = lines BY <1>6, LinesAreCalls
  <2>3. (name \in DOMAIN end.files <=> Through(lines, n) # {}) /\ (name \in DOMAIN end.files => HasLines(end.files[name], lines, n))
    BY <2>1, <1>4 DEF LinesHold
  <2> HIDE DEF lines
  <2>4. IF lines = {} THEN ~Code!Exists(end, name) ELSE Code!Exists(end, name) /\ Code!InOrder(end.files[name], lines)
    BY <2>2, <2>3 DEF Code!Exists, HasLines
  <2> QED BY <2>4 DEF lines
<1> QED BY <1>7, <1>8, <1>9 DEF Code!EachSinkHasItsLines, end

\* A path that begins with '.' or '/' loses its directories, any other keeps
\* them (log.h).
THEOREM SourcesAreNamed ==
  \A path \in Seq(Atom) : path # <<>> /\ path[Len(path)] # "/" => Code!SourceIsNamed(path)
<1> SUFFICES ASSUME NEW path \in Seq(Atom), path # <<>>, path[Len(path)] # "/" PROVE Code!SourceIsNamed(path)
  OBVIOUS
<1> DEFINE n == Len(path)
           slashes == {i \in DOMAIN path : path[i] = "/"}
           short == Code!GetFileName(path)
           cut == SubSeq(path, 1, n - Len(short))
<1>1. n \in Nat /\ n >= 1 /\ DOMAIN path = 1 .. n /\ path[n] # "/" OBVIOUS
<1>4. Code!SourceIsNamed(path) <=>
        /\ path = cut \o short
        /\ IF path[1] \in {".", "..", "/"}
             THEN "/" \notin Code!ToSet(short) /\ (cut = <<>> \/ Code!Last(cut) = "/") ELSE cut = <<>>
  BY DEF Code!SourceIsNamed
<1>2. CASE path[1] \in {".", "..", "/"} /\ slashes # {}
  <2> DEFINE m == Code!Max(slashes)
  <2>1. short = SubSeq(path, m + 1, n) BY <1>2 DEF Code!GetFileName
  <2>2. m \in 1 .. n /\ m \in slashes /\ \A k \in slashes : k <= m BY <1>1, <1>2, GreatestPlace
  <2> HIDE DEF m, short
  <2>3. m + 1 \in 1 .. n /\ path[m] = "/" BY <1>1, <2>2
  <2>4. Len(short) = n - m /\ DOMAIN short = 1 .. n - m /\ \A i \in 1 .. n - m : short[i] = path[m + i]
    <3>1. n - (m + 1) + 1 = n - m /\ \A i \in 1 .. n - m : (m + 1) + i - 1 = m + i BY <2>2, <1>1
    <3>2. short \in Seq(Atom) /\ Len(short) = n - (m + 1) + 1
          /\ \A i \in 1 .. n - (m + 1) + 1 : short[i] = path[(m + 1) + i - 1]
      BY <1>1, <2>1, <2>2, <2>3, Piece
    <3> QED BY <3>1, <3>2
  <2>5. "/" \notin Code!ToSet(short)
    <3>1. ASSUME NEW i \in DOMAIN short PROVE short[i] # "/"
      <4>1. i \in 1 .. n - m /\ m + i \in 1 .. n /\ m + i > m BY <2>1, <2>2, <2>3, <2>4, <1>1
      <4>2. m + i \notin slashes BY <4>1, <2>2
      <4> QED BY <4>1, <4>2, <2>4, <1>1
    <3> QED BY <3>1 DEF Code!ToSet
  <2>6. cut = SubSeq(path, 1, m)
    <3>1. n - (n - m) = m BY <1>1, <2>2
    <3> QED BY <2>4, <3>1
  <2> HIDE DEF cut
  <2>7. cut \o short = path
    <3>1. SubSeq(path, 1, m) \o SubSeq(path, m + 1, n) = SubSeq(path, 1, n) BY <1>1, <2>2, Neighbours
    <3>2. SubSeq(path, 1, n) = path OBVIOUS
    <3> QED BY <2>1, <2>6, <3>1, <3>2
  <2>8. Code!Last(cut) = "/"
    <3>1. m \in Nat /\ m <= n BY <1>1, <2>2
    <3>2. Len(SubSeq(path, 1, m)) = m /\ SubSeq(path, 1, m)[m] = path[m] BY <3>1, <2>2
    <3> QED BY <2>3, <2>6, <3>2 DEF Code!Last
  <2> QED BY <1>2, <1>4, <2>5, <2>7, <2>8
<1>3. CASE ~(path[1] \in {".", "..", "/"} /\ slashes # {})
  <2>1. short = path BY <1>3 DEF Code!GetFileName
  <2>2. cut = <<>> /\ cut \o short = path
    <3> HIDE DEF short
    <3>1. SubSeq(path, 1, n - n) = <<>> /\ <<>> \o path = path OBVIOUS
    <3> QED BY <2>1, <3>1
  <2>3. path[1] \in {".", "..", "/"} => "/" \notin Code!ToSet(path) BY <1>3 DEF Code!ToSet
  <2> HIDE DEF short, cut
  <2> QED BY <1>4, <2>1, <2>2, <2>3
<1> QED BY <1>2, <1>3

------------------------
(***************************************************************************)
(* DbResult.  A table has rows of the same number of columns.              *)
(***************************************************************************)
Table(rows, cols) ==
  rows \in Seq(Seq(Atom)) /\ cols \in Nat \ {0} /\ \A i \in DOMAIN rows : Len(rows[i]) = cols

\* Products, in the form the places need them.
LEMMA OneMoreTimes ==
  ASSUME NEW a \in Int, NEW w \in Int
  PROVE  a * w \in Int /\ (a - 1) * w \in Int /\ (a - 1) * w + w = a * w /\ 0 * w = 0 /\ (0 - 1) * w + w = 0
OBVIOUS

\* A product grows with its factor.
LEMMA TimesMore ==
  ASSUME NEW a \in Int, NEW b \in Int, NEW w \in Nat, a <= b
  PROVE  a * w <= b * w /\ a * w \in Int /\ b * w \in Int
<1>1. PICK d \in Nat : b = a + d
  <2>1. b - a \in Nat /\ b = a + (b - a) OBVIOUS
  <2> QED BY <2>1
<1>2. d * w \in Nat /\ b * w = a * w + d * w BY <1>1
<1>3. a * w \in Int OBVIOUS
<1> QED BY <1>2, <1>3

\* An element has one place.
LEMMA OnePlace ==
  ASSUME NEW w \in Nat, NEW r \in Nat \ {0}, NEW s \in Nat \ {0}, NEW i \in 1 .. w, NEW j \in 1 .. w,
         Code!Place(r, i, w) = Code!Place(s, j, w)
  PROVE  r = s /\ i = j
<1>0. /\ (r - 1) * w \in Int /\ (s - 1) * w \in Int /\ r * w \in Int /\ s * w \in Int
      /\ (r - 1) * w + w = r * w /\ (s - 1) * w + w = s * w BY OneMoreTimes
<1>1. (r - 1) * w + i = (s - 1) * w + j BY DEF Code!Place
<1>2. ASSUME r < s PROVE FALSE
  <2>1. r * w <= (s - 1) * w
    <3>1. r <= s - 1 /\ s - 1 \in Int BY <1>2
    <3> QED BY <3>1, TimesMore
  <2> QED BY <1>0, <1>1, <2>1
<1>3. ASSUME s < r PROVE FALSE
  <2>1. s * w <= (r - 1) * w
    <3>1. s <= r - 1 /\ r - 1 \in Int BY <1>3
    <3> QED BY <3>1, TimesMore
  <2> QED BY <1>0, <1>1, <2>1
<1>4. r = s BY <1>2, <1>3
<1> QED BY <1>0, <1>1, <1>4

Cursors == [row : Seq(Atom), idx : Nat, cols : Nat, rest : Seq(Seq(Atom)), ok : BOOLEAN]

\* What has the fields of a cursor is one.
LEMMA CursorIs ==
  ASSUME NEW row \in Seq(Atom), NEW idx \in Nat, NEW cols \in Nat, NEW rest \in Seq(Seq(Atom)), NEW ok \in BOOLEAN
  PROVE  LET c == Code!DbResult(row, idx, cols, rest, ok)
         IN c \in Cursors /\ c.row = row /\ c.idx = idx /\ c.cols = cols /\ c.rest = rest /\ c.ok = ok
BY DEF Cursors, Code!DbResult

\* The fields of a cursor.
LEMMA CursorFields ==
  ASSUME NEW c \in Cursors
  PROVE  c.row \in Seq(Atom) /\ c.idx \in Nat /\ c.cols \in Nat /\ c.rest \in Seq(Seq(Atom)) /\ c.ok \in BOOLEAN
BY DEF Cursors

\* A cursor behind the first q columns, with r rows fetched
ReadRows(rows, cols, c, q, r) ==
  /\ c \in Cursors /\ c.cols = cols /\ r \in 0 .. Len(rows) /\ c.rest = SubSeq(rows, r + 1, Len(rows))
  /\ c.idx \in 0 .. cols /\ (r = 0 => c.idx = cols) /\ q = (r - 1) * cols + c.idx
  /\ c.idx < cols => c.row = rows[r]
ReadTo(rows, cols, c, q) == \E r \in 0 .. Len(rows) : ReadRows(rows, cols, c, q, r)

\* What is left of a table, with one more row fetched.
LEMMA RestOfTable ==
  ASSUME NEW X, NEW rows \in Seq(X), NEW r \in 0 .. Len(rows)
  PROVE  LET rest == SubSeq(rows, r + 1, Len(rows))
         IN /\ rest \in Seq(X) /\ (rest = <<>> <=> r = Len(rows))
            /\ rest # <<>> => Head(rest) = rows[r + 1] /\ Tail(rest) = SubSeq(rows, r + 2, Len(rows))
<1> DEFINE n == Len(rows)
           rest == SubSeq(rows, r + 1, n)
<1>1. n \in Nat /\ r \in Nat /\ r <= n OBVIOUS
<1>2. rest \in Seq(X) /\ Len(rest) = n - r /\ \A i \in 1 .. n - r : rest[i] = rows[r + i]
  <2>1. r + 1 \in Nat \ {0} /\ r + 1 <= n + 1 /\ n <= Len(rows) BY <1>1
  <2>2. SubSeq(rows, r + 1, n) \in Seq(X) /\ Len(SubSeq(rows, r + 1, n)) = n - (r + 1) + 1
        /\ \A i \in 1 .. n - (r + 1) + 1 : SubSeq(rows, r + 1, n)[i] = rows[(r + 1) + i - 1]
    BY <1>1, <2>1, Piece
  <2>3. n - (r + 1) + 1 = n - r /\ \A i \in 1 .. n - r : (r + 1) + i - 1 = r + i BY <1>1
  <2> HIDE DEF n
  <2>4. \A i \in 1 .. n - r : SubSeq(rows, r + 1, n)[i] = rows[r + i]
    <3> TAKE i \in 1 .. n - r
    <3>1. i \in 1 .. n - (r + 1) + 1 /\ (r + 1) + i - 1 = r + i BY <2>3
    <3> QED BY <2>2, <3>1, Zenon
  <2> QED BY <2>2, <2>3, <2>4 DEF rest
<1>3. rest # <<>> => Tail(rest) = SubSeq(rows, r + 2, n)
  <2> SUFFICES ASSUME rest # <<>> PROVE Tail(rest) = SubSeq(rows, r + 2, n) OBVIOUS
  <2> DEFINE t == SubSeq(rows, r + 2, n)
  <2> HIDE DEF rest
  <2>1. r < n /\ Len(rest) > 0 BY <1>1, <1>2
  <2>2. t \in Seq(X) /\ Len(t) = n - r - 1 /\ \A i \in 1 .. n - r - 1 : t[i] = rows[r + 1 + i]
    <3>1. r + 2 \in Nat \ {0} /\ r + 2 <= n + 1 /\ n <= Len(rows) BY <1>1, <2>1
    <3>2. SubSeq(rows, r + 2, n) \in Seq(X) /\ Len(SubSeq(rows, r + 2, n)) = n - (r + 2) + 1
          /\ \A i \in 1 .. n - (r + 2) + 1 : SubSeq(rows, r + 2, n)[i] = rows[(r + 2) + i - 1]
      BY <1>1, <3>1, Piece
    <3>3. n - (r + 2) + 1 = n - r - 1 /\ \A i \in 1 .. n - r - 1 : (r + 2) + i - 1 = r + 1 + i BY <1>1
    <3> HIDE DEF n
    <3>4. \A i \in 1 .. n - r - 1 : SubSeq(rows, r + 2, n)[i] = rows[r + 1 + i]
      <4> TAKE i \in 1 .. n - r - 1
      <4>1. i \in 1 .. n - (r + 2) + 1 /\ (r + 2) + i - 1 = r + 1 + i BY <3>3
      <4> QED BY <3>2, <4>1, Zenon
    <3> QED BY <3>2, <3>3, <3>4 DEF t
  <2> HIDE DEF t
  <2>3. Tail(rest) \in Seq(X) /\ Len(Tail(rest)) = n - r - 1 /\ \A i \in 1 .. n - r - 1 : Tail(rest)[i] = rest[i + 1]
    BY <1>1, <1>2, <2>1
  <2>4. \A i \in 1 .. n - r - 1 : rest[i + 1] = rows[r + 1 + i]
    <3> TAKE i \in 1 .. n - r - 1
    <3>1. i + 1 \in 1 .. n - r /\ r + (i + 1) = r + 1 + i BY <1>1
    <3> QED BY <3>1, <1>2
  <2>5. Tail(rest) = t BY <2>2, <2>3, <2>4, Same
  <2> QED BY <2>5 DEF t
<1>4. rest # <<>> => Head(rest) = rows[r + 1]
  <2> HIDE DEF rest
  <2> SUFFICES ASSUME rest # <<>> PROVE Head(rest) = rows[r + 1] OBVIOUS
  <2>1. 1 \in 1 .. n - r /\ Head(rest) = rest[1] BY <1>1, <1>2
  <2> QED BY <1>2, <2>1
<1>5. rest = <<>> <=> r = n
  <2> HIDE DEF rest
  <2> QED BY <1>1, <1>2
<1> QED BY <1>2, <1>3, <1>4, <1>5

\* next() stays at its place, and says whether there is a column.
LEMMA NextStays ==
  ASSUME NEW rows, NEW cols, Table(rows, cols), NEW c, NEW q, ReadTo(rows, cols, c, q)
  PROVE  LET d == Code!next(c)
         IN /\ ReadTo(rows, cols, d, q) /\ q \in 0 .. Len(rows) * cols
            /\ d.ok <=> q < Len(rows) * cols
            /\ d.ok => d.idx < cols
<1> DEFINE n == Len(rows)
           d == Code!next(c)
<1>1. rows \in Seq(Seq(Atom)) /\ cols \in Nat \ {0} /\ n \in Nat BY DEF Table
<1>2. PICK r \in 0 .. n : ReadRows(rows, cols, c, q, r) BY DEF ReadTo
<1>3. /\ c \in Cursors /\ c.cols = cols /\ c.rest = SubSeq(rows, r + 1, n)
      /\ c.idx \in 0 .. cols /\ (r = 0 => c.idx = cols) /\ q = (r - 1) * cols + c.idx
      /\ c.idx < cols => c.row = rows[r] BY <1>2 DEF ReadRows
<1>4. /\ r * cols \in Int /\ (r - 1) * cols \in Int /\ (r - 1) * cols + cols = r * cols
      /\ (n - 1) * cols + cols = n * cols /\ n * cols \in Int /\ (n - 1) * cols \in Int
  BY <1>1, OneMoreTimes
<1>5. r * cols <= n * cols /\ (r > 0 => 0 <= (r - 1) * cols)
  <2>1. r * cols <= n * cols
    <3>1. r \in Int /\ n \in Int /\ r <= n /\ cols \in Nat BY <1>1
    <3> HIDE DEF n
    <3> QED BY <3>1, TimesMore
  <2>2. r > 0 => 0 * cols <= (r - 1) * cols /\ 0 * cols = 0
    <3> SUFFICES ASSUME r > 0 PROVE 0 * cols <= (r - 1) * cols /\ 0 * cols = 0 OBVIOUS
    <3>1. 0 \in Int /\ r - 1 \in Int /\ 0 <= r - 1 OBVIOUS
    <3> QED BY <3>1, <1>1, TimesMore, OneMoreTimes
  <2> QED BY <2>1, <2>2
<1>6. q \in 0 .. n * cols
  <2> DEFINE x == (r - 1) * cols
             y == r * cols
             z == n * cols
             e == c.idx
  <2>1. x \in Int /\ y \in Int /\ z \in Int /\ x + cols = y /\ y <= z /\ (r > 0 => 0 <= x) BY <1>4, <1>5
  <2>2. r = 0 => y = 0 BY <1>1, OneMoreTimes
  <2>3. q = x + e /\ e \in 0 .. cols /\ (r = 0 => e = cols) BY <1>3
  <2> HIDE DEF x, y, z, e
  <2>4. q \in 0 .. z BY <1>1, <2>1, <2>2, <2>3
  <2> QED BY <2>4 DEF z
<1>7. c.row \in Seq(Atom) /\ c.idx \in Nat /\ c.rest \in Seq(Seq(Atom)) /\ c.cols \in Nat
  BY <1>3, CursorFields
<1>8. CASE c.idx < cols
  <2>1. d = Code!DbResult(c.row, c.idx, c.cols, c.rest, TRUE) BY <1>3, <1>8 DEF Code!next
  <2>2. d \in Cursors /\ d.row = c.row /\ d.idx = c.idx /\ d.cols = cols /\ d.rest = c.rest /\ d.ok = TRUE
    <3> HIDE DEF d
    <3>1. c.idx \in Nat /\ cols \in Nat /\ TRUE \in BOOLEAN BY <1>1, <1>7
    <3>2. LET x == Code!DbResult(c.row, c.idx, c.cols, c.rest, TRUE)
          IN x \in Cursors /\ x.row = c.row /\ x.idx = c.idx /\ x.cols = c.cols /\ x.rest = c.rest /\ x.ok = TRUE
      BY <1>7, <3>1, CursorIs
    <3> QED BY <1>3, <2>1, <3>2, Zenon
  <2> HIDE DEF d
  <2>3. ReadRows(rows, cols, d, q, r) BY <1>3, <2>2 DEF ReadRows
  <2>4. q < n * cols BY <1>1, <1>3, <1>4, <1>5, <1>8
  <2> QED BY <1>6, <1>8, <2>2, <2>3, <2>4 DEF ReadTo, d
<1>9. CASE ~(c.idx < cols) /\ r = n
  <2>1. c.rest = <<>> BY <1>1, <1>3, <1>9, RestOfTable
  <2>2. d = Code!DbResult(<<>>, c.idx, c.cols, c.rest, FALSE) BY <1>3, <1>9, <2>1 DEF Code!next
  <2>3. d \in Cursors /\ d.idx = c.idx /\ d.cols = cols /\ d.rest = c.rest /\ d.ok = FALSE
    <3> HIDE DEF d
    <3>1. <<>> \in Seq(Atom) OBVIOUS
    <3>2. LET x == Code!DbResult(<<>>, c.idx, c.cols, c.rest, FALSE)
          IN x \in Cursors /\ x.row = <<>> /\ x.idx = c.idx /\ x.cols = c.cols /\ x.rest = c.rest /\ x.ok = FALSE
      <4> DEFINE e == <<>>
      <4> HIDE DEF e
      <4>1. e \in Seq(Atom) /\ FALSE \in BOOLEAN BY <3>1 DEF e
      <4>2. LET x == Code!DbResult(e, c.idx, c.cols, c.rest, FALSE)
            IN x \in Cursors /\ x.row = e /\ x.idx = c.idx /\ x.cols = c.cols /\ x.rest = c.rest /\ x.ok = FALSE
        <5> DEFINE i == c.idx
                   k == c.cols
                   t == c.rest
                   b == FALSE
        <5>1. i \in Nat /\ k \in Nat /\ t \in Seq(Seq(Atom)) /\ b \in BOOLEAN BY <1>7
        <5> HIDE DEF i, k, t, b
        <5>2. LET x == Code!DbResult(e, i, k, t, b)
              IN x \in Cursors /\ x.row = e /\ x.idx = i /\ x.cols = k /\ x.rest = t /\ x.ok = b
          BY <4>1, <5>1, CursorIs
        <5> QED BY <5>2 DEF i, k, t, b
      <4> QED BY <4>2 DEF e
    <3> QED BY <1>3, <2>2, <3>2, Zenon
  <2> HIDE DEF d
  <2>4. ReadRows(rows, cols, d, q, r) BY <1>3, <1>9, <2>3 DEF ReadRows
  <2>5. q = n * cols BY <1>1, <1>3, <1>4, <1>9
  <2> QED BY <1>1, <1>6, <2>3, <2>4, <2>5 DEF ReadTo, d
<1>10. CASE ~(c.idx < cols) /\ r # n
  <2>1. c.rest # <<>> /\ Head(c.rest) = rows[r + 1] /\ Tail(c.rest) = SubSeq(rows, r + 2, n)
    BY <1>1, <1>3, <1>10, RestOfTable
  <2>2. d = Code!DbResult(Head(c.rest), 0, c.cols, Tail(c.rest), TRUE)
    BY <1>3, <1>10, <2>1 DEF Code!next
  <2>3. Head(c.rest) \in Seq(Atom) /\ Tail(c.rest) \in Seq(Seq(Atom))
    <3> DEFINE t == c.rest
               A == Seq(Atom)
    <3>1. t \in Seq(A) /\ t # <<>> BY <1>7, <2>1
    <3> HIDE DEF t, A
    <3>2. Head(t) \in A /\ Tail(t) \in Seq(A) BY <3>1
    <3> QED BY <3>2 DEF t, A
  <2>4. d \in Cursors /\ d.row = rows[r + 1] /\ d.idx = 0 /\ d.cols = cols /\ d.rest = SubSeq(rows, r + 2, n) /\ d.ok = TRUE
    <3> HIDE DEF d
    <3>1. LET x == Code!DbResult(Head(c.rest), 0, c.cols, Tail(c.rest), TRUE)
          IN x \in Cursors /\ x.row = Head(c.rest) /\ x.idx = 0 /\ x.cols = c.cols /\ x.rest = Tail(c.rest) /\ x.ok = TRUE
      BY <1>7, <2>3, CursorIs
    <3> QED BY <1>3, <2>1, <2>2, <3>1, Zenon
  <2> HIDE DEF d
  <2>5. r + 1 \in 0 .. n /\ (r + 1) + 1 = r + 2 /\ (r + 1) - 1 = r /\ r + 1 # 0 BY <1>1, <1>10
  <2>6. q = r * cols
    <3>1. c.idx = cols BY <1>1, <1>3, <1>10
    <3> QED BY <1>3, <1>4, <3>1, Zenon
  <2>7. ReadRows(rows, cols, d, q, r + 1) BY <1>1, <1>4, <2>4, <2>5, <2>6 DEF ReadRows
  <2>8. q < n * cols
    <3>1. r * cols <= (n - 1) * cols
      <4>1. r <= n - 1 /\ n - 1 \in Int /\ r \in Int /\ cols \in Nat BY <1>1, <1>10
      <4> HIDE DEF n
      <4> QED BY <4>1, TimesMore
    <3> QED BY <1>1, <1>4, <2>6, <3>1
  <2> QED BY <1>1, <1>6, <2>4, <2>5, <2>7, <2>8 DEF ReadTo, d
<1> QED BY <1>8, <1>9, <1>10

\* What a field got from column p of a table, counted through its rows: nothing
\* when there is no such column.
Fields == SUBSET (Atom \union {"0"})
HasColumn(rows, cols, p, v) ==
  /\ p > Len(rows) * cols => v = {}
  /\ \A r \in DOMAIN rows, j \in 1 .. cols : Code!Place(r, j, cols) = p => v = {Code!Column(rows[r][j])}
Capped(q, n) == IF q <= n THEN q ELSE n

\* A field reads the next column, if there is one.
LEMMA FieldReads ==
  ASSUME NEW rows, NEW cols, Table(rows, cols), NEW c, NEW q, ReadTo(rows, cols, c, q)
  PROVE  LET f == Code!ReadField(c)
         IN /\ f.cursor \in Cursors /\ f.value \in Fields
            /\ ReadTo(rows, cols, f.cursor, Capped(q + 1, Len(rows) * cols))
            /\ HasColumn(rows, cols, q + 1, f.value)
<1> DEFINE n == Len(rows)
           d == Code!next(c)
           f == Code!ReadField(c)
<1>1. rows \in Seq(Seq(Atom)) /\ cols \in Nat \ {0} /\ n \in Nat /\ DOMAIN rows = 1 .. n
      /\ \A i \in 1 .. n : Len(rows[i]) = cols /\ rows[i] \in Seq(Atom) BY DEF Table
<1>2. ReadTo(rows, cols, d, q) /\ q \in 0 .. n * cols /\ (d.ok <=> q < n * cols) /\ (d.ok => d.idx < cols)
  BY NextStays
<1>3. n * cols \in Int /\ n * cols \in Nat
  <2>1. n * cols \in Int BY <1>1, OneMoreTimes
  <2> QED BY <1>2, <2>1
<1>4. PICK r \in 0 .. n : ReadRows(rows, cols, d, q, r) BY <1>2 DEF ReadTo
<1>5. /\ d \in Cursors /\ d.cols = cols /\ d.rest = SubSeq(rows, r + 1, n)
      /\ d.idx \in 0 .. cols /\ (r = 0 => d.idx = cols) /\ q = (r - 1) * cols + d.idx
      /\ d.idx < cols => d.row = rows[r] BY <1>4 DEF ReadRows
<1>6. d.row \in Seq(Atom) /\ d.idx \in Nat /\ d.rest \in Seq(Seq(Atom)) /\ d.cols \in Nat /\ d.ok \in BOOLEAN
  BY <1>5, CursorFields
<1>7. (r - 1) * cols \in Int /\ (r - 1) * cols + cols = r * cols /\ r * cols \in Int
  BY <1>1, OneMoreTimes
<1> HIDE DEF d, n
<1>8. CASE d.ok
  <2> DEFINE v == Code!Column(d.row[d.idx + 1])
             k == Code!DbResult(d.row, d.idx + 1, d.cols, d.rest, TRUE)
  <2>1. f = [cursor |-> k, value |-> {v}] BY <1>8 DEF Code!ReadField, d
  <2>2. d.idx + 1 \in 1 .. cols /\ d.idx < cols /\ r \in 1 .. n /\ d.row = rows[r]
    BY <1>1, <1>2, <1>5, <1>8
  <2>3. v \in Atom \union {"0"}
    <3>1. d.row[d.idx + 1] \in Atom BY <1>1, <2>2
    <3> QED BY <3>1 DEF Code!Column
  <2>4. k \in Cursors /\ k.row = d.row /\ k.idx = d.idx + 1 /\ k.cols = d.cols /\ k.rest = d.rest
    <3>1. d.idx + 1 \in Nat /\ TRUE \in BOOLEAN BY <1>6
    <3>2. LET x == Code!DbResult(d.row, d.idx + 1, d.cols, d.rest, TRUE)
          IN x \in Cursors /\ x.row = d.row /\ x.idx = d.idx + 1 /\ x.cols = d.cols /\ x.rest = d.rest /\ x.ok = TRUE
      BY <1>6, <3>1, CursorIs
    <3> QED BY <3>2
  <2>5. f.cursor = k /\ f.value = {v} BY <2>1
  <2> HIDE DEF f, k
  <2>6. q + 1 = (r - 1) * cols + k.idx
    <3> DEFINE x == (r - 1) * cols
               e == d.idx
    <3>1. x \in Int /\ e \in Nat /\ q = x + e /\ k.idx = e + 1 BY <1>5, <1>6, <1>7, <2>4
    <3> HIDE DEF x, e
    <3>2. q + 1 = x + k.idx BY <3>1
    <3> QED BY <3>2 DEF x
  <2>7. ReadRows(rows, cols, k, q + 1, r)
    <3>1. r \in 0 .. Len(rows) /\ k.cols = cols /\ k.rest = SubSeq(rows, r + 1, Len(rows)) /\ k.idx \in 0 .. cols
      BY <1>1, <1>5, <2>2, <2>4 DEF n
    <3>2. r # 0 /\ k.row = rows[r] BY <1>1, <2>2, <2>4
    <3> QED BY <2>4, <2>6, <3>1, <3>2 DEF ReadRows
  <2>8. Capped(q + 1, n * cols) = q + 1 BY <1>2, <1>3, <1>8 DEF Capped
  <2>9. HasColumn(rows, cols, q + 1, {v})
    <3>1. ~(q + 1 > n * cols) BY <1>2, <1>3, <1>8
    <3>2. ASSUME NEW s \in 1 .. n, NEW j \in 1 .. cols, Code!Place(s, j, cols) = q + 1
          PROVE  {v} = {Code!Column(rows[s][j])}
      <4>1. Code!Place(r, d.idx + 1, cols) = q + 1 BY <2>4, <2>6 DEF Code!Place
      <4>2. s \in Nat \ {0} /\ r \in Nat \ {0} /\ cols \in Nat BY <1>1, <2>2
      <4>3. s = r /\ j = d.idx + 1 BY <2>2, <3>2, <4>1, <4>2, OnePlace
      <4> QED BY <2>2, <4>3
    <3> QED BY <1>1, <3>1, <3>2 DEF HasColumn, n
  <2>10. ReadTo(rows, cols, k, q + 1) BY <2>7 DEF ReadTo, n
  <2> QED BY <2>3, <2>4, <2>5, <2>8, <2>9, <2>10 DEF Fields, n, f
<1>9. CASE ~d.ok
  <2>1. f = [cursor |-> d, value |-> {}] BY <1>9 DEF Code!ReadField, d
  <2>2. f.cursor = d /\ f.value = {} BY <2>1
  <2> HIDE DEF f
  <2>3. q = n * cols BY <1>2, <1>3, <1>9
  <2>4. Capped(q + 1, n * cols) = q BY <1>3, <2>3 DEF Capped
  <2>5. HasColumn(rows, cols, q + 1, {})
    <3>1. ASSUME NEW s \in 1 .. n, NEW j \in 1 .. cols, Code!Place(s, j, cols) = q + 1 PROVE FALSE
      <4>1. (s - 1) * cols \in Int /\ (s - 1) * cols + cols = s * cols /\ s * cols \in Int
        BY <1>1, OneMoreTimes
      <4>2. s * cols <= n * cols
        <5>1. s \in Int /\ n \in Int /\ s <= n /\ cols \in Nat BY <1>1
        <5> QED BY <5>1, TimesMore
      <4>3. (s - 1) * cols + j = q + 1 BY <3>1 DEF Code!Place
      <4> DEFINE x == (s - 1) * cols
                 y == s * cols
                 z == n * cols
      <4>4. x \in Int /\ y \in Int /\ z \in Int /\ x + cols = y /\ y <= z /\ x + j = q + 1 /\ q = z
        BY <1>3, <2>3, <4>1, <4>2, <4>3
      <4>5. j \in Int /\ cols \in Int /\ j <= cols BY <1>1
      <4> HIDE DEF x, y, z
      <4> QED BY <4>4, <4>5
    <3> QED BY <1>1, <3>1 DEF HasColumn
  <2> QED BY <1>2, <1>5, <2>2, <2>4, <2>5 DEF Fields, n, f
<1> QED BY <1>8, <1>9

\* The fields of an object read the columns behind q.
Reads(rows, cols, q, fields, w) ==
  /\ w.cursor \in Cursors /\ w.value \in Seq(Fields) /\ Len(w.value) = fields
  /\ ReadTo(rows, cols, w.cursor, Capped(q + fields, Len(rows) * cols))
  /\ \A f \in 1 .. fields : HasColumn(rows, cols, q + f, w.value[f])
Objects(rows, cols) ==
  {w \in [cursor : Cursors, value : Seq(Fields)] : \E q : ReadTo(rows, cols, w.cursor, q)}
FieldAdded(w) ==
  LET f == Code!ReadField(w.cursor) IN [cursor |-> f.cursor, value |-> Append(w.value, f.value)]

\* One more field of an object.
LEMMA FieldMore ==
  ASSUME NEW rows, NEW cols, Table(rows, cols), NEW w \in Objects(rows, cols)
  PROVE  /\ FieldAdded(w) \in Objects(rows, cols)
         /\ \A q \in Nat : \A k \in Nat :
              q <= Len(rows) * cols /\ Reads(rows, cols, q, k, w) => Reads(rows, cols, q, k + 1, FieldAdded(w))
<1> DEFINE c == w.cursor
           v == w.value
           f == Code!ReadField(c)
           n == Len(rows) * cols
           u == FieldAdded(w)
<1>1. c \in Cursors /\ v \in Seq(Fields) /\ \E q : ReadTo(rows, cols, c, q) BY DEF Objects
<1>2. \A q : ReadTo(rows, cols, c, q) =>
        /\ f.cursor \in Cursors /\ f.value \in Fields /\ ReadTo(rows, cols, f.cursor, Capped(q + 1, n))
        /\ HasColumn(rows, cols, q + 1, f.value) /\ q \in 0 .. n BY FieldReads, NextStays
<1>3. f.cursor \in Cursors /\ f.value \in Fields BY <1>1, <1>2
<1>4. u = [cursor |-> f.cursor, value |-> Append(v, f.value)] BY DEF FieldAdded
<1>5. Append(v, f.value) \in Seq(Fields) /\ Len(Append(v, f.value)) = Len(v) + 1
      /\ Append(v, f.value)[Len(v) + 1] = f.value /\ \A i \in 1 .. Len(v) : Append(v, f.value)[i] = v[i]
  <2> DEFINE x == f.value
  <2>1. x \in Fields /\ v \in Seq(Fields) BY <1>1, <1>3
  <2> HIDE DEF x, v
  <2> QED BY <2>1 DEF x
<1>6. u.cursor = f.cursor /\ u.value = Append(v, f.value) BY <1>4
<1> HIDE DEF u, f, c, v
<1>7. u \in Objects(rows, cols)
  <2>1. u \in [cursor : Cursors, value : Seq(Fields)] BY <1>3, <1>4, <1>5
  <2>2. \E q : ReadTo(rows, cols, u.cursor, q) BY <1>1, <1>2, <1>6
  <2> QED BY <2>1, <2>2 DEF Objects
<1>8. n \in Nat
  <2>1. PICK q : ReadTo(rows, cols, c, q) BY <1>1
  <2>2. q \in 0 .. n BY <1>2, <2>1
  <2>3. n \in Int BY OneMoreTimes DEF Table
  <2> HIDE DEF n
  <2> QED BY <2>2, <2>3
<1>9. ASSUME NEW q \in Nat, NEW k \in Nat, q <= n, Reads(rows, cols, q, k, w)
      PROVE  Reads(rows, cols, q, k + 1, u)
  <2> HIDE DEF n
  <2>1. /\ Len(v) = k /\ ReadTo(rows, cols, c, Capped(q + k, n))
        /\ \A i \in 1 .. k : HasColumn(rows, cols, q + i, v[i]) BY <1>9 DEF Reads, c, v, n
  <2>2. /\ ReadTo(rows, cols, f.cursor, Capped(Capped(q + k, n) + 1, n))
        /\ HasColumn(rows, cols, Capped(q + k, n) + 1, f.value) BY <1>2, <2>1
  <2>3. Capped(Capped(q + k, n) + 1, n) = Capped(q + (k + 1), n) BY <1>8 DEF Capped
  <2>4. HasColumn(rows, cols, q + (k + 1), f.value)
    <3>1. CASE q + k <= n
      <4>1. Capped(q + k, n) + 1 = q + (k + 1) BY <3>1 DEF Capped
      <4> QED BY <2>2, <4>1
    <3>2. CASE ~(q + k <= n)
      <4>1. Capped(q + k, n) + 1 = n + 1 /\ n + 1 > n /\ q + (k + 1) > n + 1 BY <1>8, <3>2 DEF Capped
      <4>2. f.value = {} BY <2>2, <4>1 DEF HasColumn, n
      <4>3. \A r \in DOMAIN rows, j \in 1 .. cols : Code!Place(r, j, cols) # q + (k + 1)
        <5> SUFFICES ASSUME NEW r \in DOMAIN rows, NEW j \in 1 .. cols, Code!Place(r, j, cols) = q + (k + 1) PROVE FALSE
          OBVIOUS
        <5>1. rows \in Seq(Seq(Atom)) /\ cols \in Nat \ {0} /\ Len(rows) \in Nat /\ r \in 1 .. Len(rows)
          BY DEF Table
        <5> DEFINE x == (r - 1) * cols
                   y == r * cols
        <5>2. x \in Int /\ y \in Int /\ x + cols = y BY <5>1, OneMoreTimes
        <5>3. y <= n BY <5>1, TimesMore DEF n
        <5>4. x + j = q + (k + 1) BY <3>2, <4>1, <5>1 DEF Code!Place
        <5> HIDE DEF x, y
        <5>5. j \in Int /\ cols \in Int /\ j <= cols BY <5>1
        <5> QED BY <1>8, <4>1, <5>2, <5>3, <5>4, <5>5
      <4> QED BY <4>2, <4>3 DEF HasColumn, n
    <3> QED BY <3>1, <3>2
  <2>5. \A i \in 1 .. k + 1 : HasColumn(rows, cols, q + i, u.value[i])
    <3> TAKE i \in 1 .. k + 1
    <3>1. CASE i = k + 1 BY <1>5, <1>6, <2>1, <2>4, <3>1
    <3>2. CASE i # k + 1
      <4>1. i \in 1 .. k BY <3>2
      <4> QED BY <1>5, <1>6, <2>1, <4>1
    <3> QED BY <3>1, <3>2
  <2>6. Len(u.value) = k + 1 /\ u.value \in Seq(Fields) /\ u.cursor \in Cursors
    BY <1>3, <1>5, <1>6, <2>1
  <2>7. ReadTo(rows, cols, u.cursor, Capped(q + (k + 1), n)) BY <1>6, <2>2, <2>3
  <2> QED BY <2>5, <2>6, <2>7 DEF Reads, n
<1> QED BY <1>7, <1>9 DEF u, n

\* An object reads as many columns as it has fields.
LEMMA ObjectReads ==
  ASSUME NEW rows, NEW cols, Table(rows, cols), NEW c \in Cursors, NEW q, ReadTo(rows, cols, c, q), NEW fields \in Nat
  PROVE  Reads(rows, cols, q, fields, Code!Object(c, fields))
<1> DEFINE V == Objects(rows, cols)
           base == [cursor |-> c, value |-> <<>>]
           st == [k \in 1 .. fields |-> [w \in V |-> FieldAdded(w)]]
<1>1. base \in V /\ base.cursor = c /\ base.value = <<>> BY DEF Objects
<1>2. Steps(fields, V, base, st)
  <2>1. \A w \in V : FieldAdded(w) \in V BY FieldMore
  <2> HIDE DEF V, base
  <2> QED BY <1>1, <2>1 DEF Steps
<1>3. PICK g : Iterates(fields, V, base, st, g) BY <1>2, Iteration
<1> HIDE DEF base, V
<1> DEFINE F(h) == h = [k \in 0 .. fields |-> IF k = 0 THEN base ELSE FieldAdded(h[k - 1])]
           h == CHOOSE h : F(h)
<1>4. F(g)
  <2>1. g \in [0 .. fields -> V] /\ g[0] = base /\ \A k \in 1 .. fields : g[k] = st[k][g[k - 1]]
    BY <1>3 DEF Iterates
  <2>2. \A k \in 1 .. fields : g[k] = FieldAdded(g[k - 1])
    <3> TAKE k \in 1 .. fields
    <3>1. g[k - 1] \in V BY <2>1
    <3> QED BY <3>1, <2>1
  <2>3. \A k \in 0 .. fields : g[k] = IF k = 0 THEN base ELSE FieldAdded(g[k - 1]) BY <2>1, <2>2
  <2>4. g = [k \in 0 .. fields |-> g[k]] BY <2>1
  <2> QED BY <2>3, <2>4
<1>5. F(h) BY <1>4
<1>6. Code!Object(c, fields) = h[fields] BY DEF Code!Object, FieldAdded, base
<1> HIDE DEF h
<1>7. h[0] = base /\ \A k \in 1 .. fields : h[k] = FieldAdded(h[k - 1]) BY <1>5
<1> DEFINE T == {k \in 0 .. fields : h[k] \in V /\ Reads(rows, cols, q, k, h[k])}
<1>8. q \in 0 .. Len(rows) * cols /\ q \in Nat /\ q <= Len(rows) * cols
  <2>1. q \in 0 .. Len(rows) * cols BY NextStays
  <2>2. Len(rows) * cols \in Int BY OneMoreTimes DEF Table
  <2> QED BY <2>1, <2>2
<1>9. 0 \in T
  <2>1. Len(rows) * cols \in Int BY OneMoreTimes DEF Table
  <2>2. Capped(q + 0, Len(rows) * cols) = q BY <1>8, <2>1 DEF Capped
  <2>3. <<>> \in Seq(Fields) /\ Len(<<>>) = 0 OBVIOUS
  <2>4. Reads(rows, cols, q, 0, base) BY <1>1, <2>2, <2>3 DEF Reads
  <2> QED BY <1>1, <1>7, <2>4
<1>10. ASSUME NEW k \in 0 .. fields, \A j \in 0 .. k - 1 : j \in T PROVE k \in T
  <2>1. CASE k = 0 BY <1>9, <2>1
  <2>2. CASE k # 0
    <3>1. k - 1 \in T /\ k - 1 \in Nat /\ (k - 1) + 1 = k /\ k \in 1 .. fields BY <1>10, <2>2
    <3>2. h[k] = FieldAdded(h[k - 1]) /\ h[k - 1] \in V /\ Reads(rows, cols, q, k - 1, h[k - 1])
      BY <1>7, <3>1
    <3>3. FieldAdded(h[k - 1]) \in V /\ Reads(rows, cols, q, (k - 1) + 1, FieldAdded(h[k - 1]))
      BY <1>8, <3>1, <3>2, FieldMore DEF V
    <3> QED BY <3>1, <3>2, <3>3
  <2> QED BY <2>1, <2>2
<1>11. 0 .. fields \subseteq T
  <2>1. GrowsUp(0, fields, T) BY <1>10 DEF GrowsUp
  <2> QED BY <2>1, Upwards
<1> QED BY <1>6, <1>11

\* One turn of the loop over a vector.
Turned(w, fields) ==
  LET o == Code!Object(w.cursor, fields)
  IN IF ~w.cursor.ok THEN w ELSE [cursor |-> Code!next(o.cursor), list |-> Append(w.list, o.value)]

Vectors(rows, cols) ==
  {w \in [cursor : Cursors, list : Seq(Seq(Fields))] : \E q : ReadTo(rows, cols, w.cursor, q)}

\* The objects read so far have the columns in their order.
InOrderRead(rows, cols, fields, list) ==
  \A o \in 1 .. Len(list) : Len(list[o]) = fields
    /\ \A f \in 1 .. fields : HasColumn(rows, cols, Code!Place(o, f, fields), list[o][f])

\* After k turns there are k objects, or all columns are read.
Turns(rows, cols, fields, k, w) ==
  LET m == Len(w.list)
      n == Len(rows) * cols
  IN /\ ReadTo(rows, cols, w.cursor, Capped(m * fields, n))
     /\ w.cursor.ok <=> m * fields < n
     /\ w.cursor.ok => m = k
     /\ m > 0 => (m - 1) * fields < n
     /\ InOrderRead(rows, cols, fields, w.list)

\* One more turn reads one more object, if a column is left.
LEMMA TurnMore ==
  ASSUME NEW rows, NEW cols, Table(rows, cols), NEW fields \in Nat \ {0}, NEW w \in Vectors(rows, cols)
  PROVE  /\ Turned(w, fields) \in Vectors(rows, cols)
         /\ \A k \in Nat : Turns(rows, cols, fields, k, w) => Turns(rows, cols, fields, k + 1, Turned(w, fields))
<1> DEFINE c == w.cursor
           l == w.list
           ob == Code!Object(c, fields)
           d == Code!next(ob.cursor)
           v == ob.value
           n == Len(rows) * cols
           u == Turned(w, fields)
<1>1. c \in Cursors /\ l \in Seq(Seq(Fields)) /\ \E q : ReadTo(rows, cols, c, q) BY DEF Vectors
<1>2. n \in Nat
  <2>1. PICK q : ReadTo(rows, cols, c, q) BY <1>1
  <2>2. q \in 0 .. n BY <2>1, NextStays
  <2>3. n \in Int BY OneMoreTimes DEF Table
  <2> HIDE DEF n
  <2> QED BY <2>2, <2>3
<1>3. \A q : ReadTo(rows, cols, c, q) => Reads(rows, cols, q, fields, ob)
  <2>1. fields \in Nat OBVIOUS
  <2> HIDE DEF c, ob
  <2> QED BY <1>1, <2>1, ObjectReads DEF ob
<1>4. \A q : ReadTo(rows, cols, c, q) =>
        /\ v \in Seq(Fields) /\ Len(v) = fields /\ d \in Cursors
        /\ ReadTo(rows, cols, d, Capped(q + fields, n)) /\ (d.ok <=> Capped(q + fields, n) < n)
        /\ \A f \in 1 .. fields : HasColumn(rows, cols, q + f, v[f])
  <2> SUFFICES ASSUME NEW q, ReadTo(rows, cols, c, q)
               PROVE  /\ v \in Seq(Fields) /\ Len(v) = fields /\ d \in Cursors
                      /\ ReadTo(rows, cols, d, Capped(q + fields, n)) /\ (d.ok <=> Capped(q + fields, n) < n)
                      /\ \A f \in 1 .. fields : HasColumn(rows, cols, q + f, v[f]) OBVIOUS
  <2>1. Reads(rows, cols, q, fields, ob) BY <1>3
  <2> HIDE DEF ob, c
  <2>2. /\ ob.value \in Seq(Fields) /\ Len(ob.value) = fields
        /\ ReadTo(rows, cols, ob.cursor, Capped(q + fields, n))
        /\ \A f \in 1 .. fields : HasColumn(rows, cols, q + f, ob.value[f]) BY <2>1 DEF Reads
  <2>3. ReadTo(rows, cols, d, Capped(q + fields, n)) /\ (d.ok <=> Capped(q + fields, n) < n)
    BY <2>2, NextStays
  <2>4. d \in Cursors BY <2>3 DEF ReadTo, ReadRows
  <2> QED BY <2>2, <2>3, <2>4
<1>5. v \in Seq(Fields) /\ d \in Cursors BY <1>1, <1>4
<1>6. Append(l, v) \in Seq(Seq(Fields)) /\ Len(l) \in Nat /\ Len(Append(l, v)) = Len(l) + 1
      /\ Append(l, v)[Len(l) + 1] = v /\ \A i \in 1 .. Len(l) : Append(l, v)[i] = l[i]
  <2> DEFINE A == Seq(Fields)
  <2>1. v \in A /\ l \in Seq(A) BY <1>1, <1>5
  <2> HIDE DEF A, v, l
  <2>2. Append(l, v) \in Seq(A) /\ Len(l) \in Nat /\ Len(Append(l, v)) = Len(l) + 1
      /\ Append(l, v)[Len(l) + 1] = v /\ \A i \in 1 .. Len(l) : Append(l, v)[i] = l[i] BY <2>1
  <2> QED BY <2>2 DEF A
<1>7. u = IF ~c.ok THEN w ELSE [cursor |-> d, list |-> Append(l, v)] BY DEF Turned
<1> HIDE DEF c, l, v, d, u, ob
<1>8. c.ok => u.cursor = d /\ u.list = Append(l, v) /\ u \in [cursor : Cursors, list : Seq(Seq(Fields))]
  BY <1>5, <1>6, <1>7
<1>9. u \in Vectors(rows, cols)
  <2>1. CASE c.ok
    <3>1. \E q : ReadTo(rows, cols, d, q) BY <1>1, <1>4
    <3> QED BY <1>8, <2>1, <3>1 DEF Vectors
  <2>2. CASE ~c.ok BY <1>7, <2>2
  <2> QED BY <2>1, <2>2
<1>10. ASSUME NEW k \in Nat, Turns(rows, cols, fields, k, w) PROVE Turns(rows, cols, fields, k + 1, u)
  <2> DEFINE m == Len(l)
  <2>1. /\ ReadTo(rows, cols, c, Capped(m * fields, n)) /\ (c.ok <=> m * fields < n)
        /\ (c.ok => m = k) /\ (m > 0 => (m - 1) * fields < n) /\ InOrderRead(rows, cols, fields, l)
    BY <1>10 DEF Turns, c, l
  <2>2. CASE ~c.ok
    <3>1. u = w BY <1>7, <2>2
    <3> QED BY <1>10, <2>2, <3>1 DEF Turns, c
  <2>3. CASE c.ok
    <3> HIDE DEF n
    <3> DEFINE p == m * fields
               s == (m + 1) * fields
    <3>1. p \in Int /\ s \in Int /\ s = p + fields /\ p < n /\ m \in Nat /\ m = k
      <4>1. m \in Nat BY <1>6
      <4>2. p \in Int /\ s \in Int /\ ((m + 1) - 1) * fields + fields = s /\ (m + 1) - 1 = m
        BY <4>1, OneMoreTimes
      <4> QED BY <2>1, <2>3, <4>1, <4>2
    <3>2. Capped(p, n) = p BY <1>2, <3>1 DEF Capped
    <3>3. /\ Len(v) = fields /\ ReadTo(rows, cols, d, Capped(p + fields, n)) /\ (d.ok <=> Capped(p + fields, n) < n)
          /\ \A f \in 1 .. fields : HasColumn(rows, cols, p + f, v[f]) BY <1>4, <2>1, <3>2
    <3>4. d.ok <=> s < n
      <4> HIDE DEF p, s
      <4> QED BY <1>2, <3>1, <3>3 DEF Capped
    <3>5. u.cursor = d /\ u.list = Append(l, v) /\ Len(u.list) = m + 1 BY <1>6, <1>8, <2>3
    <3>6. InOrderRead(rows, cols, fields, u.list)
      <4> SUFFICES ASSUME NEW o \in 1 .. m + 1
                   PROVE  /\ Len(u.list[o]) = fields
                          /\ \A f \in 1 .. fields : HasColumn(rows, cols, Code!Place(o, f, fields), u.list[o][f])
        BY <3>5 DEF InOrderRead
      <4>1. CASE o = m + 1
        <5>1. u.list[o] = v BY <1>6, <3>5, <4>1
        <5>2. \A f \in 1 .. fields : Code!Place(o, f, fields) = p + f
          <6>1. o - 1 = m BY <3>1, <4>1
          <6> QED BY <6>1 DEF Code!Place
        <5> QED BY <3>3, <5>1, <5>2
      <4>2. CASE o # m + 1
        <5>1. o \in 1 .. m BY <3>1, <4>2
        <5>2. u.list[o] = l[o] BY <1>6, <3>5, <5>1
        <5> QED BY <2>1, <5>1, <5>2 DEF InOrderRead
      <4> QED BY <4>1, <4>2
    <3>7. (m + 1) - 1 = m /\ (m + 1) * fields = s /\ m * fields = p BY <3>1
    <3> HIDE DEF p, s, m
    <3>8. ReadTo(rows, cols, u.cursor, Capped(Len(u.list) * fields, n)) BY <3>1, <3>3, <3>5, <3>7
    <3>9. u.cursor.ok <=> Len(u.list) * fields < n BY <3>4, <3>5, <3>7
    <3>10. Len(u.list) = k + 1 /\ (Len(u.list) - 1) * fields < n BY <3>1, <3>5, <3>7
    <3> QED BY <3>6, <3>8, <3>9, <3>10 DEF Turns, n
  <2> QED BY <2>2, <2>3
<1> QED BY <1>9, <1>10 DEF u

\* A cursor that has not been moved is before the first column.
LEMMA NothingRead ==
  ASSUME NEW rows, NEW cols, Table(rows, cols)
  PROVE  LET c == Code!Cursor(rows, cols)
         IN c \in Cursors /\ c.cols = cols /\ c.rest = rows /\ ReadTo(rows, cols, c, 0)
<1> DEFINE c == Code!Cursor(rows, cols)
           e == <<>>
<1>1. rows \in Seq(Seq(Atom)) /\ cols \in Nat \ {0} /\ Len(rows) \in Nat BY DEF Table
<1>2. e \in Seq(Atom) OBVIOUS
<1>3. c = Code!DbResult(e, cols, cols, rows, TRUE) BY DEF Code!Cursor
<1> HIDE DEF e, c
<1>4. LET x == Code!DbResult(e, cols, cols, rows, TRUE)
      IN x \in Cursors /\ x.row = e /\ x.idx = cols /\ x.cols = cols /\ x.rest = rows /\ x.ok = TRUE
  <2>1. cols \in Nat /\ TRUE \in BOOLEAN BY <1>1
  <2> QED BY <1>1, <1>2, <2>1, CursorIs
<1>5. c \in Cursors /\ c.idx = cols /\ c.cols = cols /\ c.rest = rows BY <1>3, <1>4, Zenon
<1>6. SubSeq(rows, 0 + 1, Len(rows)) = rows
  <2>1. 0 + 1 = 1 OBVIOUS
  <2> QED BY <1>1, <2>1, WholePiece
<1>7. 0 = (0 - 1) * cols + cols BY <1>1, OneMoreTimes
<1>8. ReadRows(rows, cols, c, 0, 0)
  <2>1. 0 \in 0 .. Len(rows) /\ c.idx \in 0 .. cols /\ ~(c.idx < cols) BY <1>1, <1>5
  <2> QED BY <1>5, <1>6, <1>7, <2>1 DEF ReadRows
<1> QED BY <1>1, <1>5, <1>8 DEF ReadTo, c

\* A vector reads a table to its end.
LEMMA VectorReads ==
  ASSUME NEW rows, NEW cols, Table(rows, cols), NEW fields \in Nat \ {0}
  PROVE  \E w \in Vectors(rows, cols) :
           /\ Code!Vector(Code!Cursor(rows, cols), fields) = w.list
           /\ Turns(rows, cols, fields, Len(rows) * cols, w)
<1> DEFINE c == Code!Cursor(rows, cols)
           V == Vectors(rows, cols)
           n == Len(rows) * cols
           base == [cursor |-> Code!next(c), list |-> <<>>]
           st == [k \in 1 .. n |-> [w \in V |-> Turned(w, fields)]]
<1>1. c \in Cursors /\ c.cols = cols /\ c.rest = rows /\ ReadTo(rows, cols, c, 0) BY NothingRead
<1>2. Len(rows) \in Nat /\ n \in Nat
  <2>1. 0 \in 0 .. n BY <1>1, NextStays
  <2>2. n \in Int /\ Len(rows) \in Nat BY OneMoreTimes DEF Table
  <2> HIDE DEF n
  <2> QED BY <2>1, <2>2
<1> HIDE DEF c
<1> DEFINE d == Code!next(c)
<1>3. ReadTo(rows, cols, d, 0) /\ (d.ok <=> 0 < n) /\ d \in Cursors
  <2>1. ReadTo(rows, cols, d, 0) /\ (d.ok <=> 0 < n) BY <1>1, NextStays
  <2> QED BY <2>1 DEF ReadTo, ReadRows
<1>4. base.cursor = d /\ base.list = <<>> OBVIOUS
<1>5. base \in V
  <2>1. <<>> \in Seq(Seq(Fields)) OBVIOUS
  <2> QED BY <1>3, <2>1 DEF Vectors
<1> HIDE DEF d, n
<1>6. Turns(rows, cols, fields, 0, base)
  <2>1. Len(base.list) = 0 /\ 0 * fields = 0 BY <1>4
  <2>2. Capped(0, n) = 0 BY <1>2 DEF Capped
  <2>3. InOrderRead(rows, cols, fields, base.list) BY <2>1 DEF InOrderRead
  <2> HIDE DEF base
  <2> QED BY <1>3, <1>4, <2>1, <2>2, <2>3 DEF Turns, n
<1>7. Steps(n, V, base, st)
  <2>1. \A w \in V : Turned(w, fields) \in V BY TurnMore
  <2> HIDE DEF V, base
  <2> QED BY <1>2, <1>5, <2>1 DEF Steps
<1>8. PICK g : Iterates(n, V, base, st, g) BY <1>7, Iteration
<1> HIDE DEF base, V
<1> DEFINE F(h) == h = [k \in 0 .. n |-> IF k = 0 THEN base ELSE Turned(h[k - 1], fields)]
           h == CHOOSE h : F(h)
<1>9. F(g)
  <2>1. g \in [0 .. n -> V] /\ g[0] = base /\ \A k \in 1 .. n : g[k] = st[k][g[k - 1]]
    BY <1>8 DEF Iterates
  <2>2. \A k \in 1 .. n : g[k] = Turned(g[k - 1], fields)
    <3> TAKE k \in 1 .. n
    <3>1. g[k - 1] \in V BY <1>2, <2>1
    <3> QED BY <3>1, <2>1
  <2>3. \A k \in 0 .. n : g[k] = IF k = 0 THEN base ELSE Turned(g[k - 1], fields) BY <1>2, <2>1, <2>2
  <2>4. g = [k \in 0 .. n |-> g[k]] BY <2>1
  <2> QED BY <2>3, <2>4
<1>10. F(h) BY <1>9
<1>11. Code!Vector(c, fields) = h[n].list
  <2>1. Len(c.rest) * c.cols = n BY <1>1 DEF n
  <2>2. \A s : Turned(s, fields) = LET o == Code!Object(s.cursor, fields)
                                  IN IF ~s.cursor.ok THEN s ELSE [cursor |-> Code!next(o.cursor), list |-> Append(s.list, o.value)]
    BY DEF Turned
  <2> QED BY <2>1 DEF Code!Vector, Turned, base, d
<1> HIDE DEF h
<1>12. h[0] = base /\ \A k \in 1 .. n : h[k] = Turned(h[k - 1], fields) BY <1>2, <1>10
<1> DEFINE T == {k \in 0 .. n : h[k] \in V /\ Turns(rows, cols, fields, k, h[k])}
<1>13. ASSUME NEW k \in 0 .. n, \A j \in 0 .. k - 1 : j \in T PROVE k \in T
  <2>1. CASE k = 0 BY <1>5, <1>6, <1>12, <2>1
  <2>2. CASE k # 0
    <3>1. k - 1 \in T /\ k - 1 \in Nat /\ (k - 1) + 1 = k /\ k \in 1 .. n BY <1>2, <1>13, <2>2
    <3>2. h[k] = Turned(h[k - 1], fields) /\ h[k - 1] \in V /\ Turns(rows, cols, fields, k - 1, h[k - 1])
      BY <1>12, <3>1
    <3>3. Turned(h[k - 1], fields) \in V /\ Turns(rows, cols, fields, (k - 1) + 1, Turned(h[k - 1], fields))
      BY <3>1, <3>2, TurnMore DEF V
    <3> QED BY <3>1, <3>2, <3>3
  <2> QED BY <2>1, <2>2
<1>14. n \in T
  <2>1. GrowsUp(0, n, T) BY <1>2, <1>13 DEF GrowsUp
  <2>2. 0 .. n \subseteq T BY <2>1, Upwards
  <2> QED BY <1>2, <2>2
<1> QED BY <1>11, <1>14 DEF V, c, n

\* Every table is read into every vector of objects, column by column.
THEOREM ColumnsAreRead ==
  ASSUME NEW rows, NEW cols, Table(rows, cols), NEW fields \in Nat \ {0}
  PROVE  Code!RowsAreRead(rows, cols, fields)
<1> DEFINE list == Code!Vector(Code!Cursor(rows, cols), fields)
           n == Len(rows) * cols
           m == Len(list)
<1>1. PICK w \in Vectors(rows, cols) : list = w.list /\ Turns(rows, cols, fields, n, w) BY VectorReads
<1>2. list \in Seq(Seq(Fields)) BY <1>1 DEF Vectors
<1>3. m \in Nat /\ (list # <<>> => m > 0) /\ DOMAIN list = 1 .. m
  <2> HIDE DEF list
  <2> QED BY <1>2
<1> HIDE DEF list
<1>4. /\ (w.cursor.ok <=> m * fields < n) /\ (w.cursor.ok => m = n)
      /\ (m > 0 => (m - 1) * fields < n) /\ InOrderRead(rows, cols, fields, list) BY <1>1 DEF Turns
<1>5. n \in Nat
  <2>1. 0 \in 0 .. n BY NothingRead, NextStays
  <2>2. n \in Int BY OneMoreTimes DEF Table
  <2> HIDE DEF n
  <2> QED BY <2>1, <2>2
<1> HIDE DEF n
<1>6. n <= m * fields
  <2> SUFFICES ASSUME m * fields < n PROVE FALSE
    <3>1. m * fields \in Int BY <1>3, OneMoreTimes
    <3> DEFINE x == m * fields
    <3> HIDE DEF x
    <3>2. x \in Int BY <3>1 DEF x
    <3>3. n <= x \/ x < n BY <1>5, <3>2
    <3> QED BY <3>3 DEF x
  <2>1. n * fields < n BY <1>4
  <2>2. 1 * n <= fields * n
    <3>1. 1 \in Int /\ fields \in Int /\ 1 <= fields OBVIOUS
    <3> QED BY <1>5, <3>1, TimesMore
  <2> QED BY <1>5, <2>1, <2>2
<1>7. ASSUME NEW o \in 1 .. m
      PROVE  /\ Len(list[o]) = fields
             /\ \A f \in 1 .. fields : HasColumn(rows, cols, Code!Place(o, f, fields), list[o][f])
  BY <1>3, <1>4 DEF InOrderRead
<1>8. \A o \in DOMAIN list :
          /\ Len(list[o]) = fields
          /\ \A f \in 1 .. fields :
               /\ Code!Place(o, f, fields) > n => list[o][f] = {}
               /\ \A r \in DOMAIN rows, j \in 1 .. cols :
                    Code!Place(r, j, cols) = Code!Place(o, f, fields) => list[o][f] = {Code!Column(rows[r][j])}
  <2> SUFFICES ASSUME NEW o \in 1 .. m
               PROVE  /\ Len(list[o]) = fields
                      /\ \A f \in 1 .. fields :
                           /\ Code!Place(o, f, fields) > n => list[o][f] = {}
                           /\ \A r \in DOMAIN rows, j \in 1 .. cols :
                                Code!Place(r, j, cols) = Code!Place(o, f, fields) => list[o][f] = {Code!Column(rows[r][j])}
    BY <1>3
  <2>1. Len(list[o]) = fields BY <1>7
  <2>2. ASSUME NEW f \in 1 .. fields
        PROVE  /\ Code!Place(o, f, fields) > n => list[o][f] = {}
               /\ \A r \in DOMAIN rows, j \in 1 .. cols :
                    Code!Place(r, j, cols) = Code!Place(o, f, fields) => list[o][f] = {Code!Column(rows[r][j])}
    BY <1>7 DEF HasColumn, n
  <2> QED BY <2>1, <2>2
<1>9. list # <<>> => (m - 1) * fields < n BY <1>3, <1>4
<1> QED BY <1>6, <1>8, <1>9 DEF Code!RowsAreRead, list, n

\* Every number of at most 19 characters is appended whole, and no other.
THEOREM NumbersAreAppended == \A digits \in Seq(0 .. 9) : Code!NumberIsAppended(digits)
<1> SUFFICES ASSUME NEW digits \in Seq(0 .. 9) PROVE Code!NumberIsAppended(digits) OBVIOUS
<1> DEFINE n == Len(digits)
           k == Code!Min({19, n})
<1>1. n \in Nat OBVIOUS
<1>2. k = IF n < 20 THEN n ELSE 19
  <2> HIDE DEF n
  <2>1. CASE n < 20
    <3>1. n \in {19, n} /\ \A y \in {19, n} : n <= y BY <1>1, <2>1
    <3>2. \A x \in {19, n} : (\A y \in {19, n} : x <= y) => x = n BY <1>1, <2>1
    <3>3. k = CHOOSE x \in {19, n} : \A y \in {19, n} : x <= y BY DEF Code!Min
    <3> QED BY <2>1, <3>1, <3>2, <3>3
  <2>2. CASE ~(n < 20)
    <3>1. 19 \in {19, n} /\ \A y \in {19, n} : 19 <= y BY <1>1, <2>2
    <3>2. \A x \in {19, n} : (\A y \in {19, n} : x <= y) => x = 19 BY <1>1, <2>2
    <3>3. k = CHOOSE x \in {19, n} : \A y \in {19, n} : x <= y BY DEF Code!Min
    <3> QED BY <2>2, <3>1, <3>2, <3>3
  <2> QED BY <2>1, <2>2
<1>3. Code!AppendNumber(<<>>, digits) = SubSeq(digits, 1, k)
  <2>1. SubSeq(digits, 1, k) \in Seq(0 .. 9)
    <3>1. k \in Nat /\ 1 <= k + 1 /\ k <= n BY <1>1, <1>2
    <3> HIDE DEF k
    <3> QED BY <3>1, Piece
  <2> DEFINE x == SubSeq(digits, 1, k)
  <2> HIDE DEF x
  <2>2. <<>> \o x = x BY <2>1 DEF x
  <2> QED BY <2>2 DEF Code!AppendNumber, x
<1>4. CASE n < 20
  <2>1. SubSeq(digits, 1, k) = digits BY <1>2, <1>4, WholePiece
  <2> QED BY <1>3, <1>4, <2>1 DEF Code!NumberIsAppended
<1>5. CASE ~(n < 20)
  <2>1. Len(SubSeq(digits, 1, 19)) = 19
    <3>1. 19 \in Nat /\ 1 <= 19 + 1 /\ 19 <= n BY <1>1, <1>5
    <3> QED BY <3>1, Piece
  <2>2. SubSeq(digits, 1, 19) # digits
    <3> DEFINE x == SubSeq(digits, 1, 19)
    <3>1. n # 19
      <4>1. 19 < n
        <5> HIDE DEF n
        <5> QED BY <1>1, <1>5
      <4> HIDE DEF n
      <4> QED BY <1>1, <4>1
    <3>2. Len(x) = 19 BY <2>1, Zenon
    <3> HIDE DEF x
    <3>3. x # digits BY <3>1, <3>2, Zenon
    <3> QED BY <3>3, Zenon DEF x
  <2> QED BY <1>2, <1>3, <1>5, <2>2 DEF Code!NumberIsAppended
<1> QED BY <1>4, <1>5

------------------------
(***************************************************************************)
(* SqlBind.  A map has values for some numbers of placeholders.            *)
(***************************************************************************)
Mapping == UNION {[D -> Atom] : D \in SUBSET Nat}
Maps == [Code!Kinds -> {m \in Mapping : IsFiniteSet(DOMAIN m)}]

\* The calls up to k that set placeholder i as one of a kind
OfKind(sets, kind, i, k) == {q \in 1 .. k : sets[q].kind = kind /\ sets[q].index = i}

\* What the maps have after k calls: of each placeholder that was set, the first value.
SetUpto(sets, k, maps) ==
  \A kind \in Code!Kinds :
    /\ \A i : i \in DOMAIN maps[kind] <=> OfKind(sets, kind, i, k) # {}
    /\ \A i \in DOMAIN maps[kind] :
         \E q \in OfKind(sets, kind, i, k) :
           maps[kind][i] = sets[q].value /\ \A r \in OfKind(sets, kind, i, k) : q <= r

\* One value more, or none where there was one.
LEMMA ValueSet ==
  ASSUME NEW m \in Mapping, IsFiniteSet(DOMAIN m), NEW i \in Nat, NEW v \in Atom
  PROVE  LET n == Code!setValue(m, i, v)
         IN /\ n \in Mapping /\ IsFiniteSet(DOMAIN n) /\ DOMAIN n = DOMAIN m \union {i}
            /\ \A j \in DOMAIN m : n[j] = m[j]
            /\ i \notin DOMAIN m => n[i] = v
<1>1. PICK D \in SUBSET Nat : m \in [D -> Atom] BY DEF Mapping
<1>2. CASE i \in DOMAIN m
  <2>1. Code!setValue(m, i, v) = m BY <1>2 DEF Code!setValue
  <2> QED BY <1>2, <2>1
<1>3. CASE i \notin DOMAIN m
  <2> DEFINE E == D \union {i}
             n == [j \in E |-> IF j = i THEN v ELSE m[j]]
  <2>1. Code!setValue(m, i, v) = n /\ DOMAIN m = D BY <1>1, <1>3 DEF Code!setValue
  <2>2. E \in SUBSET Nat /\ IsFiniteSet(E) BY <2>1, FS_AddElement
  <2>3. n \in [E -> Atom] BY <1>1
  <2>4. n \in Mapping BY <2>2, <2>3 DEF Mapping
  <2>5. \A j \in D : n[j] = m[j] BY <1>3, <2>1
  <2> QED BY <1>3, <2>1, <2>2, <2>3, <2>4, <2>5
<1> QED BY <1>2, <1>3

\* One call of setValue
SetBy(maps, c) == [maps EXCEPT ![c.kind] = Code!setValue(@, c.index, c.value)]

\* A call adds to the map of its kind what no call before it did.
LEMMA CallSets ==
  ASSUME NEW sets \in Seq(SetCalls), NEW k \in 1 .. Len(sets), NEW maps \in Maps
  PROVE  /\ SetBy(maps, sets[k]) \in Maps
         /\ SetUpto(sets, k - 1, maps) => SetUpto(sets, k, SetBy(maps, sets[k]))
<1> DEFINE c == sets[k]
           m == maps[c.kind]
           n == Code!setValue(m, c.index, c.value)
           new == SetBy(maps, c)
<1>1. c.kind \in Code!Kinds /\ c.index \in Nat /\ c.value \in Atom
  <2>1. c \in SetCalls OBVIOUS
  <2> QED BY <2>1 DEF SetCalls
<1>2. m \in Mapping /\ IsFiniteSet(DOMAIN m) BY <1>1 DEF Maps
<1>3. /\ n \in Mapping /\ IsFiniteSet(DOMAIN n) /\ DOMAIN n = DOMAIN m \union {c.index}
      /\ \A j \in DOMAIN m : n[j] = m[j]
      /\ c.index \notin DOMAIN m => n[c.index] = c.value BY <1>1, <1>2, ValueSet
<1>4. new = [maps EXCEPT ![c.kind] = n] BY DEF SetBy
<1>5. k \in Nat /\ \A q : q \in 1 .. k <=> q \in 1 .. k - 1 \/ q = k OBVIOUS
<1> HIDE DEF n, new
<1>6. new[c.kind] = n /\ \A kind \in Code!Kinds \ {c.kind} : new[kind] = maps[kind]
  BY <1>1, <1>4 DEF Maps
<1>7. new \in Maps BY <1>1, <1>3, <1>4 DEF Maps
<1>8. ASSUME SetUpto(sets, k - 1, maps) PROVE SetUpto(sets, k, new)
  <2> SUFFICES ASSUME NEW kind \in Code!Kinds
      PROVE /\ \A i : i \in DOMAIN new[kind] <=> OfKind(sets, kind, i, k) # {}
            /\ \A i \in DOMAIN new[kind] :
                 \E q \in OfKind(sets, kind, i, k) :
                   new[kind][i] = sets[q].value /\ \A r \in OfKind(sets, kind, i, k) : q <= r
    BY DEF SetUpto
  <2>1. /\ \A i : i \in DOMAIN maps[kind] <=> OfKind(sets, kind, i, k - 1) # {}
        /\ \A i \in DOMAIN maps[kind] :
             \E q \in OfKind(sets, kind, i, k - 1) :
               maps[kind][i] = sets[q].value /\ \A r \in OfKind(sets, kind, i, k - 1) : q <= r
    BY <1>8 DEF SetUpto
  <2>2. \A i : OfKind(sets, kind, i, k) = OfKind(sets, kind, i, k - 1)
                                          \union (IF kind = c.kind /\ i = c.index THEN {k} ELSE {})
    BY <1>5 DEF OfKind
  <2>3. \A i : \A q \in OfKind(sets, kind, i, k - 1) : q \in 1 .. k - 1 /\ q <= k /\ q \in Int
    BY <1>5 DEF OfKind
  <2>4. ASSUME NEW i PROVE i \in DOMAIN new[kind] <=> OfKind(sets, kind, i, k) # {}
    <3>1. CASE kind = c.kind
      <4>1. i \in DOMAIN new[kind] <=> i \in DOMAIN maps[kind] \/ i = c.index BY <3>1, <1>3, <1>6
      <4>2. OfKind(sets, kind, i, k) = OfKind(sets, kind, i, k - 1) \union (IF i = c.index THEN {k} ELSE {})
        BY <3>1, <2>2
      <4> HIDE DEF c
      <4>3. OfKind(sets, kind, i, k) # {} <=> OfKind(sets, kind, i, k - 1) # {} \/ i = c.index BY <4>2
      <4> QED BY <4>1, <4>3, <2>1
    <3>2. CASE kind # c.kind
      <4>1. new[kind] = maps[kind] BY <3>2, <1>6
      <4> HIDE DEF c
      <4> QED BY <4>1, <3>2, <2>1, <2>2
    <3> QED BY <3>1, <3>2
  <2>5. ASSUME NEW i \in DOMAIN new[kind]
        PROVE  \E q \in OfKind(sets, kind, i, k) :
                 new[kind][i] = sets[q].value /\ \A r \in OfKind(sets, kind, i, k) : q <= r
    <3>1. CASE i \in DOMAIN maps[kind]
      <4>1. PICK q \in OfKind(sets, kind, i, k - 1) :
              maps[kind][i] = sets[q].value /\ \A r \in OfKind(sets, kind, i, k - 1) : q <= r
        BY <3>1, <2>1
      <4>2. new[kind][i] = maps[kind][i] BY <3>1, <1>3, <1>6
      <4>3. \A r \in OfKind(sets, kind, i, k) : r \in OfKind(sets, kind, i, k - 1) \/ r = k BY <2>2
      <4>4. q <= k /\ q \in OfKind(sets, kind, i, k) BY <2>2, <2>3
      <4> QED BY <4>1, <4>2, <4>3, <4>4
    <3>2. CASE i \notin DOMAIN maps[kind]
      <4>1. kind = c.kind /\ i = c.index BY <3>2, <1>3, <1>6
      <4>2. new[kind][i] = c.value BY <4>1, <3>2, <1>3, <1>6
      <4>3. OfKind(sets, kind, i, k - 1) = {} BY <3>2, <2>1
      <4>4. OfKind(sets, kind, i, k) = {k} BY <4>1, <4>3, <2>2
      <4>5. k <= k BY <1>5
      <4> QED BY <4>2, <4>4, <4>5
    <3> QED BY <3>1, <3>2
  <2> QED BY <2>4, <2>5
<1> QED BY <1>7, <1>8 DEF new

\* The maps of a SqlBind have the first value that was set of each kind.
LEMMA MapsHaveValues ==
  ASSUME NEW sets \in Seq(SetCalls)
  PROVE  Code!SqlBind(sets) \in Maps /\ SetUpto(sets, Len(sets), Code!SqlBind(sets))
<1> DEFINE n == Len(sets)
           base == [kind \in Code!Kinds |-> <<>>]
           st == [k \in 1 .. n |-> [m \in Maps |-> SetBy(m, sets[k])]]
<1>1. n \in Nat /\ n = Len(sets) OBVIOUS
<1>2. base \in Maps /\ SetUpto(sets, 0, base)
  <2>1. <<>> \in [{} -> Atom] /\ DOMAIN <<>> = {} OBVIOUS
  <2>2. <<>> \in {m \in Mapping : IsFiniteSet(DOMAIN m)}
    <3>1. {} \in SUBSET Nat /\ IsFiniteSet({}) BY FS_EmptySet
    <3>2. <<>> \in Mapping BY <2>1, <3>1 DEF Mapping
    <3> QED BY <2>1, <3>1, <3>2
  <2>3. base \in Maps
    <3> DEFINE M == {m \in Mapping : IsFiniteSet(DOMAIN m)}
    <3>1. <<>> \in M BY <2>2
    <3> HIDE DEF M
    <3>2. base \in [Code!Kinds -> M] BY <3>1
    <3> QED BY <3>2 DEF Maps, M
  <2>4. \A kind : \A i : OfKind(sets, kind, i, 0) = {} BY DEF OfKind
  <2>5. SetUpto(sets, 0, base) BY <2>1, <2>4 DEF SetUpto
  <2> QED BY <2>3, <2>5
<1> HIDE DEF base
<1>3. Steps(n, Maps, base, st)
  <2>1. \A k \in 1 .. n : \A m \in Maps : SetBy(m, sets[k]) \in Maps BY CallSets
  <2>2. \A k \in 1 .. n : st[k] \in [Maps -> Maps]
    <3> HIDE DEF n
    <3> QED BY <2>1
  <2> HIDE DEF n
  <2>3. st \in [1 .. n -> [Maps -> Maps]] BY <2>2
  <2> QED BY <1>1, <1>2, <2>3 DEF Steps
<1> HIDE DEF n
<1>4. PICK g : Iterates(n, Maps, base, st, g) BY <1>3, Iteration
<1> DEFINE F(h) == h = [k \in 0 .. n |-> IF k = 0 THEN base ELSE SetBy(h[k - 1], sets[k])]
           h == CHOOSE h : F(h)
<1>5. F(g)
  <2>1. g \in [0 .. n -> Maps] /\ g[0] = base /\ \A k \in 1 .. n : g[k] = st[k][g[k - 1]]
    BY <1>4 DEF Iterates
  <2>2. \A k \in 1 .. n : g[k] = SetBy(g[k - 1], sets[k])
    <3> TAKE k \in 1 .. n
    <3>1. g[k - 1] \in Maps BY <1>1, <2>1
    <3> QED BY <3>1, <2>1
  <2>3. \A k \in 0 .. n : g[k] = IF k = 0 THEN base ELSE SetBy(g[k - 1], sets[k]) BY <1>1, <2>1, <2>2
  <2>4. g = [k \in 0 .. n |-> g[k]] BY <2>1
  <2> QED BY <2>3, <2>4
<1>6. F(h) BY <1>5
<1>7. Code!SqlBind(sets) = h[n] BY DEF Code!SqlBind, SetBy, base, n
<1> HIDE DEF h
<1>8. h[0] = base /\ \A k \in 1 .. n : h[k] = SetBy(h[k - 1], sets[k]) BY <1>1, <1>6
<1> DEFINE T == {k \in 0 .. n : h[k] \in Maps /\ SetUpto(sets, k, h[k])}
<1>9. ASSUME NEW k \in 0 .. n, \A j \in 0 .. k - 1 : j \in T PROVE k \in T
  <2>1. CASE k = 0 BY <1>1, <1>2, <1>8, <2>1
  <2>2. CASE k # 0
    <3>1. k - 1 \in T /\ k \in 1 .. n BY <1>1, <1>9, <2>2
    <3>2. h[k] = SetBy(h[k - 1], sets[k]) /\ h[k - 1] \in Maps /\ SetUpto(sets, k - 1, h[k - 1])
      BY <1>8, <3>1
    <3>3. SetBy(h[k - 1], sets[k]) \in Maps /\ SetUpto(sets, k, SetBy(h[k - 1], sets[k]))
      BY <1>1, <3>1, <3>2, CallSets
    <3> QED BY <3>1, <3>2, <3>3
  <2> QED BY <2>1, <2>2
<1>10. n \in T
  <2>1. GrowsUp(0, n, T) BY <1>1, <1>9 DEF GrowsUp
  <2>2. 0 .. n \subseteq T BY <2>1, Upwards
  <2> QED BY <1>1, <2>2
<1> QED BY <1>1, <1>7, <1>10

\* What a statement has in the place of a placeholder
BoundValues == [value : Atom, quoted : BOOLEAN]

\* A placeholder that was set is replaced by the value that counts.
LEMMA ValueIsBound ==
  ASSUME NEW sets \in Seq(SetCalls), NEW i, \E k \in DOMAIN sets : sets[k].index = i
  PROVE  LET maps == Code!SqlBind(sets)
         IN /\ Code!Bound(maps, i) = <<Code!ValueOf(sets, i)>> /\ Code!ValueOf(sets, i) \in BoundValues
            /\ \E kind \in Code!Kinds : i \in DOMAIN maps[kind]
<1> DEFINE n == Len(sets)
           maps == Code!SqlBind(sets)
           Of(kind) == {k \in DOMAIN sets : sets[k].index = i /\ sets[k].kind = kind}
           FirstSet(kind) == sets[Code!Min(Of(kind))].value
<1> SUFFICES /\ Code!Bound(maps, i) = <<Code!ValueOf(sets, i)>> /\ Code!ValueOf(sets, i) \in BoundValues
             /\ \E kind \in Code!Kinds : i \in DOMAIN maps[kind] OBVIOUS
<1>1. n \in Nat /\ DOMAIN sets = 1 .. n /\ \A k \in 1 .. n : sets[k] \in SetCalls OBVIOUS
<1>2. maps \in Maps /\ SetUpto(sets, n, maps) BY MapsHaveValues
<1>3. Code!ValueOf(sets, i) = IF Of("mpInt") # {} THEN Code!Bare(FirstSet("mpInt"))
                              ELSE IF Of("mpUint") # {} THEN Code!Bare(FirstSet("mpUint"))
                              ELSE Code!Quoted(FirstSet("mpStr"))
  BY DEF Code!ValueOf
<1>4. Code!Bound(maps, i) = IF i \in DOMAIN maps["mpInt"] THEN <<Code!Bare(maps["mpInt"][i])>>
                            ELSE IF i \in DOMAIN maps["mpUint"] THEN <<Code!Bare(maps["mpUint"][i])>>
                            ELSE IF i \in DOMAIN maps["mpStr"] THEN <<Code!Quoted(maps["mpStr"][i])>>
                            ELSE Code!Placeholder(i)
  BY DEF Code!Bound
<1> HIDE DEF maps, n
<1>5. \A kind : Of(kind) = OfKind(sets, kind, i, n) /\ Of(kind) \subseteq 1 .. n BY <1>1 DEF OfKind
<1> HIDE DEF Of
<1>6. ASSUME NEW kind \in Code!Kinds
      PROVE  /\ i \in DOMAIN maps[kind] <=> Of(kind) # {}
             /\ Of(kind) # {} => maps[kind][i] = FirstSet(kind) /\ FirstSet(kind) \in Atom
  <2>1. i \in DOMAIN maps[kind] <=> Of(kind) # {} BY <1>2, <1>5 DEF SetUpto
  <2>2. ASSUME Of(kind) # {} PROVE maps[kind][i] = FirstSet(kind) /\ FirstSet(kind) \in Atom
    <3>1. PICK q \in Of(kind) : maps[kind][i] = sets[q].value /\ \A r \in Of(kind) : q <= r
      BY <1>2, <1>5, <2>1, <2>2 DEF SetUpto
    <3>2. Of(kind) \subseteq 1 .. n /\ 1 \in Nat BY <1>5
    <3>3. Code!Min(Of(kind)) \in Of(kind) /\ \A r \in Of(kind) : Code!Min(Of(kind)) <= r
      BY <1>1, <2>2, <3>2, MinMaxOf
    <3>4. \A a \in 1 .. n : \A b \in 1 .. n : a <= b /\ b <= a => a = b BY <1>1
    <3>5. q = Code!Min(Of(kind)) BY <3>1, <3>2, <3>3, <3>4
    <3>6. sets[q].value \in Atom
      <4>1. sets[q] \in SetCalls BY <1>1, <3>1, <3>2
      <4> QED BY <4>1 DEF SetCalls
    <3> QED BY <3>1, <3>5, <3>6
  <2> QED BY <2>1, <2>2
<1>7. \E kind \in Code!Kinds : Of(kind) # {}
  <2>1. PICK k \in DOMAIN sets : sets[k].index = i OBVIOUS
  <2>2. sets[k].kind \in Code!Kinds
    <3>1. sets[k] \in SetCalls BY <1>1
    <3> QED BY <3>1 DEF SetCalls
  <2>3. k \in Of(sets[k].kind) BY <2>1 DEF Of
  <2> QED BY <2>2, <2>3
<1>8. Code!Kinds = {"mpInt", "mpUint", "mpStr"} BY DEF Code!Kinds
<1>9. \A v \in Atom : Code!Bare(v) \in BoundValues /\ Code!Quoted(v) \in BoundValues
  BY DEF Code!Bare, Code!Quoted, BoundValues
<1> HIDE DEF FirstSet
<1> QED BY <1>3, <1>4, <1>6, <1>7, <1>8, <1>9

\* The maps have a value for each of the first m numbers: the loop of getSql
\* has a turn for each.
LEMMA EnoughTurns ==
  ASSUME NEW maps \in Maps, NEW m \in Nat, \A i \in 1 .. m : \E kind \in Code!Kinds : i \in DOMAIN maps[kind]
  PROVE  LET n == Cardinality(DOMAIN maps["mpInt"]) + Cardinality(DOMAIN maps["mpUint"])
                    + Cardinality(DOMAIN maps["mpStr"])
         IN n \in Nat /\ m <= n
<1> DEFINE A == DOMAIN maps["mpInt"]
           B == DOMAIN maps["mpUint"]
           C == DOMAIN maps["mpStr"]
<1>1. IsFiniteSet(A) /\ IsFiniteSet(B) /\ IsFiniteSet(C) BY DEF Maps, Code!Kinds
<1>2. 1 .. m \subseteq (A \union B) \union C BY DEF Code!Kinds
<1> HIDE DEF A, B, C
<1>3. Cardinality(A) \in Nat /\ Cardinality(B) \in Nat /\ Cardinality(C) \in Nat
  BY <1>1, FS_CardinalityType
<1>4. /\ IsFiniteSet(A \union B)
      /\ Cardinality(A \union B) = Cardinality(A) + Cardinality(B) - Cardinality(A \intersect B)
      /\ IsFiniteSet(A \intersect B) /\ Cardinality(A \intersect B) \in Nat
  <2>1. IsFiniteSet(A \union B) /\ Cardinality(A \union B) = Cardinality(A) + Cardinality(B) - Cardinality(A \intersect B)
    BY <1>1, FS_Union
  <2>2. IsFiniteSet(A \intersect B) BY <1>1, FS_Intersection
  <2> QED BY <2>1, <2>2, FS_CardinalityType
<1> DEFINE D == A \union B
<1>5. /\ IsFiniteSet(D \union C)
      /\ Cardinality(D \union C) = Cardinality(D) + Cardinality(C) - Cardinality(D \intersect C)
      /\ IsFiniteSet(D \intersect C) /\ Cardinality(D \intersect C) \in Nat
  <2> HIDE DEF D
  <2>0. IsFiniteSet(D) BY <1>4 DEF D
  <2>1. IsFiniteSet(D \union C) /\ Cardinality(D \union C) = Cardinality(D) + Cardinality(C) - Cardinality(D \intersect C)
    BY <1>1, <2>0, FS_Union
  <2>2. IsFiniteSet(D \intersect C) BY <1>1, <2>0, FS_Intersection
  <2> QED BY <2>1, <2>2, FS_CardinalityType
<1>6. Cardinality(1 .. m) = m
  <2>1. Cardinality(1 .. m) = IF 1 > m THEN 0 ELSE m - 1 + 1 BY FS_Interval
  <2> QED BY <2>1
<1>7. Cardinality(1 .. m) <= Cardinality(D \union C) BY <1>2, <1>5, FS_Subset
<1>8. Cardinality(A) + Cardinality(B) + Cardinality(C) \in Nat /\ m <= Cardinality(A) + Cardinality(B) + Cardinality(C)
  BY <1>3, <1>4, <1>5, <1>6, <1>7 DEF D
<1> QED BY <1>8 DEF A, B, C

\* A text stands at q, and its first character nowhere before.
StandsAt(s, text, from, q) ==
  /\ from <= q /\ q + Len(text) - 1 <= Len(s)
  /\ \A p \in 1 .. Len(text) : s[q + p - 1] = text[p]
  /\ \A j \in from .. q - 1 : s[j] # text[1]

\* It is found there.
LEMMA FoundAt ==
  ASSUME NEW X, NEW s \in Seq(X), NEW text \in Seq(X), text # <<>>, NEW from \in Nat \ {0}, NEW q \in Nat,
         StandsAt(s, text, from, q)
  PROVE  Code!Find(s, text, from) = q
<1>0. /\ from <= q /\ q + Len(text) - 1 <= Len(s)
      /\ \A p \in 1 .. Len(text) : s[q + p - 1] = text[p]
      /\ \A j \in from .. q - 1 : s[j] # text[1] BY DEF StandsAt
<1> DEFINE n == Len(text)
           m == Len(s)
           at == {i \in from .. m - n + 1 : SubSeq(s, i, i + n - 1) = text}
<1>1. n \in Nat \ {0} /\ m \in Nat /\ n = Len(text) /\ m = Len(s) OBVIOUS
<1>2. Code!Find(s, text, from) = IF at = {} THEN 0 ELSE Code!Min(at) BY DEF Code!Find
<1> HIDE DEF n, m
<1>3. ASSUME NEW i \in from .. m - n + 1
      PROVE  /\ SubSeq(s, i, i + n - 1) \in Seq(X) /\ Len(SubSeq(s, i, i + n - 1)) = n
             /\ \A p \in 1 .. n : SubSeq(s, i, i + n - 1)[p] = s[i + p - 1]
  <2> DEFINE b == i + n - 1
  <2>1. i \in Nat \ {0} /\ b \in Nat /\ i <= b + 1 /\ b <= Len(s) /\ b - i + 1 = n BY <1>1
  <2> HIDE DEF b
  <2>2. SubSeq(s, i, b) \in Seq(X) /\ Len(SubSeq(s, i, b)) = b - i + 1
        /\ \A p \in 1 .. b - i + 1 : SubSeq(s, i, b)[p] = s[i + p - 1] BY <2>1, Piece
  <2> QED BY <2>1, <2>2 DEF b
<1>4. q \in from .. m - n + 1 /\ 1 \in 1 .. n BY <1>0, <1>1
<1>5. SubSeq(s, q, q + n - 1) = text
  <2> DEFINE t == SubSeq(s, q, q + n - 1)
  <2>1. t \in Seq(X) /\ Len(t) = n /\ \A p \in 1 .. n : t[p] = s[q + p - 1] BY <1>3, <1>4
  <2> HIDE DEF t
  <2>2. t = text BY <1>0, <1>1, <2>1, Same
  <2> QED BY <2>2 DEF t
<1>6. \A i \in at : i >= q
  <2> SUFFICES ASSUME NEW i \in at, i < q PROVE FALSE BY <1>4
  <2>1. i \in from .. m - n + 1 /\ SubSeq(s, i, i + n - 1) = text /\ i \in from .. q - 1 BY <1>4
  <2>2. SubSeq(s, i, i + n - 1)[1] = s[i]
    <3>1. i + 1 - 1 = i BY <2>1
    <3> QED BY <1>3, <1>4, <2>1, <3>1
  <2> QED BY <1>0, <2>1, <2>2
<1>7. q \in at BY <1>4, <1>5
<1>8. \A i \in at : i \in 0 .. m /\ i \in Nat
  <2> TAKE i \in at
  <2>1. i \in from .. m - n + 1 OBVIOUS
  <2> HIDE DEF at
  <2> QED BY <1>1, <2>1
<1> HIDE DEF at
<1>9. Code!Min(at) \in at /\ \A j \in at : Code!Min(at) <= j
  <2>1. 0 \in Nat /\ at \subseteq 0 .. m /\ at # {} BY <1>7, <1>8
  <2> QED BY <1>1, <2>1, MinMaxOf
<1>10. Code!Min(at) <= q /\ Code!Min(at) >= q /\ Code!Min(at) \in Nat BY <1>6, <1>7, <1>8, <1>9
<1> QED BY <1>2, <1>7, <1>10

\* A text whose first character stands nowhere is not found.
LEMMA NotFound ==
  ASSUME NEW X, NEW s \in Seq(X), NEW text \in Seq(X), text # <<>>, NEW from \in Nat \ {0},
         \A j \in from .. Len(s) : s[j] # text[1]
  PROVE  Code!Find(s, text, from) = 0
<1> DEFINE n == Len(text)
           m == Len(s)
           at == {i \in from .. m - n + 1 : SubSeq(s, i, i + n - 1) = text}
<1>1. n \in Nat \ {0} /\ m \in Nat /\ n = Len(text) /\ m = Len(s) OBVIOUS
<1>2. Code!Find(s, text, from) = IF at = {} THEN 0 ELSE Code!Min(at) BY DEF Code!Find
<1> HIDE DEF n, m
<1>3. ASSUME NEW i \in at PROVE FALSE
  <2>1. i \in from .. m - n + 1 /\ SubSeq(s, i, i + n - 1) = text /\ i \in from .. m BY <1>1
  <2>2. i \in Nat \ {0} /\ i + n - 1 \in Nat /\ i <= i + n - 1 + 1 /\ i + n - 1 <= Len(s) /\ 1 \in 1 .. i + n - 1 - i + 1
        /\ i + 1 - 1 = i BY <1>1, <2>1
  <2>3. SubSeq(s, i, i + n - 1)[1] = s[i + 1 - 1] BY <2>2, Piece
  <2> QED BY <1>1, <2>1, <2>2, <2>3
<1> QED BY <1>2, <1>3

\* A placeholder is a colon and figures.
LEMMA PlaceholderText ==
  ASSUME NEW i \in Nat
  PROVE  Code!Placeholder(i) \in Seq(Code!Byte) /\ Code!Placeholder(i) # <<>> /\ Code!Placeholder(i)[1] = 58
<1>1. Code!Decimal(i) \in Seq(Figure) BY DecimalIsRead
<1>2. 58 \in Code!Byte /\ Figure \subseteq Code!Byte BY DEF Code!Byte, Figure
<1>3. Code!Decimal(i) \in Seq(Code!Byte) BY <1>1, <1>2
<1> HIDE DEF Figure
<1>4. <<58>> \in Seq(Code!Byte) BY <1>2
<1> QED BY <1>3, <1>4 DEF Code!Placeholder

\* What the text of a statement is made of
Element == Code!Byte \union BoundValues

\* Where getSql stands: what it has made, and how much of the pattern it has passed.
Made(x, at)  == [sql |-> x, p1 |-> at + 1, npos |-> FALSE]
Ended(x, at) == [sql |-> x, p1 |-> at + 1, npos |-> TRUE]

\* A part of the pattern, and the rest of it without a colon
HasPart(pattern, at, part) ==
  at + Len(part) <= Len(pattern) /\ \A p \in 1 .. Len(part) : pattern[at + p] = part[p]
NoColonBehind(pattern, at) == \A j \in at + 1 .. Len(pattern) : pattern[j] # 58

\* Placeholder i stands behind a piece of the pattern, and y and to are where
\* its value brings the loop.
Stands(pattern, maps, i, at, piece, v, x, y, to) ==
  LET part == piece \o Code!Placeholder(i)
  IN /\ HasPart(pattern, at, part) /\ Code!Bound(maps, i) = <<v>>
     /\ y = x \o (piece \o <<v>>) /\ to = at + Len(part)

\* A placeholder behind a piece without a colon is the one that is replaced.
LEMMA OneReplaced ==
  ASSUME NEW pattern \in Seq(Code!Byte), NEW maps, NEW i \in Nat, NEW at \in Nat, NEW piece \in Pieces,
         NEW v \in BoundValues, NEW x \in Seq(Element), NEW y, NEW to,
         Stands(pattern, maps, i, at, piece, v, x, y, to)
  PROVE  Code!Replace(pattern, maps, Made(x, at), i) = Made(y, to)
<1> DEFINE part == piece \o Code!Placeholder(i)
           text == Code!Placeholder(i)
           a == Len(piece)
           n == Len(text)
           m == Len(pattern)
           q == at + a + 1
           from == at + 1
<1>0. /\ at + Len(part) <= Len(pattern) /\ \A p \in 1 .. Len(part) : pattern[at + p] = part[p]
      /\ Code!Bound(maps, i) = <<v>> /\ y = x \o (piece \o <<v>>) /\ to = at + Len(part)
  BY DEF Stands, HasPart
<1>1. text \in Seq(Code!Byte) /\ text # <<>> /\ text[1] = 58 /\ n \in Nat \ {0} BY PlaceholderText
<1>2. piece \in Seq(Code!Byte) /\ a \in Nat /\ \A p \in 1 .. a : piece[p] # 58 BY DEF Pieces
<1>3. /\ Len(part) = a + n /\ \A p \in 1 .. a : part[p] = piece[p]
      /\ \A p \in 1 .. n : part[a + p] = text[p]
  <2>1. part = piece \o text OBVIOUS
  <2> HIDE DEF text
  <2> QED BY <1>1, <1>2, <2>1
<1>4. m \in Nat /\ at + a + n <= m
  <2>1. m \in Nat OBVIOUS
  <2> HIDE DEF a, n, m
  <2> QED BY <1>0, <1>2, <1>1, <1>3, <2>1 DEF m
<1> HIDE DEF text, part
<1>5. Code!Find(pattern, text, from) = q
  <2>1. from \in Nat \ {0} /\ q \in Nat /\ from <= q /\ q + Len(text) - 1 <= Len(pattern)
    BY <1>1, <1>2, <1>4
  <2>2. ASSUME NEW p \in 1 .. Len(text) PROVE pattern[q + p - 1] = text[p]
    <3>1. q + p - 1 = at + (a + p) /\ a + p \in 1 .. Len(part) BY <1>1, <1>2, <1>3
    <3> HIDE DEF a, q
    <3> QED BY <1>0, <1>3, <3>1
  <2>3. ASSUME NEW j \in from .. q - 1 PROVE pattern[j] # text[1]
    <3> DEFINE p == j - at
    <3>1. j = at + p /\ p \in 1 .. a /\ p \in 1 .. Len(part) BY <1>1, <1>2, <1>3
    <3> HIDE DEF p, a
    <3>2. pattern[j] = piece[p] BY <1>0, <1>3, <3>1
    <3> QED BY <1>1, <1>2, <3>1, <3>2
  <2> HIDE DEF q, from
  <2>4. StandsAt(pattern, text, from, q) BY <2>1, <2>2, <2>3 DEF StandsAt
  <2> QED BY <1>1, <2>1, <2>4, FoundAt
<1>6. SubSeq(pattern, from, q - 1) = piece
  <2> DEFINE b == at + a
             t == SubSeq(pattern, from, b)
  <2>1. from \in Nat \ {0} /\ b \in Nat /\ from <= b + 1 /\ b <= Len(pattern) /\ b - from + 1 = a /\ q - 1 = b
    BY <1>1, <1>2, <1>4
  <2> HIDE DEF b, from, a
  <2>2. t \in Seq(Code!Byte) /\ Len(t) = b - from + 1 /\ \A p \in 1 .. b - from + 1 : t[p] = pattern[from + p - 1]
    BY <2>1, Piece
  <2>3. ASSUME NEW p \in 1 .. a PROVE t[p] = piece[p]
    <3>1. from + p - 1 = at + p /\ p \in 1 .. Len(part) BY <1>1, <1>2, <1>3 DEF from
    <3> QED BY <1>0, <1>3, <2>1, <2>2, <3>1
  <2> HIDE DEF t
  <2>4. t = piece BY <1>2, <2>1, <2>2, <2>3, Same DEF a
  <2> QED BY <2>1, <2>4 DEF t
<1>7. /\ x \in Seq(Element) /\ piece \in Seq(Element) /\ <<v>> \in Seq(Element)
  <2>1. Code!Byte \subseteq Element /\ v \in Element BY DEF Element
  <2> QED BY <1>2, <2>1
<1>8. (x \o piece) \o <<v>> = x \o (piece \o <<v>>) BY <1>7, ThreeJoined
<1> DEFINE s == Made(x, at)
<1>9. s.sql = x /\ s.p1 = from /\ s.npos = FALSE BY DEF Made
<1>10. q # 0 /\ q + n = at + Len(part) + 1 BY <1>1, <1>2, <1>3
<1> HIDE DEF s, q, from, n
<1>11. Code!Replace(pattern, maps, s, i) = [sql |-> x \o piece \o <<v>>, p1 |-> q + n, npos |-> FALSE]
  BY <1>0, <1>5, <1>6, <1>9, <1>10 DEF Code!Replace, text, n
<1> QED BY <1>0, <1>8, <1>10, <1>11 DEF Made, s

\* Without another colon the loop ends.
LEMMA NoneReplaced ==
  ASSUME NEW pattern \in Seq(Code!Byte), NEW at \in Nat, NEW i \in Nat, NEW maps, NEW x,
         NEW s \in {Made(x, at), Ended(x, at)}, NoColonBehind(pattern, at)
  PROVE  Code!Replace(pattern, maps, s, i) = Ended(x, at)
<1> DEFINE text == Code!Placeholder(i)
<1>1. text \in Seq(Code!Byte) /\ text # <<>> /\ text[1] = 58 BY PlaceholderText
<1> HIDE DEF text
<1>2. at + 1 \in Nat \ {0} /\ \A j \in at + 1 .. Len(pattern) : pattern[j] # text[1]
  BY <1>1 DEF NoColonBehind
<1>3. Code!Find(pattern, text, at + 1) = 0 BY <1>1, <1>2, NotFound
<1>4. s.sql = x /\ s.p1 = at + 1 BY DEF Made, Ended
<1> QED BY <1>3, <1>4 DEF Code!Replace, Ended, text

\* The pieces of a statement with their placeholders, and with their values
Asked(pieces) == [i \in 1 .. Len(pieces) |-> pieces[i] \o Code!Placeholder(i)]
Answered(pieces, sets) == [i \in 1 .. Len(pieces) |-> pieces[i] \o <<Code!ValueOf(sets, i)>>]

\* Where getSql stands after i turns, so and eo being the beginnings of the two.
TurnOf(m, so, eo, i) ==
  IF i <= m THEN Made(eo[i], Len(so[i])) ELSE Ended(eo[m], Len(so[m]))

\* Every placeholder up to m was set.
AllSet(sets, m) == \A i \in 1 .. m : \E k \in DOMAIN sets : sets[k].index = i

\* Each turn of the loop replaces one placeholder, until none is left.
LEMMA TurnsOfGetSql ==
  ASSUME NEW pieces \in Seq(Pieces), NEW tail \in Pieces, NEW sets \in Seq(SetCalls), AllSet(sets, Len(pieces)),
         NEW so, Beginnings(Code!Byte, Asked(pieces), so),
         NEW eo, Beginnings(Element, Answered(pieces, sets), eo), NEW i \in Nat \ {0}
  PROVE  LET pattern == Code!FlattenSeq(Asked(pieces)) \o tail
             m == Len(pieces)
         IN Code!Replace(pattern, Code!SqlBind(sets), TurnOf(m, so, eo, i - 1), i) = TurnOf(m, so, eo, i)
<1> DEFINE parts == Asked(pieces)
           out == Answered(pieces, sets)
           m == Len(pieces)
           flat == Code!FlattenSeq(parts)
           pattern == flat \o tail
           maps == Code!SqlBind(sets)
<1> SUFFICES Code!Replace(pattern, maps, TurnOf(m, so, eo, i - 1), i) = TurnOf(m, so, eo, i) OBVIOUS
<1>1. m \in Nat /\ m = Len(pieces) /\ \A k \in 1 .. m : pieces[k] \in Pieces OBVIOUS
<1>2. parts \in Seq(Seq(Code!Byte)) /\ Len(parts) = m /\ \A k \in 1 .. m : parts[k] = pieces[k] \o Code!Placeholder(k)
  <2>1. \A k \in 1 .. m : pieces[k] \in Seq(Code!Byte) /\ Code!Placeholder(k) \in Seq(Code!Byte)
    <3> TAKE k \in 1 .. m
    <3>1. pieces[k] \in Pieces /\ k \in Nat BY <1>1
    <3>2. Code!Placeholder(k) \in Seq(Code!Byte) BY <3>1, PlaceholderText
    <3> QED BY <3>1, <3>2 DEF Pieces
  <2>2. \A k \in 1 .. m : pieces[k] \o Code!Placeholder(k) \in Seq(Code!Byte) BY <2>1
  <2>3. parts = [k \in 1 .. m |-> pieces[k] \o Code!Placeholder(k)] BY DEF Asked
  <2> HIDE DEF m, parts
  <2> QED BY <1>1, <2>2, <2>3
<1>3. Len(out) = m /\ \A k \in 1 .. m : out[k] = pieces[k] \o <<Code!ValueOf(sets, k)>>
  <2> HIDE DEF m
  <2> QED BY <1>1 DEF Answered, m
<1>4. \A k \in 1 .. m : InPlace(parts, so, k)
  <2> HIDE DEF m, parts
  <2> QED BY <1>2, PartsInPlace DEF parts
<1>5. /\ so \in [0 .. m -> Seq(Code!Byte)] /\ flat = so[m]
      /\ eo \in [0 .. m -> Seq(Element)] /\ \A k \in 1 .. m : eo[k] = eo[k - 1] \o out[k]
  BY <1>2, <1>3 DEF Beginnings
<1>6. flat \in Seq(Code!Byte) /\ tail \in Seq(Code!Byte) /\ \A p \in 1 .. Len(tail) : tail[p] # 58
  <2>1. flat \in Seq(Code!Byte)
    <3> HIDE DEF flat, parts, m
    <3> QED BY <1>1, <1>5
  <2> QED BY <2>1 DEF Pieces
<1> HIDE DEF parts, out, flat, m, maps
<1>7. /\ pattern \in Seq(Code!Byte) /\ Len(flat) \in Nat /\ Len(tail) \in Nat /\ Len(pattern) = Len(flat) + Len(tail)
      /\ \A p \in 1 .. Len(flat) : pattern[p] = flat[p]
      /\ \A p \in 1 .. Len(tail) : pattern[Len(flat) + p] = tail[p] BY <1>6
<1> HIDE DEF pattern
<1>8. CASE i <= m
  <2> DEFINE x == eo[i - 1]
             at == Len(so[i - 1])
             piece == pieces[i]
             v == Code!ValueOf(sets, i)
             part == parts[i]
  <2>1. i \in 1 .. m /\ i - 1 \in 0 .. m /\ i - 1 <= m /\ i \in Nat BY <1>1, <1>8
  <2>2. x \in Seq(Element) /\ at \in Nat /\ piece \in Pieces
    <3>1. so[i - 1] \in Seq(Code!Byte) /\ eo[i - 1] \in Seq(Element) BY <1>5, <2>1
    <3>2. Len(so[i - 1]) \in Nat BY <3>1
    <3>3. pieces[i] \in Pieces BY <1>1, <2>1
    <3> QED BY <3>1, <3>2, <3>3
  <2>3. Code!Bound(maps, i) = <<v>> /\ v \in BoundValues
    <3>1. \E k \in DOMAIN sets : sets[k].index = i BY <2>1 DEF AllSet, m
    <3> QED BY <3>1, ValueIsBound DEF maps
  <2>4. part = piece \o Code!Placeholder(i) /\ part \in Seq(Code!Byte) /\ Len(part) \in Nat
    BY <1>2, <2>1
  <2>5. /\ at + Len(part) = Len(so[i]) /\ Len(so[i]) <= Len(flat)
        /\ \A p \in 1 .. Len(part) : flat[at + p] = part[p] BY <1>4, <2>1 DEF InPlace, flat
  <2> HIDE DEF part, piece, at
  <2>6. HasPart(pattern, at, part)
    <3>1. at + Len(part) <= Len(pattern) BY <1>7, <2>2, <2>4, <2>5
    <3>2. ASSUME NEW p \in 1 .. Len(part) PROVE pattern[at + p] = part[p]
      <4>1. at + p \in 1 .. Len(flat) BY <1>7, <2>2, <2>4, <2>5
      <4> QED BY <1>7, <2>5, <4>1
    <3> QED BY <3>1, <3>2 DEF HasPart
  <2> HIDE DEF v, x
  <2> DEFINE y == eo[i]
             to == Len(so[i])
  <2>8. y = x \o (piece \o <<v>>) /\ to = at + Len(part) BY <1>3, <1>5, <2>1, <2>5 DEF x, piece, v
  <2>9. TurnOf(m, so, eo, i - 1) = Made(x, at) /\ TurnOf(m, so, eo, i) = Made(y, to)
    BY <1>8, <2>1 DEF TurnOf, x, at
  <2> HIDE DEF y, to
  <2>10. Code!Replace(pattern, maps, Made(x, at), i) = Made(y, to)
    <3>1. pattern \in Seq(Code!Byte) /\ i \in Nat BY <1>7, <2>1
    <3>2. Stands(pattern, maps, i, at, piece, v, x, y, to) BY <2>3, <2>4, <2>6, <2>8 DEF Stands
    <3> QED BY <3>1, <3>2, <2>2, <2>3, OneReplaced
  <2> QED BY <2>9, <2>10
<1>9. CASE i > m
  <2> DEFINE x == eo[m]
             at == Len(so[m])
  <2>1. at = Len(flat) BY <1>5
  <2>2. NoColonBehind(pattern, at)
    <3> SUFFICES ASSUME NEW j \in at + 1 .. Len(pattern) PROVE pattern[j] # 58 BY DEF NoColonBehind
    <3> DEFINE p == j - Len(flat)
    <3>1. p \in 1 .. Len(tail) /\ j = Len(flat) + p BY <1>7, <2>1
    <3> HIDE DEF p, at
    <3>2. pattern[j] = tail[p] BY <1>7, <3>1
    <3> QED BY <1>6, <3>1, <3>2
  <2>3. TurnOf(m, so, eo, i - 1) \in {Made(x, at), Ended(x, at)}
    <3>1. CASE i - 1 <= m
      <4>1. i - 1 = m BY <1>1, <1>9, <3>1
      <4> QED BY <4>1, <3>1 DEF TurnOf
    <3>2. CASE ~(i - 1 <= m) BY <3>2 DEF TurnOf
    <3> QED BY <3>1, <3>2
  <2>4. TurnOf(m, so, eo, i) = Ended(x, at)
    <3>1. ~(i <= m) BY <1>1, <1>9
    <3> QED BY <3>1 DEF TurnOf
  <2> HIDE DEF x, at
  <2> DEFINE w == TurnOf(m, so, eo, i - 1)
  <2> HIDE DEF w
  <2>5. Code!Replace(pattern, maps, w, i) = Ended(x, at)
    <3>1. at \in Nat /\ i \in Nat /\ pattern \in Seq(Code!Byte) BY <1>7, <2>1
    <3>2. w \in {Made(x, at), Ended(x, at)} BY <2>3 DEF w
    <3> QED BY <2>2, <3>1, <3>2, NoneReplaced
  <2> QED BY <2>4, <2>5 DEF w
<1> QED BY <1>1, <1>8, <1>9

Statement(pieces, tail) == Code!FlattenSeq(Asked(pieces)) \o tail

\* Where the loop of getSql ends, after any number of turns that is enough.
LEMMA GetSqlEnds ==
  ASSUME NEW pieces \in Seq(Pieces), NEW tail \in Pieces, NEW sets \in Seq(SetCalls), AllSet(sets, Len(pieces)),
         NEW so, Beginnings(Code!Byte, Asked(pieces), so),
         NEW eo, Beginnings(Element, Answered(pieces, sets), eo)
  PROVE  Code!getSql(Statement(pieces, tail), Code!SqlBind(sets))
           = eo[Len(pieces)] \o SubSeq(Statement(pieces, tail), Len(so[Len(pieces)]) + 1, Len(Statement(pieces, tail)))
<1> DEFINE pattern == Code!FlattenSeq(Asked(pieces)) \o tail
           m == Len(pieces)
           maps == Code!SqlBind(sets)
           n == Cardinality(DOMAIN maps["mpInt"]) + Cardinality(DOMAIN maps["mpUint"]) + Cardinality(DOMAIN maps["mpStr"])
           S(i) == TurnOf(m, so, eo, i)
<1> SUFFICES Code!getSql(pattern, maps) = eo[m] \o SubSeq(pattern, Len(so[m]) + 1, Len(pattern))
  BY DEF Statement
<1>1. m \in Nat OBVIOUS
<1>2. n \in Nat /\ m <= n
  <2>1. maps \in Maps BY MapsHaveValues
  <2>2. ASSUME NEW i \in 1 .. m PROVE \E kind \in Code!Kinds : i \in DOMAIN maps[kind]
    <3>1. \E k \in DOMAIN sets : sets[k].index = i BY DEF AllSet
    <3> QED BY <3>1, ValueIsBound
  <2> HIDE DEF maps, m
  <2> QED BY <1>1, <2>1, <2>2, EnoughTurns
<1>3. \A i \in 1 .. n : Code!Replace(pattern, maps, S(i - 1), i) = S(i)
  <2> TAKE i \in 1 .. n
  <2>1. i \in Nat \ {0} BY <1>2
  <2> QED BY <2>1, TurnsOfGetSql
<1>4. eo[0] = <<>> /\ so[0] = <<>> BY DEF Beginnings
<1> DEFINE base == [sql |-> <<>>, p1 |-> 1, npos |-> FALSE]
           g == [i \in 0 .. n |-> S(i)]
           F(h) == h = [i \in 0 .. n |-> IF i = 0 THEN base ELSE Code!Replace(pattern, maps, h[i - 1], i)]
           h == CHOOSE h : F(h)
<1>5. S(0) = base
  <2>1. 0 <= m /\ Len(<<>>) + 1 = 1 BY <1>1
  <2> HIDE DEF m
  <2>2. S(0) = Made(eo[0], Len(so[0])) BY <2>1 DEF TurnOf
  <2>3. Len(<<>>) = 0 /\ 0 + 1 = 1 OBVIOUS
  <2>4. S(0) = Made(<<>>, 0) BY <1>4, <2>2, <2>3
  <2>5. Made(<<>>, 0) = base BY <2>3 DEF Made
  <2> HIDE DEF base, S
  <2> QED BY <2>4, <2>5
<1>6. Code!getSql(pattern, maps) = h[n].sql \o SubSeq(pattern, h[n].p1, Len(pattern))
  BY DEF Code!getSql, Code!Cardinality, Cardinality
<1> HIDE DEF S, n, maps, pattern, base
<1>7. F(g)
  <2>1. \A i \in 0 .. n : g[i] = IF i = 0 THEN base ELSE Code!Replace(pattern, maps, g[i - 1], i)
    <3> TAKE i \in 0 .. n
    <3>1. CASE i = 0 BY <1>2, <1>5, <3>1
    <3>2. CASE i # 0
      <4>1. i \in 1 .. n /\ i - 1 \in 0 .. n BY <1>2, <3>2
      <4>2. g[i - 1] = S(i - 1) /\ g[i] = S(i) BY <4>1
      <4> HIDE DEF g
      <4> QED BY <1>3, <3>2, <4>1, <4>2
    <3> QED BY <3>1, <3>2
  <2>2. g = [i \in 0 .. n |-> g[i]] OBVIOUS
  <2> HIDE DEF g
  <2> QED BY <2>1, <2>2
<1>8. F(h)
  <2> HIDE DEF g
  <2> QED BY <1>7
<1> HIDE DEF h, g
<1>9. h[0] = base /\ \A i \in 1 .. n : h[i] = Code!Replace(pattern, maps, h[i - 1], i) BY <1>2, <1>8
<1> DEFINE T == {i \in 0 .. n : h[i] = S(i)}
<1>10. ASSUME NEW k \in 0 .. n, \A j \in 0 .. k - 1 : j \in T PROVE k \in T
  <2>1. CASE k = 0 BY <1>2, <1>5, <1>9, <2>1
  <2>2. CASE k # 0
    <3>1. k - 1 \in T /\ k \in 1 .. n BY <1>2, <1>10, <2>2
    <3> QED BY <1>3, <1>9, <3>1
  <2> QED BY <2>1, <2>2
<1>11. h[n] = S(n)
  <2>1. GrowsUp(0, n, T) BY <1>2, <1>10 DEF GrowsUp
  <2>2. 0 .. n \subseteq T BY <2>1, Upwards
  <2> QED BY <1>2, <2>2
<1>12. S(n).sql = eo[m] /\ S(n).p1 = Len(so[m]) + 1
  <2>1. CASE n <= m
    <3>1. n = m BY <1>1, <1>2, <2>1
    <3> QED BY <2>1, <3>1 DEF S, TurnOf, Made
  <2>2. CASE ~(n <= m) BY <2>2 DEF S, TurnOf, Ended
  <2> QED BY <2>1, <2>2
<1> QED BY <1>6, <1>11, <1>12

\* Every placeholder of every statement is replaced by its value (sqlbind.h).
THEOREM ValuesKeepTheirPlace ==
  \A pieces \in Seq(Pieces), tail \in Pieces, sets \in Seq(SetCalls) : Code!ValuesAreBound(pieces, tail, sets)
<1> SUFFICES ASSUME NEW pieces \in Seq(Pieces), NEW tail \in Pieces, NEW sets \in Seq(SetCalls),
                    AllSet(sets, Len(pieces))
    PROVE  Code!getSql(Code!FlattenSeq(Asked(pieces)) \o tail, Code!SqlBind(sets))
             = Code!FlattenSeq(Answered(pieces, sets)) \o tail
  BY DEF Code!ValuesAreBound, AllSet, Asked, Answered
<1> DEFINE m == Len(pieces)
           parts == Asked(pieces)
           out == Answered(pieces, sets)
           flat == Code!FlattenSeq(parts)
           pattern == flat \o tail
<1>1. m \in Nat /\ \A i \in 1 .. m : pieces[i] \in Pieces /\ i \in Nat OBVIOUS
<1>2. ASSUME NEW i \in 1 .. m
      PROVE  /\ pieces[i] \o Code!Placeholder(i) \in Seq(Code!Byte)
             /\ pieces[i] \o <<Code!ValueOf(sets, i)>> \in Seq(Element)
  <2>1. Code!Placeholder(i) \in Seq(Code!Byte) BY <1>1, PlaceholderText
  <2>2. pieces[i] \in Seq(Code!Byte) BY <1>1 DEF Pieces
  <2>3. Code!ValueOf(sets, i) \in BoundValues
    <3>1. \E k \in DOMAIN sets : sets[k].index = i BY DEF AllSet
    <3> QED BY <3>1, ValueIsBound
  <2>4. Code!Byte \subseteq Element /\ BoundValues \subseteq Element BY DEF Element
  <2>5. pieces[i] \in Seq(Element) /\ <<Code!ValueOf(sets, i)>> \in Seq(Element) BY <2>2, <2>3, <2>4
  <2> HIDE DEF m
  <2>6. pieces[i] \o Code!Placeholder(i) \in Seq(Code!Byte) BY <2>1, <2>2
  <2>7. pieces[i] \o <<Code!ValueOf(sets, i)>> \in Seq(Element) BY <2>5
  <2> QED BY <2>6, <2>7
<1>3. parts \in Seq(Seq(Code!Byte)) /\ out \in Seq(Seq(Element)) /\ Len(parts) = m /\ Len(out) = m
  <2>1. /\ parts = [i \in 1 .. m |-> pieces[i] \o Code!Placeholder(i)]
        /\ out = [i \in 1 .. m |-> pieces[i] \o <<Code!ValueOf(sets, i)>>] BY DEF Asked, Answered
  <2> HIDE DEF m, parts, out
  <2> QED BY <1>1, <1>2, <2>1
<1> HIDE DEF parts, out
<1>4. PICK so : Beginnings(Code!Byte, parts, so) BY <1>3, Flattened
<1>5. PICK eo : Beginnings(Element, out, eo) BY <1>3, Flattened
<1>6. Code!getSql(pattern, Code!SqlBind(sets)) = eo[m] \o SubSeq(pattern, Len(so[m]) + 1, Len(pattern))
  <2>1. AllSet(sets, Len(pieces)) /\ Beginnings(Code!Byte, Asked(pieces), so) /\ Beginnings(Element, Answered(pieces, sets), eo)
    BY <1>4, <1>5 DEF parts, out
  <2>2. Code!getSql(Statement(pieces, tail), Code!SqlBind(sets))
          = eo[Len(pieces)] \o SubSeq(Statement(pieces, tail), Len(so[Len(pieces)]) + 1, Len(Statement(pieces, tail)))
    BY <2>1, GetSqlEnds
  <2>3. pattern = Statement(pieces, tail) BY DEF Statement, parts
  <2> HIDE DEF pattern
  <2> QED BY <2>2, <2>3
<1>7. flat = so[m] /\ Code!FlattenSeq(out) = eo[m] /\ so[m] \in Seq(Code!Byte)
  <2> HIDE DEF m
  <2> QED BY <1>1, <1>3, <1>4, <1>5 DEF Beginnings
<1>8. flat \in Seq(Code!Byte) /\ tail \in Seq(Code!Byte) BY <1>7 DEF Pieces
<1> HIDE DEF flat, m
<1>9. SubSeq(pattern, Len(flat) + 1, Len(pattern)) = tail
  <2> DEFINE a == Len(flat)
             b == Len(pattern)
             c == a + 1
             t == SubSeq(pattern, c, b)
  <2>1. /\ pattern \in Seq(Code!Byte) /\ a \in Nat /\ Len(tail) \in Nat /\ b = a + Len(tail)
        /\ \A p \in 1 .. Len(tail) : pattern[a + p] = tail[p] BY <1>8, Joint
  <2>2. b = Len(pattern) /\ b <= Len(pattern) /\ c = a + 1
    <3> HIDE DEF pattern
    <3> QED BY <2>1
  <2> HIDE DEF a, b, c, pattern
  <2>3. c \in Nat \ {0} /\ b \in Nat /\ c <= b + 1 /\ b - c + 1 = Len(tail) BY <2>1, <2>2
  <2>4. t \in Seq(Code!Byte) /\ Len(t) = b - c + 1 /\ \A p \in 1 .. b - c + 1 : t[p] = pattern[c + p - 1]
    BY <2>1, <2>2, <2>3, Piece
  <2> HIDE DEF t
  <2>5. ASSUME NEW p \in 1 .. Len(t) PROVE t[p] = tail[p]
    <3>1. c + p - 1 = a + p /\ p \in 1 .. Len(tail) BY <2>1, <2>2, <2>3, <2>4
    <3> QED BY <2>1, <2>3, <2>4, <3>1
  <2>6. t = tail BY <1>8, <2>3, <2>4, <2>5, Same
  <2> QED BY <2>6 DEF t, a, b, c
<1> QED BY <1>6, <1>7, <1>9 DEF flat, parts, out

\* What is encoded is decoded to the same, and splitting, trimming, conversion,
\* padding, files, lists, times and the counters of devices lose nothing: for
\* every text, number, list and set of devices (utility.cpp, charset.cpp,
\* md5.cpp, string.h, time.cpp, proc.h).
THEOREM TextIsAlwaysKept == CaseSpec => []TextIsKept
<1>1. ASSUME case \in TextCases PROVE TextIsKept
  <2>1. CASE case \in [kind : {"bytes", "base64"}, s : Seq(Code!Byte)]
    <3>1. case.s \in Seq(Code!Byte) /\ 124 \in Code!Byte BY <2>1 DEF Code!Byte
    <3>2. /\ Code!UrlRoundTrip(case.s) /\ Code!Base64RoundTrip(case.s)
          /\ Code!Sections(case.s, 124) /\ Code!Trimmed(case.s)
      BY <3>1, UrlsAreKept, Base64IsKept, ExplodeKeepsSections, TrimTakesTheBlanks
    <3> QED BY <2>1, <3>2 DEF TextIsKept
  <2>2. CASE case \in [kind : {"bits"}, bits : SUBSET (1 .. 64)]
    <3>1. case.bits \in SUBSET (1 .. 64) BY <2>2
    <3> QED BY <2>2, <3>1, BitsAreKept DEF TextIsKept
  <2>3. CASE case \in [kind : {"units"}, s : Seq({"c", "nul", "sub", "cut"}), room : Nat \ {0}]
    <3>1. case.s \in Seq({"c", "nul", "sub", "cut"}) /\ case.room \in Nat \ {0} BY <2>3
    <3> QED BY <2>3, <3>1, ConversionIsWhole DEF TextIsKept
  <2>4. CASE case \in [kind : {"len"}, len : Nat] BY <2>4, Md5PadsAsTheRfcSays DEF TextIsKept
  <2>5. CASE case \in [kind : {"file"}, s : Seq(Code!Byte), free : Nat, buffer : Nat \ {0}]
    <3>1. case.s \in Seq(Code!Byte) /\ case.free \in Nat /\ case.buffer \in Nat \ {0} BY <2>5
    <3> QED BY <2>5, <3>1, TeeIsRead DEF TextIsKept
  <2>6. CASE case \in [kind : {"net"}, devices : Seq(Devices), indent : Nat, pad : Nat \ {0}, name : Names]
    <3>1. case.devices \in Seq(Devices) /\ case.indent \in Nat /\ case.pad \in Nat \ {0} /\ case.name \in Names
      BY <2>6
    <3> QED BY <2>6, <3>1, CountersAreKept DEF TextIsKept
  <2>7. CASE case \in [kind : {"list"}, list : Seq(Nat), there : Seq(Nat)]
    <3>1. case.list \in Seq(Nat) /\ case.there \in Seq(Nat) BY <2>7
    <3> QED BY <2>7, <3>1, NumbersAreKept DEF TextIsKept
  <2>8. CASE case \in [kind : {"time"}, zone : {"fixed", "summer"}, sec : Nat]
    BY <2>8, TimeIsReadAsPrinted DEF TextIsKept
  <2> QED BY <1>1, <2>1, <2>2, <2>3, <2>4, <2>5, <2>6, <2>7, <2>8 DEF TextCases
<1>2. ASSUME case \in PageCases \union SinkCases \union SqlCases PROVE TextIsKept
  <2>1. case.kind \in {"view", "page", "address", "header", "log", "path", "sql", "append", "rows"}
    BY <1>2 DEF PageCases, SinkCases, SqlCases
  <2> QED BY <2>1 DEF TextIsKept
<1>3. case \in Cases => TextIsKept BY <1>1, <1>2 DEF Cases
<1>4. case \in Cases /\ [FALSE]_case => (case \in Cases)' OBVIOUS
<1> QED BY <1>3, <1>4, PTL DEF CaseSpec

\* Pages get their includes, the client is found in its headers and templates
\* output what was set: for every page, list of proxies, header and sequence of
\* calls (cgx.cpp, cs.cpp).
THEOREM PagesAreAlwaysKept == CaseSpec => []PageAndHeaders
<1>1. ASSUME case \in PageCases PROVE PageAndHeaders
  <2>1. CASE case \in [kind : {"view"}, calls : Seq(TplCalls)]
    <3>1. case.calls \in Seq(TplCalls) /\ case.kind = "view" BY <2>1
    <3> QED BY <3>1, OutputsAreWhatWasSet DEF PageAndHeaders
  <2>2. CASE case \in [kind : {"page"}, page : Seq(Atom)]
    <3>1. case.page \in Seq(Atom) /\ case.kind = "page" BY <2>2
    <3> QED BY <3>1, IncludesAreRewritten DEF PageAndHeaders
  <2>3. CASE case \in [kind : {"address"}, real : Atom, forwarded : Seq(Atom), remote : Atom]
    <3>1. case.real \in Atom /\ case.forwarded \in Seq(Atom) /\ case.remote \in Atom /\ case.kind = "address"
      BY <2>3
    <3> QED BY <3>1, AddressIsNearest DEF PageAndHeaders
  <2>4. CASE case \in [kind : {"header"}, name : Seq(Atom), known : BOOLEAN, value : Atom]
    <3>1. case.name \in Seq(Atom) /\ case.known \in BOOLEAN /\ case.value \in Atom /\ case.kind = "header"
      BY <2>4
    <3> QED BY <3>1, HeadersAreFound DEF PageAndHeaders
  <2> QED BY <1>1, <2>1, <2>2, <2>3, <2>4 DEF PageCases
<1>2. ASSUME case \in TextCases \union SinkCases \union SqlCases PROVE PageAndHeaders
  <2>1. case.kind \in {"bytes", "base64", "bits", "units", "len", "file", "net", "list", "time", "log", "path",
                       "sql", "append", "rows"}
    BY <1>2 DEF TextCases, SinkCases, SqlCases
  <2> QED BY <2>1 DEF PageAndHeaders
<1>3. case \in Cases => PageAndHeaders BY <1>1, <1>2 DEF Cases
<1>4. case \in Cases /\ [FALSE]_case => (case \in Cases)' OBVIOUS
<1> QED BY <1>3, <1>4, PTL DEF CaseSpec

\* The lines of every program reach the sinks that are on, and no other (log.h).
THEOREM LinesAlwaysReachTheirSinks == CaseSpec => []LinesReachTheirSinks
<1>1. ASSUME case \in SinkCases PROVE LinesReachTheirSinks
  <2>1. CASE case \in [kind : {"log"}, calls : Seq(LogCalls), blocked : SUBSET Seq(Atom)]
    <3>1. case.calls \in Seq(LogCalls) /\ case.blocked \in SUBSET Seq(Atom) /\ case.kind = "log" BY <2>1
    <3> QED BY <3>1, SinksHaveTheirLines DEF LinesReachTheirSinks
  <2>2. CASE case \in [kind : {"path"}, path : {p \in Seq(Atom) : p # <<>> /\ p[Len(p)] # "/"}]
    <3>1. case.path \in Seq(Atom) /\ case.path # <<>> /\ case.path[Len(case.path)] # "/" /\ case.kind = "path"
      BY <2>2
    <3> QED BY <3>1, SourcesAreNamed DEF LinesReachTheirSinks
  <2> QED BY <1>1, <2>1, <2>2 DEF SinkCases
<1>2. ASSUME case \in TextCases \union PageCases \union SqlCases PROVE LinesReachTheirSinks
  <2>1. case.kind \in {"bytes", "base64", "bits", "units", "len", "file", "net", "list", "time",
                       "view", "page", "address", "header", "sql", "append", "rows"}
    BY <1>2 DEF TextCases, PageCases, SqlCases
  <2> QED BY <2>1 DEF LinesReachTheirSinks
<1>3. case \in Cases => LinesReachTheirSinks BY <1>1, <1>2 DEF Cases
<1>4. case \in Cases /\ [FALSE]_case => (case \in Cases)' OBVIOUS
<1> QED BY <1>3, <1>4, PTL DEF CaseSpec

\* The values that were set keep their place in every statement, and the columns
\* of every result theirs in the objects that are read (sqlbind.h, dbx.h).
THEOREM SqlAlwaysCarriesValues == CaseSpec => []SqlCarriesValues
<1> DEFINE RowCases == {c \in [kind : {"rows"}, cols : Nat \ {0}, rows : Seq(Seq(Atom)), fields : Nat \ {0}] :
                          \A i \in DOMAIN c.rows : Len(c.rows[i]) = c.cols}
<1>1. ASSUME case \in SqlCases PROVE SqlCarriesValues
  <2>1. CASE case \in [kind : {"sql"}, pieces : Seq(Pieces), tail : Pieces, calls : Seq(SetCalls)]
    <3>1. case.pieces \in Seq(Pieces) /\ case.tail \in Pieces /\ case.calls \in Seq(SetCalls) /\ case.kind = "sql"
      BY <2>1
    <3> QED BY <3>1, ValuesKeepTheirPlace DEF SqlCarriesValues
  <2>2. CASE case \in [kind : {"append"}, digits : Seq(0 .. 9)]
    <3>1. case.digits \in Seq(0 .. 9) /\ case.kind = "append" BY <2>2
    <3> QED BY <3>1, NumbersAreAppended DEF SqlCarriesValues
  <2>3. CASE case \in RowCases
    <3>1. case.fields \in Nat \ {0} /\ case.kind = "rows" BY <2>3
    <3>2. Table(case.rows, case.cols) BY <2>3 DEF Table
    <3>3. Code!RowsAreRead(case.rows, case.cols, case.fields) BY <3>1, <3>2, ColumnsAreRead
    <3> QED BY <3>1, <3>3 DEF SqlCarriesValues
  <2> QED BY <1>1, <2>1, <2>2, <2>3 DEF SqlCases
<1>2. ASSUME case \in TextCases \union PageCases \union SinkCases PROVE SqlCarriesValues
  <2>1. case.kind \in {"bytes", "base64", "bits", "units", "len", "file", "net", "list", "time",
                       "view", "page", "address", "header", "log", "path"}
    BY <1>2 DEF TextCases, PageCases, SinkCases
  <2> QED BY <2>1 DEF SqlCarriesValues
<1>3. case \in Cases => SqlCarriesValues BY <1>1, <1>2 DEF Cases
<1>4. case \in Cases /\ [FALSE]_case => (case \in Cases)' OBVIOUS
<1> QED BY <1>3, <1>4, PTL DEF CaseSpec
=============================================================================
