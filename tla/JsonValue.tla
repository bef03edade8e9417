------------------------------- MODULE JsonValue -------------------------------
(***************************************************************************)
(* Json::Value (3rd/jsoncpp/jsoncpp.cpp), the tree the decoder of          *)
(* json_serialize.h reads.  A tree is a function from paths, sequences of  *)
(* indices or names, to nodes; the root is at <<>> and a node with its     *)
(* children is a value of its own.  Names and strings are numbers, 0 the   *)
(* empty one.  An array has a node for each index that was ever written:   *)
(* it may have holes.                                                      *)
(*                                                                         *)
(* A call that may throw answers the set of its outcomes: {} when it       *)
(* throws, more than one where the conversion is undefined.                *)
(***************************************************************************)
EXTENDS Integers, FiniteSets, SequencesExt

\* The ranges of the types, scaled: 32 bits become 4, and 64 bits 6.
MinInt   == -8
MaxInt   == 7
MaxUInt   == 15
MinInt64 == -32
MaxInt64 == 31
MaxUInt64 == 63

\* The order of enum ValueType.
Type == <<"null", "int", "uint", "real", "string", "bool", "array", "object">>
Rank(type) == CHOOSE r \in DOMAIN Type : Type[r] = type

\* num is the number, twice the number for a real, 0 or 1 for a bool, and the
\* string for a string.
Node(type, num) == [type |-> type, num |-> num]
Leaf(type, num) == <<>> :> Node(type, num)
nullRef         == Leaf("null", 0)

Kids(tree, path) ==      \* keys of the map of a node, in its order
  SetToSortSeq({p[Len(path) + 1] : p \in {p \in DOMAIN tree :
                  Len(p) = Len(path) + 1 /\ SubSeq(p, 1, Len(path)) = path}}, <)

Below(tree, path) == {p \in DOMAIN tree : Len(p) >= Len(path) /\ SubSeq(p, 1, Len(path)) = path}

Sub(tree, path) ==       \* the value at a path
  [p \in {SubSeq(q, Len(path) + 1, Len(q)) : q \in Below(tree, path)} |-> tree[path \o p]]

Put(tree, path, value) ==    \* *node = value
  [p \in (DOMAIN tree \ Below(tree, path)) \union {path \o q : q \in DOMAIN value} |->
     IF p \in DOMAIN tree \ Below(tree, path) THEN tree[p]
     ELSE value[SubSeq(p, Len(path) + 1, Len(p))]]

Erase(tree, path) == [p \in DOMAIN tree \ Below(tree, path) |-> tree[p]]

-----------------------------------------------------------------------------
(***************************************************************************)
(* Types and conversions of a scalar                                       *)
(***************************************************************************)
IsIntegral(n) == n.num % 2 = 0

\* d >= min && d <= max, where the largest numbers of 64 bits, which a double
\* does not have, are rounded up.
AsDouble(max) == IF max \in {MaxInt64, MaxUInt64} THEN max + 1 ELSE max
InRange(n, min, max) == 2 * min <= n.num /\ n.num <= 2 * AsDouble(max)

isInt(n) ==
  CASE n.type = "int"  -> n.num \in MinInt .. MaxInt
    [] n.type = "uint" -> n.num <= MaxInt
    [] n.type = "real" -> InRange(n, MinInt, MaxInt) /\ IsIntegral(n)
    [] OTHER -> FALSE

isUInt(n) ==
  CASE n.type = "int"  -> n.num \in 0 .. MaxUInt
    [] n.type = "uint" -> n.num <= MaxUInt
    [] n.type = "real" -> InRange(n, 0, MaxUInt) /\ IsIntegral(n)
    [] OTHER -> FALSE

isInt64(n) ==
  CASE n.type = "int"  -> TRUE
    [] n.type = "uint" -> n.num <= MaxInt64
    [] n.type = "real" -> 2 * MinInt64 <= n.num /\ n.num < 2 * AsDouble(MaxInt64) /\ IsIntegral(n)
    [] OTHER -> FALSE

isUInt64(n) ==
  CASE n.type = "int"  -> n.num >= 0
    [] n.type = "uint" -> TRUE
    [] n.type = "real" -> 0 <= n.num /\ n.num < 2 * AsDouble(MaxUInt64) /\ IsIntegral(n)
    [] OTHER -> FALSE

isIntegral(n) == isInt64(n) \/ isUInt64(n)
isNumeric(n)  == isIntegral(n) \/ n.type = "real"

Truncated(twice) == IF twice < 0 THEN -((-twice) \div 2) ELSE twice \div 2

\* The common body of asInt, asUInt, asInt64, asUInt64
Integer(n, whole, min, max) ==
  CASE n.type \in {"int", "uint"} -> IF whole THEN {n.num} ELSE {}
    [] n.type = "real" ->
         IF ~InRange(n, min, max) THEN {}
         ELSE IF Truncated(n.num) \in min .. max THEN {Truncated(n.num)}
         ELSE min .. max                              \* undefined
    [] n.type = "null" -> {0}
    [] n.type = "bool" -> {n.num}
    [] OTHER -> {}

asInt(n)    == Integer(n, isInt(n), MinInt, MaxInt)
asUInt(n)   == Integer(n, isUInt(n), 0, MaxUInt)
asInt64(n)  == Integer(n, n.type = "int" \/ isInt64(n), MinInt64, MaxInt64)
asUInt64(n) == Integer(n, n.type = "uint" \/ isUInt64(n), 0, MaxUInt64)

\* Twice the number
asDouble(n) ==
  CASE n.type \in {"int", "uint", "bool"} -> {2 * n.num}
    [] n.type = "real" -> {n.num}
    [] n.type = "null" -> {0}
    [] OTHER -> {}

asBool(n) ==
  IF n.type \in {"bool", "int", "uint", "real"} THEN {n.num # 0}
  ELSE IF n.type = "null" THEN {FALSE} ELSE {}

\* A text: that of a string, or of a number or bool as it is printed.
asString(n) ==
  IF n.type = "string" THEN {<<"text", n.num>>}
  ELSE IF n.type = "null" THEN {<<"text", 0>>}
  ELSE IF n.type \in {"array", "object"} THEN {} ELSE {<<"printed", n.num>>}

isConvertibleTo(tree, type) ==
  LET n == tree[<<>>]
      empty == Kids(tree, <<>>) = <<>>
  IN CASE type = "null" -> \/ isNumeric(n) /\ asDouble(n) = {0}
                           \/ n.type = "bool" /\ n.num = 0
                           \/ n.type = "string" /\ n.num = 0
                           \/ n.type \in {"array", "object"} /\ empty
                           \/ n.type = "null"
       [] type = "int"  -> isInt(n) \/ (n.type = "real" /\ InRange(n, MinInt, MaxInt))
                           \/ n.type \in {"bool", "null"}
       [] type = "uint" -> isUInt(n) \/ (n.type = "real" /\ InRange(n, 0, MaxUInt))
                           \/ n.type \in {"bool", "null"}
       [] type \in {"real", "bool"} -> isNumeric(n) \/ n.type \in {"bool", "null"}
       [] type = "string" -> isNumeric(n) \/ n.type \in {"bool", "string", "null"}
       [] OTHER -> n.type \in {type, "null"}

-----------------------------------------------------------------------------
(***************************************************************************)
(* Order and equality                                                      *)
(***************************************************************************)
RECURSIVE Less(_, _)

\* operator< of the maps: the first pair that differs decides.
LessMap(a, b) ==
  LET ka == Kids(a, <<>>)
      kb == Kids(b, <<>>)
      Pair(i) == /\ ka[i] = kb[i]
                 /\ ~Less(Sub(a, <<ka[i]>>), Sub(b, <<kb[i]>>))
                 /\ ~Less(Sub(b, <<kb[i]>>), Sub(a, <<ka[i]>>))
      first == {i \in DOMAIN ka \intersect DOMAIN kb : ~Pair(i) /\ \A j \in 1 .. i - 1 : Pair(j)}
  IN IF first = {} THEN Len(ka) < Len(kb)
     ELSE \E i \in first : \/ ka[i] < kb[i]
                           \/ ka[i] = kb[i] /\ Less(Sub(a, <<ka[i]>>), Sub(b, <<kb[i]>>))

\* operator<: by type, then by number of entries, then by content
Less(a, b) ==
  LET na == a[<<>>]
      nb == b[<<>>]
      size(t) == Len(Kids(t, <<>>))
  IN IF na.type # nb.type THEN Rank(na.type) < Rank(nb.type)
     ELSE IF na.type \in {"array", "object"}
     THEN size(a) < size(b) \/ (size(a) = size(b) /\ LessMap(a, b))
     ELSE na.type # "null" /\ na.num < nb.num

\* operator==: comments do not count
Same(a, b) == a = b

compare(a, b) == IF Less(a, b) THEN -1 ELSE IF Less(b, a) THEN 1 ELSE 0

-----------------------------------------------------------------------------
(***************************************************************************)
(* Arrays and objects, at the root of a tree                               *)
(***************************************************************************)
Is(tree, types) == tree[<<>>].type \in types

size(tree) ==
  LET kids == Kids(tree, <<>>)
  IN IF Is(tree, {"array"}) /\ kids # <<>> THEN Last(kids) + 1 ELSE Len(kids)

\* operator[]: the element or member, null where there was none
Member(tree, type, key) ==
  IF ~Is(tree, {"null", type}) THEN {}
  ELSE LET t == IF Is(tree, {type}) THEN tree ELSE Leaf(type, 0)
       IN {IF <<key>> \in DOMAIN t THEN t ELSE Put(t, <<key>>, nullRef)}

resolveReference(tree, name) == Member(tree, "object", name)
Element(tree, index)         == Member(tree, "array", index)

\* operator[] const, find, get
get(tree, type, key, default) ==
  IF ~Is(tree, {"null", type}) THEN {}
  ELSE {IF <<key>> \in DOMAIN tree THEN Sub(tree, <<key>>) ELSE default}

isMember(tree, name) ==
  IF ~Is(tree, {"null", "object"}) THEN {} ELSE {(<<name>> \in DOMAIN tree)}

clear(tree) == IF Is(tree, {"array", "object"}) THEN (<<>> :> tree[<<>>]) ELSE tree

\* What is cut off is erased; with a hole before it the array gets shorter
\* than that, which an assert refuses.
resize(tree, n) ==
  IF ~Is(tree, {"null", "array"}) THEN {}
  ELSE LET t == IF Is(tree, {"array"}) THEN tree ELSE Leaf("array", 0)
           cut == FoldLeft(LAMBDA u, i : Erase(u, <<i>>), t,
                           [k \in 1 .. size(t) - n |-> n + k - 1])
       IN IF n = 0 THEN {clear(t)}
          ELSE IF n > size(t) THEN Element(t, n - 1)
          ELSE IF size(cut) = n THEN {cut} ELSE {}

append(tree, value) == {Put(t, <<size(tree)>>, value) : t \in Element(tree, size(tree))}

\* The items behind the removed one move one place, holes become null.
removeIndex(tree, index) ==
  IF ~Is(tree, {"array"}) \/ <<index>> \notin DOMAIN tree THEN [ok |-> FALSE, tree |-> tree]
  ELSE LET last == size(tree) - 1
           At(i) == IF <<i>> \in DOMAIN tree THEN Sub(tree, <<i>>) ELSE nullRef
           moved == FoldLeft(LAMBDA t, i : Put(t, <<i>>, At(i + 1)), tree,
                             [k \in 1 .. last - index |-> index + k - 1])
       IN [ok |-> TRUE, tree |-> Erase(moved, <<last>>)]

removeMember(tree, name) ==
  IF ~Is(tree, {"object"}) \/ <<name>> \notin DOMAIN tree THEN [ok |-> FALSE, tree |-> tree]
  ELSE [ok |-> TRUE, tree |-> Erase(tree, <<name>>)]

-----------------------------------------------------------------------------
(***************************************************************************)
(* Properties                                                              *)
(***************************************************************************)

\* isConvertibleTo says what the conversions do: it holds for exactly the
\* values that asInt, asUInt, asDouble, asBool and asString do not refuse; and
\* a number that its type test admits is converted to itself, once, at every
\* limit of every width.
ConversionsAgree(tree) ==
  LET n == tree[<<>>]
      number == IF n.type = "real" THEN n.num \div 2 ELSE n.num
  IN /\ isConvertibleTo(tree, "int") = (asInt(n) # {})
     /\ isConvertibleTo(tree, "uint") = (asUInt(n) # {})
     /\ isConvertibleTo(tree, "real") = (asDouble(n) # {})
     /\ isConvertibleTo(tree, "bool") = (asBool(n) # {})
     /\ isConvertibleTo(tree, "string") = (asString(n) # {})
     /\ isInt(n) => asInt(n) = {number}
     /\ isUInt(n) => asUInt(n) = {number}
     /\ isInt64(n) => asInt64(n) = {number}
     /\ isUInt64(n) => asUInt64(n) = {number}
     /\ isConvertibleTo(tree, "null") /\ asDouble(n) # {} => asDouble(n) = {0} /\ asBool(n) = {FALSE}

\* The order of values is one: of two values one is less or they are equal,
\* never both, and it is transitive; so a std::map of values works.
OrderIsTotal(a, b, c) ==
  /\ Cardinality({x \in {"<", ">", "="} : \/ x = "<" /\ Less(a, b)
                                          \/ x = ">" /\ Less(b, a)
                                          \/ x = "=" /\ Same(a, b)}) = 1
  /\ (compare(a, b) = 0) = Same(a, b)
  /\ Less(a, b) /\ Less(b, c) => Less(a, c)

\* An array is a list: after any calls of append, operator[], resize and
\* removeIndex it reads as the sequence the same calls make of a sequence that
\* is padded with nulls.  A call that leaves a hole last ends this: the array
\* is then shorter than the list, and the assert of resize fails.
Apply(tree, call) ==
  CASE call.op = "append" -> append(tree, Leaf("int", call.n))
    [] call.op = "index"  -> Element(tree, call.n)
    [] call.op = "resize" -> resize(tree, call.n)
    [] call.op = "remove" -> {removeIndex(tree, call.n).tree}

Listed(tree) ==
  [i \in 1 .. size(tree) |-> IF <<i - 1>> \in DOMAIN tree THEN tree[<<i - 1>>] ELSE nullRef[<<>>]]

Padded(list, n) == list \o [i \in 1 .. n - Len(list) |-> nullRef[<<>>]]

Expected(list, tree, call) ==
  CASE call.op = "append" -> Append(list, Node("int", call.n))
    [] call.op = "index"  -> IF call.n < Len(list) THEN list ELSE Padded(list, call.n + 1)
    [] call.op = "resize" -> IF call.n < Len(list) THEN SubSeq(list, 1, call.n) ELSE Padded(list, call.n)
    [] call.op = "remove" -> IF <<call.n>> \in DOMAIN tree THEN RemoveAt(list, call.n + 1) ELSE list

ArraysAreLists(calls) ==
  LET Step(s, call) ==
        IF ~s.live THEN s
        ELSE LET last == IF call.op = "resize" THEN call.n - 1
                         ELSE IF call.op = "remove" /\ call.n = size(s.tree) - 1 THEN call.n - 1 ELSE -1
                 hole == last \in 0 .. size(s.tree) - 1 /\ <<last>> \notin DOMAIN s.tree
                 next == Apply(s.tree, call)
                 list == Expected(s.list, s.tree, call)
             IN IF hole \/ next = {} THEN [s EXCEPT !.live = FALSE, !.ok = s.ok /\ hole]
                ELSE LET t == CHOOSE t \in next : TRUE
                     IN [s EXCEPT !.tree = t, !.list = list, !.ok = s.ok /\ Listed(t) = list]
  IN FoldLeft(Step, [tree |-> nullRef, list |-> <<>>, live |-> TRUE, ok |-> TRUE], calls).ok

\* A member that was set is read back, and only it: other members keep their
\* values and their number.
MembersAreKept(names, name, value) ==
  LET Set(t, k, v) == CHOOSE u \in {Put(w, <<k>>, v) : w \in resolveReference(t, k)} : TRUE
      object == FoldLeft(LAMBDA t, k : Set(t, k, Leaf("int", k)), nullRef, names)
      added == Set(object, name, value)
      gone == removeMember(added, name)
  IN /\ get(added, "object", name, nullRef) = {value} /\ isMember(added, name) = {TRUE}
     /\ \A k \in ToSet(names) \ {name} : get(gone.tree, "object", k, nullRef) = {Leaf("int", k)}
     /\ gone.ok /\ size(gone.tree) = Cardinality(ToSet(names) \ {name})
=============================================================================
