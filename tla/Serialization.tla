----------------------------- MODULE Serialization -----------------------------
(***************************************************************************)
(* The serializers: an object has a method serialize(archive) that hands   *)
(* each of its fields to the archive, behind the key of its name           *)
(* (serialize.h, json_serialize.h, xml_serialize.h, yaml_serialize.h).     *)
(* An archive walks with a cursor and a current key, which it saves and    *)
(* restores around vectors and objects.                                    *)
(*                                                                         *)
(* A type is what serialize does: a scalar, a container or an object with  *)
(* its fields in order.  A value is a number (int; 0 or 1 for a bool), a   *)
(* text as JsonValue has it, a sequence (vector), a set, a function (map), *)
(* or the tuple of the values of the fields.                               *)
(***************************************************************************)
EXTENDS JsonText

Number == [kind |-> "int"]
Bool == [kind |-> "bool"]
Str == [kind |-> "string"]
Vector(t) == [kind |-> "vector", of |-> t]
SetOf(t)  == [kind |-> "set", of |-> t]
MapOf(t)  == [kind |-> "map", of |-> t]
Field(name, t) == [name |-> name, type |-> t]
Object(fields) == [kind |-> "object", fields |-> fields]

IsScalar(t) == t.kind \in {"int", "bool", "string"}
NoKey  == -1                       \* NULL, or the empty key
Unknow == 9                        \* the tag "unknow"
Ascending(S) == SetToSortSeq(S, <)
Printed(n) == <<"printed", n>>     Text(k) == <<"text", k>>

\* What a new T holds: an int that nothing wrote is any number.
RECURSIVE New(_)
New(t) ==
  CASE t.kind \in {"int", "bool"} -> -1
    [] t.kind = "string" -> Text(0)
    [] t.kind = "vector" -> <<>>
    [] t.kind \in {"set", "map"} -> {}
    [] t.kind = "object" -> [i \in DOMAIN t.fields |-> New(t.fields[i].type)]

-----------------------------------------------------------------------------
(***************************************************************************)
(* CJsonEncoder and, with lines, CJsonEncoderMl                            *)
(***************************************************************************)
Break(w) == IF w.ml THEN Push(w, <<"nl">> \o [i \in 1 .. w.level |-> "sp"]) ELSE w
Deeper(w, by) == [w EXCEPT !.level = @ + by]
Named(w, name) == Push(Break(w), <<Name(name), ":">> \o (IF w.ml THEN <<"sp">> ELSE <<>>))

EncodeKey(w, name) ==
  [Named(IF w.first THEN w ELSE Push(w, <<",">>), name) EXCEPT !.first = FALSE]

RECURSIVE Encode(_, _, _)

EncodeList(t, items, w) ==      \* a vector or set
  LET Item(u, i) == Encode(t, items[i], Break(IF i = 1 THEN u ELSE Push(u, <<",">>)))
      open == Deeper(Push(w, <<"[">>), 1)
  IN IF items = <<>> THEN Push(w, <<"[", "]">>)
     ELSE Push(Break(Deeper(FoldLeft(Item, open, [i \in DOMAIN items |-> i]), -1)), <<"]">>)

EncodeMap(t, map, w) ==
  LET keys == Ascending(DOMAIN map)
      Entry(u, i) == Encode(t, map[keys[i]], Named(IF i = 1 THEN u ELSE Push(u, <<",">>), keys[i]))
      open == Deeper(Push(w, <<"{">>), 1)
  IN IF keys = <<>> THEN Push(w, <<"{", "}">>)
     ELSE Push(Break(Deeper(FoldLeft(Entry, open, [i \in DOMAIN keys |-> i]), -1)), <<"}">>)

\* A slip: the flag is not set for the first key of an inner object.
EncodeObjectNoFirst(t, v, w) ==
  LET Each(u, i) == Encode(t.fields[i].type, v[i], EncodeKey(u, t.fields[i].name))
      open == Deeper(Push(w, <<"{">>), 1)
      body == FoldLeft(Each, IF w.level = 0 THEN [open EXCEPT !.first = TRUE] ELSE open,
                       [i \in DOMAIN t.fields |-> i])
  IN [Push(Break(Deeper(body, -1)), <<"}">>) EXCEPT !.first = w.first]

EncodeObject(t, v, w) ==
  LET Each(u, i) == Encode(t.fields[i].type, v[i], EncodeKey(u, t.fields[i].name))
      open == [Deeper(Push(w, <<"{">>), 1) EXCEPT !.first = TRUE]
      body == FoldLeft(Each, open, [i \in DOMAIN t.fields |-> i])
  IN [Push(Break(Deeper(body, -1)), <<"}">>) EXCEPT !.first = w.first]

Encode(t, v, w) ==
  CASE t.kind = "int"    -> Push(w, <<LexOf(Node("int", v))>>)
    [] t.kind = "bool"   -> Push(w, <<LexOf(Node("bool", v))>>)
    [] t.kind = "string" -> Push(w, <<LexOf(Node("string", v[2]))>>)
    [] t.kind = "vector" -> EncodeList(t.of, v, w)
    [] t.kind = "set"    -> EncodeList(t.of, Ascending(v), w)
    [] t.kind = "map"    -> EncodeMap(t.of, v, w)
    [] t.kind = "object" -> EncodeObject(t, v, w)

CJsonEncoder(t, v)   == Encode(t, v, [doc |-> <<>>, first |-> FALSE, level |-> 0, ml |-> FALSE]).doc
CJsonEncoderMl(t, v) == Encode(t, v, [doc |-> <<>>, first |-> FALSE, level |-> 0, ml |-> TRUE]).doc

-----------------------------------------------------------------------------
(***************************************************************************)
(* CJsonDecoder: tree is m_oJsonValueRoot, cur the path of                 *)
(* m_pCurrJsonValue and key m_szKeyName.  throws: an assert of jsoncpp has *)
(* thrown, and nothing in the decoder catches it.                          *)
(***************************************************************************)
Result(v, d) == [val |-> v, d |-> d]
Thrown(v, d) == Result(v, [d EXCEPT !.throws = TRUE])

Convert(t, node) ==      \* asInt and the others; {} throws
  CASE t.kind = "int"    -> asInt(node)
    [] t.kind = "bool"   -> {IF b THEN 1 ELSE 0 : b \in asBool(node)}
    [] t.kind = "string" -> asString(node)

\* isMember of the current value; {} throws
Present(d) == IF d.key = NoKey THEN {TRUE} ELSE isMember(Sub(d.tree, d.cur), d.key)
Target(d)  == IF d.key = NoKey THEN d.cur ELSE Append(d.cur, d.key)

RECURSIVE Decode(_, _, _)

DecodeScalar(t, old, d) ==
  LET value == Convert(t, d.tree[Target(d)])
  IN IF Present(d) = {} THEN Thrown(old, d)
     ELSE IF Present(d) = {FALSE} THEN Result(old, d)
     ELSE IF value = {} THEN Thrown(old, d) ELSE Result(CHOOSE v \in value : TRUE, d)

DecodeList(t, old, d) ==
  LET at == Target(d)
      Item(r, i) ==
        IF r.d.throws THEN r
        ELSE LET one == Decode(t.of, New(t.of), [r.d EXCEPT !.cur = Append(at, i), !.key = NoKey])
             IN Result(IF t.kind = "set" THEN r.val \union {one.val} ELSE Append(r.val, one.val), one.d)
      all == FoldLeft(Item, Result(old, d), [k \in 1 .. size(Sub(d.tree, at)) |-> k - 1])
  IN IF Present(d) = {} THEN Thrown(old, d)
     ELSE IF Present(d) = {FALSE} \/ d.tree[at].type # "array" THEN Result(old, d)
     ELSE Result(all.val, [all.d EXCEPT !.cur = d.cur, !.key = d.key])

\* The member is made where there is none; the key stays that of the last field.
DecodeObject(t, old, d) ==
  LET made == resolveReference(Sub(d.tree, d.cur), d.key)
      in == IF d.key = NoKey THEN d
            ELSE [d EXCEPT !.tree = Put(@, d.cur, CHOOSE u \in made : TRUE), !.cur = Target(d)]
      Each(r, i) ==
        IF r.d.throws THEN r
        ELSE LET one == Decode(t.fields[i].type, old[i], [r.d EXCEPT !.key = t.fields[i].name])
             IN Result([r.val EXCEPT ![i] = one.val], one.d)
      all == FoldLeft(Each, Result(old, in), [i \in DOMAIN t.fields |-> i])
  IN IF d.key # NoKey /\ made = {} THEN Thrown(old, d)
     ELSE Result(all.val, [all.d EXCEPT !.cur = d.cur])

Decode(t, old, d) ==
  IF IsScalar(t) THEN DecodeScalar(t, old, d)
  ELSE IF t.kind = "object" THEN DecodeObject(t, old, d) ELSE DecodeList(t, old, d)

\* Parse: a document that is no object and no array is refused.
OnlyContainer(p) == IF p.ok /\ p.tree[<<>>].type \in {"object", "array"} THEN {Plain(p.tree)} ELSE {}
Parse(doc) == OnlyContainer(parse(doc))

CJsonDecoder(t, old, tree) ==
  Decode(t, old, [tree |-> tree, cur |-> <<>>, key |-> NoKey, throws |-> FALSE])

-----------------------------------------------------------------------------
(***************************************************************************)
(* YamlParser: cur is _current, {} for NULL and else the set of its path.  *)
(* crash: a NULL cursor was used.  The nodes are trees of JsonValue.       *)
(***************************************************************************)
FindValue(s) == {p \in {Append(c, s.key) : c \in s.cur} : p \in DOMAIN s.tree}
NodeAt(s)     == IF s.key = NoKey THEN s.cur ELSE FindValue(s)

\* *current >> value: a text is read as what it says; {} throws
YamlConvert(t, node) ==
  IF t.kind = "string" THEN asString(node) ELSE IF node.type = t.kind THEN {node.num} ELSE {}

RECURSIVE YamlRead(_, _, _)

YamlScalar(t, s) ==
  LET node == NodeAt(s)
      zero == IF t.kind = "string" THEN Text(0) ELSE 0
      value == UNION {YamlConvert(t, s.tree[p]) : p \in node}
  IN IF node = {} THEN Result(zero, s)
     ELSE IF value = {} THEN Thrown(zero, s) ELSE Result(CHOOSE v \in value : TRUE, s)

YamlList(t, old, s) ==
  LET at == CHOOSE p \in NodeAt(s) : TRUE
      Item(r, i) ==
        IF r.d.throws \/ r.d.crash THEN r
        ELSE LET one == YamlRead(t.of, New(t.of), [r.d EXCEPT !.cur = {Append(at, i)}, !.key = NoKey])
             IN Result(IF t.kind = "set" THEN r.val \union {one.val} ELSE Append(r.val, one.val), one.d)
      items == IF s.tree[at].type = "array" THEN size(Sub(s.tree, at)) ELSE 0
      all == FoldLeft(Item, Result(old, s), [k \in 1 .. items |-> k - 1])
  IN IF NodeAt(s) = {} THEN Result(old, s)
     ELSE Result(all.val, [all.d EXCEPT !.cur = s.cur, !.key = s.key])

\* Without the key's value it returns with the cursor at NULL.
YamlObject(t, old, s) ==
  LET Each(r, i) ==
        IF r.d.throws \/ r.d.crash THEN r
        ELSE LET one == YamlRead(t.fields[i].type, old[i], [r.d EXCEPT !.key = t.fields[i].name])
             IN Result([r.val EXCEPT ![i] = one.val], one.d)
      all == FoldLeft(Each, Result(old, [s EXCEPT !.cur = NodeAt(s), !.key = NoKey]),
                      [i \in DOMAIN t.fields |-> i])
  IN IF NodeAt(s) = {} THEN Result(old, [s EXCEPT !.cur = {}])
     ELSE Result(all.val, [all.d EXCEPT !.cur = s.cur, !.key = s.key])

YamlRead(t, old, s) ==
  IF s.cur = {} THEN Result(old, [s EXCEPT !.crash = TRUE])
  ELSE IF IsScalar(t) THEN YamlScalar(t, s)
  ELSE IF t.kind = "object" THEN YamlObject(t, old, s) ELSE YamlList(t, old, s)

YamlParser(t, old, tree) ==
  YamlRead(t, old, [tree |-> tree, cur |-> {<<>>}, key |-> NoKey, throws |-> FALSE, crash |-> FALSE])

-----------------------------------------------------------------------------
(***************************************************************************)
(* Properties                                                              *)
(***************************************************************************)
RECURSIVE Tree(_, _), Fits(_, _, _, _), Merge(_, _, _, _, _), Loses(_, _, _)

\* The JSON value an object stands for.
Tree(t, v) ==
  LET Under(key, sub) == [p \in {<<key>> \o q : q \in DOMAIN sub} |-> sub[Tail(p)]]
      Joined(type, S, ValueAt(_), TypeAt(_)) ==
        FoldLeft(LAMBDA u, k : u @@ Under(k, Tree(TypeAt(k), ValueAt(k))), Leaf(type, 0), Ascending(S))
      items == IF t.kind = "set" THEN Ascending(v) ELSE v
  IN CASE t.kind \in {"int", "bool"} -> Leaf(t.kind, v)
       [] t.kind = "string" -> Leaf("string", v[2])
       [] t.kind \in {"vector", "set"} ->
            Joined("array", {i - 1 : i \in DOMAIN items}, LAMBDA k : items[k + 1], LAMBDA k : t.of)
       [] t.kind = "map" -> Joined("object", DOMAIN v, LAMBDA k : v[k], LAMBDA k : t.of)
       [] t.kind = "object" ->
            LET At(k) == CHOOSE i \in DOMAIN t.fields : t.fields[i].name = k
            IN Joined("object", {t.fields[i].name : i \in DOMAIN t.fields},
                      LAMBDA k : v[At(k)], LAMBDA k : t.fields[At(k)].type)

Read(yaml, t, node) == IF yaml THEN YamlConvert(t, node) ELSE Convert(t, node)

\* Whether the nodes at and below p are of the type's kinds, where there are
\* any: scalars that convert, objects where fields are looked for.
Fits(t, tree, p, yaml) ==
  IF p \notin DOMAIN tree THEN TRUE
  ELSE IF IsScalar(t) THEN Read(yaml, t, tree[p]) # {}
  ELSE IF t.kind = "object"
  THEN /\ tree[p].type \in {"object", "null"} \/ t.fields = <<>> \/ yaml
       /\ \A i \in DOMAIN t.fields : Fits(t.fields[i].type, tree, Append(p, t.fields[i].name), yaml)
  ELSE tree[p].type = "array" => \A i \in 0 .. size(Sub(tree, p)) - 1 : Fits(t.of, tree, Append(p, i), yaml)

\* What reading is to do, without a cursor: each field depends on its own
\* member only; what is missing leaves it alone (or, with zero, sets it to
\* yaml), and arrays are appended.
Merge(t, old, tree, p, yaml) ==
  IF p \notin DOMAIN tree THEN IF ~yaml \/ ~IsScalar(t) THEN old ELSE IF t.kind = "string" THEN Text(0) ELSE 0
  ELSE IF IsScalar(t) THEN CHOOSE v \in Read(yaml, t, tree[p]) : TRUE
  ELSE IF t.kind = "object"
  THEN [i \in DOMAIN t.fields |-> Merge(t.fields[i].type, old[i], tree, Append(p, t.fields[i].name), yaml)]
  ELSE IF tree[p].type # "array" THEN old
  ELSE LET new == [k \in 1 .. size(Sub(tree, p)) |-> Merge(t.of, New(t.of), tree, Append(p, k - 1), yaml)]
       IN IF t.kind = "set" THEN old \union ToSet(new) ELSE old \o new

\* An inner object is missing that has a field behind it.
Loses(t, tree, p) ==
  IF p \notin DOMAIN tree \/ IsScalar(t) THEN FALSE
  ELSE IF t.kind = "object"
  THEN \E i \in DOMAIN t.fields :
         LET q == Append(p, t.fields[i].name)
         IN \/ t.fields[i].type.kind = "object" /\ q \notin DOMAIN tree /\ i < Len(t.fields)
            \/ Loses(t.fields[i].type, tree, q)
  ELSE tree[p].type = "array" /\ \E i \in 0 .. size(Sub(tree, p)) - 1 : Loses(t.of, tree, Append(p, i))

\* Each line is indented by what is open around it.
Indented(doc) ==
  LET Open(i) == Cardinality({k \in 1 .. i - 1 : doc[k] \in {"[", "{"}})
                 - Cardinality({k \in 1 .. i : doc[k] \in {"]", "}"}})
  IN \A i \in DOMAIN doc : doc[i] = "nl" =>
       LET ink == Min({k \in i .. Len(doc) : doc[k] \notin {"nl", "sp"}})
       IN ink - i - 1 = Open(ink)

\* Both encoders write the document of the value, whatever is nested in what.
SameDocument(doc, lines) == doc = SelectSeq(lines, LAMBDA e : e \notin {"nl", "sp"})
EncodedIsTheValue(t, v) ==
  /\ \A doc \in {CJsonEncoder(t, v), CJsonEncoderMl(t, v)} : Parse(doc) = {Tree(t, v)}
  /\ SameDocument(CJsonEncoder(t, v), CJsonEncoderMl(t, v))
  /\ Indented(CJsonEncoderMl(t, v))

\* Decoding gives each field its own member's value, appends to vectors, and
\* throws on nothing but a member of the wrong kind, whatever the cursor went
\* through before; the null members it makes are not seen.
DecodedIsTheMerge(t, old, tree) ==
  LET r == CJsonDecoder(t, old, tree)
  IN /\ r.d.throws = ~Fits(t, tree, <<>>, FALSE)
     /\ ~r.d.throws => r.val = Merge(t, old, tree, <<>>, FALSE)

\* What was encoded is decoded to the same value.
DecodesBack(t, v) ==
  \A tree \in Parse(CJsonEncoder(t, v)) : CJsonDecoder(t, New(t), tree).val = v

\* The same of YAML, where a field of a wrong kind throws and a missing inner
\* object that is not the last field leaves the parser without a cursor.
YamlIsTheMerge(t, old, tree) ==
  LET r == YamlParser(t, old, tree)
  IN /\ r.d.crash => Loses(t, tree, <<>>)
     /\ ~r.d.crash /\ ~r.d.throws => ~Loses(t, tree, <<>>) /\ r.val = Merge(t, old, tree, <<>>, TRUE)
     /\ r.d.throws => ~Fits(t, tree, <<>>, TRUE)
=============================================================================
