-------------------------------- MODULE Dumpers --------------------------------
(***************************************************************************)
(* The archives that are no JSON: XmlDumper and XmlParser                  *)
(* (xml_serialize.h), HdfDumper and ObjDumper (serialize.h).  XML is a     *)
(* sequence of tags and texts; an element is the place of its opening tag, *)
(* and 0 is NULL, which every call of XMLHandle answers with NULL.         *)
(***************************************************************************)
EXTENDS Serialization

Tag(t, n) == [t |-> t, n |-> n]

-----------------------------------------------------------------------------
(* XmlDumper: xml is _xml, key is _key *)
Tagged(w, name, text) == [w EXCEPT !.xml = @ \o <<Tag("open", name)>> \o text \o <<Tag("close", name)>>]
OrUnknow(key) == IF key = NoKey THEN Unknow ELSE key
Cdata(v) == IF v = Text(0) THEN <<>> ELSE <<Tag("text", v)>>
Opened(w, key, tag) == IF key = NoKey THEN w ELSE [w EXCEPT !.xml = Append(@, Tag(tag, key))]

RECURSIVE XmlDump(_, _, _)

XmlDumpVector(t, v, w) ==
  LET Item(u, i) == Opened(XmlDump(t.of, v[i], Opened(u, Unknow, "open")), Unknow, "close")
      items == FoldLeft(Item, [Opened(w, w.key, "open") EXCEPT !.key = NoKey], [i \in DOMAIN v |-> i])
  IN [Opened(items, w.key, "close") EXCEPT !.key = w.key]

XmlDumpObject(t, v, w) ==
  LET Each(u, i) == XmlDump(t.fields[i].type, v[i], [u EXCEPT !.key = t.fields[i].name])
      body == FoldLeft(Each, Opened(w, w.key, "open"), [i \in DOMAIN t.fields |-> i])
  IN [Opened(body, w.key, "close") EXCEPT !.key = w.key]

XmlDump(t, v, w) ==
  CASE t.kind = "int"    -> Tagged(w, OrUnknow(w.key), <<Tag("text", Printed(v))>>)
    [] t.kind = "bool"   -> w                        \* its code is a comment
    [] t.kind = "string" -> Tagged(w, OrUnknow(w.key), Cdata(v))
    [] t.kind = "vector" -> XmlDumpVector(t, v, w)
    [] t.kind = "object" -> XmlDumpObject(t, v, w)

\* operator<< of an object, into a root
XmlDumper(t, v, root) == XmlDump(t, v, [xml |-> <<>>, key |-> root]).xml

-----------------------------------------------------------------------------
(* tinyxml2 *)
Depth(x, j) == Cardinality({k \in 1 .. j - 1 : x[k].t = "open"}) - Cardinality({k \in 1 .. j - 1 : x[k].t = "close"})
EndOf(x, e) == Min({j \in e + 1 .. Len(x) : x[j].t = "close" /\ Depth(x, j) = Depth(x, e) + 1})
Nodes(x, e) == IF e = 0 THEN {}
               ELSE {j \in e + 1 .. EndOf(x, e) - 1 : x[j].t # "close" /\ Depth(x, j) = Depth(x, e) + 1}
Elements(x, e) == {j \in Nodes(x, e) : x[j].t = "open"}
LastChildElement(x, e, key) == Max({0} \union {j \in Elements(x, e) : x[j].n = key})
GetText(x, e) ==     \* {} for NULL
  IF Nodes(x, e) = {} \/ x[Min(Nodes(x, e))].t # "text" THEN {} ELSE {x[Min(Nodes(x, e))].n}

strtol(text) == IF text[1] = "printed" THEN text[2] ELSE 0

-----------------------------------------------------------------------------
(* XmlParser: s.handle is _handle, s.key is _key *)
Find(x, s) == IF s.key = NoKey THEN s.handle ELSE LastChildElement(x, s.handle, s.key)

RECURSIVE XmlRead(_, _, _, _)

\* One object holds each of the items in turn.
XmlReadVector(x, t, old, s) ==
  LET items == Ascending(Elements(x, Find(x, s)))
      Item(r, e) ==
        LET one == XmlRead(x, t.of, r.obj, [r.s EXCEPT !.handle = e, !.key = NoKey])
        IN [obj |-> one.val, val |-> Append(r.val, one.val), s |-> s]
      all == FoldLeft(Item, [obj |-> New(t.of), val |-> old, s |-> s], items)
  IN [val |-> all.val, s |-> s]

XmlReadObject(x, t, old, s) ==
  LET Each(r, i) ==
        LET one == XmlRead(x, t.fields[i].type, old[i], [r.s EXCEPT !.key = t.fields[i].name])
        IN [val |-> [r.val EXCEPT ![i] = one.val], s |-> one.s]
      all == FoldLeft(Each, [val |-> old, s |-> [handle |-> Find(x, s), key |-> NoKey]],
                      [i \in DOMAIN t.fields |-> i])
  IN [val |-> all.val, s |-> s]

XmlRead(x, t, old, s) ==
  LET text == GetText(x, Find(x, s))
  IN CASE t.kind = "int" -> [val |-> IF text = {} THEN 0 ELSE strtol(CHOOSE v \in text : TRUE), s |-> s]
       [] t.kind = "string" -> [val |-> IF text = {} THEN Text(0) ELSE CHOOSE v \in text : TRUE, s |-> s]
       [] t.kind = "bool" -> [val |-> old, s |-> s]     \* its code is a comment
       [] t.kind = "vector" -> XmlReadVector(x, t, old, s)
       [] t.kind = "object" -> XmlReadObject(x, t, old, s)

XmlParser(x, t, old) == XmlRead(x, t, old, [handle |-> 1, key |-> NoKey]).val

-----------------------------------------------------------------------------
(***************************************************************************)
(* HdfDumper: lines of a name, an operator and a value.  A name is a       *)
(* sequence: an index is written in front of the name of what follows, and *)
(* row is what of the line is written by then.                             *)
(***************************************************************************)
HdfLine(w, op, value) ==
  [w EXCEPT !.row = <<>>, !.lines = Append(@, [name |-> w.row \o w.key, op |-> op, value |-> value])]
HdfClose(w) == [w EXCEPT !.lines = Append(@, [name |-> w.row, op |-> "}", value |-> Text(0)]), !.row = <<>>]

MultiLine(v) == v = Text(2)      \* a text with a line feed

RECURSIVE HdfDump(_, _, _)
HdfDump(t, v, w) ==
  LET Item(u, i) == HdfDump(t.of, v[i], [u EXCEPT !.key = <<>>, !.row = Append(@, i - 1)])
      Each(u, i) == HdfDump(t.fields[i].type, v[i], [u EXCEPT !.key = <<t.fields[i].name>>])
      All(F(_, _), n) == FoldLeft(F, HdfLine(w, "{", Text(0)), [i \in 1 .. n |-> i])
  IN CASE t.kind \in {"int", "bool"} -> HdfLine(w, "=", Printed(v))
       [] t.kind = "string" -> HdfLine(w, IF MultiLine(v) THEN "EOM" ELSE "=", v)
       [] t.kind = "vector" -> IF v = <<>> THEN w ELSE HdfClose([All(Item, Len(v)) EXCEPT !.key = w.key])
       [] t.kind = "object" -> HdfClose(All(Each, Len(t.fields)))

HdfDumper(t, v, hdfname) == HdfDump(t, v, [lines |-> <<>>, row |-> <<>>, key |-> hdfname]).lines

(***************************************************************************)
(* ObjDumper: a list of fields for a log, with commas between.  A vector   *)
(* is one text of its items; of an empty one implode goes past the end.    *)
(***************************************************************************)
implode(v) == IF v = <<>> THEN {} ELSE {v}

RECURSIVE ObjDump(_, _, _)
ObjDump(t, v, w) ==
  LET Val(text) == [w EXCEPT !.out = Append(@, [sep |-> w.postfix, key |-> w.key, text |-> text]), !.postfix = ", "]
      Each(u, i) == ObjDump(t.fields[i].type, v[i], [u EXCEPT !.key = t.fields[i].name])
  IN CASE IsScalar(t) -> Val(<<v>>)
       [] t.kind = "vector" -> IF implode(v) = {} THEN [w EXCEPT !.undefined = TRUE]
                               ELSE Val(CHOOSE s \in implode(v) : TRUE)
       [] t.kind = "object" -> FoldLeft(Each, w, [i \in DOMAIN t.fields |-> i])

ObjDumper(t, v) == ObjDump(t, v, [out |-> <<>>, postfix |-> "", key |-> NoKey, undefined |-> FALSE])

-----------------------------------------------------------------------------
(***************************************************************************)
(* Properties                                                              *)
(***************************************************************************)
RECURSIVE Types(_), Parts(_, _), Flat(_, _, _), Kept(_, _, _)

\* The type and those inside of it; the value with its type, and those inside.
Types(t) ==
  {t} \union (IF t.kind \in {"vector", "set", "map"} THEN Types(t.of)
              ELSE IF t.kind = "object" THEN UNION {Types(t.fields[i].type) : i \in DOMAIN t.fields} ELSE {})

Parts(t, v) ==
  <<[type |-> t, val |-> v]>> \o
  (IF t.kind \notin {"vector", "object"} THEN <<>>
   ELSE FlattenSeq([i \in DOMAIN v |-> Parts(IF t.kind = "vector" THEN t.of ELSE t.fields[i].type, v[i])]))

\* XML keeps a value but for its bools, of types whose vectors have objects
\* without vectors as items: an item that is a scalar is put into two tags and
\* read as nothing, and what one item appends to its vectors the next one has.
XmlKeeps(t) ==
  \A u \in Types(t) :
    /\ u.kind \notin {"set", "map"}
    /\ u.kind = "vector" => ~IsScalar(u.of) /\ \A w \in Types(u.of) : w.kind # "vector"

Kept(t, v, old) ==
  CASE t.kind = "bool" -> old
    [] t.kind = "object" -> [i \in DOMAIN t.fields |-> Kept(t.fields[i].type, v[i], old[i])]
    [] t.kind = "vector" -> old \o [i \in DOMAIN v |-> Kept(t.of, v[i], New(t.of))]
    [] OTHER -> v

XmlIsKept(t, v, old) == XmlKeeps(t) => XmlParser(XmlDumper(t, v, 1), t, old) = Kept(t, v, old)

\* What a reader of HDF has: each scalar at the path of the names around it.
Flat(t, v, path) ==
  CASE t.kind \in {"int", "bool"} -> {[path |-> path, value |-> Printed(v)]}
    [] t.kind = "string" -> {[path |-> path, value |-> v]}
    [] t.kind = "vector" -> UNION {Flat(t.of, v[i], Append(path, <<i - 1>>)) : i \in DOMAIN v}
    [] t.kind = "object" -> UNION {Flat(t.fields[i].type, v[i], Append(path, <<t.fields[i].name>>)) : i \in DOMAIN v}

HdfRead(lines) ==
  LET Line(s, l) == CASE l.op = "{" -> [s EXCEPT !.path = Append(@, l.name)]
                      [] l.op = "}" -> [s EXCEPT !.path = Front(@)]
                      [] OTHER -> [s EXCEPT !.set = @ \union {[path |-> Append(s.path, l.name), value |-> l.value]}]
  IN FoldLeft(Line, [path |-> <<>>, set |-> {}], lines).set

\* A vector in a vector is empty: its index is left in front of the next line.
HdfIsKept(t, v) ==
  \/ \E i \in DOMAIN Parts(t, v) :
        LET p == Parts(t, v)[i]
        IN p.type.kind = "vector" /\ p.type.of.kind = "vector" /\ <<>> \in ToSet(p.val)
  \/ HdfRead(HdfDumper(t, v, <<5>>)) = Flat(t, v, <<<<5>>>>)

\* The fields are written one after the other, each two with a comma between
\* them, unless the end of an empty vector is passed.  Only items that a stream
\* can write compile.
FieldsAreListed(t, v) ==
  LET d == ObjDumper(t, v)
      listable == \A u \in Types(t) : u.kind = "vector" => IsScalar(u.of)
  IN listable =>
     /\ d.undefined = \E i \in DOMAIN Parts(t, v) :
                        Parts(t, v)[i].type.kind = "vector" /\ Parts(t, v)[i].val = <<>>
     /\ \A i \in DOMAIN d.out : (d.out[i].sep = "") = (i = 1)
=============================================================================
