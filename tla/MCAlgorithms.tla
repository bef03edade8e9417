----------------------------- MODULE MCAlgorithms -----------------------------
(***************************************************************************)
(* The algorithms over bounded inputs: every state is one input, the       *)
(* invariants are what the results must be.                                *)
(***************************************************************************)
EXTENDS Algorithms, SequencesExt

AnyString == STRING    \* for Atom

Cmd == INSTANCE CmdLine
Hub == INSTANCE Hubs
Doc == INSTANCE Dumpers    \* with Serialization, JsonText and JsonValue

-----------------------------------------------------------------------------
(* Texts.  Bytes: '%', '+', blank, '|', a letter, zero, one above 127; and  *)
(* patterns of bits for base64.                                             *)
Bytes   == [kind : {"bytes"}, s : BoundedSeq({37, 43, 32, 124, 65, 0, 200}, 3)]
Bytes64 == [kind : {"base64"}, s : BoundedSeq({0, 7, 130, 255}, 5)]
Quoted  == [kind : {"quoted"}, s : BoundedSeq({0, 8, 10, 31, 34, 47, 92, 127, 200}, 3)]
Bits    == [kind : {"bits"}, bits : SUBSET {1, 8, 9, 10, 32, 33, 64}]
Units   == [kind : {"units"}, s : BoundedSeq({"c", "nul", "sub", "cut"}, 4), room : 1 .. 3]
Lengths == [kind : {"len"}, len : 0 .. 140]
Files   == [kind : {"file"}, s : BoundedSeq({65, 0}, 3), free : 0 .. 4, buffer : 1 .. 3]
Limits  == {0, 31, 127, 128, 2047, 2048, 55295, 57344, 65535, 65536, 1114111}
Points  == [kind : {"points"}, cps : BoundedSeq(Limits, 2)]
Places  == {c \in [kind : {"place"}, s : BoundedSeq({10, 13, 65}, 5), at : 1 .. 6] : c.at <= Len(c.s) + 1}
Numbers == [kind : {"number"}, negative : BOOLEAN, digits : BoundedSeq({0, 1, 3, 4, 6, 9}, 3) \ {<<>>}]

(* Statements with up to 2 placeholders and 3 calls of setValue, and with 11 *)
(* placeholders; results of up to 3 rows and 2 columns.                     *)
BoundedSet == [kind : Code!Kinds, index : 1 .. 2, value : {"u", "v"}]
Binds == [kind : {"sql"}, pieces : BoundedSeq({<<>>, <<120>>, <<48>>}, 2), tail : {<<>>, <<48>>},
          calls : BoundedSeq(BoundedSet, 3)]
Many  == [kind : {"sql"}, pieces : {[i \in 1 .. 11 |-> p] : p \in {<<>>, <<48>>}}, tail : {<<>>, <<49>>},
          calls : {[i \in 1 .. 11 |-> [kind |-> k, index |-> IF up THEN i ELSE 12 - i, value |-> "v"]] :
                     k \in Code!Kinds, up \in BOOLEAN}]
Appended == [kind : {"append"}, digits : {[i \in 1 .. n |-> 9] : n \in 1 .. 20}]
Rows  == UNION {[kind : {"rows"}, cols : {n}, rows : BoundedSeq([1 .. n -> {"a", "NULL"}], 3),
                 fields : 1 .. 4] : n \in 1 .. 2}

(* Up to 2 groups of options, of 1 or 2 names each, and up to 3 arguments. *)
Short(n) == [begin |-> <<"-">>, name |-> <<n>>]
Long(n)  == [begin |-> <<"-", "-">>, name |-> <<n, n>>]
Group(n) == [names : {<<Short(n)>>, <<Long(n)>>, <<Short(n), Long(n)>>, <<Long(n), Short(n)>>},
             flag : {<<>>, <<":">>, <<":", ":">>}]
Arg(o, v) == [begin |-> o.begin, name |-> o.name, value |-> v]
Arguments ==
  {Arg(Short("a"), {}), Arg(Short("a"), {<<"7">>}), Arg(Long("a"), {}), Arg(Long("a"), {<<"v">>}),
   Arg(Short("b"), {}), Arg([begin |-> <<"-", "-">>, name |-> <<>>], {}),
   Arg([begin |-> <<>>, name |-> <<>>], {<<"w">>})}
CmdLines == [kind : {"argv"}, decl : {<<g>> : g \in Group("a")} \union (Group("a") \X Group("b")),
             argv : BoundedSeq(Arguments, 3)]

(* One or two files that register commands, with up to two options; jobs;  *)
(* names of which one may begin with another.                              *)
Option(n, optional) == [name |-> n, optional |-> optional, good |-> FALSE]
Opts  == BoundedSeq({Option(n, o) : n \in {"x", "y"}, o \in BOOLEAN}, 2) \union {<<Option("", TRUE)>>}
Reg(path, command, exec, opts) == [file |-> path, command |-> command, exec |-> exec, opts |-> opts]
Regs  == {<<Reg(<<"d", ".", "e", "/", "a">>, <<"a">>, "do a", o)>> \o more : o \in Opts,
            more \in {<<>>, <<Reg(<<"b", ".", "h">>, <<"b">>, "do b", <<Option("x", FALSE)>>)>>,
                      <<Reg(<<"/", "a", ".", "b", ".", "h">>, <<"a", ".", "b">>, "do b", <<>>)>>,
                      <<Reg(<<"a", ".", "c">>, <<"a">>, "do b", <<>>)>>, <<Reg(<<"b">>, <<"b">>, "", <<>>)>>}}
Words == {<<"1">>, <<"2">>, <<"--help">>}
Launches == [kind : {"hub"}, regs : Regs, ready : {0, 5},
             argv : {<<>>, <<<<"a">>, <<"1">>, <<"2">>, <<"3">>>>}
                    \union {<<c>> \o s : c \in {<<"a">>, <<"b">>, <<"a", ".", "b">>, <<"--help">>}, s \in BoundedSeq(Words, 2)}]
Jobs     == [kind : {"jobs"}, jobs : BoundedSeq([name : 1 .. 3, status : {"DONE", "STOP", "SUSPEND"}], 3)]
Progs    == [kind : {"prog"}, names : SUBSET BoundedSeq({1, 2}, 2), arg : BoundedSeq({1, 2}, 3)]

(* Programs of up to 4 calls of a CLog, with a file where a directory must *)
(* be made; paths of source files.                                         *)
BoundedLog ==
  [op : {"log", "level"}, level : {1, 3}] \union [op : {"on", "off"}, sink : {"stdout", "file", "online"}]
    \union [op : {"to"}, name : {<<"d", "e", "f">>, <<"g">>}]
    \union [op : {"nolog", "rm"}, name : {<<"g">>}] \union [op : {"clear"}]
Programs == [kind : {"log"}, calls : BoundedSeq(BoundedLog, 4), blocked : {{}, {<<"d">>}}]
Paths    == [kind : {"path"}, path : {p \o <<"a">> : p \in BoundedSeq({".", "..", "/", "a"}, 4)}]

(* Files of up to 2 devices, lists of numbers, hours around the begin of    *)
(* summer time.                                                            *)
Device   == [name : {<<97>>, <<97, 98>>, <<98>>},
             count : {[c \in 1 .. 16 |-> 0], [c \in 1 .. 16 |-> c], [c \in 1 .. 16 |-> 1000 - 9 * c]}]
NetDevs  == [kind : {"net"}, devices : BoundedSeq(Device, 2), indent : 0 .. 2, pad : 1 .. 2,
             name : {<<97>>, <<97, 98>>, <<99>>}]
Lists    == [kind : {"list"}, list : BoundedSeq({0, 7, 8, 10, 100}, 3), there : {<<>>, <<5>>}]
Hours    == [kind : {"time"}, zone : {"fixed", "summer"}, sec : 0 .. 47]

(* Programs of up to 4 calls of a CCS; pages of up to 6 tokens; headers. *)
BoundedCalls ==
  [op : {"Init"}, fails : {"none", "hdf_init"}] \union [op : {"GetValue"}, fails : {"none"}]
    \union [op : {"SetValue"}, value : {"a", "b"}, fails : {"none", "hdf_set"}]
    \union [op : {"SetValueHDF"}, value : {"a"}, fails : {"none", "first_line", "last_line"}]
    \union [op : {"Render"}, fails : {"none", "cs_init", "malloc", "cs_parse", "cs_render"}]
Views    == [kind : {"view"}, calls : BoundedSeq(BoundedCalls, 4)]
Pages   == [kind : {"page"}, page : BoundedSeq({"inc", "q", "end", "text"}, 6)]
Address == {Code!Empty, "1.1.1.1", "2.2.2.2"}
Client  == [kind : {"address"}, real : Address, forwarded : BoundedSeq(Address, 2), remote : Address]
Headers == [kind : {"header"}, name : BoundedSeq({"a", "B", "-", "."}, 3), known : BOOLEAN,
            value : {"value"}]

-----------------------------------------------------------------------------
(* JSON.  Scalars at every limit of the types; trees of one or two levels; *)
(* calls on an array; documents, of which some begin as a value does.      *)
Node(type, n) == Doc!Node(type, n)
Leaf(type, n) == Doc!Leaf(type, n)
Scalars == {Leaf("null", 0), Leaf("array", 0), Leaf("object", 0)}
           \union {Leaf("int", n) : n \in {-32, -9, -8, -1, 0, 7, 8, 15, 16, 31}}
           \union {Leaf("uint", n) : n \in {0, 7, 8, 15, 16, 31, 32, 63}}
           \union {Leaf("real", n) : n \in {-66, -65, -64, -17, -16, -15, -1, 0, 1, 14, 15, 16,
                                            30, 31, 32, 62, 63, 64, 65, 126, 127, 128, 129}}
           \union {Leaf(t, n) : t \in {"bool", "string"}, n \in 0 .. 1}
Parent(type, keys, child) == Leaf(type, 0) @@ [p \in {<<k>> : k \in keys} |-> child[p[1]]]
Ordered == {Leaf("null", 0), Leaf("int", 1), Leaf("int", 2), Leaf("real", 2), Leaf("string", 0), Leaf("bool", 1)}
           \union UNION {{Parent(t, K, c) : c \in [K -> {Node("int", 1), Node("int", 2)}]} :
                           t \in {"array", "object"}, K \in {{}, {0}, {1}, {0, 1}}}
           \union {Leaf("array", 0) @@ (<<0>> :> Node("array", 0)) @@ (<<0, 0>> :> Node("int", n)) : n \in 1 .. 2}
Calls   == [op : {"append"}, n : {5}] \union [op : {"index", "resize", "remove"}, n : 0 .. 3]

ScalarCases == [kind : {"scalar"}, t : Scalars]
OrderCases  == [kind : {"order"}, a : Ordered, b : Ordered, c : Ordered]
ArrayCases  == [kind : {"calls"}, calls : BoundedSeq(Calls, 3)]
MemberCases == [kind : {"members"}, names : BoundedSeq(0 .. 2, 3), n : 0 .. 2]

Docs == [kind : {"doc"},
         doc : {<<"{">> \o s : s \in BoundedSeq({"{", "}", "s0", "s1", ":", ",", "n1"}, 5)}
               \union {<<"[">> \o s : s \in BoundedSeq({"[", "]", ",", "n1", "{", "}"}, 4)}
               \union BoundedSeq({"{", "}", "[", "]", ",", ":", "s0", "sbad", "nbad", "n1", "x", "t"}, 3)]
JsonGrammar == Doc!Grammar({"s0", "s1", "n1", "t"}, 6)

(* Trees with comments: a value alone, with one child, with two, and with a *)
(* child of its child.                                                      *)
With(n, before, line) == Doc!With(n, before, line, <<>>)
Container == {Node("array", 0), Node("object", 0)}
Leafs     == Container \union {Node("int", 1), Node("string", 2)}
Few       == {<<>>, <<"C">>, <<"L">>}
Before    == Few \union {<<"M">>, <<"L", "nl", "L">>}
Trees == {<<>> :> Doc!With(n, b, l, a) : n \in Container \union {Node("int", 1)}, b \in Before, l \in Few, a \in Few}
         \union {(<<>> :> With(c, r, <<>>)) @@ (<<0>> :> With(n, b, l)) :
                   c \in Container, r \in {<<>>, <<"C">>}, n \in Leafs, b \in Before, l \in Few}
         \union {(<<>> :> With(c, <<>>, <<>>)) @@ (<<0>> :> With(n, b, l)) @@ (<<1>> :> With(m, d, k)) :
                   c \in Container, n, m \in Leafs, b, d, l, k \in Few}
         \union {(<<>> :> With(c, <<>>, <<>>)) @@ (<<0>> :> With(e, b, l)) @@ (<<0, 0>> :> With(m, d, k)) :
                   c, e \in Container, m \in Leafs, b, d, l, k \in Few}
Written == [kind : {"tree"}, tree : Trees]

(* Objects: types that nest vectors, sets and objects in each other, each  *)
(* read with the documents of all of them; maps can only be written.       *)
Num == Doc!Number
Both(a, b) == Doc!Object(<<Doc!Field(1, a), Doc!Field(2, b)>>)
Pair   == Both(Num, Doc!Str)
Read   == <<Pair, Both(Doc!Bool, Doc!Vector(Num)), Both(Doc!SetOf(Num), Pair), Both(Pair, Num),
            Both(Doc!Vector(Pair), Doc!Str), Both(Doc!Vector(Doc!Vector(Num)), Both(Pair, Doc!Bool)),
            Both(Both(Doc!Vector(Num), Pair), Doc!Vector(Num)), Doc!Vector(Pair), Doc!Object(<<Doc!Field(2, Num)>>)>>
Mapped == <<Both(Doc!MapOf(Num), Doc!MapOf(Pair)), Doc!Vector(Doc!MapOf(Doc!Vector(Doc!Str)))>>
AllTypes  == Read \o Mapped

RECURSIVE Values(_)
Values(t) ==
  CASE t.kind = "int" -> {1, 2}
    [] t.kind = "bool" -> {0, 1}
    [] t.kind = "string" -> {Doc!Text(k) : k \in 0 .. 2}
    [] t.kind = "vector" -> LET V == Values(t.of)
                                one == CHOOSE v \in V : TRUE
                            IN {<<>>, <<one>>} \union {<<v, one>> : v \in V}
    [] t.kind = "set" -> SUBSET Values(t.of)
    [] t.kind = "map" -> {<<>>} \union UNION {[K -> Values(t.of)] : K \in {{1}, {1, 2}}}
    [] t.kind = "object" -> IF Len(t.fields) = 1 THEN {<<v>> : v \in Values(t.fields[1].type)}
                            ELSE Values(t.fields[1].type) \X Values(t.fields[2].type)

-----------------------------------------------------------------------------
BoundedTexts == Bytes \union Bytes64 \union Bits \union Units \union Lengths \union Files
                \union NetDevs \union Lists \union Hours
BoundedSinks == Programs \union Paths
BoundedSql   == Binds \union Many \union Appended \union Rows
BoundedPages == Views \union Pages \union Client \union Headers

\* The texts, statements, templates, pages and logs of the instance are some of
\* those the theorems are about.
ASSUME BoundedAssumption ==
  BoundedTexts \union BoundedPages \union BoundedSinks \union BoundedSql \subseteq Cases

Init == \/ case \in BoundedTexts
        \/ case \in Quoted \union Points \union Places \union Numbers
        \/ case \in BoundedSql
        \/ case \in CmdLines
        \/ case \in BoundedPages \union BoundedSinks
        \/ case \in Launches
        \/ case \in Jobs \union Progs
        \/ case \in ScalarCases \union OrderCases
        \/ case \in ArrayCases \union MemberCases
        \/ case \in Docs
        \/ case \in Written
        \/ \E t \in DOMAIN AllTypes : \E v \in Values(AllTypes[t]) : case = [kind |-> "object", t |-> t, v |-> v]
Next == UNCHANGED case
Spec == Init /\ [][Next]_case

-----------------------------------------------------------------------------
\* Options mean what the option string declares (cmdline.cpp); the command
\* that is named runs with its options, whatever order its files registered in
\* (cmdhub.h, cmdprog.h); jobs run in order and finally runs last (jobhub.h).
CommandsHold ==
  /\ case.kind = "argv" => Cmd!OptionsAsDeclared(case.decl, case.argv)
  /\ case.kind = "hub" => Hub!HubDispatches(case.regs, case.argv, case.ready)
  /\ case.kind = "jobs" => Hub!JobsRunInOrder(case.jobs)
  /\ case.kind = "prog" => Hub!NamedOneRuns(case.names, case.arg)

\* Values convert and compare consistently and arrays and objects keep what is
\* put into them; the reader accepts the grammar, and what the writers print
\* it reads as the same value with the same comments (jsoncpp.cpp).  It reads
\* the strings that json_escape makes (cgx.cpp), and charlen (utility.cpp)
\* counts the characters it makes of code points.
JsonIsKept ==
  CASE case.kind = "scalar"  -> Doc!ConversionsAgree(case.t)
    [] case.kind = "order"   -> Doc!OrderIsTotal(case.a, case.b, case.c)
    [] case.kind = "calls"   -> Doc!ArraysAreLists(case.calls)
    [] case.kind = "members" -> Doc!MembersAreKept(case.names, case.n, Leaf("real", 3))
    [] case.kind = "quoted"  -> /\ Doc!StringsAreKept(case.s)
                                /\ Doc!decodeString(<<34>> \o Code!json_escape(case.s) \o <<34>>) = {case.s}
    [] case.kind = "points"  -> /\ \A i \in DOMAIN case.cps : Doc!CodePointsAreKept(case.cps[i])
                                /\ Code!charlen(FlattenSeq([i \in DOMAIN case.cps |->
                                                               Doc!codePointToUTF8(case.cps[i])])) = Len(case.cps)
    [] case.kind = "number"  -> Doc!NumbersAreKept(case)
    [] case.kind = "place"   -> Doc!PlacesAreFound(case.s, case.at)
    [] case.kind = "doc"     -> Doc!ReadsTheGrammar(case.doc, JsonGrammar)
    [] case.kind = "tree"    -> Doc!WritersAreRead(case.tree)
    [] OTHER -> TRUE

\* An object is written as the document of its value, and reading gives every
\* field what the document has for it, in JSON, YAML, XML and HDF
\* (json_serialize.h, yaml_serialize.h, xml_serialize.h, serialize.h).
Type == AllTypes[case.t]
Document == Doc!Tree(Type, case.v)
Has(kinds) == \E u \in Doc!Types(Type) : u.kind \in kinds
DocumentsAreKept ==
  case.kind = "object" =>
    /\ Doc!EncodedIsTheValue(Type, case.v)
    /\ \A u \in DOMAIN Read : /\ Doc!DecodedIsTheMerge(Read[u], Doc!New(Read[u]), Document)
                              /\ Doc!YamlIsTheMerge(Read[u], Doc!New(Read[u]), Document)
    /\ ~Has({"map"}) =>
         /\ Doc!DecodesBack(Type, case.v)
         /\ \A u \in DOMAIN Read : LET other == Doc!Tree(Read[u], CHOOSE v \in Values(Read[u]) : TRUE)
                                   IN Doc!DecodedIsTheMerge(Type, case.v, other)
                                      /\ Doc!YamlIsTheMerge(Type, case.v, other)
         /\ Doc!XmlIsKept(Type, case.v, Doc!New(Type)) /\ Doc!XmlIsKept(Type, case.v, case.v)
    /\ ~Has({"map", "set"}) => Doc!HdfIsKept(Type, case.v) /\ Doc!FieldsAreListed(Type, case.v)
=============================================================================
