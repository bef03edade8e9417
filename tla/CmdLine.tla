-------------------------------- MODULE CmdLine --------------------------------
(***************************************************************************)
(* CCmdLine (include/neiku/cmdline.h, src/neiku/cmdline.cpp): the options  *)
(* a program declares in a string such as -u|--username:,-p:: and the scan *)
(* of its arguments by getopt_long.  Texts are sequences of letters; NULL  *)
(* is the empty set and a value v the set {v}.                             *)
(***************************************************************************)
EXTENDS Integers, FiniteSets, SequencesExt

NoOption == [begin |-> <<>>, name |-> <<>>, flag |-> <<>>]
NoGroup  == [options |-> <<>>, flag |-> <<>>]

(***************************************************************************)
(* ParseOptStr: one step per letter.  The states are those of              *)
(* _OptStrParseState; error is iErrIndex, found by position.               *)
(***************************************************************************)
Start == [state |-> "begin", option |-> NoOption, group |-> NoGroup,
          groups |-> <<>>, at |-> 0, error |-> 0]

Failed(p)      == [p EXCEPT !.error = p.at]
IsOption(o)    == o.begin # <<>> /\ o.name # <<>>
AddOption(g, o) == [options |-> Append(g.options, o), flag |-> o.flag]

\* [begin]: dashes, then the first letter of the name
Begin(p, c) ==
  IF c = "-"
  THEN IF Len(p.option.begin) = 2 THEN Failed(p)
       ELSE [p EXCEPT !.option.begin = Append(@, c)]
  ELSE IF p.option.begin = <<>> THEN Failed(p)
  ELSE [p EXCEPT !.option.name = Append(@, c), !.state = "name"]

\* [name]: a short option has one letter
Name(p, c) ==
  IF c = ":" THEN [p EXCEPT !.option.flag = Append(@, c), !.state = "flag"]
  ELSE IF Len(p.option.begin) < 2 /\ Len(p.option.name) >= 1 THEN Failed(p)
  ELSE [p EXCEPT !.option.name = Append(@, c)]

\* [flag]: one colon or two
Flag(p, c) ==
  IF c = ":" /\ Len(p.option.flag) < 2 THEN [p EXCEPT !.option.flag = Append(@, c)]
  ELSE Failed(p)

\* [split]: the option is complete and the next one begins with this letter
Split(p, c) ==
  Begin(IF IsOption(p.option)
        THEN [p EXCEPT !.group = AddOption(@, p.option), !.option = NoOption, !.state = "begin"]
        ELSE [p EXCEPT !.state = "begin"], c)

\* A slip: the group is not emptied for the next one.
EndKeeps(p, c) ==
  Begin(IF IsOption(p.option)
        THEN [p EXCEPT !.groups = Append(@, AddOption(p.group, p.option)),
                       !.group = AddOption(@, p.option), !.option = NoOption, !.state = "begin"]
        ELSE [p EXCEPT !.state = "begin"], c)

\* [end]: the group is complete too
End(p, c) ==
  Begin(IF IsOption(p.option)
        THEN [p EXCEPT !.groups = Append(@, AddOption(p.group, p.option)),
                       !.group = NoGroup, !.option = NoOption, !.state = "begin"]
        ELSE [p EXCEPT !.state = "begin"], c)

Letter(p0, c) ==
  LET p == [p0 EXCEPT !.at = @ + 1]
  IN IF p.error > 0 THEN p0
     ELSE CASE c = "|" -> [p EXCEPT !.state = "split"]
            [] c = "," -> [p EXCEPT !.state = "end"]
            [] p.state = "begin" -> Begin(p, c)
            [] p.state = "name"  -> Name(p, c)
            [] p.state = "flag"  -> Flag(p, c)
            [] p.state = "split" -> Split(p, c)
            [] p.state = "end"   -> End(p, c)

\* The last option is added unless nothing but dashes was read.
Groups(p) ==
  IF p.state = "begin" THEN p.groups
  ELSE Append(p.groups, AddOption(p.group, p.option))

ParseOptStr(str) ==
  LET p == FoldLeft(Letter, Start, str)
  IN IF p.error > 0 THEN [error |-> p.error, groups |-> <<>>]
     ELSE [error |-> 0, groups |-> Groups(p)]

\* What is handed to getopt_long, in order: a short option with the flag of
\* its group, a long one with its own; and m_mOption, a group per name, the
\* last one that has it.
Options(groups) ==
  FlattenSeq([g \in DOMAIN groups |->
    [i \in DOMAIN groups[g].options |->
       LET o == groups[g].options[i]
       IN [begin |-> o.begin, name |-> o.name,
           flag |-> IF Len(o.begin) = 1 THEN groups[g].flag ELSE o.flag]]])

GroupOf(groups, begin, name) ==   \* {} where no group has it
  LET with == {g \in DOMAIN groups : \E i \in DOMAIN groups[g].options :
                 groups[g].options[i].begin = begin /\ groups[g].options[i].name = name}
  IN IF with = {} THEN {} ELSE {Max(with)}

(***************************************************************************)
(* ParseCmdLine.  An argument is a record: begin "-", "--" or <<>>, name,  *)
(* and value {} or what is attached to it; a plain word has its text in    *)
(* value.  getopt_long answers the first declared option of that name,     *)
(* takes the next argument, of whatever kind, for a value that is required *)
(* and moves plain words to the end.                                       *)
(***************************************************************************)
Word(arg) ==   \* argv[n] itself
  {arg.begin \o arg.name \o (IF arg.begin = <<"-", "-">> /\ arg.value # {} THEN <<"=">> ELSE <<>>)
   \o FlattenSeq(SetToSeq(arg.value))}

Declared(options, arg) ==
  LET at == {i \in DOMAIN options : options[i].begin = arg.begin /\ options[i].name = arg.name}
  IN IF at = {} THEN {} ELSE {options[Min(at)]}

\* it->second->m_pszValue = optarg ? optarg : ""
Assign(values, group, value) ==
  [g \in DOMAIN values |-> IF g \in group THEN value ELSE values[g]]

ParseCmdLine(groups, argv) ==
  LET options == Options(groups)
      none == [g \in DOMAIN groups |-> {}]
      Next(s) ==
        IF s.ret # 0 \/ s.i > Len(argv) THEN s
        ELSE LET arg == argv[s.i]
                 found == Declared(options, arg)
                 flag == IF found = {} THEN <<>> ELSE (CHOOSE o \in found : TRUE).flag
                 To(value, used) ==
                   [s EXCEPT !.values = Assign(@, GroupOf(groups, arg.begin, arg.name), value),
                             !.i = @ + used]
             IN CASE arg.begin = <<>> -> [s EXCEPT !.args = Append(@, Word(arg)), !.i = @ + 1]
                  [] arg.begin = <<"-", "-">> /\ arg.name = <<>> ->
                       [s EXCEPT !.args = @ \o [k \in 1 .. Len(argv) - s.i |-> Word(argv[s.i + k])],
                                 !.i = Len(argv) + 1]
                  [] found = {} /\ arg.begin # <<>> /\ arg.name # <<>> -> [s EXCEPT !.ret = -5]
                  [] found # {} /\ flag = <<>> ->
                       IF arg.value = {} THEN To({<<>>}, 1) ELSE [s EXCEPT !.ret = -5]
                  [] found # {} /\ flag = <<":">> ->
                       IF arg.value # {} THEN To(arg.value, 1)
                       ELSE IF s.i = Len(argv) THEN [s EXCEPT !.ret = -6]
                       ELSE To(Word(argv[s.i + 1]), 2)
                  [] found # {} /\ flag = <<":", ":">> ->
                       To(IF arg.value = {} THEN {<<>>} ELSE arg.value, 1)
  IN FoldLeft(LAMBDA s, x : Next(s),
              [i |-> 1, ret |-> 0, values |-> none, args |-> <<>>], argv)

-----------------------------------------------------------------------------
(***************************************************************************)
(* Init, the accessors, and the extraction of options into a structure.  A *)
(* parser is what ParseOptStr and ParseCmdLine left: groups and values.    *)
(***************************************************************************)
InitCmdLine(str, argv) ==      \* Init
  LET p == ParseOptStr(str)
  IN IF p.error > 0 THEN [ret |-> -1, groups |-> <<>>, values |-> <<>>, args |-> <<>>]
     ELSE LET r == ParseCmdLine(p.groups, argv)
          IN [ret |-> r.ret, groups |-> p.groups, values |-> r.values,
              args |-> IF r.ret = 0 THEN r.args ELSE <<>>]

GetOpt(parser, begin, name, default) ==
  LET value == UNION {parser.values[g] : g \in GroupOf(parser.groups, begin, name)}
              \* at most one group, at most one value
  IN IF value = {} THEN default ELSE value

HasOpt(parser, begin, name) == GetOpt(parser, begin, name, {}) # {}

\* strtol and its like, for a decimal digit; any other text is 0
Strtol(text) == IF text = <<"7">> THEN 7 ELSE 0

\* GetOptI, GetOptII, GetOptUI, GetOptUII
GetOptI(parser, begin, name, default) ==
  LET value == GetOpt(parser, begin, name, {})
  IN IF value = {} THEN default ELSE Strtol(CHOOSE v \in value : TRUE)

\* operator & of a field with this key: what it holds afterwards
Text(parser, key, old)   == GetOpt(parser, <<"-", "-">>, key, old)
Flagged(parser, key)     == HasOpt(parser, <<"-", "-">>, key)
Number(parser, key, old) == GetOptI(parser, <<"-", "-">>, key, old)

-----------------------------------------------------------------------------
(***************************************************************************)
(* What the documentation of the class promises (cmdline.h:40-53).  A      *)
(* declaration is a sequence of groups, each with the names of its options *)
(* and one flag for all of them.                                           *)
(***************************************************************************)
Render(decl) ==    \* the option string of a declaration
  LET Joined(list, sep) == FlattenSeq([i \in DOMAIN list |->
                             IF i = 1 THEN list[i] ELSE <<sep>> \o list[i]])
  IN Joined([g \in DOMAIN decl |->
       Joined([i \in DOMAIN decl[g].names |->
                 decl[g].names[i].begin \o decl[g].names[i].name \o decl[g].flag], "|")], ",")

\* How the documentation reads argv: taken are the arguments that are values
\* of the option before them, gone those behind a "--".
Reading(decl, argv) ==
  LET Has(arg) == {g \in DOMAIN decl : \E i \in DOMAIN decl[g].names :
                     decl[g].names[i] = [begin |-> arg.begin, name |-> arg.name]}
      FlagOf(arg) == decl[CHOOSE g \in Has(arg) : TRUE].flag
      Eats(i) == Has(argv[i]) # {} /\ FlagOf(argv[i]) = <<":">> /\ argv[i].value = {}
      taken[i \in DOMAIN argv] == i > 1 /\ ~taken[i - 1] /\ Eats(i - 1)
      ends == {i \in DOMAIN argv : argv[i].name = <<>> /\ argv[i].begin # <<>> /\ ~taken[i]}
      stop == Min(ends \union {Len(argv) + 1})
      opts == {i \in 1 .. stop - 1 : ~taken[i] /\ argv[i].begin # <<>>}
      words == {i \in 1 .. stop - 1 : ~taken[i] /\ i \notin opts} \union (stop + 1 .. Len(argv))
      unknown == {i \in opts : Has(argv[i]) = {} \/ (FlagOf(argv[i]) = <<>> /\ argv[i].value # {})}
      starved == {i \in opts \ unknown : Eats(i) /\ i = Len(argv)}
      ValueOf(i) == IF i \in starved THEN {}
                    ELSE IF Eats(i) THEN Word(argv[i + 1])
                    ELSE IF argv[i].value = {} THEN {<<>>} ELSE argv[i].value
      Latest(g) == {i \in opts : g \in Has(argv[i]) /\ \A j \in opts : j > i => g \notin Has(argv[j])}
  IN [ret |-> IF unknown # {} THEN -5 ELSE IF starved # {} THEN -6 ELSE 0,
      values |-> [g \in DOMAIN decl |-> UNION {ValueOf(i) : i \in Latest(g)}],
      args |-> [k \in 1 .. Cardinality(words) |-> Word(argv[SetToSortSeq(words, <)[k]])]]

Agree(decl, c, r) ==
  LET Same(o, v) ==
        /\ GetOpt(c, o.begin, o.name, {}) = v
        /\ Len(o.begin) = 2 =>
             /\ Text(c, o.name, {<<"old">>}) = IF v = {} THEN {<<"old">>} ELSE v
             /\ Flagged(c, o.name) = (v # {})
             /\ Number(c, o.name, 3) = IF v = {} THEN 3 ELSE IF v = {<<"7">>} THEN 7 ELSE 0
  IN /\ [g \in DOMAIN c.groups |-> Len(c.groups[g].options)] = [g \in DOMAIN decl |-> Len(decl[g].names)]
     /\ c.ret = r.ret
     /\ c.ret = 0 => /\ c.args = r.args
                     /\ \A g \in DOMAIN decl : \A i \in DOMAIN decl[g].names :
                          Same(decl[g].names[i], r.values[g])

\* Options are what they were declared to be: the groups of the string are the
\* declared ones; the value of every name of a group is the one of the last
\* option of the group on the command line; a switch never takes a value, a
\* required one always does and an optional one only when it is attached;
\* plain words keep their order; an unknown option and a missing value are
\* told apart.
OptionsAsDeclared(decl, argv) == Agree(decl, InitCmdLine(Render(decl), argv), Reading(decl, argv))
=============================================================================
