-------------------------------- MODULE JsonText --------------------------------
(***************************************************************************)
(* Json::Reader and the writers (3rd/jsoncpp/jsoncpp.cpp).  The first part *)
(* is about characters: strings, numbers and code points.  In the second a *)
(* document is a sequence of lexical elements:                             *)
(*   "{" "}" "[" "]" "," ":"     the tokens of these names                 *)
(*   "s0" "s1" "s2"              strings; s0 is the empty one              *)
(*   "sbad"                      a string with an escape nobody knows      *)
(*   "n1" "n2"                   numbers        "t" "f" "null"   literals  *)
(*   "nbad"                      number token that is none, like "-e"      *)
(*   "x"                         anything else  "sp" "nl"        blanks    *)
(*   "C" "M"                     a comment between slash-stars, of one     *)
(*                               line and of more                          *)
(*   "L"                         a comment behind two slashes, up to "nl"  *)
(***************************************************************************)
EXTENDS JsonValue

-----------------------------------------------------------------------------
(***************************************************************************)
(* Strings                                                                 *)
(***************************************************************************)
Quote == 34
Backslash == 92
LetterU == 117

Short == (Quote :> Quote) @@ (Backslash :> Backslash) @@ (8 :> 98) @@ (12 :> 102)
         @@ (10 :> 110) @@ (13 :> 114) @@ (9 :> 116)
Long  == [e \in {Short[c] : c \in DOMAIN Short} |-> CHOOSE c \in DOMAIN Short : Short[c] = e]
         @@ (47 :> 47)

HexDigit(n) == IF n < 10 THEN 48 + n ELSE 55 + n
HexValue(c) ==   \* {} for a character that is no digit
  IF c \in 48 .. 57 THEN {c - 48} ELSE IF c \in 97 .. 102 THEN {c - 87}
  ELSE IF c \in 65 .. 70 THEN {c - 55} ELSE {}

isControlCharacter(c) == c \in 1 .. 31

\* \uXXXX
Unicode(n) == <<Backslash, LetterU>> \o [k \in 1 .. 4 |-> HexDigit((n \div 16 ^ (4 - k)) % 16)]

EscapedChar(c) ==
  IF c \in DOMAIN Short THEN <<Backslash, Short[c]>>
  ELSE IF isControlCharacter(c) \/ c = 0 THEN Unicode(c) ELSE <<c>>

valueToQuotedStringN(s) ==
  <<Quote>> \o FlattenSeq([i \in DOMAIN s |-> EscapedChar(s[i])]) \o <<Quote>>

\* The text of a C string ends at its first zero.
valueToQuotedString(s) ==
  LET zeros == {i \in DOMAIN s : s[i] = 0}
  IN valueToQuotedStringN(IF zeros = {} THEN s ELSE SubSeq(s, 1, Min(zeros) - 1))

\* readString: where the string that begins at i ends; 0 where it does not
readString(s, i) ==
  LET end[k \in i .. Len(s) + 2] ==
        IF k > Len(s) THEN 0 ELSE IF s[k] = Backslash THEN end[k + 2]
        ELSE IF s[k] = Quote THEN k ELSE end[k + 1]
  IN end[i]

codePointToUTF8(cp) ==
  LET tail(shift) == 128 + ((cp \div 64 ^ shift) % 64)
  IN IF cp <= 127 THEN <<cp>>
     ELSE IF cp <= 2047 THEN <<192 + cp \div 64, tail(0)>>
     ELSE IF cp <= 65535 THEN <<224 + cp \div 4096, tail(1), tail(0)>>
     ELSE IF cp <= 1114111 THEN <<240 + cp \div 262144, tail(2), tail(1), tail(0)>>
     ELSE <<>>

\* Four digits from i on; {} is an error.
decodeUnicodeEscapeSequence(s, i) ==
  IF i + 3 > Len(s) \/ \E k \in i .. i + 3 : HexValue(s[k]) = {} THEN {}
  ELSE LET d(k) == CHOOSE v \in HexValue(s[k]) : TRUE
       IN {4096 * d(i) + 256 * d(i + 1) + 16 * d(i + 2) + d(i + 3)}

Pair(high, low) == 65536 + (high % 1024) * 1024 + (low % 1024)

\* The code point of the escape whose digits begin at i, and where it ends.
decodeUnicodeCodePoint(s, i) ==
  LET first == decodeUnicodeEscapeSequence(s, i)
      unicode == CHOOSE u \in first : TRUE
      second == decodeUnicodeEscapeSequence(s, i + 6)
  IN IF first = {} THEN {}
     ELSE IF unicode \notin 55296 .. 56319 THEN {[cp |-> unicode, next |-> i + 4]}
     ELSE IF i + 9 > Len(s) \/ s[i + 4] # Backslash \/ s[i + 5] # LetterU \/ second = {} THEN {}
     ELSE {[cp |-> Pair(unicode, CHOOSE u \in second : TRUE), next |-> i + 10]}

\* The content of a string token, between its quotes; {} is an error.
decodeString(token) ==
  LET s == SubSeq(token, 2, Len(token) - 1)
      Then(head, tail) == {head \o t : t \in tail}
      from[i \in 1 .. Len(s) + 1] ==
        IF i > Len(s) \/ s[i] = Quote THEN {<<>>}
        ELSE IF s[i] # Backslash THEN Then(<<s[i]>>, from[i + 1])
        ELSE IF i = Len(s) THEN {}
        ELSE IF s[i + 1] \in DOMAIN Long THEN Then(<<Long[s[i + 1]]>>, from[i + 2])
        ELSE IF s[i + 1] # LetterU THEN {}
        ELSE UNION {Then(codePointToUTF8(u.cp), from[u.next]) : u \in decodeUnicodeCodePoint(s, i + 2)}
  IN from[1]

-----------------------------------------------------------------------------
(***************************************************************************)
(* Numbers: sequences of "0".."9", with "-" in front, given here as the    *)
(* digits' values.  A word of 64 bits is scaled to 6 as in JsonValue.      *)
(***************************************************************************)
\* uintToString
Digits(n) ==
  LET d[k \in 0 .. n] == IF k < 10 THEN <<k>> ELSE Append(d[k \div 10], k % 10)
  IN d[n]

\* valueToString of an integer: the sign and the digits
valueToString(n) == [negative |-> n < 0, digits |-> Digits(IF n < 0 THEN -n ELSE n)]

\* {} stands for decodeDouble: the number does not fit.
decodeNumber(text) ==
  LET limit == IF text.negative THEN -MinInt64 ELSE MaxUInt64
      value[i \in 0 .. Len(text.digits)] ==
        IF i = 0 THEN {0}
        ELSE {10 * v + text.digits[i] : v \in {v \in value[i - 1] :
                 \/ v < limit \div 10
                 \/ /\ v = limit \div 10 /\ i = Len(text.digits)
                    /\ text.digits[i] <= limit % 10}}
  IN {IF text.negative THEN Node("int", -v)
      ELSE Node(IF v <= MaxInt THEN "int" ELSE "uint", v) : v \in value[Len(text.digits)]}

\* Line and column of location at, both from 1; a carriage return, a line feed
\* and both together end a line.
getLocationLineAndColumn(s, at) ==
  LET walk[i \in 1 .. Len(s) + 2] ==      \* <<line, where it starts>>, read from i on
        IF i >= at \/ i > Len(s) THEN [lines |-> 0, start |-> 0]
        ELSE LET width == IF s[i] = 13 /\ i < Len(s) /\ s[i + 1] = 10 THEN 2 ELSE 1
                 rest == walk[i + width]
             IN IF s[i] \notin {10, 13} THEN rest
                ELSE [lines |-> rest.lines + 1,
                      start |-> IF rest.start > 0 THEN rest.start ELSE i + width]
      end == walk[1]
  IN [line |-> end.lines + 1, column |-> at - (IF end.start > 0 THEN end.start ELSE 1) + 1]

-----------------------------------------------------------------------------
(***************************************************************************)
(* Reader.  doc[at] is *current_; node the path of currentValue; before is *)
(* commentsBefore_; last and lastEnd are lastValue_ and lastValueEnd_.     *)
(* The tree has the comments of each node: before it, behind it on its     *)
(* line, and (of the root) after it.                                       *)
(***************************************************************************)
StackLimit == 4     \* stackLimit_g, 1000 in the code

Scalar == ("s0" :> Node("string", 0)) @@ ("s1" :> Node("string", 1)) @@ ("s2" :> Node("string", 2))
          @@ ("n1" :> Node("int", 1)) @@ ("n2" :> Node("int", 2)) @@ ("t" :> Node("bool", 1))
          @@ ("f" :> Node("bool", 0)) @@ ("null" :> Node("null", 0))

With(node, before, line, after) ==
  [type |-> node.type, num |-> node.num, before |-> before, line |-> line, after |-> after]

Fresh == <<>> :> With(Node("null", 0), <<>>, <<>>, <<>>)

\* setComment: a newline at its end is taken away
Trimmed(comment) == IF comment # <<>> /\ Last(comment) = "nl" THEN Front(comment) ELSE comment

\* currentValue().swapPayload(value): its comments stay
Payload(s, node) ==
  LET old == s.tree[s.node]
  IN [s EXCEPT !.tree = Put(@, s.node, <<>> :> With(node, old.before, old.line, old.after))]

skipSpaces(s) ==
  LET ink == {i \in s.at .. Len(s.doc) : s.doc[i] \notin {"sp", "nl"}}
  IN [s EXCEPT !.at = Min(ink \union {Len(s.doc) + 1})]

containsNewLine(s, from, to) == \E i \in from .. to - 1 : s.doc[i] \in {"nl", "M"}

\* readComment and addComment, of the comment that begins here
readComment(s) ==
  LET line == {i \in s.at .. Len(s.doc) : s.doc[i] = "nl"}
      end  == IF s.doc[s.at] # "L" THEN s.at ELSE Min(line \union {Len(s.doc)})
      text == SubSeq(s.doc, s.at, end)
      same == s.lastEnd > 0 /\ ~containsNewLine(s, s.lastEnd, s.at) /\ s.doc[s.at] # "M"
      read == [s EXCEPT !.at = end + 1, !.token = "comment"]
  IN IF same THEN [read EXCEPT !.tree[s.last].line = Trimmed(text)]
     ELSE [read EXCEPT !.before = @ \o text]

readToken(s0) ==
  LET s == skipSpaces(s0)
      c == s.doc[s.at]
  IN IF s.at > Len(s.doc) THEN [s EXCEPT !.token = "eof"]
     ELSE IF c \in {"C", "M", "L"} THEN readComment(s)
     ELSE [s EXCEPT !.token = c, !.at = @ + 1]

RECURSIVE skipCommentTokens(_)
skipCommentTokens(s) ==
  LET t == readToken(s) IN IF t.token = "comment" THEN skipCommentTokens(t) ELSE t

\* addError, and its combination with the recovery: the errors that come up
\* on the way to the end of the array or object are dropped.
addError(s) == [s EXCEPT !.errors = @ + 1, !.ok = FALSE]

RECURSIVE recoverFromError(_, _)
recoverFromError(s, until) ==
  LET t == readToken(s)
  IN IF t.token \in {until, "eof"} THEN [t EXCEPT !.ok = FALSE] ELSE recoverFromError(t, until)

addErrorAndRecover(s, until) == recoverFromError(addError(s), until)

RECURSIVE readValue(_), readName(_, _), readItem(_, _)

\* readObject, behind a member: the end, or a comma and another one.  Behind a
\* comment anything passes for the comma.
readMemberNext(next, key) == IF next.token = "}" THEN next ELSE readName(next, key)

readMemberEnd(comma, key) ==
  IF comma.token = "comment" THEN readMemberNext(skipCommentTokens(comma), key)
  ELSE IF comma.token \in {"}", ","} THEN readMemberNext(comma, key)
  ELSE addErrorAndRecover(comma, "}")

readMemberComma(value, key) ==
  IF ~value.ok THEN recoverFromError(value, "}")
  ELSE readMemberEnd(readToken(value), key)

\* From the colon on: key is the name, node the object's.
readMember(colon, key, node) ==
  LET path == Append(node, key)
      child == [colon EXCEPT !.node = path,
                             !.tree = IF path \in DOMAIN @ THEN @ ELSE Put(@, path, Fresh)]
  IN IF colon.token # ":" THEN addErrorAndRecover(colon, "}")
     ELSE readMemberComma([readValue(child) EXCEPT !.node = node], key)

\* From the name on; last is the name of the member before, 0 if none
readNamed(s, last) ==
  IF s.token = "}" /\ last = 0 THEN s
  ELSE IF s.token = "sbad" THEN recoverFromError(addError(s), "}")
  ELSE IF s.token \notin {"s0", "s1", "s2"} THEN addErrorAndRecover(s, "}")
  ELSE readMember(readToken(s), Scalar[s.token].num, s.node)

readName(s, last) == readNamed(skipCommentTokens(s), last)

\* readArray, behind an item and from the value of an index on
readItemEnd(next, index) ==
  IF next.token = "]" THEN next
  ELSE IF next.token = "," THEN readItem(next, index + 1)
  ELSE addErrorAndRecover(next, "]")

readItemComma(value, index) ==
  IF ~value.ok THEN recoverFromError(value, "]")
  ELSE readItemEnd(skipCommentTokens(value), index)

readItem(s, index) ==
  LET path == Append(s.node, index)
      child == [s EXCEPT !.node = path, !.tree = Put(@, path, Fresh)]
  IN readItemComma([readValue(child) EXCEPT !.node = s.node], index)

readObject(s) == readName(Payload(s, Node("object", 0)), 0)

readElements(s) ==
  IF s.at <= Len(s.doc) /\ s.doc[s.at] = "]" THEN readToken(s) ELSE readItem(s, 0)
readArray(s) == readElements(skipSpaces(Payload(s, Node("array", 0))))

\* A value that was read ends here, for the comment that may follow.
Ended(done, node) == [done EXCEPT !.lastEnd = done.at, !.last = node, !.depth = @ - 1]

readTyped(s) ==
  CASE s.token = "{" -> Ended(readObject(s), s.node)
    [] s.token = "[" -> Ended(readArray(s), s.node)
    [] s.token \in DOMAIN Scalar -> Ended(Payload(s, Scalar[s.token]), s.node)
    [] s.token \in {"sbad", "nbad"} -> Ended(addError(s), s.node)
    [] OTHER -> addError(s)

\* The comments read so far are those before this value.
setBefore(s) ==
  IF s.before = <<>> THEN s
  ELSE [s EXCEPT !.tree[s.node].before = Trimmed(s.before), !.before = <<>>]

\* A depth beyond the limit throws: the parse ends with "throws".
readValue(s) ==
  IF s.depth >= StackLimit THEN [s EXCEPT !.throws = TRUE, !.ok = FALSE]
  ELSE readTyped(setBefore(skipCommentTokens([s EXCEPT !.depth = @ + 1])))

\* The comments behind the last value are the root's.
Parsed(value, end) ==
  [ok |-> value.ok, throws |-> value.throws, errors |-> end.errors,
   tree |-> IF end.before = <<>> THEN end.tree
            ELSE [end.tree EXCEPT ![<<>>].after = Trimmed(end.before)]]

parsedToEnd(value) == Parsed(value, skipCommentTokens(value))

parse(doc) ==
  parsedToEnd(readValue([doc |-> doc, at |-> 1, node |-> <<>>, tree |-> Fresh, errors |-> 0,
                         before |-> <<>>, last |-> <<>>, lastEnd |-> 0, token |-> "eof",
                         ok |-> TRUE, depth |-> 0, throws |-> FALSE]))

-----------------------------------------------------------------------------
(***************************************************************************)
(* The writers.  A writer is [doc, indented, level]; of a line only its    *)
(* ends and the blanks at its beginning are kept.                          *)
(***************************************************************************)
RightMargin == 9     \* rightMargin_, 74 in the code; a string s2 is 5 wide

LexOf(node) ==    \* the lexical element of a scalar
  CHOOSE e \in DOMAIN Scalar : Scalar[e] = Node(node.type, node.num)
Name(key)   == CHOOSE e \in {"s0", "s1", "s2"} : Scalar[e].num = key
Width(e)    == IF e = "s2" THEN 5 ELSE IF e \in {"{}", "[]"} THEN 2 ELSE 1
IsEmpty(tree, path) == Kids(tree, path) = <<>>

\* The text of a value that has no children
Simple(tree, path) ==
  LET n == tree[path]
  IN IF n.type = "array" THEN <<"[", "]">> ELSE IF n.type = "object" THEN <<"{", "}">>
     ELSE <<LexOf(n)>>

hasCommentForValue(n) == n.before # <<>> \/ n.line # <<>> \/ n.after # <<>>

\* A slip: the comments of the items do not count.
isMultineArrayBare(tree, path) ==
  LET kids == Kids(tree, path)
      width(k) == IF tree[Append(path, k)].type \in {"array", "object"} THEN 2
                  ELSE Width(LexOf(tree[Append(path, k)]))
  IN \/ Len(kids) * 3 >= RightMargin
     \/ \E i \in DOMAIN kids : ~IsEmpty(tree, Append(path, kids[i]))
     \/ 4 + (Len(kids) - 1) * 2 + FoldLeft(LAMBDA w, k : w + width(k), 0, kids) >= RightMargin

\* isMultineArray: the items do not fit into a line, or one has a comment
isMultineArray(tree, path) ==
  LET kids == Kids(tree, path)
      width(k) == IF tree[Append(path, k)].type \in {"array", "object"} THEN 2
                  ELSE Width(LexOf(tree[Append(path, k)]))
  IN \/ Len(kids) * 3 >= RightMargin
     \/ \E i \in DOMAIN kids : ~IsEmpty(tree, Append(path, kids[i]))
     \/ \E i \in DOMAIN kids : hasCommentForValue(tree[Append(path, kids[i])])
     \/ 4 + (Len(kids) - 1) * 2 + FoldLeft(LAMBDA w, k : w + width(k), 0, kids) >= RightMargin

\* Items between commas, on one line
OnOneLine(tree, path) ==
  LET kids == Kids(tree, path)
  IN FlattenSeq([i \in DOMAIN kids |-> (IF i > 1 THEN <<",", "sp">> ELSE <<>>)
                                       \o Simple(tree, Append(path, kids[i]))])

\* FastWriter: no blanks and no comments
RECURSIVE FastValue(_, _)
FastValue(tree, path) ==
  LET kids == Kids(tree, path)
      Child(k) == FastValue(tree, Append(path, k))
      Joined(F(_)) == FlattenSeq([i \in DOMAIN kids |->
                        (IF i > 1 THEN <<",">> ELSE <<>>) \o F(kids[i])])
      Entry(k) == <<Name(k), ":">> \o Child(k)
  IN IF tree[path].type = "array" THEN <<"[">> \o Joined(Child) \o <<"]">>
     ELSE IF tree[path].type = "object" THEN <<"{">> \o Joined(Entry) \o <<"}">>
     ELSE Simple(tree, path)

FastWriter(tree) == Append(FastValue(tree, <<>>), "nl")

(* StyledWriter *)
Blanks(level) == IF level > 0 THEN <<"sp">> ELSE <<>>     \* indentString_

\* writeIndent: looks at the last character
StyledIndent(w) ==
  IF w.doc = <<>> THEN [w EXCEPT !.doc = Blanks(w.level)]
  ELSE IF Last(w.doc) = "sp" THEN w
  ELSE [w EXCEPT !.doc = @ \o (IF Last(@) = "nl" THEN <<>> ELSE <<"nl">>) \o Blanks(w.level)]

Push(w, text) == [w EXCEPT !.doc = @ \o text]

StyledBefore(w, n) ==    \* writeCommentBeforeValue
  LET Char(v, i) == LET u == Push(v, <<n.before[i]>>)
                    IN IF n.before[i] = "nl" /\ i < Len(n.before) THEN StyledIndent(u) ELSE u
      begin == StyledIndent(Push(w, <<"nl">>))
  IN IF n.before = <<>> THEN w
     ELSE Push(FoldLeft(Char, begin, [i \in DOMAIN n.before |-> i]), <<"nl">>)

StyledAfter(w, n) ==     \* writeCommentAfterValueOnSameLine
  LET line == IF n.line = <<>> THEN w ELSE Push(w, <<"sp">> \o n.line)
  IN IF n.after = <<>> THEN line ELSE Push(line, <<"nl">> \o n.after \o <<"nl">>)

RECURSIVE StyledValue(_, _, _)

\* One member or item: its comments, its name if it has one, its value
StyledChild(tree, path, w, name, lastOne) ==
  LET n == tree[path]
      text == StyledValue(tree, path, Push(StyledIndent(StyledBefore(w, n)), name))
  IN StyledAfter(IF lastOne THEN text ELSE Push(text, <<",">>), n)

StyledValue(tree, path, w) ==    \* writeValue
  LET kids == Kids(tree, path)
      Named(k) == IF tree[path].type = "object" THEN <<Name(k), "sp", ":", "sp">> ELSE <<>>
      Open(token)  == [Push(StyledIndent(w), <<token>>) EXCEPT !.level = @ + 1]
      Close(v, token) == Push(StyledIndent([v EXCEPT !.level = @ - 1]), <<token>>)
      Each(begin) ==
        FoldLeft(LAMBDA v, i : StyledChild(tree, Append(path, kids[i]), v, Named(kids[i]), i = Len(kids)),
                 begin, [i \in DOMAIN kids |-> i])
  IN IF kids = <<>> THEN Push(w, Simple(tree, path))
     ELSE IF tree[path].type = "object" THEN Close(Each(Open("{")), "}")
     ELSE IF isMultineArray(tree, path) THEN Close(Each(Open("[")), "]")
     ELSE Push(w, <<"[", "sp">> \o OnOneLine(tree, path) \o <<"sp", "]">>)

StyledWriter(tree) ==
  LET start == [doc |-> <<>>, indented |-> TRUE, level |-> 0]
      text == StyledValue(tree, <<>>, StyledBefore(start, tree[<<>>]))
  IN Append(StyledAfter(text, tree[<<>>]).doc, "nl")

(* BuiltStyledStreamWriter: indented tells that the line has begun; comments *)
(* says whether they are written and indent whether there are lines at all.  *)
BuiltIndent(w) == IF w.indent THEN Push(w, <<"nl">> \o Blanks(w.level)) ELSE w
IfNotIndented(w) == IF w.indented THEN w ELSE BuiltIndent(w)
BuiltWithIndent(w, text) == [Push(IfNotIndented(w), text) EXCEPT !.indented = FALSE]

BuiltBefore(w, n) ==
  LET Char(v, i) == Push(v, <<n.before[i]>> \o (IF n.before[i] = "nl" /\ i < Len(n.before)
                                                  THEN Blanks(v.level) ELSE <<>>))
  IN IF n.before = <<>> \/ ~w.comments THEN w
     ELSE [FoldLeft(Char, IfNotIndented(w), [i \in DOMAIN n.before |-> i]) EXCEPT !.indented = FALSE]

BuiltAfter(w, n) ==
  LET line == IF n.line = <<>> THEN w ELSE Push(w, <<"sp">> \o n.line)
  IN IF ~w.comments THEN w ELSE IF n.after = <<>> THEN line ELSE Push(BuiltIndent(line), n.after)

RECURSIVE BuiltValue(_, _, _)
BuiltValue(tree, path, w) ==
  LET kids == Kids(tree, path)
      Open(token)     == [BuiltWithIndent(w, <<token>>) EXCEPT !.level = @ + 1]
      Close(v, token) == BuiltWithIndent([v EXCEPT !.level = @ - 1], <<token>>)
      blank == IF w.indent THEN <<"sp">> ELSE <<>>
      Each(Text(_, _), begin) ==
        FoldLeft(LAMBDA v, i :
                   LET n == tree[Append(path, kids[i])]
                       text == Text(BuiltBefore(v, n), kids[i])
                   IN BuiltAfter(IF i = Len(kids) THEN text ELSE Push(text, <<",">>), n),
                 begin, [i \in DOMAIN kids |-> i])
      Entry(u, k) == BuiltValue(tree, Append(path, k),
                         BuiltWithIndent(u, <<Name(k)>> \o blank \o <<":">> \o blank))
      Item(u, k) == [BuiltValue(tree, Append(path, k), [IfNotIndented(u) EXCEPT !.indented = TRUE])
                       EXCEPT !.indented = FALSE]
  IN IF kids = <<>> THEN Push(w, Simple(tree, path))
     ELSE IF tree[path].type = "object" THEN Close(Each(Entry, Open("{")), "}")
     ELSE IF w.comments \/ isMultineArray(tree, path) THEN Close(Each(Item, Open("[")), "]")
     ELSE Push(w, <<"[">> \o blank \o OnOneLine(tree, path) \o blank \o <<"]">>)

BuiltStyledStreamWriter(tree, comments, indent) ==
  LET start == [doc |-> <<>>, indented |-> TRUE, level |-> 0, comments |-> comments, indent |-> indent]
      before == BuiltBefore(start, tree[<<>>])
      text == BuiltValue(tree, <<>>, [IfNotIndented(before) EXCEPT !.indented = TRUE])
  IN BuiltAfter(text, tree[<<>>]).doc

-----------------------------------------------------------------------------
(***************************************************************************)
(* Properties                                                              *)
(***************************************************************************)

\* Any bytes survive quoting and reading: the quotes of the text end where the
\* string does, whatever it holds, zeros included.
StringsAreKept(s) ==
  LET q == valueToQuotedStringN(s)
  IN /\ readString(q, 2) = Len(q)
     /\ decodeString(q) = {s}
     /\ \A i \in 2 .. Len(q) - 1 : q[i] \notin 0 .. 31

\* An escaped code point, a pair of them beyond 16 bits, becomes the UTF-8
\* whose payload it is.
CodePointsAreKept(cp) ==
  LET escape == IF cp < 65536 THEN Unicode(cp)
                ELSE Unicode(55296 + (cp - 65536) \div 1024) \o Unicode(56320 + ((cp - 65536) % 1024))
      utf8 == CHOOSE t \in decodeString(<<Quote>> \o escape \o <<Quote>>) : TRUE
      lead == CASE Len(utf8) = 1 -> 0 [] Len(utf8) = 2 -> 192 [] Len(utf8) = 3 -> 224 [] OTHER -> 240
  IN /\ FoldLeft(LAMBDA v, b : 64 * v + b - 128, utf8[1] - lead, Tail(utf8)) = cp
     /\ Len(utf8) = Cardinality({limit \in {0, 128, 2048, 65536} : cp >= limit})

\* An integer is read as itself or, beyond 64 bits, as a double; what was
\* printed is always read back.
NumbersAreKept(text) ==
  LET exact == FoldLeft(LAMBDA v, d : 10 * v + d, 0, text.digits)
      value == IF text.negative THEN -exact ELSE exact
  IN /\ {n.num : n \in decodeNumber(text)} = {value} \intersect (MinInt64 .. MaxUInt64)
     /\ value \in MinInt64 .. MaxUInt64 => {n.num : n \in decodeNumber(valueToString(value))} = {value}

\* Lines are counted as an editor does and the column leads back to the place.
PlacesAreFound(s, at) ==
  LET place == getLocationLineAndColumn(s, at)
      ends == {i \in 1 .. at - 1 : s[i] = 10 \/ (s[i] = 13 /\ (i = Len(s) \/ s[i + 1] # 10))}
      inside == at > 1 /\ at <= Len(s) /\ s[at - 1] = 13 /\ s[at] = 10    \* of an end of line
  IN \/ inside
     \/ /\ place.line = Cardinality(ends) + 1
        /\ place.column = at - Max(ends \union {0})

\* The grammar of JSON, by length: values, what is between brackets, what is
\* between braces.  The empty name is the one that may have a comma behind its
\* value at the end: the reader takes it for the empty object.
Grammar(tokens, longest) ==
  LET scalars == tokens \intersect DOMAIN Scalar
      names == tokens \intersect {"s0", "s1", "s2"}
      g[n \in 0 .. longest] ==
        LET Seqs(one, part, min) == one \union UNION {{x \o <<",">> \o y : x \in IF part = "els" THEN g[k].vals ELSE g[k].mems,
                                                     y \in IF part = "els" THEN g[n - k - 1].els ELSE g[n - k - 1].memlist} : k \in min .. n - 2}
            vals == IF n = 0 THEN {} ELSE IF n = 1 THEN {<<e>> : e \in scalars}
                    ELSE {<<"[">> \o x \o <<"]">> : x \in g[n - 2].els \union (IF n = 2 THEN {<<>>} ELSE {})}
                         \union {<<"{">> \o x \o <<"}">> : x \in g[n - 2].memlist \union (IF n = 2 THEN {<<>>} ELSE {})
                                    \union (IF n < 4 THEN {} ELSE {y \o <<",">> : y \in g[n - 3].trail})}
            mems == IF n < 3 THEN {} ELSE {<<s, ":">> \o v : s \in names, v \in g[n - 2].vals}
            lone == {m \in mems : m[1] = "s0"}
        IN [vals |-> vals, mems |-> mems, els |-> Seqs(vals, "els", 1), memlist |-> Seqs(mems, "mems", 3),
            trail |-> lone \union UNION {{x \o <<",">> \o y : x \in g[k].mems, y \in g[n - k - 1].trail} : k \in 3 .. n - 2}]
  IN UNION {g[n].vals : n \in 1 .. longest}

\* The reader accepts a document exactly when it begins with a value of the
\* grammar, nested no deeper than the limit, and reports an error exactly when
\* it does not.
Accepted(p, doc, grammar) ==
  \/ p.throws
  \/ /\ p.ok = (\E k \in 1 .. Len(doc) : SubSeq(doc, 1, k) \in grammar)
     /\ p.ok = (p.errors = 0)

ReadsTheGrammar(doc, grammar) == Accepted(parse(doc), doc, grammar)

\* What a writer wrote is read as the value it was, every node and every
\* member; StyledWriter and the writer behind operator<< keep the comments
\* with the nodes they belong to.
Plain(tree) == [p \in DOMAIN tree |-> Node(tree[p].type, tree[p].num)]

Written(tree) ==
  {<<FastWriter(tree), "value">>, <<StyledWriter(tree), "comments">>,
   <<BuiltStyledStreamWriter(tree, TRUE, TRUE), "comments">>}
  \union {<<BuiltStyledStreamWriter(tree, FALSE, indent), "value">> : indent \in BOOLEAN}

IsRead(p, kept, tree) ==
  p.ok /\ IF kept = "comments" THEN p.tree = tree ELSE Plain(p.tree) = Plain(tree)

WritersAreRead(tree) == \A w \in Written(tree) : IsRead(parse(w[1]), w[2], tree)
=============================================================================
