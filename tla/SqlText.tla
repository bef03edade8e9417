-------------------------------- MODULE SqlText --------------------------------
(***************************************************************************)
(* SqlBind (include/neiku/sqlbind.h): values put into the text of a        *)
(* statement; and DbResult (dbx.h, dbx.cpp): the cursor that reads the     *)
(* columns of a result into the fields of objects.                         *)
(*                                                                         *)
(* A pattern is a sequence of bytes; a bound value appears in the result   *)
(* as a record, escaped and quoted or not.                                 *)
(***************************************************************************)
EXTENDS Codec

Kinds == {"mpInt", "mpUint", "mpStr"}
Placeholder(i) == <<58>> \o Decimal(i)     \* snprintf(szIndex, ":%u", i)

\* sPattern.find(text, from); 0 for npos
Find(s, text, from) ==
  LET at == {i \in from .. Len(s) - Len(text) + 1 : SubSeq(s, i, i + Len(text) - 1) = text}
  IN IF at = {} THEN 0 ELSE Min(at)

\* insert does not replace what is there
setValue(map, i, value) ==
  IF i \in DOMAIN map THEN map
  ELSE [j \in DOMAIN map \union {i} |-> IF j = i THEN value ELSE map[j]]

\* The maps after some calls of setValue; numbers of 64 bits go to mpStr.
SqlBind(calls) ==
  LET after[k \in 0 .. Len(calls)] ==
        IF k = 0 THEN [kind \in Kinds |-> <<>>]
        ELSE LET c == calls[k]
             IN [after[k - 1] EXCEPT ![c.kind] = setValue(@, c.index, c.value)]
  IN after[Len(calls)]

\* operator <<: numbers of 64 bits are printed into 20 bytes, which hold 19
\* characters and the end.
AppendNumber(pattern, digits) == pattern \o SubSeq(digits, 1, Min({19, Len(digits)}))

Bare(v)   == [value |-> v, quoted |-> FALSE]
Quoted(v) == [value |-> v, quoted |-> TRUE]      \* '...' around engine->escape(v)

\* What value i is replaced by; the placeholder where it has none.
Bound(maps, i) ==
  IF i \in DOMAIN maps["mpInt"] THEN <<Bare(maps["mpInt"][i])>>
  ELSE IF i \in DOMAIN maps["mpUint"] THEN <<Bare(maps["mpUint"][i])>>
  ELSE IF i \in DOMAIN maps["mpStr"] THEN <<Quoted(maps["mpStr"][i])>>
  ELSE Placeholder(i)

\* One turn of the loop; the first placeholder that is not there ends it.
Replace(pattern, maps, s, i) ==
  LET p2 == Find(pattern, Placeholder(i), s.p1)
  IN IF s.npos \/ p2 = 0 THEN [sql |-> s.sql, p1 |-> s.p1, npos |-> TRUE]
     ELSE [sql |-> s.sql \o SubSeq(pattern, s.p1, p2 - 1) \o Bound(maps, i),
           p1 |-> p2 + Len(Placeholder(i)), npos |-> FALSE]

\* Placeholders are looked for in ascending order, each behind the last one.
getSql(pattern, maps) ==
  LET n == Cardinality(DOMAIN maps["mpInt"]) + Cardinality(DOMAIN maps["mpUint"])
             + Cardinality(DOMAIN maps["mpStr"])
      after[i \in 0 .. n] ==
        IF i = 0 THEN [sql |-> <<>>, p1 |-> 1, npos |-> FALSE]
        ELSE Replace(pattern, maps, after[i - 1], i)
  IN after[n].sql \o SubSeq(pattern, after[n].p1, Len(pattern))

-----------------------------------------------------------------------------
(***************************************************************************)
(* DbResult: row and idx are m_pRow and m_ddwIdex, rest what mysql_fetch_  *)
(* row has not given yet, ok what next() returned last.  NULL columns read *)
(* as 0 or "".                                                             *)
(***************************************************************************)
DbResult(row, idx, cols, rest, ok) ==
  [row |-> row, idx |-> idx, cols |-> cols, rest |-> rest, ok |-> ok]

Cursor(rows, cols) == DbResult(<<>>, cols, cols, rows, TRUE)

\* A slip: the last column of a row is passed over.
nextSkips(c) ==
  IF c.idx + 1 < c.cols THEN DbResult(c.row, c.idx, c.cols, c.rest, TRUE)
  ELSE IF c.rest = <<>> THEN DbResult(<<>>, c.idx, c.cols, c.rest, FALSE)
  ELSE DbResult(Head(c.rest), 0, c.cols, Tail(c.rest), TRUE)

next(c) ==
  IF c.idx < c.cols THEN DbResult(c.row, c.idx, c.cols, c.rest, TRUE)
  ELSE IF c.rest = <<>> THEN DbResult(<<>>, c.idx, c.cols, c.rest, FALSE)
  ELSE DbResult(Head(c.rest), 0, c.cols, Tail(c.rest), TRUE)

Column(v) == IF v = "NULL" THEN "0" ELSE v

\* operator & of a field: what it read, {} where it left the field alone.
ReadField(c) ==
  LET n == next(c)
  IN IF n.ok THEN [cursor |-> DbResult(n.row, n.idx + 1, n.cols, n.rest, TRUE),
                   value |-> {Column(n.row[n.idx + 1])}]
             ELSE [cursor |-> n, value |-> {}]

\* serialize of an object with so many fields
Object(c, fields) ==
  LET after[k \in 0 .. fields] ==
        IF k = 0 THEN [cursor |-> c, value |-> <<>>]
        ELSE LET f == ReadField(after[k - 1].cursor)
             IN [cursor |-> f.cursor, value |-> Append(after[k - 1].value, f.value)]
  IN after[fields]

\* operator & of a vector: while (next()), an object is read.
\* Objects have fields: there are never more objects than columns.
Vector(c, fields) ==
  LET n == Len(c.rest) * c.cols
      step[k \in 0 .. n] ==
        IF k = 0 THEN [cursor |-> next(c), list |-> <<>>]
        ELSE LET s == step[k - 1]
                 o == Object(s.cursor, fields)
             IN IF ~s.cursor.ok THEN s
                ELSE [cursor |-> next(o.cursor), list |-> Append(s.list, o.value)]
  IN step[n].list

-----------------------------------------------------------------------------
(***************************************************************************)
(* Properties                                                              *)
(***************************************************************************)

\* What the calls of setValue say of placeholder i: the first value of the
\* first of the three kinds that has one.
ValueOf(calls, i) ==
  LET Of(kind) == {k \in DOMAIN calls : calls[k].index = i /\ calls[k].kind = kind}
  IN IF Of("mpInt") # {} THEN Bare(calls[Min(Of("mpInt"))].value)
     ELSE IF Of("mpUint") # {} THEN Bare(calls[Min(Of("mpUint"))].value)
     ELSE Quoted(calls[Min(Of("mpStr"))].value)

\* In a statement whose placeholders :1, :2, ... stand in this order between
\* pieces without a colon, each is replaced by its value, when each has one,
\* whatever else was set and in whatever order: :1 is never found inside :10,
\* and what a value holds is not searched again.
ValuesAreBound(pieces, tail, calls) ==
  LET m == Len(pieces)
      pattern  == FlattenSeq([i \in 1 .. m |-> pieces[i] \o Placeholder(i)]) \o tail
      expected == FlattenSeq([i \in 1 .. m |-> pieces[i] \o <<ValueOf(calls, i)>>]) \o tail
  IN (\A i \in 1 .. m : \E k \in DOMAIN calls : calls[k].index = i)
       => getSql(pattern, SqlBind(calls)) = expected

\* A number is appended whole as long as it has at most 19 characters: the
\* last of the 20 of 18446744073709551615 is lost.
NumberIsAppended(digits) == (AppendNumber(<<>>, digits) = digits) <=> Len(digits) < 20

\* The place of element j of part i when all elements are numbered through
Place(i, j, width) == (i - 1) * width + j

\* The fields of the objects are the columns of the rows, in their order and
\* each once, whether an object has as many fields as a row has columns or
\* not; fields of the last object that no column is left for are not touched.
RowsAreRead(rows, cols, fields) ==
  LET list == Vector(Cursor(rows, cols), fields)
      n == Len(rows) * cols
  IN /\ n <= Len(list) * fields /\ (list # <<>> => (Len(list) - 1) * fields < n)
     /\ \A o \in DOMAIN list :
          /\ Len(list[o]) = fields
          /\ \A f \in 1 .. fields :
               LET p == Place(o, f, fields)
               IN /\ p > n => list[o][f] = {}
                  /\ \A r \in DOMAIN rows, j \in 1 .. cols :
                       Place(r, j, cols) = p => list[o][f] = {Column(rows[r][j])}
=============================================================================
