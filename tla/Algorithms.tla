------------------------------ MODULE Algorithms ------------------------------
(***************************************************************************)
(* The computing parts over all inputs: a state is one input of one kind,  *)
(* any text, number or list, and the properties are what the results must  *)
(* be.                                                                     *)
(***************************************************************************)
EXTENDS Integers, FiniteSets, Sequences

Code == INSTANCE Computing

CONSTANT Atom    \* what texts are made of: words, tokens, addresses, values

VARIABLE case

-----------------------------------------------------------------------------
\* The name of a network device has no blank and no colon.
Names   == Seq(Code!Byte \ ({58} \union {c \in Code!Byte : Code!IsSpace(c)})) \ {<<>>}
Devices == [name : Names, count : [Code!Counters -> Nat]]

TextCases ==
  [kind : {"bytes", "base64"}, s : Seq(Code!Byte)]
    \union [kind : {"bits"}, bits : SUBSET (1 .. 64)]
    \union [kind : {"units"}, s : Seq({"c", "nul", "sub", "cut"}), room : Nat \ {0}]
    \union [kind : {"len"}, len : Nat]
    \union [kind : {"file"}, s : Seq(Code!Byte), free : Nat, buffer : Nat \ {0}]
    \union [kind : {"net"}, devices : Seq(Devices), indent : Nat, pad : Nat \ {0}, name : Names]
    \union [kind : {"list"}, list : Seq(Nat), there : Seq(Nat)]
    \union [kind : {"time"}, zone : {"fixed", "summer"}, sec : Nat]

\* The calls of a CCS, with the step of ClearSilver that fails
TplCalls == [op : {"Init"}, fails : {"none", "hdf_init"}] \union [op : {"GetValue"}, fails : {"none"}]
            \union [op : {"SetValue"}, value : Atom, fails : {"none", "hdf_set"}]
            \union [op : {"SetValueHDF"}, value : Atom, fails : {"none", "first_line", "last_line"}]
            \union [op : {"Render"}, fails : {"none", "cs_init", "malloc", "cs_parse", "cs_render"}]

\* Templates, pages, addresses and headers of requests
PageCases ==
  [kind : {"view"}, calls : Seq(TplCalls)]
    \union [kind : {"page"}, page : Seq(Atom)]
    \union [kind : {"address"}, real : Atom, forwarded : Seq(Atom), remote : Atom]
    \union [kind : {"header"}, name : Seq(Atom), known : BOOLEAN, value : Atom]

\* The calls of a CLog, and the switches name.nolog of others
LogCalls == [op : {"log", "level"}, level : Int]
            \union [op : {"on", "off"}, sink : {"stdout", "file", "online"}]
            \union [op : {"to", "nolog", "rm"}, name : Seq(Atom) \ {<<>>}] \union [op : {"clear"}]

\* Programs that log, the files in the way of their directories, paths of sources
SinkCases ==
  [kind : {"log"}, calls : Seq(LogCalls), blocked : SUBSET Seq(Atom)]
    \union [kind : {"path"}, path : {p \in Seq(Atom) : p # <<>> /\ p[Len(p)] # "/"}]

\* Statements with the calls of setValue before them, numbers appended to a
\* pattern, results of queries and objects with so many fields
SetCalls == [kind : Code!Kinds, index : Nat, value : Atom]
Pieces == Seq(Code!Byte \ {58})
SqlCases ==
  [kind : {"sql"}, pieces : Seq(Pieces), tail : Pieces, calls : Seq(SetCalls)]
    \union [kind : {"append"}, digits : Seq(0 .. 9)]
    \union {c \in [kind : {"rows"}, cols : Nat \ {0}, rows : Seq(Seq(Atom)), fields : Nat \ {0}] :
              \A i \in DOMAIN c.rows : Len(c.rows[i]) = c.cols}

Cases == TextCases \union PageCases \union SinkCases \union SqlCases

CaseSpec == case \in Cases /\ [][FALSE]_case

-----------------------------------------------------------------------------
\* What is encoded is decoded to the same, and splitting, trimming, conversion
\* in chunks, the padding of md5 and files lose nothing and add nothing: the
\* helpers of utility.cpp, charset.cpp and md5.cpp.  Lists, times and the
\* counters of network devices are read as they were written (string.h,
\* time.cpp, proc.h).
TextIsKept ==
  CASE case.kind = "bytes"  -> Code!UrlRoundTrip(case.s) /\ Code!Base64RoundTrip(case.s)
                               /\ Code!Sections(case.s, 124) /\ Code!Trimmed(case.s)
    [] case.kind = "base64" -> Code!Base64RoundTrip(case.s)
    [] case.kind = "bits"   -> Code!BitsRoundTrip(case.bits)
    [] case.kind = "units"  -> Code!ConvertsAll(case.s, case.room)
    [] case.kind = "len"    -> Code!Padded(case.len)
    [] case.kind = "file"   -> Code!FileIsWritten(case.s, case.free, case.buffer)
    [] case.kind = "net"    -> Code!InterfaceIsRead(case.devices, case.indent, case.pad, case.name)
    [] case.kind = "list"   -> Code!ListsAreKept(case.list, case.there)
    [] case.kind = "time"   -> Code!TimesAreKept(case.zone, case.sec)
    [] OTHER -> TRUE

\* Includes of a page are rewritten and the client is found in its headers
\* (cgx.cpp); a template outputs what was set (cs.cpp).
PageAndHeaders ==
  /\ case.kind = "view" => Code!OutputsWhatWasSet(case.calls)
  /\ case.kind = "page" => Code!IncludesRewritten(case.page)
  /\ case.kind = "address" => Code!NearestAddress(case.real, case.forwarded, case.remote)
  /\ case.kind = "header" => Code!HeaderFound(case.name, case.known, case.value)

\* The lines of a program go to the sinks that are on, and to no other; a source
\* file is named without its directories where its path begins with '.' or '/',
\* and by its whole path where it begins with a name (log.h).
LinesReachTheirSinks ==
  /\ case.kind = "log" => Code!EachSinkHasItsLines(case.calls, case.blocked)
  /\ case.kind = "path" => Code!SourceIsNamed(case.path)

\* Values keep their place in a statement, and columns theirs in the objects
\* that are read (sqlbind.h, dbx.h).
SqlCarriesValues ==
  /\ case.kind = "sql" => Code!ValuesAreBound(case.pieces, case.tail, case.calls)
  /\ case.kind = "append" => Code!NumberIsAppended(case.digits)
  /\ case.kind = "rows" => Code!RowsAreRead(case.rows, case.cols, case.fields)
=============================================================================
