-------------------------------- MODULE LogSinks --------------------------------
(***************************************************************************)
(* CLog (include/neiku/log.h) as one program configures and uses it: the   *)
(* level, the three sinks and the path of the file.  What several          *)
(* processes do to the file, and its rotation, is in LogFile.              *)
(*                                                                         *)
(* A name is the sequence of its components, <<>> where no name was set.   *)
(* Of the disk there are the directories, the files that are in the way of *)
(* one, the .nolog switches, and the lines of each log.  The names of      *)
(* directories do not end in .log: a log is in the way of none.            *)
(***************************************************************************)
EXTENDS Integers, SequencesExt

\* Levels: 1 errors, 2 messages, 3 debugging
Msg == 2
Unset == <<>>
Dir(name) == Front(name)

\* sinks has those of m_bLog2Stdout, m_bLog2File and m_bLog2Online that are on.
CLog(blocked) ==
  [level |-> Msg, sinks |-> {"stdout"}, name |-> Unset, printed |-> <<>>, vOnlineLog |-> <<>>,
   dirs |-> {<<>>}, blocked |-> blocked, nolog |-> {}, files |-> <<>>]

-----------------------------------------------------------------------------
(***************************************************************************)
(* Configuration                                                           *)
(***************************************************************************)

\* mkdir of every prefix that ends before a slash.  EEXIST is no error, also
\* where a file is in the way; the next mkdir then ends the loop.
MakeSubDir(dirs, blocked, name) ==
  LET Made[n \in 0 .. Len(name) - 1] ==
        IF n = 0 THEN dirs
        ELSE LET dir == SubSeq(name, 1, n)
             IN IF Dir(dir) \in Made[n - 1] /\ dir \notin blocked
                THEN Made[n - 1] \union {dir} ELSE Made[n - 1]
  IN Made[Len(name) - 1]

Exists(w, name) == name \in DOMAIN w.files

SetLogFile(w, name) ==
  [w EXCEPT !.name = name, !.sinks = (@ \union {"file"}) \ {"stdout"},
            !.dirs = IF Exists(w, name) THEN @ ELSE MakeSubDir(@, w.blocked, name)]

SetLogLevel(w, level) == [w EXCEPT !.level = level]

\* SetLog2Stdout, SetLog2File, SetLog2Online
SetSwitch(w, sink, on) == [w EXCEPT !.sinks = IF on THEN @ \union {sink} ELSE @ \ {sink}]

ClearOnlineLog(w) == [w EXCEPT !.vOnlineLog = <<>>]

-----------------------------------------------------------------------------
(***************************************************************************)
(* DoLog, with a file below its limit: three sinks, each for itself        *)
(***************************************************************************)
LogToStdout(w, line) ==
  IF "stdout" \in w.sinks THEN [w EXCEPT !.printed = Append(@, line)] ELSE w

\* fopen(path, "a"): needs the directory, creates the file.
LogToFile(w, line) ==
  LET name == w.name
      old  == IF Exists(w, name) THEN w.files[name] ELSE <<>>
      opens == name # Unset /\ Dir(name) \in w.dirs
  IN IF "file" \in w.sinks /\ name \notin w.nolog /\ opens
     THEN [w EXCEPT !.files =
             [n \in DOMAIN w.files \union {name} |-> IF n = name THEN Append(old, line) ELSE w.files[n]]]
     ELSE w

LogOnline(w, line) ==
  IF "online" \in w.sinks THEN [w EXCEPT !.vOnlineLog = Append(@, line)] ELSE w

\* A slip: a file that is switched off or does not open ends the call.
DoLogReturns(w, level, line) ==
  LET printed == LogToStdout(w, line)
      filed == LogToFile(printed, line)
  IN IF w.level < level THEN w
     ELSE IF "file" \in w.sinks /\ filed = printed THEN printed ELSE LogOnline(filed, line)

DoLog(w, level, line) ==
  IF w.level < level THEN w
  ELSE LogOnline(LogToFile(LogToStdout(w, line), line), line)

\* GetFileName(__FILE__): the directories go when the path begins with '.' or
\* '/'; a path that begins with a name stays.  Paths are sequences of words
\* and "/".
GetFileName(path) ==
  LET slashes == {i \in DOMAIN path : path[i] = "/"}
  IN IF path[1] \in {".", "..", "/"} /\ slashes # {}
     THEN SubSeq(path, Max(slashes) + 1, Len(path)) ELSE path

-----------------------------------------------------------------------------
(***************************************************************************)
(* A program is the sequence of its calls; the line of a log call is its   *)
(* place in it.                                                            *)
(***************************************************************************)
LogCall(w, i, c) ==
  CASE c.op = "log"   -> DoLog(w, c.level, i)
    [] c.op = "level" -> SetLogLevel(w, c.level)
    [] c.op = "to"    -> SetLogFile(w, c.name)
    [] c.op = "on"    -> SetSwitch(w, c.sink, TRUE)
    [] c.op = "off"   -> SetSwitch(w, c.sink, FALSE)
    [] c.op = "clear" -> ClearOnlineLog(w)
    [] c.op = "nolog" -> [w EXCEPT !.nolog = @ \union {c.name}]    \* touch name.nolog
    [] c.op = "rm"    -> [w EXCEPT !.nolog = @ \ {c.name}]

Run(calls, blocked) ==
  LET after[i \in 0 .. Len(calls)] ==
        IF i = 0 THEN CLog(blocked) ELSE LogCall(after[i - 1], i, calls[i])
  IN after[Len(calls)]

-----------------------------------------------------------------------------
(***************************************************************************)
(* Properties                                                              *)
(***************************************************************************)

\* The last of the calls in S before i, 0 for none
LastBefore(S, i) == Max({0} \union {j \in 1 .. i - 1 : j \in S})

CallsOf(calls, ops) == {j \in DOMAIN calls : calls[j].op \in ops}

\* What the calls before i have said: the level, the name of the file, whether
\* a sink is on, and a name switched off.
LevelAt(calls, i) ==
  LET j == LastBefore(CallsOf(calls, {"level"}), i) IN IF j = 0 THEN Msg ELSE calls[j].level
NameAt(calls, i) ==
  LET j == LastBefore(CallsOf(calls, {"to"}), i) IN IF j = 0 THEN Unset ELSE calls[j].name
OnAt(calls, sink, i) ==
  LET about == {j \in CallsOf(calls, {"on", "off"}) : calls[j].sink = sink}
               \union (IF sink = "online" THEN {} ELSE CallsOf(calls, {"to"}))
      j == LastBefore(about, i)
  IN IF j = 0 THEN sink = "stdout"
     ELSE calls[j].op = "on" \/ (calls[j].op = "to" /\ sink = "file")
OffAt(calls, name, i) ==
  LET j == LastBefore({j \in CallsOf(calls, {"nolog", "rm"}) : calls[j].name = name}, i)
  IN j # 0 /\ calls[j].op = "nolog"

\* A file is in the way of one of its directories.
Hindered(name, blocked) == \E n \in 1 .. Len(name) - 1 : SubSeq(name, 1, n) \in blocked

\* list has the elements of S, in their order.
InOrder(list, S) == ToSet(list) = S /\ \A i, j \in DOMAIN list : i < j => list[i] < list[j]

Logged(calls) == {i \in CallsOf(calls, {"log"}) : calls[i].level <= LevelAt(calls, i)}

\* The lines for stdout, for the vector, for the file of a name
Printed(calls) == {i \in Logged(calls) : OnAt(calls, "stdout", i)}
Online(calls)  == {i \in Logged(calls) : /\ OnAt(calls, "online", i)
                                         /\ \A j \in CallsOf(calls, {"clear"}) : j < i}
Filed(calls, blocked, name) ==
  {i \in Logged(calls) : /\ OnAt(calls, "file", i) /\ NameAt(calls, i) = name
                         /\ name # Unset /\ ~OffAt(calls, name, i) /\ ~Hindered(name, blocked)}

\* A line goes to each sink that is on at the time of the call and to no
\* other, in the order of the calls, whatever becomes of it in the other
\* sinks.  What is on is what the last call said that is about the sink: a
\* log file turns stdout off, a name.nolog is about the files of that name
\* only, and a file in a directory that could not be made loses its lines
\* and nobody else's.
EachSinkHasItsLines(calls, blocked) ==
  LET end == Run(calls, blocked)
  IN /\ InOrder(end.printed, Printed(calls))
     /\ InOrder(end.vOnlineLog, Online(calls))
     /\ \A name \in {NameAt(calls, i) : i \in DOMAIN calls} :
          LET lines == Filed(calls, blocked, name)
          IN IF lines = {} THEN ~Exists(end, name)
             ELSE Exists(end, name) /\ InOrder(end.files[name], lines)

\* What stands before the line number in a line is the path of the source file
\* as the compiler has it.  One that begins with '.' or '/' is cut to its last
\* component; one that begins with a name keeps its directories, which
\* log.h:330 does not say ("in place of the basename of gnu/posix").
SourceIsNamed(path) ==
  LET name == GetFileName(path)
      cut  == SubSeq(path, 1, Len(path) - Len(name))
  IN /\ path = cut \o name
     /\ IF path[1] \in {".", "..", "/"}
          THEN "/" \notin ToSet(name) /\ (cut = <<>> \/ Last(cut) = "/")
          ELSE cut = <<>>
=============================================================================
