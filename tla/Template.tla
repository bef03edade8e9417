-------------------------------- MODULE Template --------------------------------
(***************************************************************************)
(* CCS (src/neiku/cs.cpp): a template engine over ClearSilver, as one      *)
(* program uses it.  A call is a record with the step of the library that  *)
(* fails in it, "none" if none does.                                       *)
(*                                                                         *)
(* The template is one that outputs the value of a name, so that an output *)
(* is the value it was rendered with.                                      *)
(***************************************************************************)
EXTENDS Integers, FiniteSets, SequencesExt

None == "none"          \* no output yet, no message, no value

\* hdf is the set of data sets m_pHDF leads to, {} for NULL; a data set is the
\* value of the name.  parses counts CSPARSE structures in use.
CCS == [hdf |-> {}, init |-> FALSE, msg |-> None, output |-> None, parses |-> 0, ret |-> 0]

Value(w) == CHOOSE v \in w.hdf : TRUE

Ends(w, ret) == [w EXCEPT !.ret = ret]
SetErrMsg(w, msg) == [Ends(w, -1) EXCEPT !.msg = msg]
NotInit == "not_init"

-----------------------------------------------------------------------------
Init(w, fails) ==
  IF w.init THEN Ends(w, 0)
  ELSE IF fails = "hdf_init" THEN SetErrMsg(w, fails)
  ELSE Ends([[w EXCEPT !.hdf = {None}] EXCEPT !.init = TRUE], 0)

\* GetValue returns what is set, or the default.
GetValue(w) == IF w.init THEN [w EXCEPT !.ret = Value(w)] ELSE [SetErrMsg(w, NotInit) EXCEPT !.ret = None]

SetValue(w, value, fails) ==
  IF ~w.init THEN SetErrMsg(w, NotInit)
  ELSE IF fails = "hdf_set" THEN SetErrMsg(w, fails)
  ELSE [Ends(w, 0) EXCEPT !.hdf = {value}]

\* hdf_read_string stops at the line it cannot read; the lines before are set.
SetValueHDF(w, value, fails) ==
  IF ~w.init THEN SetErrMsg(w, NotInit)
  ELSE LET set == IF fails = "first_line" THEN w ELSE [w EXCEPT !.hdf = {value}]
       IN IF fails = None THEN Ends(set, 0) ELSE SetErrMsg(set, fails)

\* Both forms of Render; only the one with a string calls malloc, and returns
\* from there without cs_destroy.
Render(w, fails) ==
  IF ~w.init THEN SetErrMsg(w, NotInit)
  ELSE IF fails = "cs_init" THEN SetErrMsg(w, fails)
  ELSE IF fails = "malloc" THEN [SetErrMsg(w, fails) EXCEPT !.parses = @ + 1]
  ELSE IF fails \in {"cs_parse", "cs_render"} THEN SetErrMsg(w, fails)
  ELSE [Ends(w, 0) EXCEPT !.output = Value(w)]

\* Destroy, by ~CCS
Destroy(w) == [w EXCEPT !.init = FALSE, !.hdf = {}, !.msg = None]

-----------------------------------------------------------------------------
(***************************************************************************)
(* Properties                                                              *)
(***************************************************************************)
Call(w, c) ==
  CASE c.op = "Init"        -> Init(w, c.fails)
    [] c.op = "GetValue"    -> GetValue(w)
    [] c.op = "SetValue"    -> SetValue(w, c.value, c.fails)
    [] c.op = "SetValueHDF" -> SetValueHDF(w, c.value, c.fails)
    [] c.op = "Render"      -> Render(w, c.fails)

\* What a program gets is what it has set before: an output is the value of
\* the last call that set one, also when calls failed in between, and a
\* Render that fails leaves the last output.  Nothing works before Init, which
\* may be tried again, and a second one does not empty the data.  Only a
\* malloc that fails loses anything, one structure each time, and the message
\* is that of the last call that failed, whatever succeeded since.
OutputsWhatWasSet(calls) ==
  LET ready == {i \in DOMAIN calls : calls[i].op = "Init" /\ calls[i].fails = None}
      Works(i) == \E j \in ready : j <= i
      Sets(i) == CASE calls[i].op = "SetValue" -> calls[i].fails = None
                   [] calls[i].op = "SetValueHDF" -> calls[i].fails # "first_line"
                   [] OTHER -> FALSE
      Renders(i) == Works(i) /\ calls[i].op = "Render" /\ calls[i].fails = None
      Fails(i) == IF calls[i].op = "Init" THEN calls[i].fails # None /\ ~Works(i)
                  ELSE ~Works(i) \/ calls[i].fails # None
      LastOf(P(_)) == Max({0} \union {i \in DOMAIN calls : P(i)})
      At(i) == LET set == {j \in 1 .. i : Works(j) /\ Sets(j)} IN IF set = {} THEN None ELSE calls[Max(set)].value
      end == FoldLeft(Call, CCS, calls)
      n == Len(calls)
  IN /\ end.output = IF LastOf(Renders) = 0 THEN None ELSE At(LastOf(Renders))
     /\ end.parses = Cardinality({i \in DOMAIN calls : Works(i) /\ calls[i].op = "Render" /\ calls[i].fails = "malloc"})
     /\ end.msg = IF LastOf(Fails) = 0 THEN None
                  ELSE IF Works(LastOf(Fails)) \/ calls[LastOf(Fails)].op = "Init"
                       THEN calls[LastOf(Fails)].fails ELSE NotInit
     /\ n > 0 => /\ calls[n].op # "GetValue" => (end.ret = 0 <=> ~Fails(n))
                 /\ calls[n].op = "GetValue" => end.ret = At(n)
     /\ Destroy(end).hdf = {}
=============================================================================
