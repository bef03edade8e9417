-------------------------- MODULE CgxRequest_proofs --------------------------
(***************************************************************************)
(* Proofs about CgxRequest, for any number of requests and failures.       *)
(***************************************************************************)
EXTENDS CgxRequest, TLAPS

\* Everything the object holds, and everything a call has returned, is of the
\* current request and whole.
Current == \A d \in cgi \union body \union got : d \in Datum /\ d.of = req /\ d.whole = TRUE

\* The kind of the body that is kept is that of the request.
Kind ==
  /\ isJson => type = "json"
  /\ isXml => type = "xml"
  /\ inited /\ ~manual /\ sent # "none" /\ type # "form" => body # {} /\ (isJson \/ isXml)

\* A CGI process that has no request yet has parsed nothing, and a FastCGI
\* worker that has none sees an empty one.
BeforeRequest == req = 0 =>
  /\ mode = "cgi" => cgi = {} /\ body = {} /\ got = {} /\ ~inited /\ ~accepted
                     /\ ~isJson /\ ~isXml
  /\ type = "form" /\ sent = "none"

\* Only what m_pCGI points to can be destroyed.
Owned == (cgi # {} => heap > 0) /\ NothingIsLost

Inv == TypeOK /\ Current /\ Kind /\ DecodedAsSent /\ BeforeRequest /\ Owned

\* Before the first request nothing is parsed.
LEMMA InitInv == Init => Inv
<1> SUFFICES ASSUME Init PROVE Inv
  OBVIOUS
<1> USE BoundAssumption DEF Init, Null
<1>1. TypeOK
  <2>1. Flags
    BY Zenon DEF Flags
  <2>2. req \in 0 .. MaxReq /\ heap \in Nat /\ failed \in 0 .. MaxFail
    OBVIOUS
  <2> QED BY <2>1, <2>2 DEF TypeOK
<1>2. Current /\ Kind /\ DecodedAsSent /\ BeforeRequest
  BY DEF Current, Kind, DecodedAsSent, BeforeRequest
<1>3. Owned
  BY DEF Owned, NothingIsLost
<1> QED BY <1>1, <1>2, <1>3 DEF Inv

(***************************************************************************)
(* The object is empty after destroy().                                    *)
(***************************************************************************)
LEMMA AcceptStep == Inv /\ (Accept \/ Exit) => Inv'
<1> SUFFICES ASSUME Inv, Accept \/ Exit PROVE Inv'
  OBVIOUS
<1> USE BoundAssumption DEF Inv, Null, request, result
<1>1. TypeOK'
  <2>1. Flags'
    BY Zenon DEF TypeOK, Flags, Accept, Exit, Destroy, request
  <2>2. req' \in 0 .. MaxReq /\ heap' \in Nat /\ failed' \in 0 .. MaxFail
    BY DEF TypeOK, Accept, Exit, Destroy, NextRequest, Owned
  <2> QED BY <2>1, <2>2 DEF TypeOK, Accept, Exit, Destroy, NextRequest
<1>2. Current'
  BY DEF Current, Accept, Exit, Destroy, NextRequest, BeforeRequest
<1>3. Kind' /\ DecodedAsSent' /\ BeforeRequest'
  BY DEF TypeOK, Kind, DecodedAsSent, BeforeRequest, Accept, Exit, Destroy, NextRequest
<1>4. Owned'
  BY DEF TypeOK, Owned, NothingIsLost, Accept, Exit, Destroy
<1> QED BY <1>1, <1>2, <1>3, <1>4

(***************************************************************************)
(* What is left in the object fits the request that is to be parsed: it is *)
(* of that request, or the object is empty.                                *)
(***************************************************************************)
Fits(r, t, s) ==
  /\ r \in 0 .. MaxReq
  /\ t \in {"form", "json", "xml"} /\ s \in {"none", "whole", "short"}
  /\ r = 0 => mode = "fcgi" /\ t = "form" /\ s = "none"
  /\ \A d \in body : d \in Datum /\ d.of = r /\ d.whole = TRUE
  /\ isJson => t = "json"
  /\ isXml => t = "xml"

\* Parsing a request whose leavings fit it makes the object of that request.
LEMMA ParseStep ==
  ASSUME Inv, NEW op \in Op, NEW fresh \in BOOLEAN, ~inited, call = "none",
         Fits(req', type', sent'),
         ParseRequest(req', type', sent', fresh) \/ CgiInitFails(fresh),
         call' = IF inited' THEN op ELSE "none",
         got' = {}, decoder' = "none", UNCHANGED <<mode, accepted, manual, over>>,
         mode = "cgi" /\ req' = 0 => FALSE
  PROVE  Inv'
<1> USE BoundAssumption DEF Inv, Null
<1>1. CASE ParseRequest(req', type', sent', fresh)
  <2>1. Data(req', TRUE) \in Datum /\ Data(req', TRUE).of = req' /\ Data(req', TRUE).whole = TRUE
    BY DEF Data, Datum, Fits
  <2>2. /\ heap' = heap + 1
        /\ \/ inited' /\ failed' = failed
           \/ ~inited' /\ failed < MaxFail /\ failed' = failed + 1
    <3>1. \/ inited' = TRUE /\ UNCHANGED failed
          \/ failed < MaxFail /\ failed' = failed + 1 /\ UNCHANGED <<inited, body>>
      BY <1>1, Zenon DEF ParseRequest
    <3>2. heap' = heap + 1
      BY <1>1, Zenon DEF ParseRequest
    <3>3. UNCHANGED <<inited, body>> => ~inited'
      OBVIOUS
    <3> QED BY <3>1, <3>2, <3>3, Zenon
  <2>3. Current'
    BY <1>1, <2>1 DEF ParseRequest, Reads, Current, Fits
  <2>4. TypeOK'
    <3>1. Flags'
      BY <1>1, Zenon DEF ParseRequest, TypeOK, Flags
    <3>2. heap' \in Nat /\ failed' \in 0 .. MaxFail
      BY <2>2 DEF TypeOK
    <3>3. inited' => cgi' # Null
      BY <1>1 DEF ParseRequest
    <3>4. cgi' \in SUBSET Datum /\ body' \in SUBSET Datum /\ got' \in SUBSET Datum
      BY <2>3 DEF Current
    <3> QED BY <3>1, <3>2, <3>3, <3>4 DEF TypeOK, Fits
  <2>5. Kind'
    <3>1. /\ isJson' <=> isJson \/ (~manual /\ type' = "json")
          /\ isXml' <=> isXml \/ (~manual /\ type' = "xml")
      BY <1>1, Zenon DEF ParseRequest
    <3>2. inited' /\ ~manual /\ sent' # "none" /\ type' # "form" => body' # {}
      <4> SUFFICES ASSUME inited', ~manual, sent' # "none", type' # "form" PROVE body' # {}
        OBVIOUS
      <4>1. type' = "json" \/ type' = "xml"
        BY DEF Fits
      <4>2. body' = {Data(req', sent' = "whole" /\ fresh)}
        BY <1>1, <4>1, Zenon DEF ParseRequest
      <4> QED BY <4>2
    <3> QED BY <3>1, <3>2, Zenon DEF Kind, Fits
  <2>6. DecodedAsSent' /\ BeforeRequest'
    BY DEF DecodedAsSent, BeforeRequest, Fits
  <2>7. Owned'
    BY <2>2 DEF Owned, NothingIsLost, TypeOK
  <2> QED BY <2>3, <2>4, <2>5, <2>6, <2>7
<1>2. CASE CgiInitFails(fresh)
  <2>1. TypeOK'
    <3>1. Flags'
      BY <1>2, Zenon DEF CgiInitFails, TypeOK, Flags
    <3> QED BY <1>2, <3>1 DEF CgiInitFails, TypeOK, Fits
  <2>2. Current' /\ Kind' /\ DecodedAsSent' /\ BeforeRequest'
    BY <1>2 DEF CgiInitFails, Current, Kind, DecodedAsSent, BeforeRequest, Fits, TypeOK
  <2>3. Owned'
    BY <1>2 DEF CgiInitFails, Owned, NothingIsLost, TypeOK
  <2> QED BY <2>1, <2>2, <2>3
<1> QED BY <1>1, <1>2

\* CHECK_INIT parses the request at hand, or the first one of a CGI program.
LEMMA CheckInitStep == ASSUME Inv, NEW op \in Op, CheckInit(op) PROVE Inv'
<1> USE BoundAssumption DEF Inv, Null, request
<1>0. ASSUME UNCHANGED <<unread, inited, isJson, isXml>> PROVE Flags'
  BY <1>0, Zenon DEF CheckInit, TypeOK, Flags
<1>1. CASE inited
  BY <1>0, <1>1 DEF CheckInit, TypeOK, Current, Kind, DecodedAsSent, BeforeRequest, Owned, NothingIsLost
<1>2. CASE /\ ~inited /\ UNCHANGED request
           /\ mode = "cgi" => accepted
           /\ ParseRequest(req, type, sent, unread) \/ CgiInitFails(unread)
  <2>1. Fits(req', type', sent')
    BY <1>2 DEF Fits, TypeOK, Current, Kind, BeforeRequest
  <2>2. ParseRequest(req', type', sent', unread) \/ CgiInitFails(unread)
    BY <1>2
  <2>3. unread \in BOOLEAN
    BY DEF TypeOK, Flags
  <2>4. ~(mode = "cgi" /\ req' = 0)
    BY <1>2 DEF BeforeRequest
  <2> QED BY <1>2, <2>1, <2>2, <2>3, <2>4, ParseStep DEF CheckInit
<1>3. CASE /\ ~inited /\ mode = "cgi" /\ req = 0 /\ NextRequest
           /\ ParseRequest(req', type', sent', TRUE) \/ CgiInitFails(TRUE)
  <2>1. Fits(req', type', sent') /\ req' # 0
    BY <1>3 DEF Fits, NextRequest, TypeOK, Current, BeforeRequest
  <2> QED BY <1>3, <2>1, ParseStep DEF CheckInit, TypeOK, NextRequest
<1>4. CASE /\ ~inited /\ failed < MaxFail /\ failed' = failed + 1 /\ mode = "cgi" /\ req > 0
           /\ UNCHANGED <<request, unread, inited, cgi, body, isJson, isXml, heap>>
  BY <1>0, <1>4 DEF CheckInit, TypeOK, Current, Kind, DecodedAsSent, BeforeRequest, Owned, NothingIsLost
<1> QED BY <1>1, <1>2, <1>3, <1>4 DEF CheckInit

\* The calls that only read or set what is parsed.
LEMMA CallStep ==
  Inv /\ (SetParseHttpBodyManually \/ GetValue \/ SetValue \/ GetHttpBody \/ Parse \/ Render) => Inv'
<1> SUFFICES ASSUME Inv, SetParseHttpBodyManually \/ GetValue \/ SetValue \/ GetHttpBody \/ Parse \/ Render
             PROVE  Inv'
  OBVIOUS
<1> USE BoundAssumption
    DEF Inv, Null, request, object, result, Returns, TypeOK, Current, Kind, DecodedAsSent,
        BeforeRequest, Owned, NothingIsLost
<1>0. Flags'
  BY Zenon DEF Flags, SetParseHttpBodyManually, GetValue, SetValue, GetHttpBody, Parse, Render
<1>1. CASE SetParseHttpBodyManually
  BY <1>0, <1>1 DEF SetParseHttpBodyManually
<1>2. CASE GetValue \/ GetHttpBody \/ Render
  BY <1>0, <1>2 DEF GetValue, GetHttpBody, Render
<1>3. CASE SetValue
  <2>1. Data(req, TRUE) \in Datum /\ Data(req, TRUE).of = req /\ Data(req, TRUE).whole = TRUE
    BY DEF Data, Datum
  <2>2. inited /\ cgi # {} /\ cgi' = cgi \union {Data(req, TRUE)}
    BY <1>3 DEF SetValue
  <2> QED BY <1>0, <1>3, <2>1, <2>2 DEF SetValue
<1>4. CASE Parse
  BY <1>0, <1>4 DEF Parse
<1> QED BY <1>1, <1>2, <1>3, <1>4

\* The invariant of every behaviour.
LEMMA Invariance == Spec => []Inv
<1>1. Inv /\ [Next]_vars => Inv'
  <2>1. Inv /\ UNCHANGED vars => Inv'
    BY DEF Inv, vars, request, object, result, TypeOK, Flags, Current, Kind, DecodedAsSent,
           BeforeRequest, Owned, NothingIsLost, Null
  <2> QED BY <2>1, AcceptStep, CheckInitStep, CallStep DEF Next, Done
<1> QED BY InitInv, <1>1, PTL DEF Spec

\* Types, for any number of requests.
THEOREM TypeInvariance == Spec => []TypeOK
<1>1. Inv => TypeOK
  BY DEF Inv
<1> QED BY Invariance, <1>1, PTL

\* Nothing of an earlier request reaches a handler, in any order of calls.
THEOREM RequestsAreSeparate == Spec => []OwnRequest
<1>1. Inv => OwnRequest
  BY DEF Inv, Current, OwnRequest
<1> QED BY Invariance, <1>1, PTL

\* No handler gets a truncated body.
THEOREM BodiesAreWhole == Spec => []WholeBody
<1>1. Inv => WholeBody
  BY DEF Inv, Current, WholeBody
<1> QED BY Invariance, <1>1, PTL

\* parse() uses the format of the request it handles.
THEOREM FormatsAgree == Spec => []DecodedAsSent
<1>1. Inv => DecodedAsSent
  BY DEF Inv
<1> QED BY Invariance, <1>1, PTL

\* Only an init() that fails can lose a CGI structure.
THEOREM OnlyFailuresLose == Spec => []NothingIsLost
<1>1. Inv => NothingIsLost
  BY DEF Inv, Owned
<1> QED BY Invariance, <1>1, PTL
=============================================================================
