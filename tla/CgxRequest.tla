------------------------------ MODULE CgxRequest ------------------------------
(***************************************************************************)
(* CgX, the life of a request in one worker.  accept() waits for the next  *)
(* request; every other call of the handler starts with CHECK_INIT, which  *)
(* parses the request on the first one.  The object is a singleton: what   *)
(* one request leaves in it is there when the next one comes, unless       *)
(* destroy() has removed it.                                               *)
(*                                                                         *)
(* The handler is any program: it calls in any order, as often as it       *)
(* wants, before the first accept() and after a call that failed, too.     *)
(***************************************************************************)
EXTENDS Integers

CONSTANTS
  MaxReq,  \* bound: requests of a FastCGI worker
  MaxFail  \* bound: calls of init() that fail

ASSUME BoundAssumption == MaxReq \in Nat \ {0} /\ MaxFail \in Nat

\* No data: m_pCGI is NULL, m_sHttpBody is empty.
Null == {}

\* The calls that begin with CHECK_INIT.
Op == {"getValue", "setValue", "getHttpBody", "parse", "render"}

VARIABLES
  mode,      \* FCGX_IsCGI(): "cgi" or "fcgi"
  req,       \* number of the request FCGI_Accept has given, 0: none yet
  type,      \* its Content-Type: "form", "json" or "xml"
  sent,      \* its body as the client sends it: "none", "whole" or "short"
  unread,    \* nothing of the body has been read
  inited,    \* m_bInit
  accepted,  \* m_bAccepted
  cgi,       \* m_pCGI: the data its HDF holds
  manual,    \* m_bParseHttpBodyManually
  body,      \* m_sHttpBody: the data it holds
  isJson,    \* m_bIsJsonPost
  isXml,     \* m_bIsXmlPost
  call,      \* the call that is past CHECK_INIT, or "none"
  got,       \* the data the last call has returned or output
  decoder,   \* what the last parse() has decoded with
  heap,      \* CGI structures allocated and not destroyed
  failed,    \* calls of init() that have failed
  over       \* the worker has left its loop

request == <<mode, req, type, sent>>
object == <<inited, accepted, cgi, manual, body, isJson, isXml>>
result == <<got, decoder>>
vars == <<request, unread, object, call, result, heap, failed, over>>

\* Data of request r; a truncated body is not whole.
Data(r, whole) == [of |-> r, whole |-> whole]
Datum == [of : 0 .. MaxReq, whole : BOOLEAN]

Init ==
  /\ mode \in {"cgi", "fcgi"}
  /\ req = 0 /\ type = "form" /\ sent = "none" /\ unread = TRUE
  /\ inited = FALSE /\ accepted = FALSE /\ cgi = Null /\ manual = FALSE
  /\ body = Null /\ isJson = FALSE /\ isXml = FALSE
  /\ call = "none" /\ got = {} /\ decoder = "none"
  /\ heap = 0 /\ failed = 0 /\ over = FALSE

-----------------------------------------------------------------------------
\* A slip: the body of the last request stays.
DestroyKeepsBody ==
  /\ inited' = FALSE /\ accepted' = FALSE /\ manual' = FALSE
  /\ isJson' = FALSE /\ isXml' = FALSE
  /\ cgi' = Null /\ heap' = heap - (IF cgi = Null THEN 0 ELSE 1)
  /\ UNCHANGED body

\* A slip: the kind of the last body stays.
DestroyKeepsKind ==
  /\ inited' = FALSE /\ accepted' = FALSE /\ manual' = FALSE /\ body' = Null
  /\ cgi' = Null /\ heap' = heap - (IF cgi = Null THEN 0 ELSE 1)
  /\ UNCHANGED <<isJson, isXml>>

\* A slip: m_pCGI is set to NULL and not destroyed.
DestroyForgets ==
  /\ inited' = FALSE /\ accepted' = FALSE /\ manual' = FALSE /\ body' = Null
  /\ isJson' = FALSE /\ isXml' = FALSE
  /\ cgi' = Null /\ UNCHANGED heap

\* destroy()
Destroy ==
  /\ inited' = FALSE /\ accepted' = FALSE /\ manual' = FALSE /\ body' = Null
  /\ isJson' = FALSE /\ isXml' = FALSE
  /\ cgi' = Null /\ heap' = heap - (IF cgi = Null THEN 0 ELSE 1)

\* FCGI_Accept gives a request.
NextRequest ==
  /\ req < MaxReq
  /\ req' = req + 1
  /\ type' \in {"form", "json", "xml"} /\ sent' \in {"none", "whole", "short"}
  /\ UNCHANGED mode

\* accept(), when it returns 0.  A CGI process has one request, and FCGI_Accept
\* may have given it to init() before.
Accept ==
  /\ call = "none" /\ ~over
  /\ \/ mode = "fcgi" /\ Destroy /\ NextRequest /\ unread' = TRUE
     \/ /\ mode = "cgi" /\ ~accepted /\ accepted' = TRUE
        /\ IF req = 0 THEN NextRequest ELSE UNCHANGED request
        /\ UNCHANGED <<unread, inited, cgi, manual, body, isJson, isXml, heap>>
  /\ got' = {} /\ decoder' = "none"
  /\ UNCHANGED <<call, failed, over>>

\* accept() returns -1: the loop of the handler ends, and with it the process,
\* which destroys the singleton.
Exit ==
  /\ call = "none" /\ ~over
  /\ over' = TRUE
  /\ Destroy
  /\ got' = {} /\ decoder' = "none"
  /\ UNCHANGED <<request, unread, call, failed>>

\* The handler never turns it off again.
SetParseHttpBodyManually ==
  /\ call = "none" /\ ~over /\ ~manual
  /\ manual' = TRUE
  /\ UNCHANGED <<request, unread, inited, accepted, cgi, body, isJson, isXml,
                 call, result, heap, failed, over>>

-----------------------------------------------------------------------------
\* A slip: the body is taken as it is when the client stops sending.
ReadsShort(s, fresh) == s = "none" \/ fresh

\* Content-Length bytes can be read, from where the stream stands.
Reads(s, fresh) == s = "none" \/ (s = "whole" /\ fresh)

(***************************************************************************)
(* init(), from cgi_init on, for request r.  A body that is kept for       *)
(* parse() or for the handler goes to m_sHttpBody, that of a form into the *)
(* HDF.  A failure is no memory before the first byte, or a read that ends *)
(* too early; nothing is undone.                                           *)
(***************************************************************************)
ParseRequest(r, t, s, fresh) ==
  LET json == ~manual /\ t = "json"
      xml  == ~manual /\ t = "xml"
      keep == manual \/ json \/ xml
      content == IF s = "none" THEN {} ELSE {Data(r, s = "whole" /\ fresh)}
  IN  /\ isJson' = (isJson \/ json)
      /\ isXml' = (isXml \/ xml)
      /\ heap' = heap + 1
      /\ \/ /\ Reads(s, fresh) /\ inited' = TRUE
            /\ unread' = (fresh /\ s = "none")
            /\ cgi' = {Data(r, TRUE)} \union (IF keep THEN {} ELSE content)
            /\ body' = IF keep /\ s # "none" THEN content ELSE body
            /\ UNCHANGED failed
         \/ /\ failed < MaxFail /\ failed' = failed + 1
            /\ unread' \in {fresh, FALSE} /\ cgi' = {Data(r, TRUE)}
            /\ UNCHANGED <<inited, body>>

\* cgi_init fails, and leaves m_pCGI NULL.
CgiInitFails(fresh) ==
  /\ failed < MaxFail /\ failed' = failed + 1
  /\ cgi' = Null /\ unread' = fresh
  /\ UNCHANGED <<inited, body, isJson, isXml, heap>>

\* CHECK_INIT: the first call of a request parses it.  In a CGI process without
\* accept(), init() is the one to take the request; it cannot do so twice.
CheckInit(op) ==
  /\ call = "none" /\ ~over
  /\ IF inited
       THEN UNCHANGED <<request, unread, inited, cgi, body, isJson, isXml, heap, failed>>
       ELSE \/ /\ mode = "cgi" => accepted
               /\ ParseRequest(req, type, sent, unread) \/ CgiInitFails(unread)
               /\ UNCHANGED request
            \/ /\ mode = "cgi" /\ ~accepted /\ req = 0
               /\ NextRequest
               /\ ParseRequest(req', type', sent', TRUE) \/ CgiInitFails(TRUE)
            \/ /\ mode = "cgi" /\ ~accepted /\ req > 0
               /\ failed < MaxFail /\ failed' = failed + 1
               /\ UNCHANGED <<request, unread, inited, cgi, body, isJson, isXml, heap>>
  /\ call' = IF inited' THEN op ELSE "none"
  /\ got' = {} /\ decoder' = "none"
  /\ UNCHANGED <<accepted, manual, over>>

Returns(op) == call = op /\ call' = "none"

\* getValue(), getHeader(), getRemoteAddr(), getFile()
GetValue ==
  /\ Returns("getValue")
  /\ got' = cgi
  /\ UNCHANGED <<request, unread, object, decoder, heap, failed, over>>

\* setValue(), setContentType(): the handler works on the current request.
SetValue ==
  /\ Returns("setValue")
  /\ cgi' = cgi \union {Data(req, TRUE)}
  /\ UNCHANGED <<request, unread, inited, accepted, manual, body, isJson, isXml,
                 result, heap, failed, over>>

GetHttpBody ==
  /\ Returns("getHttpBody")
  /\ got' = body
  /\ UNCHANGED <<request, unread, object, decoder, heap, failed, over>>

\* parse(obj): JSON, XML, or else the query; a body that is not JSON or XML is
\* an error.
Parse ==
  /\ Returns("parse")
  /\ \/ isJson /\ body # Null /\ decoder' = "json" /\ got' \in {{}, body}
     \/ ~isJson /\ isXml /\ body # Null /\ decoder' = "xml" /\ got' \in {{}, body}
     \/ (body = Null \/ (~isJson /\ ~isXml)) /\ decoder' = "query" /\ got' = cgi
  /\ UNCHANGED <<request, unread, object, heap, failed, over>>

\* render(), redirect302Url(), redirect302Uri(): what is output, or an error
Render ==
  /\ Returns("render")
  /\ got' \in {{}, cgi}
  /\ UNCHANGED <<request, unread, object, decoder, heap, failed, over>>

Done == over /\ UNCHANGED vars

Next ==
  \/ Accept \/ Exit \/ SetParseHttpBodyManually
  \/ \E op \in Op : CheckInit(op)
  \/ GetValue \/ SetValue \/ GetHttpBody \/ Parse \/ Render
  \/ Done

Spec == Init /\ [][Next]_vars

-----------------------------------------------------------------------------
(***************************************************************************)
(* Properties                                                              *)
(***************************************************************************)

Flags ==
  /\ unread \in BOOLEAN /\ inited \in BOOLEAN /\ accepted \in BOOLEAN /\ over \in BOOLEAN
  /\ manual \in BOOLEAN /\ isJson \in BOOLEAN /\ isXml \in BOOLEAN

\* Types; a parsed request has a CGI structure.
TypeOK ==
  /\ Flags
  /\ mode \in {"cgi", "fcgi"}
  /\ req \in 0 .. MaxReq
  /\ type \in {"form", "json", "xml"} /\ sent \in {"none", "whole", "short"}
  /\ cgi \in SUBSET Datum /\ body \in SUBSET Datum
  /\ call \in Op \union {"none"}
  /\ got \in SUBSET Datum
  /\ decoder \in {"none", "json", "xml", "query"}
  /\ heap \in Nat /\ failed \in 0 .. MaxFail
  /\ inited => cgi # Null
  /\ call # "none" => inited

\* What a handler reads or outputs is of the request it handles: nothing of an
\* earlier one is left in the singleton, whatever was called, failed or retried.
OwnRequest == \A d \in got : d.of = req

\* A handler never gets a truncated body, however often it asks again.
WholeBody == \A d \in got : d.whole

\* parse() decodes what the client has sent in the format it has named.
DecodedAsSent ==
  /\ decoder = "json" => type = "json"
  /\ decoder = "xml" => type = "xml"
  /\ decoder = "query" => type = "form" \/ sent = "none" \/ manual

\* ~CgX, "always cleanup": the CGI structure of every request is destroyed, but
\* for one at most for each init() that has failed.
NothingIsLost == heap <= failed + (IF inited THEN 1 ELSE 0)
=============================================================================
