-------------------------------- MODULE CgxPage --------------------------------
(***************************************************************************)
(* What CgX does with a page and with the headers of a request             *)
(* (src/neiku/cgx.cpp): the include directives of a page, the address of   *)
(* the client, a header by name.                                           *)
(***************************************************************************)
EXTENDS Integers, FiniteSets, SequencesExt

(***************************************************************************)
(* HandleSSI.  A page is a sequence of tokens: "inc" is <!--#include and   *)
(* the blank behind it, "q" a quote, "end" -->, "cs" and CsColon           *)
(* <?cs linclude:, "csend" the new end, Blanked and any other text one     *)
(* token each.  strstr finds the first token from a place on.              *)
(***************************************************************************)
Blanked == "blank"
CsColon == "colon"

strstr(page, from, token) ==
  LET at == {i \in from .. Len(page) : page[i] = token}
  IN IF at = {} THEN 0 ELSE Min(at)

\* A directive from start to its quote and its end is rewritten; what stands
\* before the quote is blanked.  <?cs linclude: is one byte longer than the
\* directive and its blank: the colon falls on the first byte behind them,
\* also when this is the quote.
Rewritten(page, start, quote, end) ==
  [i \in DOMAIN page |->
     IF i = end THEN "csend" ELSE IF i = start THEN "cs" ELSE IF i = start + 1 THEN CsColon
     ELSE IF i \in start + 2 .. quote - 1 THEN Blanked ELSE page[i]]

\* A slip: the end is looked for from the start of the page.
TurnFirstEnd(page) ==
  LET start == strstr(page, 1, "inc")
      end == strstr(page, 1, "end") quote == strstr(page, start + 1, "q")
  IN IF start = 0 \/ end = 0 \/ quote = 0 THEN page ELSE Rewritten(page, start, quote, end)

\* The loop starts at the beginning of the page each time; a directive without
\* quote or end is found again for ever.
Turn(page) ==
  LET start == strstr(page, 1, "inc")
      end == strstr(page, start + 1, "end") quote == strstr(page, start + 1, "q")
  IN IF start = 0 \/ end = 0 \/ quote = 0 THEN page ELSE Rewritten(page, start, quote, end)

HandleSSI(page) ==
  LET after[k \in 0 .. Len(page)] == IF k = 0 THEN page ELSE Turn(after[k - 1])
      done == after[Len(page)]
  IN [page |-> done, returns |-> strstr(done, 1, "inc") = 0]

(***************************************************************************)
(* Headers: a set of names with values, Empty where one is empty.  hdf     *)
(* holds the headers ClearSilver knows, env all of them as HTTP_...        *)
(***************************************************************************)
Empty == "empty"

\* The value of X-Forwarded-For is the list of its sections, empty ones too.
getRemoteAddr(real, forwarded, remote) ==
  LET sections == FlattenSeq([i \in DOMAIN forwarded |-> IF forwarded[i] = Empty THEN <<>> ELSE <<forwarded[i]>>])
  IN IF real # Empty THEN real
     ELSE IF sections # <<>> THEN Head(sections) ELSE remote

\* Names are sequences of letters; the name in the environment has "_" for
\* each "." and "-" of HTTP.<name>, which snprintf cuts off at 63 characters,
\* and capitals.
Capital == [a |-> "A", b |-> "B"]
EnvName(name) ==
  [i \in DOMAIN name |-> IF name[i] \in {".", "-"} THEN "_"
                         ELSE IF name[i] \in DOMAIN Capital THEN Capital[name[i]] ELSE name[i]]

getHeader(hdf, env, name, default) ==
  LET key == SubSeq(name, 1, Min({58, Len(name)}))     \* 63 without "HTTP."
  IN IF key \in DOMAIN hdf THEN hdf[key]
     ELSE IF EnvName(key) \in DOMAIN env THEN env[EnvName(key)] ELSE default

-----------------------------------------------------------------------------
(***************************************************************************)
(* Properties                                                              *)
(***************************************************************************)

\* A page whose directives each have a quote and an end before the next one
\* is done in as many rounds.  Every directive became an include of its own,
\* up to its quote; the names in it and the text between the directives are
\* untouched.  A quote is kept where something stands before it, as virtual=;
\* one right behind the blank of the directive is lost to the colon.
IncludesRewritten(page) ==
  LET incs == {i \in DOMAIN page : page[i] = "inc"}
      Next(i, token) == strstr(page, i + 1, token)
      WellFormed == \A i \in incs :
        /\ Next(i, "q") # 0 /\ Next(i, "q") < Next(i, "end")
        /\ \A j \in incs : j > i => Next(i, "end") < j
      written(k) == \E i \in incs : k \in i .. Next(i, "q") \/ k = Next(i, "end")
      done == HandleSSI(page)
  IN WellFormed =>
       /\ done.returns
       /\ \A k \in DOMAIN page : written(k) \/ done.page[k] = page[k]
       /\ \A i \in incs :
            /\ done.page[i] = "cs" /\ done.page[i + 1] = CsColon /\ done.page[Next(i, "end")] = "csend"
            /\ Next(i, "q") > i + 1 => done.page[Next(i, "q")] = "q"

\* The address is the one nearest to the client that anybody named: the
\* header of the access layer, then the first entry of the list of proxies
\* that is not empty, then the peer.
NearestAddress(real, forwarded, remote) ==
  LET names == <<real>> \o forwarded \o <<remote>>
      given == {i \in DOMAIN names : names[i] # Empty}
  IN getRemoteAddr(real, forwarded, remote) = IF given = {} THEN Empty ELSE names[Min(given)]

\* A header that the client sent is found, under the name it was sent with,
\* whether ClearSilver knows it or only the environment.
HeaderFound(name, known, value) ==
  LET hdf == IF known THEN [n \in {name} |-> value] ELSE <<>>
      env == [n \in {EnvName(name)} |-> value]
  IN Len(name) <= 58 => getHeader(hdf, env, name, "default") = value
=============================================================================
