--------------------------------- MODULE Codec ---------------------------------
(***************************************************************************)
(* The encodings and string helpers of src/neiku/utility.cpp, charset.cpp, *)
(* md5.cpp and cgx.cpp (json_escape).  A std::string is a sequence of      *)
(* bytes; indices here start at 1.                                         *)
(***************************************************************************)
EXTENDS Integers, FiniteSets, SequencesExt

Byte == 0 .. 255

Percent == 37
Plus == 43
Space == 32
Equals == 61
Minus == 45
Dot == 46
Underscore == 95
Quote == 34
Backslash == 92
Slash == 47

Digit == 48 .. 57
Upper == 65 .. 90
Lower == 97 .. 122

IsSpace(c) == c = Space \/ c \in 9 .. 13

-----------------------------------------------------------------------------
(***************************************************************************)
(* rawurlencode, urlencode and their inverses                              *)
(***************************************************************************)
Plain(c) == c \in Digit \union Upper \union Lower \union {Minus, Dot, Underscore}

HexDigit(n) == IF n < 10 THEN 48 + n ELSE 55 + n   \* code[n] of "0123456789ABCDEF"

\* code[c]: the value of a hexadecimal digit, 0 for any other byte
HexValue(c) ==
  IF c \in Digit THEN c - 48
  ELSE IF c \in 65 .. 70 THEN c - 55
  ELSE IF c \in 97 .. 102 THEN c - 87 ELSE 0

Escaped(c) == <<Percent, HexDigit(c \div 16), HexDigit(c % 16)>>

rawurlencode(s) ==
  FlattenSeq([i \in DOMAIN s |-> IF Plain(s[i]) THEN <<s[i]>> ELSE Escaped(s[i])])

urlencode(s) ==
  FlattenSeq([i \in DOMAIN s |-> IF Plain(s[i]) THEN <<s[i]>>
                                 ELSE IF s[i] = Space THEN <<Plus>> ELSE Escaped(s[i])])

\* The loop of both decoders; an escape needs two more bytes.
Decode(s, plus) ==
  LET from[i \in 1 .. Len(s) + 1] ==
        IF i > Len(s) THEN <<>>
        ELSE IF s[i] = Percent /\ i + 2 <= Len(s)
             THEN <<(16 * HexValue(s[i + 1]) + HexValue(s[i + 2])) % 256>> \o from[i + 3]
             ELSE <<IF s[i] = Plus THEN plus ELSE s[i]>> \o from[i + 1]
  IN from[1]

rawurldecode(s) == Decode(s, Plus)
urldecode(s)    == Decode(s, Space)

-----------------------------------------------------------------------------
(***************************************************************************)
(* base64encode, base64decode                                              *)
(***************************************************************************)
Code64(n) ==
  IF n < 26 THEN 65 + n ELSE IF n < 52 THEN 71 + n
  ELSE IF n < 62 THEN n - 4 ELSE IF n = 62 THEN Plus ELSE Slash

\* code[c]: 0 for a byte that is not in the alphabet
Value64(c) ==
  IF c \in Upper THEN c - 65 ELSE IF c \in Lower THEN c - 71
  ELSE IF c \in Digit THEN c + 4
  ELSE IF c = Plus THEN 62 ELSE IF c = Slash THEN 63 ELSE 0

\* Byte i of s; the terminating zero behind its end.
At(s, i) == IF i <= Len(s) THEN s[i] ELSE 0

\* Three bytes from i on; '=' in place of what the input does not have.
Group64(s, i) ==
  LET a == At(s, i) b == At(s, i + 1) c == At(s, i + 2)
  IN <<Code64(a \div 4), Code64(16 * (a % 4) + b \div 16),
       IF i + 1 <= Len(s) THEN Code64(4 * (b % 16) + c \div 64) ELSE Equals,
       IF i + 2 <= Len(s) THEN Code64(c % 64) ELSE Equals>>

base64encode(s) ==
  FlattenSeq([k \in 1 .. (Len(s) + 2) \div 3 |-> Group64(s, 3 * k - 2)])

\* The three bytes of the four characters from i on.
Bytes64(s, i) ==
  LET v(k) == Value64(s[i + k])
  IN <<4 * v(0) + v(1) \div 16, (16 * v(1) + v(2) \div 4) % 256, (64 * v(2) + v(3)) % 256>>

\* The last group is taken by itself and drops what '=' stands for.  The code
\* reads outside of an empty string (length - 4 wraps), so the caller must not
\* give one.
base64decode(s) ==
  IF Len(s) % 4 # 0 THEN <<>>
  ELSE LET last == Len(s) - 3
           whole == FlattenSeq([k \in 1 .. Len(s) \div 4 - 1 |-> Bytes64(s, 4 * k - 3)])
           b == Bytes64(s, last)
       IN whole \o <<b[1]>>
            \o (IF s[last + 2] # Equals THEN <<b[2]>> ELSE <<>>)
            \o (IF s[last + 3] # Equals THEN <<b[3]>> ELSE <<>>)

-----------------------------------------------------------------------------
(***************************************************************************)
(* explode, implode, bit2str, str2bit                                      *)
(***************************************************************************)
NextSep(s, sep, from) ==   \* find_first_of; Len(s) + 1 for npos
  LET found == {i \in from .. Len(s) : s[i] = sep}
  IN IF found = {} THEN Len(s) + 1 ELSE CHOOSE i \in found : \A j \in found : i <= j

\* A slip: the loop ends at the end of the string and forgets the last section.
explodeShort(s, sep, drop) ==
  LET from[beg \in 1 .. Len(s) + 2] ==
        IF beg > Len(s) THEN <<>>
        ELSE LET end == NextSep(s, sep, beg) sec == SubSeq(s, beg, end - 1)
             IN (IF sec = <<>> /\ drop THEN <<>> ELSE <<sec>>) \o from[end + 1]
  IN from[1]

explode(s, sep, drop) ==
  LET from[beg \in 1 .. Len(s) + 2] ==
        IF beg = Len(s) + 2 THEN <<>>
        ELSE LET end == NextSep(s, sep, beg) sec == SubSeq(s, beg, end - 1)
             IN (IF sec = <<>> /\ drop THEN <<>> ELSE <<sec>>) \o from[end + 1]
  IN from[1]

\* Every element is followed by sep, and the last byte is cut off.
implode(list, sep) ==
  LET s == FlattenSeq([i \in DOMAIN list |-> list[i] \o <<sep>>])
  IN IF s = <<>> THEN s ELSE Front(s)

\* Decimal text of n, and what strtoul with base 0 makes of a text: a leading
\* 0 means octal, 0x hexadecimal (which no text here has).
Decimal(n) ==
  LET digits[k \in 0 .. n] == IF k < 10 THEN <<48 + k>> ELSE digits[k \div 10] \o <<48 + (k % 10)>>
  IN digits[n]

Strtoul(s) ==
  LET base == IF s # <<>> /\ s[1] = 48 THEN 8 ELSE 10
      value[i \in 0 .. Len(s)] ==
        IF i = 0 THEN <<0, TRUE>>
        ELSE LET v == value[i - 1]
             IN IF v[2] /\ s[i] \in 48 .. 47 + base THEN <<base * v[1] + s[i] - 48, TRUE>>
                ELSE <<v[1], FALSE>>
  IN value[Len(s)][1]

\* A set of bit numbers 1 .. width stands for the word.
bit2str(bits, width, sep) ==
  implode(FlattenSeq([i \in 1 .. width |-> IF i \in bits THEN <<Decimal(i)>> ELSE <<>>]), sep)

str2bit(s, sep) ==
  {Strtoul(sec) : sec \in ToSet(explode(s, sep, TRUE))} \intersect 1 .. 64

-----------------------------------------------------------------------------
(***************************************************************************)
(* trim, toupper, tolower, charlen                                         *)
(***************************************************************************)
trimleft(s) ==
  LET found == {i \in DOMAIN s : ~IsSpace(s[i])}
  IN IF found = {} THEN <<>> ELSE SubSeq(s, Min(found), Len(s))

trimright(s) ==
  LET found == {i \in DOMAIN s : ~IsSpace(s[i])}
  IN IF found = {} THEN <<>> ELSE SubSeq(s, 1, Max(found))

trim(s) == trimright(trimleft(s))

toupper(s) == [i \in DOMAIN s |-> IF s[i] \in Lower THEN s[i] - 32 ELSE s[i]]
tolower(s) == [i \in DOMAIN s |-> IF s[i] \in Upper THEN s[i] + 32 ELSE s[i]]

\* Width of a character by its first byte.  A byte inside a character counts
\* as a character of its own.
Width(c) ==
  IF c >= 252 THEN 6 ELSE IF c >= 248 THEN 5 ELSE IF c >= 240 THEN 4
  ELSE IF c >= 224 THEN 3 ELSE IF c >= 192 THEN 2 ELSE 1

charlen(s) ==
  LET from[pos \in 1 .. Len(s) + 6] ==
        IF pos > Len(s) THEN 0 ELSE 1 + from[pos + Width(s[pos])]
  IN from[1]

\* json_escape of cgx.cpp: control characters without a short form stay.
Short == (Quote :> Quote) @@ (Backslash :> Backslash) @@ (Slash :> Slash)
         @@ (8 :> 98) @@ (12 :> 102) @@ (10 :> 110) @@ (13 :> 114) @@ (9 :> 116)

json_escape(s) ==
  FlattenSeq([i \in DOMAIN s |-> IF s[i] \in DOMAIN Short THEN <<Backslash, Short[s[i]]>>
                                                         ELSE <<s[i]>>])

-----------------------------------------------------------------------------
(***************************************************************************)
(* convert_charset: iconv in chunks of what fits into the buffer.  A unit  *)
(* of text is "c", a character; "nul", the byte 0; "sub", one that iconv   *)
(* replaces or leaves out and counts; "cut", one it cannot convert.  errno *)
(* keeps the value of earlier calls: stale tells that this is E2BIG.       *)
(***************************************************************************)
\* append(buffer): up to the first zero byte
CString(units) ==
  LET nuls == {i \in DOMAIN units : units[i] = "nul"}
  IN IF nuls = {} THEN units ELSE SubSeq(units, 1, Min(nuls) - 1)

convert_charset(text, room, stale) ==
  LET chunk(i) == SubSeq(text, i, Min({i + room - 1, Len(text)}))
      Result(to, ret) == [to |-> to, ret |-> ret]
      from[i \in 1 .. Len(text) + room + 1] ==     \* the loop from unit i on
        IF i > Len(text) THEN Result(<<>>, 0)
        ELSE IF "cut" \in ToSet(chunk(i)) THEN Result(<<>>, -1)   \* EILSEQ
        ELSE LET rest == from[i + room]
             IN \* all is read, iconv returned a count and errno is not E2BIG
                IF i + room > Len(text) /\ "sub" \in ToSet(chunk(i)) /\ ~stale /\ i = 1
                THEN Result(<<>>, 0)
                ELSE Result(CString(chunk(i)) \o rest.to, rest.ret)
  IN from[1]

\* charset_is: a text is in a charset when its conversion to itself is the same.
charset_is(text, room) ==
  LET c == convert_charset(text, room, FALSE) IN c.ret = 0 /\ c.to = CString(text)

-----------------------------------------------------------------------------
(***************************************************************************)
(* Md5Sum: which blocks of 64 bytes the rounds absorb for a message of len *)
(* bytes.  Message bytes are named by their position; "80" is the byte     *)
(* 0x80, "len" stands for the 8 bytes of the length.                       *)
(***************************************************************************)
Zeros(n) == [i \in 1 .. n |-> "00"]
Fill(block) == block \o Zeros(64 - Len(block))     \* memset, then memcpy

\* md5(): the four words take the block in; the digest is the list of blocks.
Absorb(digest, block) == Append(digest, block)

Md5Sum(len) ==
  LET piece(k) == [i \in 1 .. Min({64, len - 64 * k}) |-> 64 * k + i]
      full == [k \in 1 .. len \div 64 |-> Fill(piece(k - 1))]
      tail == Fill(Append(piece(len \div 64), "80"))
  IN IF len % 64 > 55 THEN Absorb(Absorb(full, tail), Zeros(56) \o <<"len">>)
                      ELSE Absorb(full, SubSeq(tail, 1, 56) \o <<"len">>)

-----------------------------------------------------------------------------
(***************************************************************************)
(* tee, cat and filesize: a file is {} or the set of its content.  free is *)
(* the room of the disk, buffer that of the stream.                        *)
(***************************************************************************)
\* The stream holds less than its buffer back until close, whose result is
\* not looked at.
tee(data, free, buffer) ==
  LET written == SubSeq(data, 1, Min({Len(data), free}))
  IN [file |-> {written},
      ret |-> IF Len(data) >= buffer /\ free < Len(data) THEN -1 ELSE 0]

\* An absent file and an empty one give "".
cat(file) == IF file = {} THEN <<>> ELSE CHOOSE content \in file : TRUE

filesize(file) == IF file = {} THEN -1 ELSE Len(cat(file))

-----------------------------------------------------------------------------
(***************************************************************************)
(* Properties, of a text s                                                 *)
(***************************************************************************)

\* cat reads the begin of what tee was given, and all of it where the disk has
\* the room.  Where it has not, the end is lost, and tee has an error for it
\* only if the text did not fit into the buffer of the stream: of a shorter
\* one it says 0, written, whatever became of it.
FileIsWritten(data, free, buffer) ==
  LET t == tee(data, free, buffer)
      got == cat(t.file)
  IN /\ got = SubSeq(data, 1, Len(got)) /\ filesize(t.file) = Len(got)
     /\ IF free >= Len(data) THEN t.ret = 0 /\ got = data
        ELSE Len(got) < Len(data) /\ (t.ret = -1 <=> Len(data) >= buffer)

\* Every encoding has an inverse: what urlencode, rawurlencode and
\* base64encode make of any bytes is decoded to the same bytes, and the
\* encoded text has no byte that a URL or base64 does not allow.
UrlRoundTrip(s) ==
  /\ urldecode(urlencode(s)) = s
  /\ rawurldecode(rawurlencode(s)) = s
  /\ \A c \in ToSet(urlencode(s)) : Plain(c) \/ c \in {Percent, Plus}

Base64RoundTrip(s) ==
  LET e == base64encode(s)
  IN /\ Len(e) % 4 = 0 /\ Equals \notin ToSet(SubSeq(e, 1, Len(e) - 2))
     /\ s # <<>> => base64decode(e) = s

NonEmpty(list) == FlattenSeq([i \in DOMAIN list |-> IF list[i] = <<>> THEN <<>> ELSE <<list[i]>>])

\* explode keeps every section, the empty one at the end too: implode puts
\* the text together again; without empty sections nothing else is lost.
Sections(s, sep) ==
  LET all == explode(s, sep, FALSE)
  IN /\ implode(all, sep) = s
     /\ explode(s, sep, TRUE) = NonEmpty(all)
     /\ Len(all) = 1 + Cardinality({i \in DOMAIN s : s[i] = sep})

\* trim takes the blanks at both ends and nothing else.
Trimmed(s) ==
  LET t == trim(s)
  IN /\ t # <<>> => ~IsSpace(Head(t)) /\ ~IsSpace(Last(t))
     /\ \E l \in 0 .. Len(s) : \E r \in 0 .. Len(s) - l :
          /\ SubSeq(s, l + 1, l + Len(t)) = t /\ Len(s) = l + Len(t) + r
          /\ \A i \in 1 .. l : IsSpace(s[i])
          /\ \A i \in Len(s) - r + 1 .. Len(s) : IsSpace(s[i])

\* Bits survive the way through their text, both widths: no bit number is
\* read as octal.
BitsRoundTrip(bits) ==
  /\ str2bit(bit2str(bits, 64, 124), 124) = bits
  /\ str2bit(bit2str(bits, 32, 124), 124) = bits \intersect 1 .. 32

\* The conversion of a text without zero bytes and replacements is all of it
\* or -1, in however many chunks and whatever errno was before.
ConvertsAll(text, room) ==
  \A stale \in BOOLEAN :
    LET c == convert_charset(text, room, stale)
    IN {"nul", "sub"} \intersect ToSet(text) = {} =>
         /\ (c.ret = 0) = ("cut" \notin ToSet(text))
         /\ c.ret = 0 => c.to = text

\* The rounds absorb the message padded as RFC 1321 says: 0x80, zeros up to
\* 56 modulo 64, the length.
Padded(len) ==
  LET zeros == (119 - (len % 64)) % 64
      bytes == [i \in 1 .. len |-> i] \o <<"80">> \o Zeros(zeros)
      n     == (Len(bytes) + 8) \div 64
  IN Md5Sum(len) = [k \in 1 .. n |-> IF k < n THEN SubSeq(bytes, 64 * k - 63, 64 * k)
                                     ELSE SubSeq(bytes, 64 * k - 63, 64 * k - 8) \o <<"len">>]
=============================================================================
