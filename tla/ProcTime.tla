-------------------------------- MODULE ProcTime --------------------------------
(***************************************************************************)
(* CString (include/neiku/string.h), the reader of /proc/net/dev made of   *)
(* it (proc.h), and the conversions of time.cpp.  Texts are sequences of   *)
(* bytes, as in Codec.                                                     *)
(***************************************************************************)
EXTENDS Codec

Blank == 32
Colon == 58

\* Explode appends the sections to what v has.
Explode(v, s, sep, drop) == v \o explode(s, sep, drop)
Implode(v, sep) == implode(v, sep)
Trim(s) == trim(s)

\* Sections as numbers, strtoull with base 0
Numbers(v, s, sep) == v \o [i \in DOMAIN explode(s, sep, TRUE) |-> Strtoul(explode(s, sep, TRUE)[i])]

(***************************************************************************)
(* CDev::interface.  Lines without the name are passed over; when no line  *)
(* has it, all counters are zero.                                          *)
(***************************************************************************)
Counters == 1 .. 16
NoInterface == [c \in Counters |-> 0]

interface(file, name) ==
  LET Parts(line) == Explode(<<>>, line, Colon, TRUE)
      at == {i \in DOMAIN file : Trim(Parts(file[i])[1]) = name}
  IN IF at = {} THEN NoInterface
     ELSE LET data == Numbers(<<>>, Trim(Parts(file[Min(at)])[2]), Blank)
          IN [c \in Counters |-> data[c]]

(***************************************************************************)
(* Times.  A broken-down time has fields, and whether summer time is on;   *)
(* a format names the fields it prints.  A zone gives the fields of a      *)
(* second, and back.                                                       *)
(***************************************************************************)
Field == {"day", "hour"}

\* Seconds in units of an hour; from hour 24 on it is summer.
localtime(zone, sec) ==
  LET shown == sec + (IF zone = "summer" /\ sec >= 24 THEN 1 ELSE 0)
  IN [day |-> shown \div 24, hour |-> shown % 24, isdst |-> zone = "summer" /\ sec >= 24]

timestr(zone, sec, fmt) == [f \in fmt |-> localtime(zone, sec)[f]]

\* strptime writes the fields of the format, into a struct tm that nobody has
\* initialised; mktime takes an hour off when isdst says summer, and the zone
\* has one.
timestamp(zone, str) ==
  {24 * (IF "day" \in DOMAIN str THEN str["day"] ELSE junk.day)
     + (IF "hour" \in DOMAIN str THEN str["hour"] ELSE junk.hour)
     - (IF zone = "summer" /\ junk.isdst THEN 1 ELSE 0) :
   junk \in [day : 0 .. 1, hour : {0, 12}, isdst : BOOLEAN]}

-----------------------------------------------------------------------------
(***************************************************************************)
(* Properties                                                              *)
(***************************************************************************)

\* A line of /proc/net/dev as the kernel prints it: the name, indented, a
\* colon, and the counters with at least one blank before each.
Line(d, indent, pad) ==
  [i \in 1 .. indent |-> Blank] \o d.name \o <<Colon>>
    \o FlattenSeq([c \in Counters |-> [i \in 1 .. pad |-> Blank] \o Decimal(d.count[c])])

\* Every device gets its own counters, whatever stands before it in the file
\* and however wide its columns are, and one that is not there gets zeros.
InterfaceIsRead(devices, indent, pad, name) ==
  LET head == <<<<73, 124, 32, 82>>>>     \* a headline: blanks and no colon
      file == head \o [i \in DOMAIN devices |-> Line(devices[i], indent, pad)]
      mine == {i \in DOMAIN devices : devices[i].name = name}
  IN interface(file, name) = IF mine = {} THEN NoInterface ELSE devices[Min(mine)].count

\* Numbers survive Implode and Explode, and are added to what was there.
ListsAreKept(list, there) ==
  LET s == Implode([i \in DOMAIN list |-> Decimal(list[i])], 124)
  IN Numbers(there, s, 124) = there \o list

\* A time that is printed in full is read as the same second, whatever the
\* uninitialised fields hold, where the zone has no summer time.
TimesAreKept(zone, sec) ==
  zone = "fixed" => timestamp(zone, timestr(zone, sec, Field)) = {sec}
=============================================================================
