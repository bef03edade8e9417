------------------------------ MODULE RollingLog ------------------------------
(***************************************************************************)
(* What the rotation of CLog promises to the reader of the log files: an   *)
(* ever growing log of which a contiguous newest part is kept, and of that *)
(* part at least Floor lines once so many were written.                    *)
(***************************************************************************)
EXTENDS Integers, FiniteSets

CONSTANT Floor   \* lines that are never discarded

VARIABLES
  kept,   \* lines (numbers in writing order) that can still be read
  total   \* number of lines written so far

Init == kept = {} /\ total = 0

Append == total' = total + 1 /\ kept' = kept \union {total + 1}

\* Some oldest lines go, at least Floor newest ones stay.
Discard ==
  /\ \E l \in kept : kept' = {k \in kept : k > l}
  /\ Cardinality(kept') >= Floor
  /\ UNCHANGED total

Next == Append \/ Discard

Spec == Init /\ [][Next]_<<kept, total>>

\* What can be read is the end of the log, without a gap.
NoGaps ==
  /\ total \in Nat /\ kept \subseteq 1 .. total
  /\ \A l \in kept : l .. total \subseteq kept
=============================================================================
