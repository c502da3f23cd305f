------------------------------- MODULE Tally -------------------------------
(***************************************************************************)
(* What the counters of the CheesyVision server promise the robot program: *)
(* each byte that arrives while they count adds one to total and at most   *)
(* one to each side, all three at once, and a reset sets all three to zero. *)
(* The promise lapses when a reset overlaps the counting of a byte; it      *)
(* holds again, from zero, after a reset that overlaps none.                *)
(***************************************************************************)
EXTENDS Integers

VARIABLES
  counts,     \* the counters
  counting,   \* whether bytes are to be counted
  promised    \* no reset has overlapped a byte since the last good one

vars == <<counts, promised>>

Sides == {"left", "right"}
Counters == Sides \cup {"total"}
Zero == [c \in Counters |-> 0]

Init == counts = Zero /\ promised = TRUE

Count ==
  /\ counting
  /\ \E flags \in SUBSET Sides :
       counts' = [c \in Counters |-> counts[c] + IF c \in flags \cup {"total"} THEN 1 ELSE 0]

Reset == counts' = Zero

Next == promised' => IF promised THEN Count \/ Reset ELSE Reset

Spec == Init /\ [][Next]_vars

=============================================================================
