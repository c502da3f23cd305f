----------------------------- MODULE MCTargetScan -----------------------------
(***************************************************************************)
(* Model checking of TargetScan.  Four contours are two more than are kept *)
(* of an orientation, and Byte is 4, so that four overflow it as 256 would *)
(* overflow a uint8_t.                                                     *)
(***************************************************************************)
EXTENDS TargetScan

C(area, width, height, x) == [area |-> area, width |-> width, height |-> height, x |-> x]

\* Targets of both orientations, of two areas and at five places; one that is
\* too small by one; and one at each limit of the aspect ratio: 2, 0.6 and 0.1,
\* of which only the last one is inside.
MCContours ==
  {C(a, 60, 20, x) : a \in {200, 400}, x \in {0, 50, 75, 120}}
    \cup {C(a, 20, 60, x) : a \in {200, 400}, x \in {50, 100}}
    \cup {C(199, 60, 20, 50), C(300, 40, 20, 50), C(300, 30, 50, 50), C(300, 10, 100, 50)}

=============================================================================
