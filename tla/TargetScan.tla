----------------------------- MODULE TargetScan -----------------------------
(***************************************************************************)
(* How process_frame (Vision/picam/GetImages.cpp) decides which goal is     *)
(* hot: it scans the contours found in the image, drops the small ones,     *)
(* keeps the two biggest of each orientation, compares where they lie, and  *)
(* leaves counts and flags in data, whose fields are uint8_t.  The text is  *)
(* that of process in the first program (Vision/VisionServer.cpp), which    *)
(* returns the number of contours instead; RunServer sends it as an int8_t. *)
(*                                                                         *)
(* A contour is its area and its bounding rectangle, of which the code uses *)
(* the width, the height and the left edge x. An area is a double that is   *)
(* only compared; whole numbers compare alike.                              *)
(***************************************************************************)
EXTENDS Integers, Sequences, FiniteSets

CONSTANTS
  Contours,     \* the contours an image may have
  MaxContours,  \* bound: how many of them
  THRESH,       \* the smallest area that counts
  Byte          \* the number of values of a uint8_t

Contour == [area : Nat, width : Nat \ {0}, height : Nat \ {0}, x : Nat]

ASSUME ContoursAssumption == Contours \subseteq Contour
ASSUME BoundsAssumption == MaxContours \in Nat /\ THRESH \in Nat /\ Byte \in Nat \ {0, 1, 2}

VARIABLES
  contours,      \* what findContours has found, in its order
  pc,            \* "scan", "hot", "publish", "done" or "returned"
  i,             \* the contour that is looked at next
  contour_cnt,   \* how many were big enough
  HRects,        \* the horizontal ones that are kept, by their numbers
  VRects,        \* the vertical ones
  lhot, rhot,    \* the verdict
  data,          \* the record of uint8_t fields that SendThread sends
  result         \* the int8_t that RunServer sends

vars == <<contours, pc, i, contour_cnt, HRects, VRects, lhot, rhot, data, result>>

N == Len(contours)
Area(k) == contours[k].area
X(k) == contours[k].x

Counts(k) == Area(k) >= THRESH

\* ar > 2 && ar < 10, where ar is the quotient as a float
Horizontal(k) ==
  /\ contours[k].width > 2 * contours[k].height
  /\ contours[k].width < 10 * contours[k].height

\* ar > 0.1 && ar < 0.6: the float nearest to 0.1 and the one nearest to 0.6 are
\* both greater than the doubles they are compared with.
Vertical(k) ==
  /\ 10 * contours[k].width >= contours[k].height
  /\ 5 * contours[k].width < 3 * contours[k].height

Init ==
  /\ \E n \in 0..MaxContours : contours \in [1..n -> Contours]
  /\ pc = "scan"
  /\ i = 1
  /\ contour_cnt = 0
  /\ HRects = <<>> /\ VRects = <<>>
  /\ lhot = FALSE /\ rhot = FALSE
  /\ data = [total |-> 0, horiz |-> 0, vert |-> 0, lhot |-> FALSE, rhot |-> FALSE]
  /\ result = 0

-----------------------------------------------------------------------------

\* Mutant: the bigger of the two is replaced.
Bug_Keep(Rects, k) ==
  IF Len(Rects) > 1
  THEN LET small == IF Area(Rects[1]) > Area(Rects[2]) THEN 1 ELSE 2
       IN  IF Area(Rects[small]) < Area(k) THEN [Rects EXCEPT ![small] = k] ELSE Rects
  ELSE Append(Rects, k)

\* Only the two biggest are recorded; a third replaces the smaller if it is
\* bigger than that one.
Keep(Rects, k) ==
  IF Len(Rects) > 1
  THEN LET small == IF Area(Rects[1]) > Area(Rects[2]) THEN 2 ELSE 1
       IN  IF Area(Rects[small]) < Area(k) THEN [Rects EXCEPT ![small] = k] ELSE Rects
  ELSE Append(Rects, k)

Scan ==
  /\ pc = "scan"
  /\ i <= N
  /\ i' = i + 1
  /\ contour_cnt' = IF Counts(i) THEN contour_cnt + 1 ELSE contour_cnt
  /\ HRects' = IF Counts(i) /\ Horizontal(i) THEN Keep(HRects, i) ELSE HRects
  /\ VRects' = IF Counts(i) /\ ~Horizontal(i) /\ Vertical(i) THEN Keep(VRects, i) ELSE VRects
  /\ UNCHANGED <<contours, pc, lhot, rhot, data, result>>

ScanEnds ==
  /\ pc = "scan"
  /\ i > N
  /\ pc' = "hot"
  /\ UNCHANGED <<contours, i, contour_cnt, HRects, VRects, lhot, rhot, data, result>>

\* The positions of the leftmost and the rightmost of one or two.
XMin(Rects) == LET x == X(Rects[1]) IN
  IF Len(Rects) > 1 /\ X(Rects[2]) < x THEN X(Rects[2]) ELSE x
XMax(Rects) == LET x == X(Rects[1]) IN
  IF Len(Rects) > 1 /\ X(Rects[2]) > x THEN X(Rects[2]) ELSE x

Distance(k, m) == IF X(k) > X(m) THEN X(k) - X(m) ELSE X(m) - X(k)

\* Mutant: with one vertical target the leftmost horizontal one is taken.
Bug_NearestX ==
  IF Len(HRects) > 1 /\ X(HRects[2]) < X(HRects[1])
  THEN X(HRects[2]) ELSE X(HRects[1])

\* The horizontal target that is closest to the only vertical one.
NearestX ==
  IF Len(HRects) > 1 /\ Distance(HRects[2], VRects[1]) < Distance(HRects[1], VRects[1])
  THEN X(HRects[2]) ELSE X(HRects[1])

\* Mutant: each side is compared with the vertical target of the other one.
Bug_Decide ==
  /\ pc = "hot"
  /\ pc' = "publish"
  /\ \/ /\ Len(VRects) > 1 /\ Len(HRects) > 0
        /\ lhot' = (XMin(HRects) < XMax(VRects))
        /\ rhot' = (XMax(HRects) > XMin(VRects))
     \/ /\ Len(VRects) < 2 \/ Len(HRects) = 0
        /\ UNCHANGED <<lhot, rhot>>
  /\ UNCHANGED <<contours, i, contour_cnt, HRects, VRects, data, result>>

\* Which side of the goal is hot
Decide ==
  /\ pc = "hot"
  /\ pc' = "publish"
  /\ \/ /\ Len(VRects) > 1 /\ Len(HRects) > 0
        /\ lhot' = (XMin(HRects) < XMin(VRects))
        /\ rhot' = (XMax(HRects) > XMax(VRects))
     \/ /\ Len(VRects) = 1 /\ Len(HRects) > 0
        /\ lhot' = (NearestX < X(VRects[1]))
        /\ rhot' = (NearestX > X(VRects[1]))
     \/ /\ Len(VRects) = 0 \/ Len(HRects) = 0
        /\ UNCHANGED <<lhot, rhot>>
  /\ UNCHANGED <<contours, i, contour_cnt, HRects, VRects, data, result>>

\* Mutant: the contours are counted, the ones too small included.
Bug_PublishAll ==
  /\ pc = "publish"
  /\ pc' = "done"
  /\ data' = [total |-> N % Byte, horiz |-> Len(HRects), vert |-> Len(VRects),
              lhot |-> lhot, rhot |-> rhot]
  /\ UNCHANGED <<contours, i, contour_cnt, HRects, VRects, lhot, rhot, result>>

\* Mutant: a field of data is as wide as the counter.
Bug_PublishWide ==
  /\ pc = "publish"
  /\ pc' = "done"
  /\ data' = [total |-> contour_cnt, horiz |-> Len(HRects), vert |-> Len(VRects),
              lhot |-> lhot, rhot |-> rhot]
  /\ UNCHANGED <<contours, i, contour_cnt, HRects, VRects, lhot, rhot, result>>

\* The assignments to data convert to uint8_t; two rectangles and a flag fit.
Publish ==
  /\ pc = "publish"
  /\ pc' = "done"
  /\ data' = [total |-> contour_cnt % Byte, horiz |-> Len(HRects), vert |-> Len(VRects),
              lhot |-> lhot, rhot |-> rhot]
  /\ UNCHANGED <<contours, i, contour_cnt, HRects, VRects, lhot, rhot, result>>

\* An int keeps its low bits in an int8_t, and the highest of them is the sign.
Signed(n) == LET low == n % Byte IN IF 2 * low < Byte THEN low ELSE low - Byte

\* process returns to RunServer.
Return ==
  /\ pc = "publish"
  /\ pc' = "returned"
  /\ result' = Signed(contour_cnt)
  /\ UNCHANGED <<contours, i, contour_cnt, HRects, VRects, lhot, rhot, data>>

Next == Scan \/ ScanEnds \/ Decide \/ Publish \/ Return

Spec == Init /\ [][Next]_vars

-----------------------------------------------------------------------------
(* Properties. *)

TypeOK ==
  /\ contours \in Seq(Contours)
  /\ pc \in {"scan", "hot", "publish", "done", "returned"}
  /\ i \in 1..N + 1
  /\ contour_cnt \in 0..i - 1
  /\ HRects \in Seq(1..i - 1) /\ Len(HRects) <= 2
  /\ VRects \in Seq(1..i - 1) /\ Len(VRects) <= 2
  /\ lhot \in BOOLEAN /\ rhot \in BOOLEAN
  /\ data \in [total : 0..Byte - 1, horiz : 0..2, vert : 0..2, lhot : BOOLEAN, rhot : BOOLEAN]
  /\ result \in -Byte..Byte - 1

Kept(Rects) == {Rects[j] : j \in DOMAIN Rects}

\* Rects are the two biggest of S: all of S if these are less than two, or else
\* two that nothing else in S exceeds.
TwoBiggestOf(Rects, S) ==
  /\ Kept(Rects) \subseteq S
  /\ Len(Rects) < 2 => Kept(Rects) = S
  /\ Len(Rects) = 2 => Rects[1] # Rects[2]
  /\ \A k \in S \ Kept(Rects), m \in Kept(Rects) : Area(k) <= Area(m)

\* The scan does what its comment says: at any time the rectangles it has kept
\* are the two biggest in each orientation among the contours seen, in
\* whatever order these came.
TwoBiggest ==
  /\ TwoBiggestOf(HRects, {k \in 1..i - 1 : Counts(k) /\ Horizontal(k)})
  /\ TwoBiggestOf(VRects, {k \in 1..i - 1 : Counts(k) /\ Vertical(k)})

Left(k) == \A v \in Kept(VRects) : X(k) < X(v)
Right(k) == \A v \in Kept(VRects) : X(k) > X(v)
Nearest(k) == \A h \in Kept(HRects), v \in Kept(VRects) : Distance(k, v) <= Distance(h, v)

\* A side is hot only if a horizontal target kept lies beyond every vertical one
\* on that side; with two vertical targets in sight it is hot whenever one does,
\* and with one vertical target the nearest horizontal one tells.
HotSides ==
  pc \in {"publish", "done", "returned"} =>
    /\ lhot => \E h \in Kept(HRects) : Left(h) /\ Kept(VRects) # {}
    /\ rhot => \E h \in Kept(HRects) : Right(h) /\ Kept(VRects) # {}
    /\ Len(VRects) = 2 => /\ (\E h \in Kept(HRects) : Left(h)) => lhot
                          /\ (\E h \in Kept(HRects) : Right(h)) => rhot
    /\ Len(VRects) = 1 => /\ lhot => \E h \in Kept(HRects) : Left(h) /\ Nearest(h)
                          /\ rhot => \E h \in Kept(HRects) : Right(h) /\ Nearest(h)

\* Both goals are hot only with two vertical targets and two horizontal ones in
\* sight.
BothHot == lhot /\ rhot => Len(HRects) = 2 /\ Len(VRects) = 2

\* The robot is told how many contours are big enough, as long as the number fits
\* its byte, and then of no more targets of the two kinds than that. RunServer of
\* the first program tells it just when the number fits the seven bits next to
\* the sign.
TotalIsRight ==
  LET total == Cardinality({k \in 1..N : Counts(k)}) IN
  /\ pc = "done" /\ total < Byte => data.total = total /\ data.horiz + data.vert <= total
  /\ pc = "returned" => IF 2 * total < Byte THEN result = total ELSE result # total

=============================================================================
