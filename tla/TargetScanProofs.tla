-------------------------- MODULE TargetScanProofs --------------------------
(***************************************************************************)
(* Proofs about TargetScan, for images with any contours: the scan keeps   *)
(* the two biggest of each orientation, and the verdict agrees with where  *)
(* they lie.                                                               *)
(***************************************************************************)
EXTENDS TargetScan, FiniteSetTheorems, SequenceTheorems, TLAPS

USE ContoursAssumption, BoundsAssumption
-----------------------------------------------------------------------------

LEMMA UpToTwo ==
  ASSUME NEW n \in Nat, n <= 2
  PROVE  n \in 0..2 /\ (n <= 1 \/ n = 2)
OBVIOUS

LEMMA TwoAtMost ==
  ASSUME NEW T, NEW R \in Seq(T), Len(R) <= 2
  PROVE  /\ Len(R) \in 0..2
         /\ Len(R) <= 1 \/ Len(R) = 2
         /\ \A j \in 1..Len(R) : R[j] \in T
<1>1. Len(R) \in Nat /\ \A j \in 1..Len(R) : R[j] \in T
  BY LenProperties
<1> QED
  BY <1>1, UpToTwo

LEMMA AreasAndPlaces ==
  ASSUME contours \in Seq(Contours), NEW k \in 1..N
  PROVE  /\ Area(k) \in Nat
         /\ X(k) \in Nat
BY DEF Area, X, N, Contour

\* One step of the scan keeps the two biggest.
LEMMA KeepTwoBiggest ==
  ASSUME contours \in Seq(Contours), NEW S \in SUBSET (1..N), NEW R \in Seq(S),
         Len(R) <= 2, TwoBiggestOf(R, S), NEW k \in 1..N, k \notin S
  PROVE  /\ Keep(R, k) \in Seq(S \cup {k})
         /\ Len(Keep(R, k)) <= 2
         /\ TwoBiggestOf(Keep(R, k), S \cup {k})
<1>1. \A m \in S \cup {k} : Area(m) \in Nat
  BY AreasAndPlaces
<1>2. CASE Len(R) <= 1
  <2>1. Keep(R, k) = Append(R, k)
    BY <1>2 DEF Keep
  <2>2. Kept(R) = S
    BY <1>2 DEF TwoBiggestOf
  <2>3. Kept(Append(R, k)) = S \cup {k}
    <3>1. R \in Seq(S \cup {k}) /\ k \in S \cup {k}
      OBVIOUS
    <3> DEFINE A == Append(R, k)
    <3>2. /\ DOMAIN A = 1..Len(R) + 1 /\ DOMAIN R = 1..Len(R) /\ Len(R) \in Nat
          /\ \A j \in 1..Len(R) : A[j] = R[j]
          /\ A[Len(R) + 1] = k
      BY <3>1, AppendProperties, LenProperties
    <3> HIDE DEF A
    <3>3. Kept(A) = Kept(R) \cup {k}
      BY <3>2 DEF Kept
    <3> QED
      BY <2>2, <3>3 DEF A
  <2>4. Len(Append(R, k)) = 2 => Append(R, k)[1] # Append(R, k)[2]
    BY <1>2
  <2>5. Append(R, k) \in Seq(S \cup {k}) /\ Len(Append(R, k)) <= 2
    BY <1>2
  <2> QED
    BY <2>1, <2>3, <2>4, <2>5 DEF TwoBiggestOf
<1>3. CASE Len(R) = 2
  <2>1. /\ R[1] \in S /\ R[2] \in S /\ R[1] # R[2]
        /\ Kept(R) = {R[1], R[2]}
    BY <1>3 DEF TwoBiggestOf, Kept
  <2>2. \A m \in S \ {R[1], R[2]} : Area(m) <= Area(R[1]) /\ Area(m) <= Area(R[2])
    BY <2>1 DEF TwoBiggestOf
  <2>3. PICK small \in {1, 2}, big \in {1, 2} :
           /\ small # big
           /\ Area(R[small]) <= Area(R[big])
           /\ Keep(R, k) = IF Area(R[small]) < Area(k) THEN [R EXCEPT ![small] = k] ELSE R
    <3>1. Area(R[1]) \in Nat /\ Area(R[2]) \in Nat
      BY <1>1, <2>1
    <3>2. CASE Area(R[1]) > Area(R[2])
      BY <1>3, <3>1, <3>2 DEF Keep
    <3>3. CASE ~(Area(R[1]) > Area(R[2]))
      BY <1>3, <3>1, <3>3 DEF Keep
    <3> QED
      BY <3>2, <3>3
  <2>4. /\ R[small] \in S /\ R[big] \in S
        /\ {R[1], R[2]} = {R[small], R[big]} /\ R[small] # R[big]
    BY <2>1, <2>3
  <2>5. /\ Area(R[small]) \in Nat /\ Area(R[big]) \in Nat /\ Area(k) \in Nat
        /\ \A m \in S : Area(m) \in Nat
    BY <1>1, <2>4
  <2>6. CASE Area(R[small]) < Area(k)
    <3> DEFINE Q == [R EXCEPT ![small] = k]
    <3>1. /\ Q \in Seq(S \cup {k}) /\ Len(Q) = 2
          /\ Q[small] = k /\ Q[big] = R[big]
      <4>1. R \in Seq(S \cup {k}) /\ k \in S \cup {k} /\ small \in 1..Len(R) /\ big \in 1..Len(R)
        BY <1>3
      <4>2. Q \in Seq(S \cup {k}) /\ Len(Q) = Len(R)
        BY <4>1, ExceptSeq
      <4>3. Q[small] = k /\ Q[big] = R[big]
        BY <2>3, <4>1
      <4> QED
        BY <1>3, <4>2, <4>3
    <3>2. Keep(R, k) = Q
      BY <2>3, <2>6
    <3> HIDE DEF Q
    <3>3. Kept(Q) = {Q[1], Q[2]}
      <4>1. DOMAIN Q = {1, 2}
        BY <3>1, LenProperties
      <4> QED
        BY <4>1 DEF Kept
    <3>4. Kept(Q) = {k, R[big]}
      BY <2>3, <3>1, <3>3
    <3>5. \A m \in (S \cup {k}) \ Kept(Q) : m = R[small] \/ m \in S \ {R[1], R[2]}
      BY <2>4, <3>4
    <3>6. \A m \in (S \cup {k}) \ Kept(Q), q \in Kept(Q) : Area(m) <= Area(q)
      <4> SUFFICES ASSUME NEW m \in (S \cup {k}) \ Kept(Q)
                   PROVE  Area(m) <= Area(k) /\ Area(m) <= Area(R[big])
        BY <3>4
      <4>1. Area(m) \in Nat /\ Area(m) <= Area(R[small]) /\ Area(m) <= Area(R[big])
        BY <2>2, <2>3, <2>4, <2>5, <3>5
      <4> QED
        BY <2>5, <2>6, <4>1
    <3>7. Q[1] # Q[2]
      BY <2>3, <2>4, <3>1
    <3>8. TwoBiggestOf(Q, S \cup {k})
      BY <2>4, <3>1, <3>4, <3>6, <3>7 DEF TwoBiggestOf
    <3> QED
      <4>1. Len(Q) <= 2
        BY <3>1
      <4> QED
        BY <3>1, <3>2, <3>8, <4>1
  <2>7. CASE ~(Area(R[small]) < Area(k))
    <3>1. Keep(R, k) = R
      BY <2>3, <2>7
    <3>2. R \in Seq(S \cup {k})
      OBVIOUS
    <3>3. Area(k) <= Area(R[1]) /\ Area(k) <= Area(R[2])
      BY <2>3, <2>5, <2>7
    <3>4. \A m \in (S \cup {k}) \ Kept(R), q \in Kept(R) : Area(m) <= Area(q)
      BY <2>1, <2>2, <3>3
    <3>5. TwoBiggestOf(R, S \cup {k})
      BY <1>3, <2>1, <3>4 DEF TwoBiggestOf
    <3> QED
      BY <1>3, <3>1, <3>2, <3>5
  <2> QED
    BY <2>6, <2>7
<1> QED
  <2>1. Len(R) <= 1 \/ Len(R) = 2
    BY TwoAtMost
  <2> QED
    BY <1>2, <1>3, <2>1

LEMMA SeqOfKept ==
  ASSUME NEW T, NEW R \in Seq(T), NEW S, Kept(R) \subseteq S
  PROVE  R \in Seq(S)
<1>1. /\ Len(R) \in Nat
      /\ R \in [1..Len(R) -> T]
  BY LenProperties
<1>2. \A j \in 1..Len(R) : R[j] \in S
  BY <1>1 DEF Kept
<1>3. R \in [1..Len(R) -> S]
  BY <1>1, <1>2
<1> QED
  BY <1>1, <1>3, SeqDef

\* What Scan does for one orientation, P the contours that are of it.
LEMMA ScanKeepsTwoBiggest ==
  ASSUME contours \in Seq(Contours), NEW n \in 1..N, NEW P \in SUBSET (1..N),
         NEW R \in Seq(1..n - 1), Len(R) <= 2, TwoBiggestOf(R, P \cap (1..n - 1)),
         NEW Q, Q = IF n \in P THEN Keep(R, n) ELSE R
  PROVE  Q \in Seq(1..n) /\ Len(Q) <= 2 /\ TwoBiggestOf(Q, P \cap (1..n))
<1> DEFINE S == P \cap (1..n - 1)
<1>1. N \in Nat
  BY DEF N
<1>2. R \in Seq(S)
  BY SeqOfKept DEF TwoBiggestOf
<1>3. CASE n \in P
  <2>1. P \cap (1..n) = S \cup {n} /\ n \notin S /\ S \subseteq 1..N
    BY <1>1, <1>3
  <2>2. Q \in Seq(S \cup {n}) /\ Len(Q) <= 2 /\ TwoBiggestOf(Q, S \cup {n})
    BY <1>2, <1>3, <2>1, KeepTwoBiggest
  <2>3. Kept(Q) \subseteq 1..n
    BY <1>1, <2>1, <2>2 DEF TwoBiggestOf
  <2> QED
    BY <2>1, <2>2, <2>3, SeqOfKept
<1>4. CASE n \notin P
  <2>1. P \cap (1..n) = S /\ S \subseteq 1..n
    BY <1>1, <1>4
  <2>2. Kept(R) \subseteq 1..n
    BY <2>1 DEF TwoBiggestOf
  <2> QED
    BY <1>4, <2>1, <2>2, SeqOfKept
<1> QED
  BY <1>3, <1>4

-----------------------------------------------------------------------------

Horizontals == {k \in 1..N : Counts(k) /\ Horizontal(k)}
Verticals == {k \in 1..N : Counts(k) /\ Vertical(k)}

\* A contour has one orientation at most: the code, which tests Vertical only
\* of what is not horizontal, loses none by that.
LEMMA OneOrientation ==
  ASSUME contours \in Seq(Contours), NEW k \in 1..N
  PROVE  ~(Horizontal(k) /\ Vertical(k))
<1>1. contours[k].width \in Nat /\ contours[k].height \in Nat \ {0}
  BY DEF N, Contour
<1>2. \A w \in Nat, h \in Nat \ {0} : ~(w > 2 * h /\ 5 * w < 3 * h)
  OBVIOUS
<1>3. ~(contours[k].width > 2 * contours[k].height /\ 5 * contours[k].width < 3 * contours[k].height)
  BY <1>1, <1>2
<1> QED
  BY <1>3 DEF Horizontal, Vertical

\* Nothing is hot before Decide.
Undecided == pc \in {"scan", "hot"} => ~lhot /\ ~rhot

IInv == TypeOK /\ TwoBiggest /\ Undecided /\ BothHot

LEMMA Seen ==
  ASSUME contours \in Seq(Contours), i \in 1..N + 1
  PROVE  /\ Horizontals \cap (1..i - 1) = {k \in 1..i - 1 : Counts(k) /\ Horizontal(k)}
         /\ Verticals \cap (1..i - 1) = {k \in 1..i - 1 : Counts(k) /\ Vertical(k)}
<1>1. N \in Nat
  BY DEF N
<1>2. 1..i - 1 \subseteq 1..N
  BY <1>1
<1> QED
  BY <1>2 DEF Horizontals, Verticals

LEMMA ScanStep == IInv /\ Scan => IInv'
<1> SUFFICES ASSUME TypeOK, TwoBiggest, Undecided, BothHot, Scan
             PROVE  IInv'
  BY DEF IInv
<1>1. N \in Nat /\ contours' = contours /\ N' = N
  BY DEF N, TypeOK, Scan
<1>2. i \in 1..N /\ i' = i + 1 /\ contours \in Seq(Contours)
  BY <1>1 DEF TypeOK, Scan
<1>3. /\ HRects' \in Seq(1..i) /\ Len(HRects') <= 2
      /\ TwoBiggestOf(HRects', Horizontals \cap (1..i))
  <2>1. TwoBiggestOf(HRects, Horizontals \cap (1..i - 1))
    <3>1. i \in 1..N + 1
      BY <1>1, <1>2
    <3>2. Horizontals \cap (1..i - 1) = {k \in 1..i - 1 : Counts(k) /\ Horizontal(k)}
      BY <1>2, <3>1, Seen
    <3>3. TwoBiggestOf(HRects, {k \in 1..i - 1 : Counts(k) /\ Horizontal(k)})
      BY DEF TwoBiggest
    <3> QED
      BY <3>2, <3>3
  <2>2. HRects' = IF i \in Horizontals THEN Keep(HRects, i) ELSE HRects
    BY <1>2 DEF Scan, Horizontals
  <2>3. HRects \in Seq(1..i - 1) /\ Len(HRects) <= 2 /\ Horizontals \in SUBSET (1..N)
    BY DEF TypeOK, Horizontals
  <2> QED
    BY <1>2, <2>1, <2>2, <2>3, ScanKeepsTwoBiggest
<1>4. /\ VRects' \in Seq(1..i) /\ Len(VRects') <= 2
      /\ TwoBiggestOf(VRects', Verticals \cap (1..i))
  <2>1. TwoBiggestOf(VRects, Verticals \cap (1..i - 1))
    <3>1. i \in 1..N + 1
      BY <1>1, <1>2
    <3>2. Verticals \cap (1..i - 1) = {k \in 1..i - 1 : Counts(k) /\ Vertical(k)}
      BY <1>2, <3>1, Seen
    <3>3. TwoBiggestOf(VRects, {k \in 1..i - 1 : Counts(k) /\ Vertical(k)})
      BY DEF TwoBiggest
    <3> QED
      BY <3>2, <3>3
  <2>2. VRects' = IF i \in Verticals THEN Keep(VRects, i) ELSE VRects
    BY <1>2, OneOrientation DEF Scan, Verticals
  <2>3. VRects \in Seq(1..i - 1) /\ Len(VRects) <= 2 /\ Verticals \in SUBSET (1..N)
    BY DEF TypeOK, Verticals
  <2> QED
    BY <1>2, <2>1, <2>2, <2>3, ScanKeepsTwoBiggest
<1>5. i' \in 1..N' + 1 /\ i' - 1 = i
  BY <1>1, <1>2
<1>6. contour_cnt' \in 0..i' - 1
  BY <1>1, <1>2 DEF TypeOK, Scan
<1>7. TypeOK'
  BY <1>1, <1>3, <1>4, <1>5, <1>6 DEF TypeOK, Scan
<1>8. TwoBiggest'
  <2>1. /\ TwoBiggestOf(HRects, {k \in 1..i - 1 : Counts(k) /\ Horizontal(k)})'
          <=> TwoBiggestOf(HRects', {k \in 1..i : Counts(k) /\ Horizontal(k)})
        /\ TwoBiggestOf(VRects, {k \in 1..i - 1 : Counts(k) /\ Vertical(k)})'
          <=> TwoBiggestOf(VRects', {k \in 1..i : Counts(k) /\ Vertical(k)})
    BY <1>1, <1>5 DEF TwoBiggestOf, Kept, Counts, Area, Horizontal, Vertical
  <2>2. /\ Horizontals \cap (1..i) = {k \in 1..i : Counts(k) /\ Horizontal(k)}
        /\ Verticals \cap (1..i) = {k \in 1..i : Counts(k) /\ Vertical(k)}
    <3>1. 1..i \subseteq 1..N
      BY <1>1, <1>2
    <3> QED
      BY <3>1 DEF Horizontals, Verticals
  <2> QED
    BY <1>3, <1>4, <2>1, <2>2 DEF TwoBiggest
<1>9. Undecided' /\ BothHot'
  BY DEF Undecided, BothHot, Scan
<1> QED
  BY <1>7, <1>8, <1>9 DEF IInv

\* The steps after the scan leave what it kept alone.
LEMMA TwoBiggestStays ==
  ASSUME TwoBiggest, UNCHANGED <<contours, i, HRects, VRects>>
  PROVE  TwoBiggest'
<1>1. /\ {k \in 1..i - 1 : Counts(k) /\ Horizontal(k)}' = {k \in 1..i - 1 : Counts(k) /\ Horizontal(k)}
      /\ {k \in 1..i - 1 : Counts(k) /\ Vertical(k)}' = {k \in 1..i - 1 : Counts(k) /\ Vertical(k)}
  BY DEF Counts, Area, Horizontal, Vertical
<1>2. ASSUME NEW S
      PROVE  /\ TwoBiggestOf(HRects, S) => TwoBiggestOf(HRects, S)'
             /\ TwoBiggestOf(VRects, S) => TwoBiggestOf(VRects, S)'
  BY DEF TwoBiggestOf, Kept, Area
<1> QED
  BY <1>1, <1>2 DEF TwoBiggest

\* What Decide concludes, case by case.
LEMMA Verdict ==
  ASSUME TypeOK, Undecided, Decide
  PROVE  /\ Len(VRects) > 1 /\ Len(HRects) > 0 =>
              /\ lhot' <=> XMin(HRects) < XMin(VRects)
              /\ rhot' <=> XMax(HRects) > XMax(VRects)
         /\ Len(VRects) = 1 /\ Len(HRects) > 0 =>
              /\ lhot' => NearestX < X(VRects[1])
              /\ rhot' => NearestX > X(VRects[1])
         /\ Len(VRects) = 0 \/ Len(HRects) = 0 => ~lhot' /\ ~rhot'
         /\ lhot' \in BOOLEAN /\ rhot' \in BOOLEAN
<1>1. ~lhot /\ ~rhot /\ lhot \in BOOLEAN /\ rhot \in BOOLEAN
  BY Zenon DEF TypeOK, Undecided, Decide
<1>2. Len(HRects) \in 0..2 /\ Len(VRects) \in 0..2
  BY TwoAtMost DEF TypeOK
<1>3. CASE /\ Len(VRects) > 1 /\ Len(HRects) > 0
           /\ lhot' = (XMin(HRects) < XMin(VRects))
           /\ rhot' = (XMax(HRects) > XMax(VRects))
  <2>1. Len(VRects) # 1 /\ Len(VRects) # 0 /\ Len(HRects) # 0
    BY <1>2, <1>3
  <2>2. (lhot' <=> XMin(HRects) < XMin(VRects)) /\ (rhot' <=> XMax(HRects) > XMax(VRects))
    BY <1>3, Zenon
  <2>3. lhot' \in BOOLEAN /\ rhot' \in BOOLEAN
    BY <1>3, SMT
  <2> QED
    BY <2>1, <2>2, <2>3, Zenon
<1>4. CASE /\ Len(VRects) = 1 /\ Len(HRects) > 0
           /\ lhot' = (NearestX < X(VRects[1]))
           /\ rhot' = (NearestX > X(VRects[1]))
  <2>1. ~(Len(VRects) > 1) /\ Len(VRects) # 0 /\ Len(HRects) # 0
    BY <1>2, <1>4
  <2>2. (lhot' => NearestX < X(VRects[1])) /\ (rhot' => NearestX > X(VRects[1]))
    BY <1>4, Zenon
  <2>3. lhot' \in BOOLEAN /\ rhot' \in BOOLEAN
    BY <1>4, SMT
  <2> QED
    BY <2>1, <2>2, <2>3, Zenon
<1>5. CASE /\ Len(VRects) = 0 \/ Len(HRects) = 0
           /\ UNCHANGED <<lhot, rhot>>
  <2>1. /\ ~(Len(VRects) > 1 /\ Len(HRects) > 0)
        /\ ~(Len(VRects) = 1 /\ Len(HRects) > 0)
    BY <1>2, <1>5
  <2>2. lhot' = lhot /\ rhot' = rhot
    BY <1>5
  <2> QED
    BY <1>1, <2>1, <2>2, Zenon
<1> QED
  BY <1>3, <1>4, <1>5, Zenon DEF Decide

LEMMA DecideStep == IInv /\ Decide => IInv'
<1> SUFFICES ASSUME TypeOK, TwoBiggest, Undecided, BothHot, Decide
             PROVE  IInv'
  BY DEF IInv
<1>1. TypeOK'
  <2>1. lhot' \in BOOLEAN /\ rhot' \in BOOLEAN
    BY Verdict
  <2> QED
    BY <2>1 DEF TypeOK, Decide, N
<1>2. TwoBiggest'
  BY TwoBiggestStays DEF Decide
<1>3. Undecided'
  BY DEF Undecided, Decide
<1>4. BothHot'
  <2> SUFFICES ASSUME lhot', rhot'
               PROVE  Len(HRects) = 2 /\ Len(VRects) = 2
    BY DEF BothHot, Decide
  <2>1. contours \in Seq(Contours) /\ N \in Nat /\ i - 1 \in 0..N
    BY DEF TypeOK, N
  <2>2. /\ \A j \in 1..Len(HRects) : HRects[j] \in 1..i - 1
        /\ \A j \in 1..Len(VRects) : VRects[j] \in 1..i - 1
        /\ Len(HRects) \in 0..2 /\ Len(VRects) \in 0..2
    BY TwoAtMost DEF TypeOK
  <2>3. /\ \A j \in 1..Len(HRects) : X(HRects[j]) \in Nat
        /\ \A j \in 1..Len(VRects) : X(VRects[j]) \in Nat
    <3>1. \A k \in 1..i - 1 : X(k) \in Nat
      BY <2>1, AreasAndPlaces
    <3> QED
      BY <2>2, <3>1
  <2>4. Len(HRects) # 0 /\ Len(VRects) # 0
    BY Verdict
  <2>5. Len(VRects) # 1
    <3> SUFFICES ASSUME Len(VRects) = 1 PROVE FALSE
      OBVIOUS
    <3>1. NearestX \in Nat /\ X(VRects[1]) \in Nat
      BY <2>2, <2>3, <2>4 DEF NearestX
    <3>2. NearestX < X(VRects[1]) /\ NearestX > X(VRects[1])
      BY <2>2, <2>4, Verdict
    <3> QED
      BY <3>1, <3>2
  <2>6. Len(VRects) = 2
    BY <2>2, <2>4, <2>5
  <2>7. Len(HRects) # 1
    <3> SUFFICES ASSUME Len(HRects) = 1 PROVE FALSE
      OBVIOUS
    <3>1. X(HRects[1]) \in Nat /\ X(VRects[1]) \in Nat /\ X(VRects[2]) \in Nat
      BY <2>3, <2>6
    <3>2. XMin(HRects) < XMin(VRects) /\ XMax(HRects) > XMax(VRects)
      BY <2>6, Verdict
    <3>3. X(HRects[1]) < X(VRects[1])
      BY <2>6, <3>1, <3>2 DEF XMin
    <3>4. X(HRects[1]) > X(VRects[1])
      BY <2>6, <3>1, <3>2 DEF XMax
    <3> QED
      BY <3>1, <3>3, <3>4
  <2> QED
    BY <2>2, <2>4, <2>6, <2>7
<1> QED
  BY <1>1, <1>2, <1>3, <1>4 DEF IInv

LEMMA PublishStep == IInv /\ Publish => IInv'
<1> SUFFICES ASSUME TypeOK, TwoBiggest, Undecided, BothHot, Publish
             PROVE  IInv'
  BY DEF IInv
<1>1. TypeOK'
  <2>1. N \in Nat /\ contour_cnt \in Nat /\ contour_cnt % Byte \in 0..Byte - 1
    BY DEF TypeOK, N
  <2>2. Len(HRects) \in 0..2 /\ Len(VRects) \in 0..2
    BY TwoAtMost DEF TypeOK
  <2>3. data' \in [total : 0..Byte - 1, horiz : 0..2, vert : 0..2,
                   lhot : BOOLEAN, rhot : BOOLEAN]
    BY <2>1, <2>2 DEF TypeOK, Publish
  <2> QED
    BY <2>3 DEF TypeOK, Publish, N
<1>2. TwoBiggest'
  BY TwoBiggestStays DEF Publish
<1>3. Undecided' /\ BothHot'
  BY DEF Undecided, BothHot, Publish
<1> QED
  BY <1>1, <1>2, <1>3 DEF IInv

LEMMA ReturnStep == IInv /\ Return => IInv'
<1> SUFFICES ASSUME TypeOK, TwoBiggest, Undecided, BothHot, Return
             PROVE  IInv'
  BY DEF IInv
<1>1. TypeOK'
  <2>1. N \in Nat /\ contour_cnt \in Nat /\ contour_cnt % Byte \in 0..Byte - 1
    BY DEF TypeOK, N
  <2>2. result' \in -Byte..Byte - 1
    BY <2>1 DEF Return, Signed
  <2> QED
    BY <2>2 DEF TypeOK, Return, N
<1>2. TwoBiggest'
  BY TwoBiggestStays DEF Return
<1>3. Undecided' /\ BothHot'
  BY DEF Undecided, BothHot, Return
<1> QED
  BY <1>1, <1>2, <1>3 DEF IInv

-----------------------------------------------------------------------------

\* IInv is inductive.
THEOREM Inductive == Spec => []IInv
<1>1. Init => IInv
  <2> SUFFICES ASSUME Init PROVE IInv
    OBVIOUS
  <2>1. contours \in Seq(Contours) /\ N \in Nat
    <3>1. PICK n \in 0..MaxContours : contours \in [1..n -> Contours]
      BY DEF Init
    <3>2. n \in Nat
      BY <3>1
    <3>3. contours \in Seq(Contours)
      BY <3>1, <3>2, SeqDef
    <3> QED
      BY <3>3 DEF N
  <2>2. HRects = <<>> /\ VRects = <<>> /\ i = 1 /\ contour_cnt = 0
    BY DEF Init
  <2>3. TypeOK
    <3>1. i \in 1..N + 1 /\ contour_cnt \in 0..i - 1
      BY <2>1, <2>2
    <3>2. /\ HRects \in Seq(1..i - 1) /\ Len(HRects) <= 2
          /\ VRects \in Seq(1..i - 1) /\ Len(VRects) <= 2
      BY <2>2, EmptySeq
    <3>3. data \in [total : 0..Byte - 1, horiz : 0..2, vert : 0..2,
                    lhot : BOOLEAN, rhot : BOOLEAN]
      BY DEF Init
    <3>4. result \in -Byte..Byte - 1
      BY DEF Init
    <3> QED
      BY <2>1, <3>1, <3>2, <3>3, <3>4 DEF Init, TypeOK
  <2>4. TwoBiggest
    BY <2>2 DEF TwoBiggest, TwoBiggestOf, Kept
  <2>5. Undecided /\ BothHot
    BY DEF Init, Undecided, BothHot
  <2> QED
    BY <2>3, <2>4, <2>5 DEF IInv
<1>2. IInv /\ [Next]_vars => IInv'
  <2>1. IInv /\ ScanEnds => IInv'
    <3>1. TypeOK /\ ScanEnds => TypeOK'
      BY DEF TypeOK, ScanEnds, N
    <3>2. TwoBiggest /\ ScanEnds => TwoBiggest'
      BY TwoBiggestStays DEF ScanEnds
    <3>3. Undecided /\ BothHot /\ ScanEnds => Undecided' /\ BothHot'
      BY DEF Undecided, BothHot, ScanEnds
    <3> QED
      BY <3>1, <3>2, <3>3 DEF IInv
  <2>2. IInv /\ UNCHANGED vars => IInv'
    <3>1. TypeOK /\ UNCHANGED vars => TypeOK'
      BY DEF TypeOK, vars, N
    <3>2. TwoBiggest /\ UNCHANGED vars => TwoBiggest'
      BY TwoBiggestStays DEF vars
    <3>3. Undecided /\ BothHot /\ UNCHANGED vars => Undecided' /\ BothHot'
      BY DEF Undecided, BothHot, vars
    <3> QED
      BY <3>1, <3>2, <3>3 DEF IInv
  <2> QED
    BY <2>1, <2>2, ScanStep, DecideStep, PublishStep, ReturnStep DEF Next
<1> QED
  BY <1>1, <1>2, PTL DEF Spec

\* Types: whatever the image, every field of data fits its byte.
THEOREM TypeCorrect == Spec => []TypeOK
BY Inductive, PTL DEF IInv

\* For any image the rectangles kept are the two biggest of each orientation.
THEOREM KeepsTwoBiggest == Spec => []TwoBiggest
BY Inductive, PTL DEF IInv

\* Both goals are called hot only on the evidence of two targets of each
\* orientation.
THEOREM BothHotNeedsFour == Spec => []BothHot
BY Inductive, PTL DEF IInv

-----------------------------------------------------------------------------

\* The contours seen that count.
Big == {k \in 1..i - 1 : Counts(k)}

\* The counter, from the first contour to the conversion to bytes: it is right,
\* and no rectangle is kept that it has not counted.
CountInv ==
  /\ contour_cnt = Cardinality(Big)
  /\ Len(HRects) + Len(VRects) <= contour_cnt
  /\ pc # "scan" => i = N + 1
  /\ pc = "done" => /\ data.total = contour_cnt % Byte
                    /\ data.horiz = Len(HRects) /\ data.vert = Len(VRects)
  /\ pc = "returned" => result = Signed(contour_cnt)

LEMMA KeepLength ==
  ASSUME NEW T, NEW R \in Seq(T), Len(R) <= 2, NEW k
  PROVE  Len(Keep(R, k)) \in Nat /\ Len(Keep(R, k)) <= Len(R) + 1
<1>1. Len(R) \in Nat
  BY LenProperties
<1>2. CASE Len(R) > 1
  <2>1. Len(R) = 2
    BY <1>1, <1>2, TwoAtMost
  <2>2. \A small \in {1, 2} : Len([R EXCEPT ![small] = k]) = Len(R)
    <3>1. R \in Seq(T \cup {k}) /\ k \in T \cup {k}
      OBVIOUS
    <3> QED
      BY <2>1, <3>1, ExceptSeq
  <2> QED
    BY <1>1, <1>2, <2>2 DEF Keep
<1>3. CASE ~(Len(R) > 1)
  <2>1. Keep(R, k) = Append(R, k)
    BY <1>3 DEF Keep
  <2>2. R \in Seq(T \cup {k}) /\ k \in T \cup {k}
    OBVIOUS
  <2> QED
    BY <1>1, <2>1, <2>2, AppendProperties
<1> QED
  BY <1>2, <1>3

LEMMA ScanCounts == IInv /\ CountInv /\ Scan => CountInv'
<1> SUFFICES ASSUME TypeOK, CountInv, Scan
             PROVE  CountInv'
  BY DEF IInv
<1>1. N \in Nat /\ i \in 1..N /\ i' = i + 1 /\ contours' = contours /\ N' = N
  BY DEF TypeOK, Scan, N
<1>2. IsFiniteSet(Big) /\ i \notin Big /\ Cardinality(Big) \in Nat
  <2>1. IsFiniteSet(1..i - 1)
    BY <1>1, FS_Interval
  <2>2. IsFiniteSet(Big)
    BY <2>1, FS_Subset DEF Big
  <2> QED
    BY <1>1, <2>2, FS_CardinalityType DEF Big
<1>3. Big' = IF Counts(i) THEN Big \cup {i} ELSE Big
  BY <1>1 DEF Big, Counts, Area
<1>4. contour_cnt' = Cardinality(Big')
  <2>1. Cardinality(Big \cup {i}) = Cardinality(Big) + 1
    BY <1>2, FS_AddElement
  <2> QED
    BY <1>3, <2>1 DEF Scan, CountInv
<1>5. Len(HRects') + Len(VRects') <= contour_cnt'
  <2>1. /\ HRects \in Seq(1..i - 1) /\ Len(HRects) <= 2
        /\ VRects \in Seq(1..i - 1) /\ Len(VRects) <= 2
    BY DEF TypeOK
  <2>2. /\ Len(HRects) \in Nat /\ Len(VRects) \in Nat
        /\ Len(Keep(HRects, i)) \in Nat /\ Len(Keep(HRects, i)) <= Len(HRects) + 1
        /\ Len(Keep(VRects, i)) \in Nat /\ Len(Keep(VRects, i)) <= Len(VRects) + 1
    BY <2>1, KeepLength, LenProperties
  <2>3. Len(HRects) + Len(VRects) <= contour_cnt /\ contour_cnt \in Nat
    BY <1>2 DEF CountInv
  <2>4. CASE ~Counts(i)
    BY <2>2, <2>3, <2>4 DEF Scan
  <2>5. CASE Counts(i)
    <3>1. contour_cnt' = contour_cnt + 1
      BY <2>5 DEF Scan
    <3>2. \/ HRects' \in {HRects, Keep(HRects, i)} /\ VRects' = VRects
          \/ VRects' \in {VRects, Keep(VRects, i)} /\ HRects' = HRects
      BY DEF Scan
    <3> QED
      BY <2>2, <2>3, <3>1, <3>2
  <2> QED
    BY <2>4, <2>5
<1> QED
  BY <1>4, <1>5 DEF CountInv, Scan

LEMMA OthersCount ==
  ASSUME IInv, CountInv, ScanEnds \/ Decide \/ Publish \/ Return \/ UNCHANGED vars
  PROVE  CountInv'
<1>1. N' = N /\ Big' = Big /\ N \in Nat
  <2>1. contours' = contours /\ i' = i
    BY DEF ScanEnds, Decide, Publish, Return, vars
  <2> QED
    BY <2>1 DEF N, Big, Counts, Area, IInv, TypeOK
<1>2. CASE ScanEnds
  <2>1. i = N + 1
    BY <1>1, <1>2 DEF ScanEnds, IInv, TypeOK
  <2> QED
    BY <1>1, <1>2, <2>1 DEF CountInv, ScanEnds
<1>3. CASE Decide
  BY <1>1, <1>3 DEF CountInv, Decide
<1>4. CASE Publish
  BY <1>1, <1>4 DEF CountInv, Publish
<1>5. CASE Return
  BY <1>1, <1>5 DEF CountInv, Return
<1>6. CASE UNCHANGED vars
  BY <1>1, <1>6 DEF CountInv, vars, Signed
<1> QED
  BY <1>2, <1>3, <1>4, <1>5, <1>6

\* The robot of either program is told the right number of contours if it fits,
\* for bytes of any width.
THEOREM TotalSent == Spec => []TotalIsRight
<1>1. Init => CountInv
  <2> SUFFICES ASSUME Init PROVE CountInv
    OBVIOUS
  <2>1. Big = {}
    BY DEF Init, Big
  <2>2. Cardinality(Big) = 0
    BY <2>1, FS_EmptySet
  <2> QED
    BY <2>2 DEF Init, CountInv
<1>2. IInv /\ CountInv /\ [Next]_vars => CountInv'
  BY ScanCounts, OthersCount DEF Next
<1>3. IInv /\ CountInv => TotalIsRight
  <2> SUFFICES ASSUME TypeOK, CountInv
               PROVE  TotalIsRight
    BY DEF IInv
  <2>1. N \in Nat /\ contour_cnt \in Nat
    BY DEF TypeOK, N
  <2>2. pc \in {"done", "returned"} => Big = {k \in 1..N : Counts(k)}
    BY <2>1 DEF CountInv, Big
  <2>3. \A n \in Nat : n < Byte => n % Byte = n
    OBVIOUS
  <2>4. \A n \in Nat : IF 2 * n < Byte THEN Signed(n) = n ELSE Signed(n) # n
    <3> SUFFICES ASSUME NEW n \in Nat
                 PROVE  IF 2 * n < Byte THEN Signed(n) = n ELSE Signed(n) # n
      OBVIOUS
    <3>1. n % Byte \in Nat /\ n % Byte < Byte
      OBVIOUS
    <3>2. 2 * n < Byte => n % Byte = n
      OBVIOUS
    <3> QED
      BY <3>1, <3>2 DEF Signed
  <2> QED
    BY <2>1, <2>2, <2>3, <2>4 DEF CountInv, TotalIsRight
<1> QED
  BY <1>1, <1>2, <1>3, Inductive, PTL DEF Spec

-----------------------------------------------------------------------------

\* XMin and XMax are the places of two of the rectangles, and bound the others.
LEMMA Extremes ==
  ASSUME NEW R, DOMAIN R = 1..Len(R), Len(R) \in {1, 2},
         \A j \in 1..Len(R) : X(R[j]) \in Nat
  PROVE  /\ \E k \in Kept(R) : X(k) = XMin(R)
         /\ \E k \in Kept(R) : X(k) = XMax(R)
         /\ \A k \in Kept(R) : XMin(R) <= X(k) /\ X(k) <= XMax(R)
<1>1. CASE Len(R) = 1
  <2>1. Kept(R) = {R[1]} /\ X(R[1]) \in Nat
    BY <1>1 DEF Kept
  <2>2. XMin(R) = X(R[1]) /\ XMax(R) = X(R[1])
    BY <1>1 DEF XMin, XMax
  <2> QED
    BY <2>1, <2>2
<1>2. CASE Len(R) = 2
  <2>1. Kept(R) = {R[1], R[2]} /\ X(R[1]) \in Nat /\ X(R[2]) \in Nat
    BY <1>2 DEF Kept
  <2>2. /\ XMin(R) = IF X(R[2]) < X(R[1]) THEN X(R[2]) ELSE X(R[1])
        /\ XMax(R) = IF X(R[2]) > X(R[1]) THEN X(R[2]) ELSE X(R[1])
    BY <1>2 DEF XMin, XMax
  <2> QED
    BY <2>1, <2>2
<1> QED
  BY <1>1, <1>2

\* NearestX is the place of a horizontal target that no other is nearer than.
LEMMA NearestKept ==
  ASSUME DOMAIN HRects = 1..Len(HRects), Len(HRects) \in {1, 2}, Kept(VRects) = {VRects[1]},
         \A j \in 1..Len(HRects) : X(HRects[j]) \in Nat, X(VRects[1]) \in Nat
  PROVE  \E h \in Kept(HRects) : X(h) = NearestX /\ Nearest(h)
<1> DEFINE D(k) == Distance(k, VRects[1])
<1>1. \A k : Nearest(k) <=> \A h \in Kept(HRects) : D(k) <= D(h)
  BY DEF Nearest
<1>2. \A j \in 1..Len(HRects) : D(HRects[j]) \in Nat
  BY DEF Distance
<1> HIDE DEF D
<1>3. CASE Len(HRects) = 1
  <2>1. Kept(HRects) = {HRects[1]} /\ D(HRects[1]) \in Nat
    BY <1>2, <1>3 DEF Kept
  <2>2. NearestX = X(HRects[1])
    BY <1>3 DEF NearestX
  <2> QED
    BY <1>1, <2>1, <2>2
<1>4. CASE Len(HRects) = 2
  <2>1. /\ Kept(HRects) = {HRects[1], HRects[2]}
        /\ D(HRects[1]) \in Nat /\ D(HRects[2]) \in Nat
    BY <1>2, <1>4 DEF Kept
  <2>2. NearestX = IF D(HRects[2]) < D(HRects[1]) THEN X(HRects[2]) ELSE X(HRects[1])
    BY <1>4 DEF NearestX, D
  <2> QED
    BY <1>1, <2>1, <2>2
<1> QED
  BY <1>3, <1>4

\* What the verdict says of the rectangles kept, before it is in lhot and rhot.
Sides(l, r) ==
  /\ l => \E h \in Kept(HRects) : Left(h) /\ Kept(VRects) # {}
  /\ r => \E h \in Kept(HRects) : Right(h) /\ Kept(VRects) # {}
  /\ Len(VRects) = 2 => /\ (\E h \in Kept(HRects) : Left(h)) => l
                        /\ (\E h \in Kept(HRects) : Right(h)) => r
  /\ Len(VRects) = 1 => /\ l => \E h \in Kept(HRects) : Left(h) /\ Nearest(h)
                        /\ r => \E h \in Kept(HRects) : Right(h) /\ Nearest(h)

LEMMA DecideSides == IInv /\ Decide => Sides(lhot', rhot')
<1> SUFFICES ASSUME TypeOK, Undecided, Decide
             PROVE  Sides(lhot', rhot')
  BY DEF IInv
<1>1. /\ Len(HRects) \in 0..2 /\ DOMAIN HRects = 1..Len(HRects)
      /\ Len(VRects) \in 0..2 /\ DOMAIN VRects = 1..Len(VRects)
      /\ \A j \in 1..Len(HRects) : X(HRects[j]) \in Nat
      /\ \A j \in 1..Len(VRects) : X(VRects[j]) \in Nat
  <2>1. contours \in Seq(Contours) /\ N \in Nat /\ i - 1 \in 0..N
    BY DEF TypeOK, N
  <2>2. /\ \A j \in 1..Len(HRects) : HRects[j] \in 1..i - 1
        /\ \A j \in 1..Len(VRects) : VRects[j] \in 1..i - 1
        /\ Len(HRects) \in 0..2 /\ Len(VRects) \in 0..2
    BY TwoAtMost DEF TypeOK
  <2>3. DOMAIN HRects = 1..Len(HRects) /\ DOMAIN VRects = 1..Len(VRects)
    BY LenProperties DEF TypeOK
  <2>4. \A k \in 1..i - 1 : X(k) \in Nat
    BY <2>1, AreasAndPlaces
  <2> QED
    BY <2>2, <2>3, <2>4
<1>2. CASE Len(HRects) = 0 \/ Len(VRects) = 0
  <2>1. ~lhot' /\ ~rhot'
    BY <1>2, Verdict
  <2>2. Len(VRects) = 2 => Kept(HRects) = {}
    BY <1>1, <1>2 DEF Kept
  <2> QED
    BY <2>1, <2>2, Zenon DEF Sides
<1>3. CASE Len(HRects) \in {1, 2} /\ Len(VRects) = 1
  <2>1. Kept(VRects) = {VRects[1]} /\ X(VRects[1]) \in Nat
    BY <1>1, <1>3 DEF Kept
  <2>2. PICK h \in Kept(HRects) : X(h) = NearestX /\ Nearest(h)
    BY <1>1, <1>3, <2>1, NearestKept
  <2>3. (lhot' => Left(h)) /\ (rhot' => Right(h))
    <3>1. (lhot' => X(h) < X(VRects[1])) /\ (rhot' => X(h) > X(VRects[1]))
      BY <1>3, <2>2, Verdict
    <3> QED
      BY <2>1, <3>1 DEF Left, Right
  <2>4. Kept(VRects) # {} /\ Len(VRects) # 2
    BY <1>3, <2>1
  <2> QED
    BY <2>2, <2>3, <2>4, Zenon DEF Sides
<1>4. CASE Len(HRects) \in {1, 2} /\ Len(VRects) = 2
  <2> DEFINE HL == XMin(HRects)  HR == XMax(HRects)  VL == XMin(VRects)  VR == XMax(VRects)
  <2>1. /\ \E k \in Kept(HRects) : X(k) = HL
        /\ \E k \in Kept(HRects) : X(k) = HR
        /\ \A k \in Kept(HRects) : HL <= X(k) /\ X(k) <= HR /\ X(k) \in Nat
    <3>1. \A k \in Kept(HRects) : X(k) \in Nat
      BY <1>1 DEF Kept
    <3> QED
      BY <1>1, <1>4, <3>1, Extremes
  <2>2. /\ \E k \in Kept(VRects) : X(k) = VL
        /\ \E k \in Kept(VRects) : X(k) = VR
        /\ \A k \in Kept(VRects) : VL <= X(k) /\ X(k) <= VR /\ X(k) \in Nat
    <3>1. \A k \in Kept(VRects) : X(k) \in Nat
      BY <1>1 DEF Kept
    <3> QED
      BY <1>1, <1>4, <3>1, Extremes
  <2>3. (lhot' <=> HL < VL) /\ (rhot' <=> HR > VR)
    BY <1>4, Verdict
  <2> HIDE DEF HL, HR, VL, VR
  <2>4. HL < VL <=> \E h \in Kept(HRects) : Left(h)
    BY <2>1, <2>2 DEF Left
  <2>5. HR > VR <=> \E h \in Kept(HRects) : Right(h)
    BY <2>1, <2>2 DEF Right
  <2>6. Kept(VRects) # {} /\ Len(VRects) # 1
    BY <1>4, <2>2
  <2> QED
    BY <2>3, <2>4, <2>5, <2>6, Zenon DEF Sides
<1> QED
  BY <1>1, <1>2, <1>3, <1>4

\* A side is called hot for a reason that is in the picture, and with two
\* vertical targets whenever there is one, wherever the targets lie.
THEOREM SidesRight == Spec => []HotSides
<1> DEFINE HInv == pc \in {"publish", "done", "returned"} => Sides(lhot, rhot)
<1>1. Init => HInv
  BY DEF Init
<1>2. IInv /\ HInv /\ [Next]_vars => HInv'
  <2> SUFFICES ASSUME IInv, HInv, [Next]_vars
               PROVE  HInv'
    OBVIOUS
  <2>1. CASE Scan
    BY <2>1 DEF Scan
  <2>2. CASE ScanEnds
    BY <2>2 DEF ScanEnds
  <2>3. CASE Decide
    <3>1. UNCHANGED <<contours, HRects, VRects>>
      BY <2>3 DEF Decide
    <3>2. Sides(lhot', rhot') <=> Sides(lhot, rhot)'
      BY <3>1 DEF Sides, Left, Right, Nearest, Distance, Kept, X
    <3> QED
      BY <2>3, <3>2, DecideSides
  <2>4. CASE Publish \/ Return \/ UNCHANGED vars
    <3>1. UNCHANGED <<contours, HRects, VRects, lhot, rhot>>
      BY <2>4 DEF Publish, Return, vars
    <3>2. Sides(lhot, rhot) <=> Sides(lhot, rhot)'
      BY <3>1 DEF Sides, Left, Right, Nearest, Distance, Kept, X
    <3>3. pc \in {"publish", "done", "returned"} \/ pc' = pc
      BY <2>4 DEF Publish, Return, vars
    <3> QED
      BY <3>2, <3>3
  <2> QED
    BY <2>1, <2>2, <2>3, <2>4 DEF Next
<1>3. HInv => HotSides
  BY DEF HotSides, Sides
<1> QED
  BY <1>1, <1>2, <1>3, Inductive, PTL DEF Spec

=============================================================================
