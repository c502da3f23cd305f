------------------------- MODULE CheesyVisionProofs -------------------------
(***************************************************************************)
(* Proofs about CheesyVision, for any timeout, any pause and any number of *)
(* bytes: the timeout spares an open stream, and the counters implement a  *)
(* tally.                                                                  *)
(***************************************************************************)
EXTENDS CheesyVision, TLAPS

USE TimeoutAssumption, PauseAssumption, MaxCountAssumption

-----------------------------------------------------------------------------
(* The timeout. *)

\* The heartbeat is new when the loop looks at it, but after the end of a stream.
TimeInv ==
  /\ pc = "eof" => stream = "ended"
  /\ TimeoutSparesOpenStream

LEMMA TimeStep == TimeInv /\ [Next]_vars => TimeInv'
<1> SUFFICES ASSUME TimeInv, [Next]_vars PROVE TimeInv'
  OBVIOUS
<1> USE DEF TimeInv, TimeoutSparesOpenStream, Go, serverVars, clientVars
<1>1. CASE RunNext
  BY <1>1 DEF RunNext, TestListening, CheckHeartbeat, ReadEof, ReadFails, SetLeft, SetRight,
     CallUpdate, Beat, SleepAtEof, SleepAfterDrop
<1>2. CASE Update
  BY <1>2 DEF Update, TestCounting, LoadCount, StoreCount
<1>3. CASE RobotNext
  BY <1>3 DEF RobotNext, SetFlags, ResetLeft, ResetCount, ResetStatus
<1>4. CASE ClientNext
  BY <1>4 DEF ClientNext, Accept, ReadByte, StreamEnds, Tick
<1>5. CASE UNCHANGED vars
  BY <1>5 DEF vars
<1> QED
  BY <1>1, <1>2, <1>3, <1>4, <1>5 DEF Next

\* However slowly a client sends, it is not dropped for it.
THEOREM OpenStreamSpared == Spec => []TimeoutSparesOpenStream
<1>1. Init => TimeInv
  BY DEF Init, TimeInv, TimeoutSparesOpenStream
<1>2. TimeInv => TimeoutSparesOpenStream
  BY DEF TimeInv
<1> QED
  BY <1>1, <1>2, TimeStep, PTL DEF Spec

-----------------------------------------------------------------------------
(* The counters. *)

\* Room for one more: what a byte on its way adds to a counter still fits.
BoundInv ==
  /\ ~InUpdate => at = "left"
  /\ \A c \in Counters :
       pc \in {"left", "right", "call", "test"} \/ ToCome(c) => count[c] < MaxCount
  /\ pc = "store" => reg < MaxCount

\* A reset and a byte overlap only in a race, and without one the value loaded
\* is the counter's until it is stored; the counters that a reset without a race
\* has passed stay zero.
RaceInv ==
  /\ raced = "before" => robot # "idle"
  /\ raced # "now" /\ robot # "idle" =>
       /\ ~InUpdate
       /\ count["left"] = 0
       /\ robot # "right" => count["right"] = 0
       /\ robot \notin {"right", "total"} => count["total"] = 0
  /\ raced = "no" /\ pc = "store" => reg = count[at]

IInv == TypeOK /\ BoundInv /\ RaceInv

LEMMA RunKeepsIInv == IInv /\ RunNext => IInv'
<1> SUFFICES ASSUME IInv, RunNext PROVE IInv'
  OBVIOUS
<1> USE DEF IInv, TypeOK, BoundInv, RaceInv, InUpdate, ToCome, Counters, Flags, Go,
           serverVars, clientVars, flagVars
<1>1. CASE TestListening
  BY <1>1 DEF TestListening
<1>2. CASE CheckHeartbeat
  BY <1>2 DEF CheckHeartbeat
<1>3. CASE ReadEof \/ ReadFails
  BY <1>3 DEF ReadEof, ReadFails
<1>4. CASE SetLeft \/ SetRight
  BY <1>4 DEF SetLeft, SetRight
<1>5. CASE CallUpdate
  BY <1>5 DEF CallUpdate
<1>6. CASE Beat
  BY <1>6 DEF Beat, NoFlags
<1>7. CASE SleepAtEof \/ SleepAfterDrop
  BY <1>7 DEF SleepAtEof, SleepAfterDrop
<1> QED
  BY <1>1, <1>2, <1>3, <1>4, <1>5, <1>6, <1>7 DEF RunNext

LEMMA UpdateKeepsIInv == IInv /\ Update => IInv'
<1> SUFFICES ASSUME IInv, Update PROVE IInv'
  OBVIOUS
<1> USE DEF IInv, TypeOK, BoundInv, RaceInv, InUpdate, ToCome, Counters, Flags, Go,
           serverVars, clientVars, flagVars
<1>1. CASE TestCounting
  BY <1>1 DEF TestCounting
<1>2. CASE LoadCount
  BY <1>2 DEF LoadCount
<1>3. CASE StoreCount
  <2>1. Step(at) \in 0..1
    BY DEF Step, One
  <2> QED
    BY <1>3, <2>1 DEF StoreCount
<1> QED
  BY <1>1, <1>2, <1>3 DEF Update

LEMMA FalseIsFlag ==
  ASSUME NEW f \in Flags
  PROVE  [f EXCEPT !.left = FALSE] \in Flags /\ [f EXCEPT !.right = FALSE] \in Flags
BY DEF Flags

LEMMA RobotKeepsIInv == IInv /\ RobotNext => IInv'
<1> SUFFICES ASSUME IInv, RobotNext PROVE IInv'
  OBVIOUS
<1> USE DEF IInv, TypeOK, BoundInv, RaceInv, InUpdate, ToCome, Counters, Flags,
           serverVars, clientVars, flagVars
<1>1. CASE SetFlags
  <2>1. listening' \in BOOLEAN /\ counting' \in BOOLEAN
    BY <1>1, Zenon DEF SetFlags
  <2>2. UNCHANGED <<pc, at, byte, reg, stream, age, count, cur, robot, raced>>
    BY <1>1 DEF SetFlags
  <2> QED
    BY <2>1, <2>2
<1>2. CASE ResetLeft
  BY <1>2 DEF ResetLeft
<1>3. CASE ResetCount
  BY <1>3 DEF ResetCount
<1>4. CASE ResetStatus
  <2>1. cur' \in Flags
    BY <1>4, FalseIsFlag DEF ResetStatus
  <2>2. UNCHANGED <<pc, at, byte, reg, stream, age, count, listening, counting>>
    BY <1>4 DEF ResetStatus
  <2>3. /\ robot \in {"curLeft", "curRight"}
        /\ robot = "curLeft" => robot' = "curRight" /\ raced' = raced
        /\ robot = "curRight" => robot' = "idle" /\ raced' = IF raced = "before" THEN "no" ELSE raced
    BY <1>4 DEF ResetStatus
  <2> QED
    BY <2>1, <2>2, <2>3
<1> QED
  BY <1>1, <1>2, <1>3, <1>4 DEF RobotNext

LEMMA ClientKeepsIInv == IInv /\ ClientNext => IInv'
<1> SUFFICES ASSUME IInv, ClientNext PROVE IInv'
  OBVIOUS
<1> USE DEF IInv, TypeOK, BoundInv, RaceInv, InUpdate, ToCome, Counters, Flags, Go,
           serverVars, clientVars, flagVars
<1>1. CASE Accept
  BY <1>1 DEF Accept
<1>2. CASE ReadByte
  BY <1>2 DEF ReadByte
<1>3. CASE StreamEnds \/ Tick
  BY <1>3 DEF StreamEnds, Tick
<1> QED
  BY <1>1, <1>2, <1>3 DEF ClientNext

THEOREM Inductive == Spec => []IInv
<1>1. ASSUME Init PROVE IInv
  <2>1. byte \in Flags /\ cur \in Flags
    BY <1>1 DEF Init, Flags, NoFlags
  <2>2. listening \in BOOLEAN /\ counting \in BOOLEAN
    BY <1>1 DEF Init
  <2>3. TypeOK
    BY <1>1, <2>1, <2>2 DEF Init, TypeOK, Counters, Zero
  <2> QED
    BY <1>1, <2>3 DEF Init, IInv, BoundInv, RaceInv, InUpdate, ToCome
<1>2. IInv /\ UNCHANGED vars => IInv'
  BY DEF IInv, TypeOK, BoundInv, RaceInv, InUpdate, ToCome, vars, serverVars, clientVars, flagVars
<1>3. IInv /\ [Next]_vars => IInv'
  BY <1>2, RunKeepsIInv, UpdateKeepsIInv, RobotKeepsIInv, ClientKeepsIInv DEF Next
<1> QED
  BY <1>1, <1>3, PTL DEF Spec

\* Types, and no counter gains more than one for a byte.
THEOREM TypeCorrect == Spec => []TypeOK
BY Inductive, PTL DEF IInv

-----------------------------------------------------------------------------
(* The refinement of Tally. *)

\* A step that touches no counter, or a store that delivers what was to come.
LEMMA Unseen ==
  ASSUME IInv, Next, raced = "no", raced' = "no",
         \/ UNCHANGED <<count, byte, at, robot>> /\ InUpdate' = InUpdate
         \/ UNCHANGED <<count, robot>> /\ ~InUpdate /\ ~InUpdate'
         \/ StoreCount
  PROVE  Seen' = Seen
<1> USE DEF IInv, Seen, Counted, ToCome, Counters
<1>1. CASE UNCHANGED <<count, byte, at, robot>> /\ InUpdate' = InUpdate
  BY <1>1 DEF Step
<1>2. CASE UNCHANGED <<count, robot>> /\ ~InUpdate /\ ~InUpdate'
  BY <1>2
<1>3. CASE StoreCount
  <2>1. /\ at \in Counters /\ count \in [Counters -> 0..MaxCount]
        /\ \A c \in Counters : Step(c) \in 0..1
    BY DEF TypeOK, Step, One
  <2>2. /\ pc = "store" /\ robot' = robot /\ byte' = byte
        /\ count' = [count EXCEPT ![at] = count[at] + Step(at)]
        /\ at = "left" => at' = "right" /\ pc' = "load"
        /\ at = "right" => at' = "total" /\ pc' = "load"
        /\ at = "total" => at' = "left" /\ pc' = "beat"
    BY <1>3 DEF StoreCount, Go, RaceInv
  <2>3. \A c \in Counters : Step(c)' = Step(c)
    BY <2>2 DEF Step
  <2>4. ASSUME NEW c \in Counters
        PROVE  Counted(c)' = Counted(c)
    BY <2>1, <2>2, <2>3 DEF InUpdate
  <2> QED
    BY <2>2, <2>4
<1> QED
  BY <1>1, <1>2, <1>3

\* The byte is counted when _counting is tested.
LEMMA CountStep ==
  ASSUME IInv, TestCounting, counting, raced = "no", raced' = "no"
  PROVE  T!Count
<1>1. /\ robot = "idle" /\ robot' = "idle" /\ at = "left" /\ at' = "left"
      /\ ~InUpdate /\ InUpdate'
      /\ byte' = byte /\ count' = count
  BY DEF IInv, BoundInv, TestCounting, Go, InUpdate
<1> DEFINE flags == {c \in T!Sides : byte[c]}
<1>2. \A c \in Counters : Step(c) = IF c \in flags \cup {"total"} THEN 1 ELSE 0
  BY DEF Step, One, Counters, T!Sides
<1>3. \A c \in Counters : Seen[c] = count[c] /\ Seen'[c] = count[c] + Step(c)
  <2>1. \A c \in Counters : ~ToCome(c) /\ ToCome(c)' /\ Step(c)' = Step(c)
    BY <1>1 DEF ToCome, Counters, Step
  <2>2. \A c \in Counters : count[c] \in Nat
    BY DEF IInv, TypeOK
  <2>3. \A c \in Counters : Counted(c) = count[c] /\ Counted(c)' = count[c] + Step(c)
    BY <1>1, <2>1, <2>2 DEF Counted
  <2> QED
    BY <1>1, <2>3 DEF Seen
<1>4. Seen' = [c \in T!Counters |-> Seen[c] + IF c \in flags \cup {"total"} THEN 1 ELSE 0]
  BY <1>2, <1>3 DEF Seen, Counters, T!Counters, T!Sides
<1>5. flags \in SUBSET T!Sides
  OBVIOUS
<1> QED
  BY <1>4, <1>5 DEF T!Count

\* A reset takes effect with its first store.
LEMMA ResetStep ==
  ASSUME IInv, IInv', robot' = "idle" => ~InUpdate' /\ count' = Zero
  PROVE  T!Reset
BY DEF Seen, Counted, ToCome, Zero, Counters, T!Reset, T!Zero, T!Counters, T!Sides

\* Every step of the server and the robot is a step of the tally or none.
LEMMA TallyStep == IInv /\ IInv' /\ [Next]_vars => [T!Next]_(T!vars)
<1> SUFFICES ASSUME IInv, IInv', [Next]_vars, raced' = "no" PROVE [T!Next]_(T!vars)
  BY DEF T!Next
<1>1. CASE raced # "no"
  <2>1. ResetStatus /\ robot = "curRight" /\ raced = "before"
    BY <1>1 DEF Next, RunNext, Update, RobotNext, ClientNext, TestListening, CheckHeartbeat, ReadEof,
       ReadFails, SetLeft, SetRight, CallUpdate, Beat, SleepAtEof, SleepAfterDrop, TestCounting,
       LoadCount, StoreCount, SetFlags, ResetLeft, ResetCount, ResetStatus, Accept, ReadByte,
       StreamEnds, Tick, vars, IInv, TypeOK
  <2>2. ~InUpdate' /\ count' = Zero
    BY <2>1 DEF ResetStatus, IInv, RaceInv, TypeOK, Counters, Zero, InUpdate, serverVars
  <2> QED
    BY <1>1, <2>2, ResetStep DEF T!Next
<1>2. CASE raced = "no" /\ RunNext
  <2>1. UNCHANGED <<count, robot>> /\ ~InUpdate /\ ~InUpdate'
    BY <1>2 DEF RunNext, TestListening, CheckHeartbeat, ReadEof, ReadFails, SetLeft, SetRight,
       CallUpdate, Beat, SleepAtEof, SleepAfterDrop, Go, InUpdate
  <2> QED
    BY <1>2, <2>1, Unseen DEF Next, T!vars
<1>3. CASE raced = "no" /\ Update
  <2>1. CASE TestCounting /\ counting
    BY <1>3, <2>1, CountStep DEF T!Next
  <2>2. CASE TestCounting /\ ~counting
    <3>1. UNCHANGED <<count, robot>> /\ ~InUpdate /\ ~InUpdate'
      BY <2>2 DEF TestCounting, Go, InUpdate
    <3> QED
      BY <1>3, <3>1, Unseen DEF Next, T!vars
  <2>3. CASE LoadCount
    <3>1. UNCHANGED <<count, byte, at, robot>> /\ InUpdate' = InUpdate
      BY <2>3 DEF LoadCount, Go, InUpdate
    <3> QED
      BY <1>3, <3>1, Unseen DEF Next, T!vars
  <2>4. CASE StoreCount
    BY <1>3, <2>4, Unseen DEF Next, T!vars
  <2> QED
    BY <1>3, <2>1, <2>2, <2>3, <2>4 DEF Update
<1>4. CASE raced = "no" /\ RobotNext
  <2>1. CASE SetFlags
    <3>1. UNCHANGED <<count, byte, at, robot>> /\ InUpdate' = InUpdate
      BY <2>1 DEF SetFlags, InUpdate, serverVars
    <3> QED
      BY <1>4, <2>1, <3>1, Unseen DEF Next, T!vars
  <2>2. CASE ResetLeft \/ ResetCount
    <3>1. robot' # "idle"
      BY <2>2 DEF ResetLeft, ResetCount
    <3> QED
      BY <1>4, <3>1, ResetStep DEF T!Next
  <2>3. CASE ResetStatus
    <3>1. robot' = "idle" => ~InUpdate' /\ count' = Zero
      BY <1>4, <2>3 DEF ResetStatus, IInv, RaceInv, TypeOK, Counters, Zero, InUpdate, serverVars
    <3> QED
      BY <1>4, <3>1, ResetStep DEF T!Next
  <2> QED
    BY <1>4, <2>1, <2>2, <2>3 DEF RobotNext
<1>5. CASE raced = "no" /\ ClientNext
  <2>1. CASE Accept \/ ReadByte
    <3>1. UNCHANGED <<count, robot>> /\ ~InUpdate /\ ~InUpdate'
      BY <2>1 DEF Accept, ReadByte, Go, InUpdate
    <3> QED
      BY <1>5, <3>1, Unseen DEF Next, T!vars
  <2>2. CASE StreamEnds \/ Tick
    <3>1. UNCHANGED <<count, byte, at, robot>> /\ InUpdate' = InUpdate
      BY <2>2 DEF StreamEnds, Tick, InUpdate, serverVars
    <3> QED
      BY <1>5, <3>1, Unseen DEF Next, T!vars
  <2> QED
    BY <1>5, <2>1, <2>2 DEF ClientNext
<1>6. CASE UNCHANGED vars
  BY <1>6 DEF vars, serverVars, clientVars, flagVars, T!vars, Seen, Counted, ToCome, InUpdate, Step
<1> QED
  BY <1>1, <1>2, <1>3, <1>4, <1>5, <1>6 DEF Next

\* The counters are a tally, whatever the timeout and however many bytes come.
THEOREM Refinement == Spec => ImplementsTally
<1>1. Init => T!Init
  BY DEF Init, Seen, Counted, ToCome, InUpdate, Zero, Counters, T!Init, T!Zero, T!Counters, T!Sides
<1> QED
  BY <1>1, TallyStep, Inductive, PTL DEF Spec, ImplementsTally, T!Spec

=============================================================================
