---------------------------- MODULE CheesyVision ----------------------------
(***************************************************************************)
(* The CheesyVision server (Vision/CheesyVision/CheesyVisionServer.cpp): a  *)
(* task of the robot controller that takes one client at a time, reads a    *)
(* byte of two flags again and again and counts the flags it sees, while    *)
(* the robot program resets the counters and switches counting on and off.  *)
(*                                                                         *)
(* No lock orders the two: a counter is loaded and stored in two steps, and *)
(* Reset is five stores. The setters of _listening and _counting are in a   *)
(* header that is not in the repository, as are the socket and the client.  *)
(***************************************************************************)
EXTENDS Integers

CONSTANTS
  Timeout,    \* HEARTBEAT_TIMEOUT, in seconds
  Pause,      \* the seconds of the two sleeps
  MaxCount    \* bound: the client sends no more once a counter is there

ASSUME TimeoutAssumption == Timeout \in Nat \ {0}
ASSUME PauseAssumption == Pause \in Nat
ASSUME MaxCountAssumption == MaxCount \in Nat \ {0}

VARIABLES
  pc,         \* where Run is
  at,         \* the counter that UpdateCounts is at
  byte,       \* the flags of the byte at work
  reg,        \* the counter's value that UpdateCounts has loaded
  stream,     \* the client's stream, "ended" or "broken" for its next read
  age,        \* seconds since _lastHeartbeatTime, no more than Timeout
  count,      \* _leftCount, _rightCount and _totalCount
  cur,        \* _curLeftStatus and _curRightStatus
  listening,  \* _listening
  counting,   \* _counting
  robot,      \* the next store of the robot's Reset, "idle" outside it
  raced       \* history: whether a reset overlapped a byte, see Raced below

serverVars == <<pc, at, byte, reg>>
clientVars == <<stream, age>>
flagVars == <<listening, counting>>
vars == <<serverVars, clientVars, count, cur, flagVars, robot, raced>>

Counters == {"left", "right", "total"}
Flags == [left : BOOLEAN, right : BOOLEAN]
NoFlags == [left |-> FALSE, right |-> FALSE]
Zero == [c \in Counters |-> 0]

TypeOK ==
  /\ pc \in {"run", "while", "accept", "check", "read", "left", "right", "call", "test",
             "load", "store", "beat", "eof", "drop", "returned"}
  /\ at \in Counters
  /\ byte \in Flags /\ cur \in Flags
  /\ reg \in 0..MaxCount
  /\ stream \in {"none", "open", "ended", "broken"}
  /\ age \in 0..Timeout
  /\ count \in [Counters -> 0..MaxCount]
  /\ listening \in BOOLEAN /\ counting \in BOOLEAN
  /\ robot \in {"idle", "right", "total", "curLeft", "curRight"}
  /\ raced \in {"no", "before", "now"}

\* The constructor; Run starts in a task of its own.
Init ==
  /\ pc = "run" /\ at = "left" /\ byte = NoFlags /\ reg = 0
  /\ stream = "none" /\ age = 0
  /\ count = Zero /\ cur = NoFlags
  /\ listening = FALSE /\ counting = FALSE
  /\ robot = "idle" /\ raced = "no"

\* A byte is being counted from the test of _counting to the last store.
InUpdate == pc \in {"load", "store"}

Go(from, to) ==
  /\ pc = from
  /\ pc' = to
  /\ UNCHANGED <<flagVars, robot>>

-----------------------------------------------------------------------------
(* Run. *)

\* if (_listening == false) return; and while (_listening)
TestListening ==
  /\ \/ Go("run", IF listening THEN "accept" ELSE "returned")
     \/ Go("while", IF listening THEN "accept" ELSE "returned")
  /\ UNCHANGED <<at, byte, reg, clientVars, count, cur, raced>>

\* A client connects.
Accept ==
  /\ Go("accept", "check")
  /\ stream' = "open"
  /\ age' = 0
  /\ UNCHANGED <<at, byte, reg, count, cur, raced>>

\* while (now < _lastHeartbeatTime + HEARTBEAT_TIMEOUT), else delete stream
CheckHeartbeat ==
  /\ \/ age < Timeout /\ Go("check", "read") /\ UNCHANGED stream
     \/ age >= Timeout /\ Go("check", "drop") /\ stream' = "none"
  /\ UNCHANGED <<at, byte, reg, age, count, cur, raced>>

\* read waits until the client sends, however long that takes.
ReadByte ==
  /\ stream = "open"
  /\ \A c \in Counters : count[c] < MaxCount
  /\ Go("read", "left")
  /\ byte' \in Flags
  /\ UNCHANGED <<at, reg, clientVars, count, cur, raced>>

\* catch (EOFException e)
ReadEof ==
  /\ stream = "ended"
  /\ Go("read", "eof")
  /\ UNCHANGED <<at, byte, reg, clientVars, count, cur, raced>>

\* catch (IOException e), which leaves the loop
ReadFails ==
  /\ stream = "broken"
  /\ Go("read", "drop")
  /\ stream' = "none"
  /\ UNCHANGED <<at, byte, reg, age, count, cur, raced>>

SetLeft ==
  /\ Go("left", "right")
  /\ cur' = [cur EXCEPT !.left = byte.left]
  /\ UNCHANGED <<at, byte, reg, clientVars, count, raced>>

SetRight ==
  /\ Go("right", "call")
  /\ cur' = [cur EXCEPT !.right = byte.right]
  /\ UNCHANGED <<at, byte, reg, clientVars, count, raced>>

\* UpdateCounts is passed the two members; the build may load them again or
\* use what it has just stored.
CallUpdate ==
  /\ Go("call", "test")
  /\ byte' \in [left : {byte.left, cur.left}, right : {byte.right, cur.right}]
  /\ UNCHANGED <<at, reg, clientVars, count, cur, raced>>

\* Mutant: the heartbeat is left as it is.
Bug_Beat ==
  /\ Go("beat", "check")
  /\ byte' = NoFlags
  /\ UNCHANGED <<at, reg, clientVars, count, cur, raced>>

\* _lastHeartbeatTime = now; byte goes out of scope.
Beat ==
  /\ Go("beat", "check")
  /\ byte' = NoFlags
  /\ age' = 0
  /\ UNCHANGED <<at, reg, stream, count, cur, raced>>

\* Mutant: the end of the stream counts as a heartbeat.
Bug_SleepAtEof ==
  /\ Go("eof", "check")
  /\ age' = 0
  /\ UNCHANGED <<at, byte, reg, stream, count, cur, raced>>

\* sleep(50) at the end of the stream
SleepAtEof ==
  /\ Go("eof", "check")
  /\ age' = IF age + Pause < Timeout THEN age + Pause ELSE Timeout
  /\ UNCHANGED <<at, byte, reg, stream, count, cur, raced>>

\* sleep(50) between two clients
SleepAfterDrop ==
  /\ Go("drop", "while")
  /\ UNCHANGED <<at, byte, reg, clientVars, count, cur, raced>>

-----------------------------------------------------------------------------
(* UpdateCounts. *)

One(flag) == IF flag THEN 1 ELSE 0

\* Mutant: the total counts flags, not bytes.
Bug_Step(c) == IF c = "total" THEN One(byte.left) + One(byte.right) ELSE One(byte[c])

Step(c) == IF c = "total" THEN 1 ELSE One(byte[c])

\* if (true == _counting)
TestCounting ==
  /\ \/ counting /\ Go("test", "load") /\ raced' = IF robot = "idle" THEN raced ELSE "now"
     \/ ~counting /\ Go("test", "beat") /\ UNCHANGED raced
  /\ UNCHANGED <<at, byte, reg, clientVars, count, cur>>

LoadCount ==
  /\ Go("load", "store")
  /\ reg' = count[at]
  /\ UNCHANGED <<at, byte, clientVars, count, cur, raced>>

\* The counters are updated in the order left, right, total.
StoreCount ==
  /\ Go("store", IF at = "total" THEN "beat" ELSE "load")
  /\ count' = [count EXCEPT ![at] = reg + Step(at)]
  /\ at' = CASE at = "left" -> "right" [] at = "right" -> "total" [] OTHER -> "left"
  /\ reg' = 0
  /\ UNCHANGED <<byte, clientVars, cur, raced>>

-----------------------------------------------------------------------------
(* The robot program, one thread. *)

\* The setters of _listening and _counting (external).
SetFlags ==
  /\ robot = "idle"
  /\ \/ listening' = ~listening /\ UNCHANGED counting
     \/ counting' = ~counting /\ UNCHANGED listening
  /\ UNCHANGED <<serverVars, clientVars, count, cur, robot, raced>>

\* The first store of Reset.
ResetLeft ==
  /\ robot = "idle"
  /\ robot' = "right"
  /\ count' = [count EXCEPT !["left"] = 0]
  /\ raced' = IF InUpdate THEN "now" ELSE IF raced = "no" THEN "no" ELSE "before"
  /\ UNCHANGED <<serverVars, clientVars, flagVars, cur>>

\* Mutant: the total is forgotten.
Bug_ResetCount ==
  /\ robot = "right"
  /\ robot' = "curLeft"
  /\ count' = [count EXCEPT !["right"] = 0]
  /\ UNCHANGED <<serverVars, clientVars, flagVars, cur, raced>>

ResetCount ==
  /\ robot \in {"right", "total"}
  /\ robot' = IF robot = "right" THEN "total" ELSE "curLeft"
  /\ count' = [count EXCEPT ![robot] = 0]
  /\ UNCHANGED <<serverVars, clientVars, flagVars, cur, raced>>

\* A reset that no byte has overlapped makes good what others did.
ResetStatus ==
  /\ \/ robot = "curLeft" /\ robot' = "curRight" /\ cur' = [cur EXCEPT !.left = FALSE]
        /\ UNCHANGED raced
     \/ robot = "curRight" /\ robot' = "idle" /\ cur' = [cur EXCEPT !.right = FALSE]
        /\ raced' = IF raced = "before" THEN "no" ELSE raced
  /\ UNCHANGED <<serverVars, clientVars, flagVars, count>>

-----------------------------------------------------------------------------
(* The client and the clock (external). *)

\* The client closes the stream, or the connection is lost.
StreamEnds ==
  /\ stream = "open"
  /\ stream' \in {"ended", "broken"}
  /\ UNCHANGED <<serverVars, age, count, cur, flagVars, robot, raced>>

\* Time passes while read waits; all else takes no time next to a second.
Tick ==
  /\ pc = "read" /\ stream = "open"
  /\ age < Timeout
  /\ age' = age + 1
  /\ UNCHANGED <<serverVars, stream, count, cur, flagVars, robot, raced>>

-----------------------------------------------------------------------------

Update == TestCounting \/ LoadCount \/ StoreCount

\* What Run does without waiting for a client.
RunNext ==
  \/ TestListening \/ CheckHeartbeat \/ ReadEof \/ ReadFails
  \/ SetLeft \/ SetRight \/ CallUpdate \/ Beat \/ SleepAtEof \/ SleepAfterDrop

RobotNext == SetFlags \/ ResetLeft \/ ResetCount \/ ResetStatus

ClientNext == Accept \/ ReadByte \/ StreamEnds \/ Tick

Next == RunNext \/ Update \/ RobotNext \/ ClientNext

Spec == Init /\ [][Next]_vars

\* The task of the server runs; nothing is assumed of the client and the robot.
Fairness == WF_vars(RunNext \/ Update)

FairSpec == Spec /\ Fairness

-----------------------------------------------------------------------------
(* Properties. *)

\* A counter as the robot should see it: zero from the first store of Reset,
\* and with the byte at work from the test of _counting on.
ToCome(c) ==
  InUpdate /\ (c = at \/ c = "total" \/ (c = "right" /\ at = "left"))
Counted(c) == count[c] + (IF ToCome(c) THEN Step(c) ELSE 0)

Seen == [c \in Counters |-> IF robot = "idle" THEN Counted(c) ELSE 0]

T == INSTANCE Tally WITH counts <- Seen, promised <- raced = "no"

\* The counters are a tally, though three loads and stores and three zeros are
\* spread over two threads: only a reset during the counting of a byte spoils
\* them, and the next reset outside of it sets them right.
ImplementsTally == T!Spec

\* The timeout drops no client whose stream is good, however slowly it sends:
\* the heartbeat is renewed after a read that took longer than the timeout.
TimeoutSparesOpenStream == pc = "check" /\ age >= Timeout => stream \in {"ended", "broken"}

\* A client that has gone is dropped in the end, so that another is accepted,
\* though the end of the stream alone does not leave the loop.
GoneClientDropped == stream \in {"ended", "broken"} ~> stream = "none"

=============================================================================
