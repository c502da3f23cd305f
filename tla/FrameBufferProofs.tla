-------------------------- MODULE FrameBufferProofs --------------------------
(***************************************************************************)
(* Proofs about FrameBuffer, for a pool of any size and any number of      *)
(* frames.                                                                 *)
(***************************************************************************)
EXTENDS FrameBuffer, TLAPS

\* The buffers that start has counted and not taken yet.
Reserved == IF pc = "get" THEN toSend ELSE IF pc = "send" THEN toSend - 1 ELSE 0

\* The buffers that start has still to queue.
ToCome == IF pc = "capture" THEN N ELSE toSend

\* The pool. StartFindsBuffers and ResendFindsBuffer need each other: each side
\* leaves what the other one counts on, and from the release on the callback
\* counts on one.
PoolInv ==
  /\ inPool + atPort + HeldByCallback + HeldByStart + lost = N
  /\ inPool >= Reserved + One(cb \in {"try", "post", "resend"})
  /\ lost <= losses
  /\ pc = "send" => toSend > 0
  /\ pc \in {"loop", "wait", "top", "bottom", "exited"} => toSend = 0
  /\ pc = "capture" => atPort = 0 /\ cb = "idle" /\ inPool = N /\ toSend = 0

\* The port. A filled buffer is replaced at the port, an empty one is not.
PortInv ==
  LET queued == atPort + ToCome
                  + One(cb \in {"top", "bottom", "filled", "try", "post", "resend", "send"})
  IN  /\ queued + losses <= N
      /\ enabled => queued + losses = N

\* The semaphore. It is posted only when it is 0, and at most once for a frame.
SemInv ==
  /\ cb = "post" => sem = 0
  /\ calls + sem + One(cb \in {"top", "bottom", "filled", "try", "post"}) <= captured

\* The image. Its bottom is behind its top only inside the memcpy, by one frame.
ImageInv ==
  /\ frame.top = IF cb = "top" THEN captured - 1 ELSE captured
  /\ frame.bottom = IF cb \in {"top", "bottom"} THEN captured - 1 ELSE captured
  /\ pc = "bottom" => view.top <= frame.bottom + 1
  /\ pc \in {"capture", "get", "send"} => view = [top |-> 0, bottom |-> 0]
  /\ TearBound

\* The stop. Start calls process_frame from wait, and comes there only if running.
StopInv == running \/ calls + One(pc = "wait") <= stopped + 1

IInv ==
  /\ TypeOK
  /\ StopInv
  /\ pc # "thrown" => PoolInv /\ PortInv /\ SemInv /\ ImageInv

USE NAssumption, MaxFramesAssumption
USE DEF poolVars, startVars, vars, IInv, PoolInv, PortInv, SemInv, ImageInv, TearBound, StopInv,
        Reserved, ToCome, One, HeldByCallback, HeldByStart, TypeOK, NotStopped

-----------------------------------------------------------------------------

LEMMA StartKeepsIInv ==
  ASSUME IInv, StartNext
  PROVE  IInv'
<1>1. CASE StartCapture
  BY <1>1 DEF StartCapture
<1>2. CASE GetForPort
  BY <1>2 DEF GetForPort
<1>3. CASE SendToPort
  BY <1>3 DEF SendToPort
<1>4. CASE StartLoop
  BY <1>4 DEF StartLoop
<1>5. CASE TestRunning
  BY <1>5 DEF TestRunning
<1>6. CASE WakeUp
  BY <1>6 DEF WakeUp
<1>7. CASE WaitFails
  BY <1>7 DEF WaitFails
<1>8. CASE ReadTop
  BY <1>8 DEF ReadTop
<1>9. CASE ReadBottom
  BY <1>9 DEF ReadBottom
<1> QED
  BY <1>1, <1>2, <1>3, <1>4, <1>5, <1>6, <1>7, <1>8, <1>9 DEF StartNext

LEMMA StopKeepsIInv ==
  ASSUME IInv, StopNext
  PROVE  IInv'
<1>1. CASE ClearRunning
  <2>1. (running \in BOOLEAN)'
    BY <1>1 DEF ClearRunning
  <2>2. (stopped \in 0..NotStopped)' /\ StopInv'
    BY <1>1 DEF ClearRunning
  <2>3. (PoolInv /\ PortInv /\ SemInv /\ ImageInv)'
    BY <1>1 DEF ClearRunning
  <2> QED
    BY <1>1, <2>1, <2>2, <2>3 DEF ClearRunning
<1>2. CASE DisablePort
  <2>1. (enabled \in BOOLEAN /\ stopped \in 0..NotStopped)' /\ StopInv'
    BY <1>2 DEF DisablePort
  <2>2. (PoolInv /\ PortInv /\ SemInv /\ ImageInv)'
    BY <1>2 DEF DisablePort
  <2> QED
    BY <1>2, <2>1, <2>2 DEF DisablePort
<1> QED
  BY <1>1, <1>2 DEF StopNext

LEMMA MmalKeepsIInv ==
  ASSUME IInv, MmalNext
  PROVE  IInv'
<1>1. CASE BufferFilled
  BY <1>1 DEF BufferFilled
<1>2. CASE BufferEmpty
  BY <1>2 DEF BufferEmpty
<1> QED
  BY <1>1, <1>2 DEF MmalNext

LEMMA CallbackKeepsIInv ==
  ASSUME IInv, CallbackNext
  PROVE  IInv'
<1> USE DEF Cb
<1>1. CASE ReleaseEmpty
  BY <1>1 DEF ReleaseEmpty
<1>2. CASE CopyTop
  BY <1>2 DEF CopyTop
<1>3. CASE CopyBottom
  BY <1>3 DEF CopyBottom
<1>4. CASE ReleaseFilled
  BY <1>4 DEF ReleaseFilled
<1>5. CASE TryWait
  BY <1>5 DEF TryWait
<1>6. CASE Post
  BY <1>6 DEF Post
<1>7. CASE GetAnother
  BY <1>7 DEF GetAnother
<1>8. CASE SendAnother
  BY <1>8 DEF SendAnother
<1> QED
  BY <1>1, <1>2, <1>3, <1>4, <1>5, <1>6, <1>7, <1>8 DEF CallbackNext

-----------------------------------------------------------------------------

HIDE DEF IInv, PoolInv, PortInv, SemInv, ImageInv, StopInv, TearBound, TypeOK

\* Every reachable state satisfies the inductive invariant.
THEOREM Inductive == Spec => []IInv
<1>1. ASSUME Init
      PROVE  IInv
  <2>1. running \in BOOLEAN
    BY <1>1 DEF Init
  <2>2. TypeOK
    BY <1>1, <2>1 DEF Init, TypeOK
  <2>3. StopInv /\ PoolInv /\ PortInv /\ SemInv /\ ImageInv
    BY <1>1 DEF Init, PoolInv, PortInv, SemInv, ImageInv, StopInv, TearBound
  <2> QED
    BY <2>2, <2>3 DEF IInv
<1>2. IInv /\ [Next]_vars => IInv'
  <2>1. ASSUME IInv, UNCHANGED vars
        PROVE  IInv'
    BY <2>1 DEF IInv, PoolInv, PortInv, SemInv, ImageInv, StopInv, TearBound, TypeOK
  <2> QED
    BY <2>1, StartKeepsIInv, StopKeepsIInv, MmalKeepsIInv, CallbackKeepsIInv DEF Next
<1> QED
  BY <1>1, <1>2, PTL DEF Spec

\* The frame path keeps its type; in particular the semaphore is binary.
THEOREM TypeCorrect == Spec => []TypeOK
<1>1. IInv => TypeOK
  BY DEF IInv
<1> QED
  BY <1>1, Inductive, PTL

\* No buffer header is ever lost from sight or in two places.
THEOREM Conservation == Spec => []BuffersConserved
<1>1. IInv => BuffersConserved
  BY DEF BuffersConserved, IInv, PoolInv, TypeOK
<1> QED
  BY <1>1, Inductive, PTL

\* Neither start nor the callback, which share the pool, finds it empty.
THEOREM PoolSuffices == Spec => [](StartFindsBuffers /\ ResendFindsBuffer)
<1>1. IInv => StartFindsBuffers /\ ResendFindsBuffer
  BY DEF StartFindsBuffers, ResendFindsBuffer, IInv, PoolInv, TypeOK
<1> QED
  BY <1>1, Inductive, PTL

\* The camera starves of buffers only as buffers come back empty or are refused.
THEOREM PortFed == Spec => []PortKeepsItsBuffers
<1>1. IInv => PortKeepsItsBuffers
  BY DEF PortKeepsItsBuffers, IInv, PoolInv, PortInv, TypeOK
<1> QED
  BY <1>1, Inductive, PTL

\* A torn image mixes a top with a bottom at most one frame older.
THEOREM TornByOne == Spec => []TearBound
<1>1. IInv => TearBound
  BY DEF TearBound, IInv, ImageInv
<1> QED
  BY <1>1, Inductive, PTL

\* process_frame is called at most once for every frame.
THEOREM CallsBounded == Spec => []OneCallPerFrame
<1>1. IInv => OneCallPerFrame
  BY DEF OneCallPerFrame, IInv, SemInv, TypeOK
<1> QED
  BY <1>1, Inductive, PTL

\* After a stop process_frame is called at most once more.
THEOREM StopBounded == Spec => []StopTakesEffect
<1>1. IInv => StopTakesEffect
  BY DEF StopTakesEffect, IInv, StopInv, TypeOK
<1> QED
  BY <1>1, Inductive, PTL

=============================================================================
