----------------------------- MODULE FrameBuffer -----------------------------
(***************************************************************************)
(* The frame path of a PiCam (Vision/picam/PiCam.cpp): the pool of MMAL     *)
(* buffer headers, the port they are queued at, the callback that MMAL      *)
(* calls with each buffer, one call at a time and on a thread of its own,   *)
(* PiCam::start, which queues the buffers and then processes a frame each   *)
(* time the semaphore lets it, and PiCam::stop, called by another thread,   *)
(* up to the disabled port. The deletion that follows is in CameraLifecycle. *)
(*                                                                         *)
(* The callback copies into PiCam::frame while process_frame reads it, and  *)
(* no lock orders the two: the copy and the read are two steps each, the    *)
(* top half of the image and the bottom half.                               *)
(***************************************************************************)
EXTENDS Integers

CONSTANTS
  N,          \* the buffer headers of the pool
  MaxFrames   \* bound: the frames the camera delivers

ASSUME NAssumption == N \in Nat \ {0}
ASSUME MaxFramesAssumption == MaxFrames \in Nat

VARIABLES
  inPool,    \* buffer headers in the pool's queue
  atPort,    \* buffer headers the camera has to fill
  lost,      \* buffer headers taken from the pool that the port refused
  enabled,   \* port->is_enabled
  cb,        \* where video_buffer_callback is, "idle" between two calls
  sem,       \* the count of frame_semaphore
  pc,        \* where PiCam::start is
  toSend,    \* num - q in start's first loop
  captured,  \* the number of the last frame the camera filled a buffer with
  frame,     \* PiCam::frame: the number of the frame each half belongs to
  view,      \* the halves of the image that process_frame has read
  running,   \* PiCam::running
  calls,     \* history: how often start has called process_frame
  stopped,   \* history: calls when stop cleared running, or NotStopped
  losses     \* history: buffers that came back empty or that the port refused

poolVars == <<inPool, atPort, lost, losses>>
startVars == <<pc, toSend, view, calls, running, stopped>>
vars == <<poolVars, startVars, enabled, cb, sem, captured, frame>>

NotStopped == MaxFrames + 1

TypeOK ==
  /\ inPool \in 0..N /\ atPort \in 0..N /\ lost \in 0..N /\ losses \in 0..N
  /\ enabled \in BOOLEAN
  /\ cb \in {"idle", "empty", "top", "bottom", "filled", "try", "post", "resend", "send"}
  /\ sem \in {0, 1}
  /\ pc \in {"capture", "get", "send", "loop", "wait", "top", "bottom", "exited", "thrown"}
  /\ toSend \in 0..N
  /\ captured \in 0..MaxFrames
  /\ frame \in [top : 0..MaxFrames, bottom : 0..MaxFrames]
  /\ view \in [top : 0..MaxFrames, bottom : 0..MaxFrames]
  /\ calls \in 0..MaxFrames
  /\ running \in BOOLEAN
  /\ stopped \in 0..NotStopped

\* The constructor has made the pool and enabled the port. Frame 0 is whatever
\* the memory of a new cv::Mat holds.
Init ==
  /\ inPool = N /\ atPort = 0 /\ lost = 0 /\ losses = 0
  /\ enabled = TRUE
  /\ cb = "idle"
  /\ sem = 0
  /\ pc = "capture"
  /\ toSend = 0
  /\ captured = 0
  /\ frame = [top |-> 0, bottom |-> 0]
  /\ view = [top |-> 0, bottom |-> 0]
  /\ calls = 0
  /\ running = FALSE
  /\ stopped = NotStopped

-----------------------------------------------------------------------------
(* PiCam::start and PiCam::stop. *)

\* Capture is switched on, the semaphore created, the pool's queue measured.
StartCapture ==
  /\ pc = "capture"
  /\ \/ pc' = "get" /\ sem' = 0 /\ toSend' = inPool
     \/ pc' = "thrown" /\ UNCHANGED <<sem, toSend>>
  /\ UNCHANGED <<poolVars, view, calls, running, stopped, enabled, cb, captured, frame>>

GetForPort ==
  /\ pc = "get"
  /\ toSend > 0
  /\ \/ inPool > 0 /\ inPool' = inPool - 1 /\ pc' = "send"
     \/ inPool = 0 /\ pc' = "thrown" /\ UNCHANGED inPool
  /\ UNCHANGED <<atPort, lost, losses, toSend, view, calls, running, stopped>>
  /\ UNCHANGED <<enabled, cb, sem, captured, frame>>

SendToPort ==
  /\ pc = "send"
  /\ \/ pc' = "get" /\ atPort' = atPort + 1 /\ toSend' = toSend - 1
     \/ pc' = "thrown" /\ UNCHANGED <<atPort, toSend>>
  /\ UNCHANGED <<inPool, lost, losses, view, calls, running, stopped>>
  /\ UNCHANGED <<enabled, cb, sem, captured, frame>>

\* running = true, even if stop has just cleared it.
StartLoop ==
  /\ pc = "get"
  /\ toSend = 0
  /\ pc' = "loop"
  /\ running' = TRUE
  /\ UNCHANGED <<poolVars, toSend, view, calls, stopped, enabled, cb, sem, captured, frame>>

\* Mutant: the loop does not look at running.
Bug_TestRunning ==
  /\ pc = "loop"
  /\ pc' = "wait"
  /\ UNCHANGED <<poolVars, toSend, view, calls, running, stopped, enabled, cb, sem, captured, frame>>

\* while(running)
TestRunning ==
  /\ pc = "loop"
  /\ pc' = IF running THEN "wait" ELSE "exited"
  /\ UNCHANGED <<poolVars, toSend, view, calls, running, stopped, enabled, cb, sem, captured, frame>>

\* vcos_semaphore_wait succeeds; callback(frame) is called.
WakeUp ==
  /\ pc = "wait"
  /\ sem > 0
  /\ sem' = sem - 1
  /\ pc' = "top"
  /\ calls' = calls + 1
  /\ UNCHANGED <<poolVars, toSend, view, running, stopped, enabled, cb, captured, frame>>

WaitFails ==
  /\ pc = "wait"
  /\ pc' = "loop"
  /\ UNCHANGED <<poolVars, toSend, view, calls, running, stopped, enabled, cb, sem, captured, frame>>

ReadTop ==
  /\ pc = "top"
  /\ pc' = "bottom"
  /\ view' = [view EXCEPT !.top = frame.top]
  /\ UNCHANGED <<poolVars, toSend, calls, running, stopped, enabled, cb, sem, captured, frame>>

\* The rest of process_frame works on a copy; then start looks at running again.
ReadBottom ==
  /\ pc = "bottom"
  /\ pc' = "loop"
  /\ view' = [view EXCEPT !.bottom = frame.bottom]
  /\ UNCHANGED <<poolVars, toSend, calls, running, stopped, enabled, cb, sem, captured, frame>>

\* stop: running = false
ClearRunning ==
  /\ pc # "thrown" /\ stopped = NotStopped
  /\ running' = FALSE
  /\ stopped' = calls
  /\ UNCHANGED <<poolVars, pc, toSend, view, calls, enabled, cb, sem, captured, frame>>

\* stop: the component and its port are disabled.
DisablePort ==
  /\ pc # "thrown" /\ stopped # NotStopped /\ enabled
  /\ enabled' = FALSE
  /\ UNCHANGED <<poolVars, startVars, cb, sem, captured, frame>>

-----------------------------------------------------------------------------
(* MMAL (external). *)

\* The camera fills a buffer and MMAL calls back with it.
BufferFilled ==
  /\ pc # "thrown" /\ cb = "idle" /\ atPort > 0 /\ enabled
  /\ captured < MaxFrames
  /\ captured' = captured + 1
  /\ atPort' = atPort - 1
  /\ cb' = "top"
  /\ UNCHANGED <<inPool, lost, losses, startVars, enabled, sem, frame>>

\* A buffer comes back with nothing in it; of a disabled port they all do.
BufferEmpty ==
  /\ pc # "thrown" /\ cb = "idle" /\ atPort > 0
  /\ atPort' = atPort - 1
  /\ losses' = losses + 1
  /\ cb' = "empty"
  /\ UNCHANGED <<inPool, lost, startVars, enabled, sem, captured, frame>>

-----------------------------------------------------------------------------
(* PiCam::video_buffer_callback. *)

Cb(from, to) ==
  /\ pc # "thrown"
  /\ cb = from
  /\ cb' = to
  /\ UNCHANGED <<startVars, enabled, captured>>

\* Mutant: the branch of an empty buffer does not return.
Bug_ReleaseEmpty ==
  /\ Cb("empty", "filled")
  /\ inPool' = inPool + 1
  /\ UNCHANGED <<atPort, lost, losses, sem, frame>>

\* An empty buffer is released, and none is sent to the port in its place.
ReleaseEmpty ==
  /\ Cb("empty", "idle")
  /\ inPool' = inPool + 1
  /\ UNCHANGED <<atPort, lost, losses, sem, frame>>

\* memcpy into PiCam::frame
CopyTop ==
  /\ Cb("top", "bottom")
  /\ frame' = [frame EXCEPT !.top = captured]
  /\ UNCHANGED <<poolVars, sem>>

\* Mutant: a third of the bytes is copied, as in the line commented out.
Bug_CopyBottom ==
  /\ Cb("bottom", "filled")
  /\ UNCHANGED <<poolVars, sem, frame>>

CopyBottom ==
  /\ Cb("bottom", "filled")
  /\ frame' = [frame EXCEPT !.bottom = captured]
  /\ UNCHANGED <<poolVars, sem>>

\* Mutant: the filled buffer is not given back to the pool.
Bug_ReleaseFilled ==
  /\ Cb("filled", "try")
  /\ UNCHANGED <<poolVars, sem, frame>>

ReleaseFilled ==
  /\ Cb("filled", "try")
  /\ inPool' = inPool + 1
  /\ UNCHANGED <<atPort, lost, losses, sem, frame>>

\* Mutant: nothing is sent to the port when the last frame is still waiting.
Bug_TryWait ==
  /\ \/ sem > 0 /\ Cb("try", "idle") /\ sem' = sem - 1
     \/ sem = 0 /\ Cb("try", "post") /\ UNCHANGED sem
  /\ UNCHANGED <<poolVars, frame>>

\* Mutant: the semaphore is posted for every frame.
Bug_AlwaysPost ==
  /\ Cb("try", "post")
  /\ UNCHANGED <<poolVars, sem, frame>>

\* vcos_semaphore_trywait takes the count of a frame start has not seen yet ...
TryWait ==
  /\ \/ sem > 0 /\ Cb("try", "resend") /\ sem' = sem - 1
     \/ sem = 0 /\ Cb("try", "post") /\ UNCHANGED sem
  /\ UNCHANGED <<poolVars, frame>>

\* ... and only when it fails is the semaphore posted.
Post ==
  /\ Cb("post", "resend")
  /\ sem' = sem + 1
  /\ UNCHANGED <<poolVars, frame>>

\* mmal_queue_get, if the port is still open
GetAnother ==
  /\ \/ enabled /\ inPool > 0 /\ Cb("resend", "send") /\ inPool' = inPool - 1
     \/ (~enabled \/ inPool = 0) /\ Cb("resend", "idle") /\ UNCHANGED inPool
  /\ UNCHANGED <<atPort, lost, losses, sem, frame>>

\* mmal_port_send_buffer; a buffer it refuses goes nowhere.
SendAnother ==
  /\ Cb("send", "idle")
  /\ \/ atPort' = atPort + 1 /\ UNCHANGED <<lost, losses>>
     \/ lost' = lost + 1 /\ losses' = losses + 1 /\ UNCHANGED atPort
  /\ UNCHANGED <<inPool, sem, frame>>

-----------------------------------------------------------------------------

StartNext ==
  \/ StartCapture \/ GetForPort \/ SendToPort \/ StartLoop
  \/ TestRunning \/ WakeUp \/ WaitFails \/ ReadTop \/ ReadBottom

StopNext == ClearRunning \/ DisablePort

MmalNext == BufferFilled \/ BufferEmpty

CallbackNext ==
  \/ ReleaseEmpty \/ CopyTop \/ CopyBottom \/ ReleaseFilled
  \/ TryWait \/ Post \/ GetAnother \/ SendAnother

Next == StartNext \/ StopNext \/ MmalNext \/ CallbackNext

Spec == Init /\ [][Next]_vars

-----------------------------------------------------------------------------
(* Properties. An exception that leaves start, pc = "thrown", ends the program. *)

One(condition) == IF condition THEN 1 ELSE 0

HeldByCallback == One(cb \in {"empty", "top", "bottom", "filled", "send"})
HeldByStart == One(pc = "send")

\* Every buffer header is in one place: the pool, the port, the hands of the
\* callback or of start, or refused by the port.
BuffersConserved ==
  pc # "thrown" => inPool + atPort + HeldByCallback + HeldByStart + lost = N

\* While start queues the buffers the callback gives and takes some already;
\* start finds as many in the pool as it has counted, and never throws for want
\* of one.
StartFindsBuffers == pc = "get" => inPool >= toSend

\* The callback finds a buffer to send: it has just released one, and start,
\* which takes buffers from the same queue, has left that many.
ResendFindsBuffer == pc # "thrown" /\ cb = "resend" => inPool > 0

\* Between two calls the camera has every buffer but those that came back empty
\* or were refused: nothing else starves it, however slow start is.
PortKeepsItsBuffers ==
  enabled /\ cb = "idle" /\ pc \in {"loop", "wait", "top", "bottom"} => atPort = N - losses

\* An image that process_frame reads while the callback overwrites it is torn,
\* but its bottom is at most one frame older than its top.
TearBound == pc \in {"loop", "wait"} => view.bottom >= view.top - 1

\* process_frame is called at most once for every frame captured.
OneCallPerFrame == pc # "thrown" => calls + sem <= captured

\* The stop of a camera whose loop has begun takes effect: process_frame may be
\* running or about to, and is called at most once more.
StopTakesEffect == ~running => calls <= stopped + 1

\* What PiCam.hpp says of callback, which is called with each frame: at least
\* start does not sleep on a whole frame it has not looked at.
NoSleepOnNewFrame ==
  enabled /\ losses = 0 /\ pc = "wait" /\ sem = 0 /\ cb = "idle" => view = frame

=============================================================================
