# TLA+ models of the Team 177 vision system (2014)

The repository holds the programs of an FRC robot: a vision system that finds
the hot goal, several robot programs, a dashboard, and tests of an encoder. The
part with state that is shared between threads, with hardware that is opened and
closed, and with messages that come and go is the vision system. The models
follow it: one module per component, checked by TLC on small instances, with
theorems that TLAPS proves for all instances.

All paths below are relative to `src/`.

## 1. Inventory

### 1.1 The Raspberry Pi vision program (`Vision/picam/`)

The program that ran in matches. One process, started at boot by an init script,
never restarted. The threads and what they share:

```
 robot --UDP 11177--> ReceiveThread --creates--> RecordThread --system()--> RecordMatch script
                          |  |                                                  (raspivid, shutdown)
                          |  +--creates, stops, deletes--+
                          |                              v
                          |           PiCamThread: PiCam::start <--frame_semaphore-- MMAL callback
                          |                              |
                          |                       process_frame
                          |                    img_mutex |  data_mutex + data_ready_cond
                          +-- saves -- write_img <-------+-------> data --> SendThread --UDP--> robot
                                           |
                         browser <-- WebThread
```

| Component | State it keeps | Operations | Interacts with |
|---|---|---|---|
| `main` (VisionServer.cpp) | the globals, thread handles | creates ReceiveThread, SendThread, PiCamThread, WebThread in that order, then `pthread_exit` | all threads |
| ReceiveThread (Receive.cpp) | last datagram, `rc`, `cam`, `recording` | A: end a recording, restart the camera, save an image; T: stop and delete the camera, record; S: shut down; R: exit | PiCam, RecordThread, `write_img` |
| RecordThread, `RecordMatch` | `recording`; the script | records 150 seconds of video, then halts the Pi | raspivid has the camera meanwhile |
| PiCam (PiCam.cpp/.hpp) | `running`, MMAL component, buffer pool, `frame`, `frame_semaphore` | constructor, `start` (the loop), `stop`, destructor, `video_buffer_callback` | MMAL threads, process_frame |
| process_frame (GetImages.cpp) | `write_img`, `data` | threshold, contours, orientation, verdict, publication | SendThread, WebThread, ReceiveThread |
| SendThread (Send.cpp) | - | waits for `data_ready_cond`, sends `data` | robot |
| WebThread (WebServer.cpp) | its socket | accept, read, encode `write_img`, answer | browsers |

### 1.2 The first vision program (`Vision/*.cpp`)

A predecessor that fetches images from the robot's network camera:
GetImagesThread (libcurl) stores an image in `img_buf` and sets `image_ready`;
the main thread (`process`, `RunServer`) waits for the flag, copies the image,
clears the flag and sends a result; ReceiveThread saves the next image on an A,
with a wait of at most five seconds. `img_mutex` and `image_ready_cond` tie the
three together.

### 1.3 The rest

* `Vision/CheesyVision/`: a TCP server in the robot program that counts bytes
  from a laptop that watches the drivers' hands. State: three counters and the
  two flags of the last byte, written by its own task (`Run`, `UpdateCounts`)
  and by the robot's (`Reset`); `_listening` and `_counting`, set by the robot;
  a heartbeat with a timeout. Its header is not in the repository.
* `EncoderTesting/`: `SmartEncoder`, a polled I2C encoder with a reset.
* `BobcatRobot2014/`, `2014 Pre season/`: Java robot programs; the first has a
  shifter that toggles on a button edge.
* `Vision/RPi_Config/vision`: the init script.
* `SendBroadcast.cpp`: sends one command datagram and exits.
* `LabVIEW/`, `Dashboard/`, `2011Robot/`: LabVIEW block diagrams, binary. Data,
  build products and images.

### 1.4 What is hard, and what makes each part correct

* **Who has the camera.** The camera can be open once: by one PiCam, or by
  raspivid. Three threads decide it through two unprotected globals, `cam` and
  `recording`, and a `killall` that does not wait. Correct: one holder at a time
  but for a raspivid that has been told to end, no start of a null or foreign
  object, no camera that nobody can stop any more, and a T that ends in the Pi
  being halted unless its script cannot be run.
* **Frames.** `start` and the callback draw from one queue of buffers, and share
  `frame` with no lock and a semaphore used as a flag. Correct: no buffer is
  lost, neither side finds the queue empty, a frame is processed once, and the
  image that is processed is as whole as the design can make it.
* **Results and pictures.** Two mutexes, one condition variable, two possible
  producers. Correct: whole datagrams and whole pictures, nobody starves.
* **The verdict.** Order of contours, limits of size and aspect ratio, ties,
  narrow counters. Correct: the two biggest of each orientation decide, and a
  flag is raised only for a reason that is in the picture.
* **The mailbox of the first program.** Flag, wait and broadcast must fit, with
  spurious wakeups and a second waiter with a timeout. A transfer from the
  network camera that breaks off must leave nothing in the string that the next
  one fills.
* **The counters of CheesyVision.** Two tasks write them and no lock orders the
  loads and stores. Correct: they are a tally of the bytes since the last reset,
  as long as no reset falls into the middle of a byte. The heartbeat must drop a
  client that has gone, and no other.

The full list, by line, is `hazards` in `PROJECT.json`; each entry names the
properties that would notice it going wrong or says why there is none.

## 2. Modules

| Module | Models | Run by | Proved in |
|---|---|---|---|
| `Match` | abstract: who has the camera in a match, stage by stage | as a property of `camera` | |
| `CameraLifecycle` | main, ReceiveThread's handlers, PiCamThread, PiCam as an object, RecordThread and its script, the Pi; implements `Match` | `camera`, `camera_live`, `camera_two`, `camera_restart` | `CameraLifecycleProofs`, `PacedCameraProofs`, `MatchProofs` |
| `FrameBuffer` | PiCam::start, stop and video_buffer_callback: buffers, semaphore, the image | `frames`, `frames_sleep` | `FrameBufferProofs` |
| `Board` | abstract: one image and one result, put up and looked at all at once | as a property of `results` | |
| `ResultChannel` | process_frame's publication, SendThread, the two readers of `write_img`; implements `Board` | `results`, `results_live`, `results_sleep` | `ResultChannelProofs` |
| `TargetScan` | process_frame's scan and verdict | `targets` | `TargetScanProofs` |
| `Mailbox` | abstract: a slot for one image | as a property of `monitor` | |
| `VisionMonitor` | the first vision program; implements `Mailbox` | `monitor` | `VisionMonitorProofs` |
| `Tally` | abstract: counters with an atomic count and an atomic reset | as a property of `cheesy` | |
| `CheesyVision` | the CheesyVision server; implements `Tally` | `cheesy` | `CheesyVisionProofs` |

Each `MC*` module is the instance TLC runs. Definitions named `Bug_*` are
mutants: plausible errors in the definition that follows them. They are not
part of `Next`; each property is tried against one to see that it can fail.

Conventions: `pc`, `picam`, `recvPc` and the like say at which statement a
thread is; an action is one step between two points at which another thread can
interfere (a mutex call, a read or write of something shared, a system call).
`alive`, or `proc`, is FALSE, or `"down"`, once the process has ended by `exit`,
a signal or an uncaught exception.

### 2.1 CameraLifecycle

`Recv*`, `Auto*` and `Tele*` are ReceiveThread's statements in the order of
`Receive.cpp` lines 37-107. `Construct`, `AssignCam`, `CallStart`, ... are
`cam = new PiCam(...)` and `cam->start()` of PiCamThread, taken apart where
`Receive.cpp` can come in between: the constructor, the assignment of `cam`, the
read of `cam` for the call, the body of `start`. A PiCam object is named after
the thread that constructed it. `TeleClearRunning`, `TeleCloseCamera`,
`TeleDelete` and `TeleClearCam` are `cam->stop(); delete cam; cam = NULL`.
`RecordBegins`, ... `RecordEnds` follow `RecordThread` and the script:
`recording = true`, `system()`, `raspivid`, `shutdown -h now`,
`recording = false`. The script is a process of its own and outlives the program.
Nobody looks at the result of a `system()`: the shell may not start, or find no
USB stick to write `/media/reclog` on, and then the thread goes from "launch" to
"failed" and clears the flag as if there had been a record (`SystemFails`); the
shutdown of an S may not run either (`ShutDown`). `killall raspivid` tells the
raspivid to end and does not wait: from "video" it goes to "told", still has the
camera, and ends in a step of its own (`VideoEnds`), while the A goes on to clear
the flag and to make a PiCam. Its script goes on then, to a `shutdown` that is
taken to work. `Boot`, `HaltCompletes`, `PowerCut` are the
computer. What cannot be seen in the code, an exception in the constructor, a
failing `pthread_create`, a method called on a deleted object, is a step that
may end the program (`ConstructThrows`, `AutoRestartFails`, `UsesDeleted`, ...).

UDP loses, repeats and reorders, and a failing `recvfrom` makes the handler obey
the last byte again (`ReceiveFails`), so a *hasty* robot's next command is any
command at any time. A *paced* robot sends a T only when every thread has come to
rest (`Settled`) and a camera is up, and an A only when all is at rest or the
camera is up already; S, R and other bytes it sends at any time. `pacing` is
chosen in `Init` and never changes, so one specification holds both.
`NoDanglingCam`, `AutoLeavesCamera` and the liveness properties hold for both; the
`Paced...` invariants and `ImplementsMatch` need the paced robot, and the runs
`camera_two` and `camera_restart` show what goes wrong when it is hasty and what
goes wrong even when it is not.

What the paced properties leave out: an A while the first PiCam is being
constructed (`Receive.cpp:60`), a T while a PiCam is being assigned or started, or
before there is one (lines 96-98), and an A and a T between the return of
`system()` and line 16. The program has no protection in these windows; the model
has their outcomes, under the hasty robot, and `hazards` says of each that no
property stands for it. What the paced robot does not take away is what happens
between its own commands: main's start-up, a raspivid that has been told to end
and has not, a script that fails or shuts the Pi down, an S at any moment, a
repeated A, exceptions and the power switch.

`Match` says what a paced robot gets, as a refinement: the camera sees, a T stops
it, it records or the recorder fails; if the script could not be run at all, the
next A lets the camera see as before; else an A tells the recorder to leave and
lets the camera see again, once. Each user opens the camera when nobody has it
but users that have been told to leave, which is all that the code ensures: that
raspivid is gone by then it does not. The match may be over at any time.
`Stage` reads the stage off the objects and the records: a PiCam that is open is
the camera seeing, one that has been stopped means that a T has passed, a script
whose raspivid has been told to end, or has ended, means that the record is over.
All is over while the Pi is off or halting or the program is down: a recorder that
runs on then is nobody's business in a match any more, and neither is what a hasty
robot gets. After a script has run there is no second record, because it halts the
Pi before the robot's next T (`Settled`).

Bounds: `CamThreads` and `RecThreads` are the threads that can be created before
the power is switched off; `Room` refuses a command that would need more.
Two PiCam threads are main's and a restart, or two restarts that meet; two
record threads are a T that meets a T, or a T after one whose script failed.

### 2.2 FrameBuffer

Counts of buffer headers (`inPool`, `atPort`, `lost`), the callback (`cb`: empty
or filled buffer, the two halves of the copy, release, trywait/post, resend) and
`start` (`pc`: the capture request, the first loop of gets and sends, the wait,
process_frame's read in two halves). MMAL calls the callback one buffer at a
time. `frame.top` and `frame.bottom` are the numbers of the frames whose pixels
are in `PiCam::frame`; two halves stand for any number of rows, since only the
difference between what is overwritten and what is not yet matters.
`ClearRunning` and `DisablePort` are
`stop`, called by another thread at any time: it clears `running`, which `start`
looks at before it waits for a frame (`TestRunning`), and disables the port. What
follows, the deletion of the object, is in `CameraLifecycle`. `WaitFails` is a
`vcos_semaphore_wait` that does not succeed, after which `start` tries again.
`stopped` remembers how many frames had been processed when `running` was
cleared: `StopTakesEffect` says that at most one more is, if the loop had begun
(a `stop` before that is undone by `running = true`).

Bounds: N = 3 is `VIDEO_OUTPUT_BUFFERS_NUM`, which the constructor replaces by the
number MMAL recommends (`PiCam.cpp:134`); the theorems hold for any N. `MaxFrames`
= 5 lets the callback lap `start` twice. The model stops after the last frame, so deadlock is not
checked in its runs.

### 2.3 ResultChannel

The producers take a frame, write `write_img` under `img_mutex` and `data` under
`data_mutex`, in two halves each, broadcast and unlock. SendThread locks, waits,
sends and unlocks; ReceiveThread copies and writes a file inside the mutex, or
not, according to the uninitialized `rc`; WebThread tests for an empty image,
copies, unlocks, answers. Before that it opens its socket and tries to bind it,
again and again and perhaps for ever (`WebOpens`, `WebBinds`). Errors that end
the program or WebThread are steps.
`unsent` is a history variable.

`Board` is what the threads get from all this: an image is put up at once, its
result follows once, and a reader's copy and a datagram are what was up at one
instant. In the mapping an image that is half written is not yet up (`Shown`), a
copy half made is not yet taken, and a producer owes the result from the last
half of the image to the last half of the result. Two producers may overtake each
other between the two, so the image and the result that are up need not be of
one frame: `Board` does not promise it, and neither does the code. What it adds
to `PicturesWhole` and `DatagramsWhole` is that each image has its result and
that what is copied was there.

Bounds: two producers (an A during the life of another PiCam thread makes a
second) and two frames, enough to tell a mixed image from a whole one. The
liveness run has one producer, because its properties are about waiting, and
no symmetry, which liveness does not allow.

### 2.4 TargetScan

`contours` is any sequence of contours; a step of `Scan` is one pass of the
loop, `Decide` the verdict with its cases by number of rectangles, `Publish` the
conversion of counts to `uint8_t`. The first program has the same text in its
`process`, which goes on to return the number of contours as an `int8_t`: that is
`Return`, with `Signed` for the conversion. `Horizontal` and `Vertical` are the float
comparisons with doubles, which include the lower limit 0.1 and exclude 0.6 and
2. Contours have numbers, so equal ones are told apart.

Bounds: every sequence of up to four of sixteen contours: both orientations at
several places, two areas, one too small by one, three at limits of the aspect
ratio. Four is the least number at which every case of the verdict occurs and
something is dropped; `Byte` = 4 makes the counter overflow within that length.

### 2.5 Mailbox and VisionMonitor

`Mailbox` says what the threads owe each other: images are put and taken,
a new one replaces one that was not taken, no image is taken twice or out of
order, and one that waits is taken. `VisionMonitor` is the code: lock, decode,
flag, broadcast, unlock; lock, test, wait, relock, test again, copy, clear,
unlock, send; and ReceiveThread with its timed wait. `ClearData` empties the string that
libcurl fills; `writeCallback` appends one piece of a transfer; `FetchFails` is a
transfer that breaks off, with whatever has arrived of it in the string.
`OneTransferDecoded` compares what is decoded with what the last transfer has
brought. The refinement mapping
(`Slot`, `Put`, and the history variable `copies` as the number of takes): the
slot holds `img_buf` while `image_ready` is set, until the
copy, which is the *take*, although the flag is cleared a statement later. The
*put* is the flag for an image that finds none waiting, and already the decoding
for one that replaces one, since the flag is still set then.

Bounds: four images are enough for one to be overwritten before, during and
after the processing of another; two pieces are enough for a transfer to break
off half way. `WriteFails` and `SendFails` stand for OpenCV's
exceptions on an image that could not be decoded and for a failing `sendto`.

### 2.6 Tally and CheesyVision

`Tally` says what the robot may rely on: each byte that arrives while counting is
on adds one to the total and at most one to each side, all at once, and a reset
zeroes all three at once. `CheesyVision` is the code. `TestListening`, `Accept`,
`CheckHeartbeat`, `ReadByte`, ..., `SleepAfterDrop` are the statements of `Run`;
`TestCounting`, `LoadCount` and `StoreCount` are `UpdateCounts`, where each `++`
is a load and a store; `ResetLeft`, `ResetCount` and `ResetStatus` are the five
stores of `Reset`. `SetFlags` stands for the setters of the missing header,
`StreamEnds` for the laptop or the network, `Tick` for the clock.

The mapping (`Seen`) shows a reset from its first store, and a byte from the
test of `_counting` (`ToCome` adds what has still to be stored). The history
variable `raced` remembers whether a reset has overlapped the counting of a
byte: then a counter can keep a value that was to be zeroed, and `Tally` promises
nothing until a reset that overlaps no byte. That the promise lapses at all is a
fault of the code, listed under `hazards`; that nothing else makes it lapse, and
that one clean reset repairs everything, is what the run checks.

Time passes only while `read` waits, and by the two sleeps: all else takes no
time that counts in seconds. `Timeout` = 3 and `Pause` = 50 are the program's own
numbers. "wait for a bit and read some more"
(`CheesyVisionServer.cpp:49`) stands at the end of the stream, but the sleep is
longer than the timeout, so the client is dropped and never read from again; this
is also why `GoneClientDropped` holds although the end of the stream does not
leave the loop. `GetInstance` and `HasClientConnection` do not change this state.

Bounds: `MaxCount` = 2, so that a count is lost or survives a reset that meets it
in the first byte or in the second, and both sides and the total differ.

## 3. Runs

| Run | Asks | Shows |
|---|---|---|
| `camera` | who has the camera | `NoDanglingCam` and `AutoLeavesCamera` for every robot; under a paced one a single holder besides a raspivid told to end, each thread starting its own open camera, no orphan, a truthful `recording`, and the camera passed on in the order of `Match` |
| `camera_live` | what T and a recording lead to | both end with the Pi off, under any robot: a T unless the program dies or `system()` fails, a recording in any case |
| `camera_two` | is there only one PiCam | no: finding 1 |
| `camera_restart` | does A restart the camera | no, after a T the Pi still halts: finding 2 |
| `frames` | buffers and frames | no buffer lost, neither side finds the queue empty, tear bound, at most one call per frame, at most one more after `stop` |
| `frames_sleep` | is every frame processed | no: finding 3 |
| `results` | mutexes and contents | whole pictures and datagrams, no empty image served, no deadlock; the writes and copies implement `Board` |
| `results_live` | does everybody go on | datagrams, frames and answers keep coming |
| `results_sleep` | does the wait wait for data | no, a broadcast can be missed: finding 4 |
| `targets` | the scan and the verdict | the two biggest decide, the flags have a reason, counts are right up to the byte in both programs |
| `monitor` | does the first program implement the mailbox | yes, safety and liveness; every A is answered; no image is made of two transfers |
| `cheesy` | are the counters a tally; whom does the timeout drop | yes, but for a reset in the middle of a byte; the clients that have gone and no other |

Fairness. All specifications assume that the scheduler runs a thread that can
run (weak fairness of its own steps), that raspivid ends, that a shutdown
completes and that five seconds pass. Threads that compete for a mutex get it in
the end if it is free again and again (strong fairness of the lock steps): Linux
mutexes are not fair, but each thread does work outside of the mutex that takes
much longer than the critical section. Nothing is assumed of the robot, the
network, the camera's frames (except in `results_live`, where the producers take
frames as long as the camera delivers them), of browsers, of spurious
wakeups, of errors or of the power switch. In `cheesy` only the task of the
server is fair: the client may be silent for ever, and then `read` waits for ever.

### Findings

1. `OneCameraAtATime` (`Vision/picam/Receive.cpp:60`). `PiCam.hpp:29` says that
   "There should probably only ever be one of these at a time". `cam` is still
   NULL while the first PiCam is being constructed; an A then makes another.
2. `RestartIsNotShutDown` (`Receive.cpp:57`). "restart the camera if it was
   stopped" (`Receive.cpp:61`). `killall raspivid` makes `RecordMatch` go on to
   `shutdown -h now`: the Pi is halted under the camera just restarted, even with
   a paced robot.
3. `NoSleepOnNewFrame` (`PiCam.cpp:34`). "Callback function that processes each
   frame." (`PiCam.hpp:56`). A `trywait` that succeeds takes the count and posts
   nothing: after two frames in a row `start` sleeps on a frame nobody has seen.
   Frames are lost in pairs and the delay is one frame, no more.
4. `NoSleepOnData` (`Send.cpp:40`). "Wait for data to be available"
   (`Send.cpp:39`). The wait has no predicate, so a result that is broadcast
   while SendThread sends is not sent. The first program shows the right form.

## 4. Proofs

Each `*Proofs` module proves `Init => IInv`, `IInv /\ [Next]_vars => IInv'` and
`IInv =>` the property, by action, and concludes by PTL. The assumptions are
those of the modules on their constants (`NoCamAssumption`, `ThreadsAssumption`,
...): threads, frames and the null value are different things. TLC evaluates
them. Nothing is assumed of sizes, so the theorems hold for any number of
threads, buffers, frames, images and contours.

| Module | Theorems | The invariant, and why it is needed |
|---|---|---|
| `CameraLifecycleProofs` | `TypeCorrect`, `CamNeverDangles`, `AutoBringsCamera`, `ScriptNeverAbandoned`, `TeleopNeverForgotten` | `NoDanglingCam` does not say that the object being published by `AssignCam` is alive. The invariant adds that an object is unborn before its thread publishes it, that `cam` and the object being stopped are published ones, and that a new process starts from nothing. `AutoInv` is inductive relative to it: the T handler is not reached with an A in `inbuf`, and before the first datagram main's camera is the one. The last two are action properties: a T that is being obeyed goes on until its record thread is there, a record until the Pi is halted, and a script's power-off stays owed, whoever acts; a `system()` that fails is the only way out besides the end of the program. |
| `PacedCameraProofs` | `OneHolder`, `OwnCameraCalled`, `NoCameraOrphaned`, `RecordingFlagRight` | What a paced robot may rely on. `CameraInv`: one thread at most is between its creation and its loop (`Early`); ReceiveThread is then in no T, and an A that is before its use of `cam` finds it assigned; `cam` and the object belong to that thread from the assignment on. `StartInv`: before main has created the threads there is nothing to hold. `RecordInv`: a record starts alone and when nobody has or makes a camera, and while somebody does, no raspivid records that has not been told to end. Each part needs the others: an A makes a camera only because nobody is early, and that a T finds no recorder needs the camera it stops. |
| `MatchProofs` | `OneRecordAtATime`, `CameraRefinement` | `MatchInv`, relative to the invariants above: one record at most is under way; a T meets only records whose script could not be run; no script ends before the Pi halts; and once a T has come that far, or a record thread exists, some PiCam has been stopped. It tells the stages apart: without it a camera that opens could do so in a stage in which the record is still to come. `CameraRefinement` maps each step to a step of `Match` or a stutter, by action; `RecordMeansStopped` and `EarlyMeansNoRecord` say what one actor's state implies of the others'. |
| `FrameBufferProofs` | `Conservation`, `PoolSuffices`, `PortFed`, `TornByOne`, `CallsBounded`, `StopBounded` | Conservation needs nothing; that the queue is never found empty needs the buffers that each side still has a claim on (`Reserved`), the semaphore's bound needs the calls still to come (`ToCome`), and the tear bound where in its copy the callback is. `StopBounded` needs that after `stop` a `start` that has not yet seen `running` cleared has processed no more than it had then. |
| `ResultChannelProofs` | `TypeCorrect`, `OneFramePerDatagram`, `OneFramePerPicture`, `NothingEmptyServed`, `Refinement`, `NoHoldAndWait` | `MutexInv`: who is between lock and unlock is the holder. `ResultInv` and `ImageInv`: what is whole when nobody is writing, and what the writer has done so far. `ServesSomething` is inductive relative to these. `WorkInv`: a producer on its way has a frame, so what it owes on the board is never nothing. `Refinement` follows each thread: a step within a write or a copy shows nothing, its last half shows all of it. `NoHoldAndWait` is read off `MutexInv`: no thread that holds a mutex is at a statement at which it waits. |
| `TargetScanProofs` | `TypeCorrect`, `KeepsTwoBiggest`, `BothHotNeedsFour`, `SidesRight`, `TotalSent` | `TwoBiggest` is inductive with the types; a lemma says what one pass does to any two biggest rectangles, for both orientations alike. `Undecided` keeps the flags down until the verdict. `Sides` and the lemma `Extremes` relate the verdict's leftmost and rightmost rectangle to the ones that were kept, case by case; `CountInv` says that the count is the number of big enough contours seen. |
| `VisionMonitorProofs` | `TypeCorrect`, `NoLostWakeup`, `NoMixedTransfer`, `Refinement`, `NewestImageKept` | `Exclusion` (a thread in its critical section holds the mutex, so there is one) and `Consistent` (the newest image is `img_buf`, it waits or has been copied). `Refinement` maps each step to a step or a stutter of `Mailbox`; `NewestImageKept` carries the abstract invariant over. `Transfer`: between the clearing of the string and the decoding it holds what has arrived of one transfer. |
| `CheesyVisionProofs` | `TypeCorrect`, `OpenStreamSpared`, `Refinement` | `TimeInv`: the heartbeat is fresh whenever the loop tests it after a read that brought a byte. `BoundInv`: no counter gains more than one for a byte, which needs where in `UpdateCounts` the server is. `RaceInv`: as long as no reset has overlapped a byte, a loaded value is still the counter's, and a reset that is under way has zeroed what it has passed. `Refinement` then maps each step to `Count`, `Reset` or a stutter. |

Only model-checked: the liveness properties, and the fairness part of
`ImplementsMailbox` (TLAPS 1.4 does not reason about ENABLED). Of the two that
`camera_live` checks the safety half is proved: `ScriptNeverAbandoned` and
`TeleopNeverForgotten` say that what leads to the power-off is never lost, so
that only the scheduler's part, that it is not left undone for ever, is TLC's.
All invariants of the passing runs, and the refinements of `Match`, `Board` and
`Tally`, are proved. The action property of `camera_restart` and the invariants of
the other three runs that find a disagreement are refuted by TLC. Induction over
data is out of the prover's reach too, but no theorem here needs it: the scan is
followed pass by pass.

## 5. Not modelled

* Image processing (`inRange`, erosion, dilation, `findContours`, JPEG): pure
  functions of an image in libraries; `TargetScan` takes their result as input.
* DEBUG and GUI builds, timing output, messages.
* `pthread_cond_wait` returning an error: it does so only for a mutex that is not
  held.
* Threads and functions that run off their end without a return value: nobody
  looks at the value.
* The socket set-up of SendThread: it succeeds or the program exits, before there
  is anything to send.
* The init script's `stop`, which kills a program by a name that is not the one
  it started, and `restart`, which it refuses: neither changes anything.
* `SmartEncoder`: one thread polls the chip and is the only writer of its fields;
  `reset`, which would be a second one, is never called. What is left is the
  decoding of two bytes, where the low one is taken with its sign; it is listed
  under `hazards`, and nothing in the repository promises otherwise.
* The 2014 robot program: one thread that toggles a solenoid when a button goes
  down, in a few sequential lines. It reads the button twice in a period (listed
  under `hazards`), and its comment gives it as button 3 where the code reads 1
  (`RobotTemplate.java:27`).
* The pre-season robot program keeps no state of its own. `SendBroadcast` sends
  one datagram and exits; it is a source of `Receive` in `CameraLifecycle`.
* In CheesyVision, the getters and the header's setters: the header is missing.
  Reading the counters is not an action, since it changes nothing; what a reader
  can find is what the mapping to `Tally` is about.
* LabVIEW and Dashboard: binary files.

## 6. Plan

Done, in this order: `CameraLifecycle` (the camera is what the match depends
on), `FrameBuffer`, `ResultChannel`, `TargetScan`, `Mailbox` with
`VisionMonitor`, `Tally` with `CheesyVision`; `stop` in `FrameBuffer`, WebThread's
bind, the first program's `int8_t` and its transfers; proofs of every invariant
of the passing runs; `Match` and `Board`, with the proofs of their refinement.
What could be added:

1. A composition of `FrameBuffer` with `CameraLifecycle`: a callback that is under
   way while its object is deleted. Now `CameraLifecycle` lets a deleted object
   end the program (`UsesDeleted`) and `FrameBuffer` ends with the disabled port.
2. An abstract specification of the frame path, for `FrameBuffer` to implement:
   which frames process_frame gets and in which order.
3. Proofs that the refinement of `Mailbox` keeps its fairness, with a prover that
   reasons about ENABLED.
