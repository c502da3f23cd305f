--------------------------- MODULE CameraLifecycle ---------------------------
(***************************************************************************)
(* The life of the camera in the Raspberry Pi vision program (Vision/picam):*)
(* which thread opens it, runs it, stops it and deletes it, who records     *)
(* with it instead, and what the Pi itself does meanwhile.                  *)
(*                                                                         *)
(*   main            starts the threads, ReceiveThread before the camera's *)
(*   ReceiveThread   obeys the robot's datagrams: A (autonomous), T        *)
(*                   (teleop), S (shut down) and R (exit)                  *)
(*   PiCamThread     constructs a PiCam, publishes it in the global cam,   *)
(*                   and runs its frame loop; one instance at start-up and *)
(*                   one for every A that finds cam NULL                   *)
(*   RecordThread    runs the RecordMatch script; one for every T          *)
(*                                                                         *)
(* A PiCam object is named after the thread that constructed it.           *)
(***************************************************************************)
EXTENDS Naturals, FiniteSets

CONSTANTS
  CamThreads,  \* the PiCam threads that one run of the program may create
  RecThreads,  \* the record threads that one power-up may create
  NoCam        \* the NULL of the pointers to PiCam objects

ASSUME NoCamAssumption == NoCam \notin CamThreads

\* A thread runs PiCamThread or RecordThread.
ASSUME ThreadsAssumption == CamThreads \cap RecThreads = {}

Commands == {"A", "T", "S", "R"}

VARIABLES
  pi,         \* the computer: "off", "on", or "halting" once shutdown has run
  pacing,     \* how the robot sends: "paced" or "hasty", see Receive
  proc,       \* the vision program: "up" or "down"
  mainPc,     \* the thread main creates next, "gone" after its pthread_exit
  recvPc,     \* where ReceiveThread is
  inbuf,      \* the first byte of the last datagram
  target,     \* the object PiCam::stop is working on
  cam,        \* the global pointer: a PiCam object or NoCam
  picam,      \* picam[t]: where PiCamThread t is
  self,       \* self[t]: the object whose start() PiCamThread t is running
  object,     \* object[t]: "unborn", "open", "stopped" or "deleted"
  running,    \* running[t]: the flag of object t that its loop tests
  recording,  \* the global flag shared by RecordThread and ReceiveThread
  rec         \* rec[r]: where RecordThread r and its script are

hostVars == <<pi, pacing, proc, mainPc>>
recvVars == <<recvPc, inbuf, target>>
camVars == <<picam, self, object, running>>
recVars == <<recording, rec>>
vars == <<hostVars, recvVars, cam, camVars, recVars>>

TypeOK ==
  /\ pi \in {"off", "on", "halting"}
  /\ pacing \in {"paced", "hasty"}
  /\ proc \in {"up", "down"}
  /\ mainPc \in {"recv", "send", "picam", "web", "gone"}
  /\ recvPc \in {"none", "bind", "recv", "auto", "kill", "clear", "camera", "save",
                 "stop", "close", "delete", "null", "record", "halt", "exit"}
  /\ inbuf \in Commands \cup {"other"}
  /\ target \in CamThreads \cup {NoCam}
  /\ recvPc \in {"close", "delete"} => target # NoCam
  /\ cam \in CamThreads \cup {NoCam}
  /\ picam \in [CamThreads -> {"unused", "construct", "assign", "call", "start",
                               "run", "loop", "wait", "frame", "exited"}]
  /\ self \in [CamThreads -> CamThreads \cup {NoCam}]
  /\ object \in [CamThreads -> {"unborn", "open", "stopped", "deleted"}]
  /\ running \in [CamThreads -> BOOLEAN]
  /\ recording \in BOOLEAN
  /\ rec \in [RecThreads -> {"unused", "created", "launch", "video", "told", "halt",
                             "return", "failed", "done"}]

Init ==
  /\ pi = "off"
  /\ pacing \in {"paced", "hasty"}
  /\ proc = "down"
  /\ mainPc = "gone"
  /\ recvPc = "none" /\ inbuf = "other" /\ target = NoCam
  /\ cam = NoCam
  /\ picam = [t \in CamThreads |-> "unused"]
  /\ self = [t \in CamThreads |-> NoCam]
  /\ object = [t \in CamThreads |-> "unborn"]
  /\ running = [t \in CamThreads |-> FALSE]
  /\ recording = FALSE
  /\ rec = [r \in RecThreads |-> "unused"]

\* The program's memory and its threads are gone.
ProcessGone ==
  /\ proc' = "down"
  /\ mainPc' = "gone"
  /\ recvPc' = "none" /\ inbuf' = "other" /\ target' = NoCam
  /\ cam' = NoCam
  /\ picam' = [t \in CamThreads |-> "unused"]
  /\ self' = [t \in CamThreads |-> NoCam]
  /\ object' = [t \in CamThreads |-> "unborn"]
  /\ running' = [t \in CamThreads |-> FALSE]
  /\ recording' = FALSE

\* The program exits or is killed by a signal. A RecordMatch script that is
\* already running is a process of its own and goes on; one that is being
\* launched may be running, and then its raspivid is still to come.
ProcessEnds ==
  /\ ProcessGone
  /\ \E orphans \in SUBSET {r \in RecThreads : rec[r] = "launch"} :
       rec' = [r \in RecThreads |->
                 IF rec[r] \in {"unused", "video", "told", "halt"} THEN rec[r]
                 ELSE IF r \in orphans THEN "video" ELSE "done"]
  /\ UNCHANGED <<pi, pacing>>

-----------------------------------------------------------------------------
(* The computer. *)

\* The boot sequence runs the init script, which starts the program; inbuf is
\* an uninitialized local of ReceiveThread.
Boot ==
  /\ pi = "off"
  /\ pi' = "on"
  /\ proc' = "up"
  /\ mainPc' = "recv"
  /\ inbuf' \in Commands \cup {"other"}
  /\ UNCHANGED <<pacing, recvPc, target, cam, camVars, recVars>>

PowersOff ==
  /\ pi' = "off"
  /\ ProcessGone
  /\ rec' = [r \in RecThreads |-> "unused"]
  /\ UNCHANGED pacing

\* A shutdown command takes effect.
HaltCompletes == pi = "halting" /\ PowersOff

\* The robot is switched off.
PowerCut == pi = "on" /\ PowersOff

-----------------------------------------------------------------------------
(* main: the threads are created in this order, then main exits alone. *)

Unused == {t \in CamThreads : picam[t] = "unused"}

\* pthread_create of a PiCamThread succeeds.
NewCamThread == \E t \in Unused : picam' = [picam EXCEPT ![t] = "construct"]

\* Mutant: the second call creates a PiCamThread too.
Bug_MainCreates ==
  /\ proc = "up"
  /\ \/ mainPc = "recv" /\ mainPc' = "send" /\ recvPc' = "bind" /\ UNCHANGED picam
     \/ mainPc = "send" /\ mainPc' = "picam" /\ NewCamThread /\ UNCHANGED recvPc
     \/ mainPc = "picam" /\ mainPc' = "web" /\ NewCamThread /\ UNCHANGED recvPc
     \/ mainPc = "web" /\ mainPc' = "gone" /\ UNCHANGED <<recvPc, picam>>
  /\ UNCHANGED <<pi, pacing, proc, inbuf, target, cam, self, object, running, recVars>>

MainCreates ==
  /\ proc = "up"
  /\ \/ mainPc = "recv" /\ mainPc' = "send" /\ recvPc' = "bind" /\ UNCHANGED picam
     \/ mainPc = "send" /\ mainPc' = "picam" /\ UNCHANGED <<recvPc, picam>>
     \/ mainPc = "picam" /\ mainPc' = "web" /\ NewCamThread /\ UNCHANGED recvPc
     \/ mainPc = "web" /\ mainPc' = "gone" /\ UNCHANGED <<recvPc, picam>>
  /\ UNCHANGED <<pi, pacing, proc, inbuf, target, cam, self, object, running, recVars>>

\* pthread_create fails: exit(-1).
MainFails == proc = "up" /\ mainPc # "gone" /\ ProcessEnds

-----------------------------------------------------------------------------
(* ReceiveThread. *)

Recv(from, to) ==
  /\ recvPc = from
  /\ recvPc' = to
  /\ UNCHANGED <<pacing, proc, mainPc>>

\* socket and bind.
ReceiveBinds ==
  /\ Recv("bind", "recv")
  /\ UNCHANGED <<pi, inbuf, target, cam, camVars, recVars>>

\* Or one of them fails: exit(1), or the assertion on bind.
ReceiveBindFails == recvPc = "bind" /\ ProcessEnds

\* The first step of the handler of each datagram; any other byte is ignored.
Handler(c) ==
  CASE c = "A" -> "auto" [] c = "T" -> "stop" [] c = "S" -> "halt"
    [] c = "R" -> "exit" [] OTHER -> "recv"

\* Every thread the last commands asked for has come to its steady state: the
\* frame loop, raspivid recording, or its end. A raspivid that has been told to
\* end, and a script that is about to shut the Pi down, have not.
Settled ==
  /\ mainPc = "gone"
  /\ \A t \in CamThreads : picam[t] \notin {"construct", "assign", "call", "start", "run"}
  /\ \A r \in RecThreads : rec[r] \notin {"created", "launch", "told", "halt", "return", "failed"}

\* Bound: a command is received while there are identities left for the
\* threads that it, and main, may create.
Room(c) ==
  /\ c = "A" /\ cam = NoCam =>
       Cardinality(Unused) > (IF mainPc \in {"recv", "send", "picam"} THEN 1 ELSE 0)
  /\ c = "T" => \E r \in RecThreads : rec[r] = "unused"

\* recvfrom returns a datagram. UDP loses, repeats and reorders, so a hasty
\* robot's next datagram is any command at any time. A paced robot sends T only
\* when everything has settled and there is a camera to stop, and A only when
\* everything has settled or there is a camera already; the rest at any time.
Receive(c) ==
  /\ Recv("recv", Handler(c))
  /\ pacing = "paced" => /\ c = "T" => Settled /\ cam # NoCam
                         /\ c = "A" => Settled \/ cam # NoCam
  /\ Room(c)
  /\ inbuf' = c
  /\ UNCHANGED <<pi, target, cam, camVars, recVars>>

\* recvfrom fails with -1, which is not 0: the previous byte is obeyed again.
ReceiveFails ==
  /\ Recv("recv", Handler(inbuf))
  /\ pacing = "hasty"
  /\ Room(inbuf)
  /\ UNCHANGED <<pi, inbuf, target, cam, camVars, recVars>>

\* A: if(recording)
AutoReadRecording ==
  /\ Recv("auto", IF recording THEN "kill" ELSE "camera")
  /\ UNCHANGED <<pi, inbuf, target, cam, camVars, recVars>>

\* Mutant: raspivid is left running.
Bug_KillNothing ==
  /\ Recv("kill", "clear")
  /\ UNCHANGED <<pi, inbuf, target, cam, camVars, recVars>>

\* Mutant: the script is killed with its raspivid.
Bug_KillScript ==
  /\ Recv("kill", "clear")
  /\ rec' = [r \in RecThreads |-> IF rec[r] = "video" THEN "return" ELSE rec[r]]
  /\ UNCHANGED <<pi, inbuf, target, cam, camVars, recording>>

\* A: killall raspivid tells each raspivid to end and does not wait for it, so
\* until VideoEnds it still has the camera. Whether killall could be run is not
\* looked at; a raspivid that it has not reached ends too, in its own time.
AutoKillRecorder ==
  /\ Recv("kill", "clear")
  /\ rec' = [r \in RecThreads |-> IF rec[r] = "video" THEN "told" ELSE rec[r]]
  /\ UNCHANGED <<pi, inbuf, target, cam, camVars, recording>>

\* A: recording = false
AutoClearRecording ==
  /\ Recv("clear", "camera")
  /\ recording' = FALSE
  /\ UNCHANGED <<pi, inbuf, target, cam, camVars, rec>>

\* Mutant: the camera is restarted whether it was stopped or not.
Bug_AutoRestartCamera ==
  /\ Recv("camera", "save")
  /\ NewCamThread
  /\ UNCHANGED <<pi, inbuf, target, cam, self, object, running, recVars>>

\* Mutant: the camera is restarted only if there is one.
Bug_RestartNothing ==
  /\ Recv("camera", "save")
  /\ \/ cam # NoCam /\ NewCamThread
     \/ cam = NoCam /\ UNCHANGED picam
  /\ UNCHANGED <<pi, inbuf, target, cam, self, object, running, recVars>>

\* A: restart the camera if cam is NULL
AutoRestartCamera ==
  /\ Recv("camera", "save")
  /\ \/ cam = NoCam /\ NewCamThread
     \/ cam # NoCam /\ UNCHANGED picam
  /\ UNCHANGED <<pi, inbuf, target, cam, self, object, running, recVars>>

\* A: or pthread_create fails: exit(-1)
AutoRestartFails == recvPc = "camera" /\ cam = NoCam /\ ProcessEnds

\* A: write_img is saved to a file under img_mutex, which changes nothing here.
AutoSaveImage ==
  /\ Recv("save", "recv")
  /\ UNCHANGED <<pi, inbuf, target, cam, camVars, recVars>>

\* Mutant: stop() of a NULL camera goes unnoticed.
Bug_TeleClearRunning ==
  /\ Recv("stop", "close")
  /\ target' = cam
  /\ running' = [t \in CamThreads |-> t # cam /\ running[t]]
  /\ UNCHANGED <<pi, inbuf, cam, picam, self, object, recVars>>

\* T: cam->stop() begins with running = false.
TeleClearRunning ==
  /\ Recv("stop", "close")
  /\ cam # NoCam
  /\ target' = cam
  /\ running' = [running EXCEPT ![cam] = FALSE]
  /\ UNCHANGED <<pi, inbuf, cam, picam, self, object, recVars>>

\* T: with cam NULL that write is a segmentation fault.
TeleStopsNull == recvPc = "stop" /\ cam = NoCam /\ ProcessEnds

\* T: stop() disables and destroys the component, the port and the pool.
TeleCloseCamera ==
  /\ Recv("close", "delete")
  /\ object' = [object EXCEPT ![target] = "stopped"]
  /\ UNCHANGED <<pi, inbuf, target, cam, picam, self, running, recVars>>

\* T: delete cam, which reads the global again. The destructor destroys the
\* component of an object that another thread has assigned meanwhile.
TeleDelete ==
  /\ Recv("delete", "null")
  /\ object' = [t \in CamThreads |-> IF t = cam THEN "deleted" ELSE object[t]]
  /\ UNCHANGED <<pi, inbuf, target, cam, picam, self, running, recVars>>

\* Mutant: cam keeps the address of the deleted camera.
Bug_TeleClearCam ==
  /\ Recv("null", "record")
  /\ target' = NoCam
  /\ UNCHANGED <<pi, inbuf, cam, camVars, recVars>>

\* T: cam = NULL
TeleClearCam ==
  /\ Recv("null", "record")
  /\ target' = NoCam
  /\ cam' = NoCam
  /\ UNCHANGED <<pi, inbuf, camVars, recVars>>

\* T: a record thread is created
TeleRecord ==
  /\ Recv("record", "recv")
  /\ \E r \in RecThreads : rec[r] = "unused" /\ rec' = [rec EXCEPT ![r] = "created"]
  /\ UNCHANGED <<pi, inbuf, target, cam, camVars, recording>>

\* T: or pthread_create fails: exit(-1)
TeleRecordFails == recvPc = "record" /\ ProcessEnds

\* S: the shutdown command is run, or cannot be, which is not looked at, and the
\* thread goes back to recvfrom.
ShutDown ==
  /\ Recv("halt", "recv")
  /\ pi' \in {pi, "halting"}
  /\ UNCHANGED <<inbuf, target, cam, camVars, recVars>>

\* R: exit(1)
ExitCommand == recvPc = "exit" /\ ProcessEnds

-----------------------------------------------------------------------------
(* PiCamThread t. *)

Cam(t, from, to) ==
  /\ picam[t] = from
  /\ picam' = [picam EXCEPT ![t] = to]
  /\ UNCHANGED <<hostVars, recvVars, recVars>>

\* new PiCam(...): the constructor opens and enables the camera. While a raspivid
\* that has been told to end still has it, that works or throws.
Construct(t) ==
  /\ Cam(t, "construct", "assign")
  /\ object' = [object EXCEPT ![t] = "open"]
  /\ UNCHANGED <<cam, self, running>>

\* Or it throws, as most of its failing steps do, and nothing catches it.
ConstructThrows(t) == picam[t] = "construct" /\ ProcessEnds

\* cam = the new object
AssignCam(t) ==
  /\ Cam(t, "assign", "call")
  /\ cam' = t
  /\ UNCHANGED <<self, object, running>>

\* cam->start() reads the global again.
CallStart(t) ==
  /\ Cam(t, "call", "start")
  /\ cam # NoCam
  /\ self' = [self EXCEPT ![t] = cam]
  /\ UNCHANGED <<cam, object, running>>

\* With cam NULL start() dereferences it at once.
StartsNull(t) == picam[t] = "call" /\ cam = NoCam /\ ProcessEnds

\* start(): capture on, semaphore created, buffers queued; on an object that is
\* stopped or deleted this uses freed memory, and passes or is fatal.
StartCapture(t) ==
  /\ Cam(t, "start", "run")
  /\ UNCHANGED <<cam, self, object, running>>

\* Or it throws, or that use is fatal.
StartThrows(t) == picam[t] = "start" /\ ProcessEnds

\* start(): running = true
SetRunning(t) ==
  /\ Cam(t, "run", "loop")
  /\ running' = [running EXCEPT ![self[t]] = TRUE]
  /\ UNCHANGED <<cam, self, object>>

Deleted(t) == self[t] \in CamThreads /\ object[self[t]] = "deleted"

\* while(running): of a deleted object the flag is whatever the memory holds.
TestRunning(t) ==
  /\ picam[t] = "loop"
  /\ \E flag \in IF Deleted(t) THEN BOOLEAN ELSE {running[self[t]]} :
       Cam(t, "loop", IF flag THEN "wait" ELSE "exited")
  /\ UNCHANGED <<cam, self, object, running>>

\* The wait on frame_semaphore returns: there is a new frame, or one that was
\* posted before the stop. Nothing posts the semaphore after it.
FrameArrives(t) ==
  /\ Cam(t, "wait", "frame")
  /\ UNCHANGED <<cam, self, object, running>>

\* callback(frame) and the frame-rate bookkeeping are done.
FrameDone(t) ==
  /\ Cam(t, "frame", "loop")
  /\ UNCHANGED <<cam, self, object, running>>

\* The loop, the semaphore and the callback are used after the delete.
UsesDeleted(t) ==
  /\ picam[t] \in {"loop", "wait", "frame"}
  /\ Deleted(t)
  /\ ProcessEnds

-----------------------------------------------------------------------------
(* RecordThread r and the RecordMatch script it runs. *)

Rec(r, from, to) ==
  /\ rec[r] = from
  /\ rec' = [rec EXCEPT ![r] = to]
  /\ UNCHANGED <<pacing, proc, mainPc, recvVars, cam, camVars>>

\* Mutant: the flag is not raised.
Bug_RecordBegins(r) ==
  /\ Rec(r, "created", "launch")
  /\ UNCHANGED <<pi, recording>>

\* recording = true
RecordBegins(r) ==
  /\ Rec(r, "created", "launch")
  /\ recording' = TRUE
  /\ UNCHANGED pi

\* system(): the shell cannot be forked, or cannot create /media/reclog, or does
\* not find the script, and nothing looks at the result.
SystemFails(r) ==
  /\ Rec(r, "launch", "failed")
  /\ UNCHANGED <<pi, recording>>

\* system(RecordMatch): raspivid records, or cannot get the camera and returns.
ScriptStarts(r) ==
  /\ \E s \in {"video", "halt"} : Rec(r, "launch", s)
  /\ UNCHANGED <<pi, recording>>

\* raspivid -t 150000 comes to its end, by itself or because it has been told to.
VideoEnds(r) ==
  /\ \E s \in {"video", "told"} : Rec(r, s, "halt")
  /\ UNCHANGED <<pi, recording>>

\* Mutant: the script ends without a shutdown.
Bug_ScriptHalts(r) ==
  /\ Rec(r, "halt", IF proc = "up" THEN "return" ELSE "done")
  /\ UNCHANGED <<pi, recording>>

\* The script's last line: shutdown -h now, which is taken to work.
ScriptHalts(r) ==
  /\ Rec(r, "halt", IF proc = "up" THEN "return" ELSE "done")
  /\ pi' = "halting"
  /\ UNCHANGED recording

\* system() has returned: recording = false
RecordEnds(r) ==
  /\ \E s \in {"return", "failed"} : Rec(r, s, "done")
  /\ recording' = FALSE
  /\ UNCHANGED pi

-----------------------------------------------------------------------------

MainNext == MainCreates \/ MainFails

\* What ReceiveThread does by itself, from the dispatch to the next recvfrom.
RecvHandles ==
  \/ ReceiveBinds \/ ReceiveBindFails
  \/ AutoReadRecording \/ AutoKillRecorder \/ AutoClearRecording
  \/ AutoRestartCamera \/ AutoRestartFails \/ AutoSaveImage
  \/ TeleClearRunning \/ TeleStopsNull \/ TeleCloseCamera \/ TeleDelete
  \/ TeleClearCam \/ TeleRecord \/ TeleRecordFails
  \/ ShutDown \/ ExitCommand

\* What PiCamThread t does by itself; a frame is the camera's to give.
CamRuns(t) ==
  \/ Construct(t) \/ ConstructThrows(t) \/ AssignCam(t)
  \/ CallStart(t) \/ StartsNull(t) \/ StartCapture(t) \/ StartThrows(t)
  \/ SetRunning(t) \/ TestRunning(t) \/ FrameDone(t)

RecNext(r) ==
  \/ RecordBegins(r) \/ SystemFails(r) \/ ScriptStarts(r)
  \/ VideoEnds(r) \/ ScriptHalts(r) \/ RecordEnds(r)

Next ==
  \/ Boot \/ HaltCompletes \/ PowerCut
  \/ MainNext
  \/ \E c \in Commands \cup {"other"} : Receive(c)
  \/ ReceiveFails
  \/ RecvHandles
  \/ \E t \in CamThreads : CamRuns(t) \/ FrameArrives(t) \/ UsesDeleted(t)
  \/ \E r \in RecThreads : RecNext(r)

\* The scheduler runs every thread that can run, raspivid ends when its time is
\* up, and a shutdown completes. Nothing is assumed of the robot, of the camera
\* or of whoever switches the power.
Fairness ==
  /\ WF_vars(MainNext)
  /\ WF_vars(RecvHandles)
  /\ \A t \in CamThreads : WF_vars(CamRuns(t))
  /\ \A r \in RecThreads : WF_vars(RecNext(r))
  /\ WF_vars(HaltCompletes)

Spec == Init /\ [][Next]_vars

FairSpec == Spec /\ Fairness

-----------------------------------------------------------------------------
(* Properties. *)

Open(t) == object[t] = "open"

\* The global never points to a deleted camera, except between the delete and
\* the assignment after it; in particular A, which tests cam against NULL,
\* never takes a deleted camera for a running one.
NoDanglingCam == cam # NoCam /\ recvPc # "null" => object[cam] # "deleted"

\* Once an A is obeyed, and until the next command, the global points to a camera
\* or will: one is there, or a thread is about to make or to assign one, for
\* whatever reason the A found cam NULL. A first command read from uninitialized
\* memory comes before main has created the camera's thread, perhaps.
AutoLeavesCamera ==
  proc = "up" /\ inbuf = "A" /\ recvPc \in {"save", "recv"} /\ mainPc \in {"web", "gone"} =>
    cam # NoCam \/ \E t \in CamThreads : picam[t] \in {"construct", "assign"}

\* There is one camera to have: at most one PiCam is open, and none while a
\* raspivid records that no A has told to end, until the Pi halts. One that has
\* been told may still record when the next PiCam opens, and the code does not
\* keep them apart.
ExclusiveCamera ==
  /\ \A t, u \in CamThreads : Open(t) /\ Open(u) => t = u
  /\ \A r \in RecThreads, t \in CamThreads : pi = "on" => ~(rec[r] = "video" /\ Open(t))

\* start() is called by each PiCamThread on the camera it made, while that camera
\* is open: no second thread has assigned cam, and no T has stopped the camera,
\* between the assignment and the call or while start() sets the capture up.
CallsOwnCamera ==
  \A t \in CamThreads :
    /\ picam[t] = "call" => cam = t
    /\ picam[t] \in {"start", "run"} => self[t] = t /\ Open(t)

\* An open camera can be stopped: the global points to it, or will as soon as
\* the thread that has just made it goes on.
NoOrphan == \A t \in CamThreads : Open(t) => cam = t \/ picam[t] = "assign"

\* While a raspivid records that no A has told to end, the flag that A tests says
\* so, until the Pi halts: the next A will tell it.
RecordingFlag == (\E r \in RecThreads : rec[r] = "video") /\ proc = "up" /\ pi = "on" => recording

\* The same under a paced robot: these four need it.
PacedExclusiveCamera == pacing = "paced" => ExclusiveCamera
PacedCallsOwnCamera == pacing = "paced" => CallsOwnCamera
PacedNoOrphan == pacing = "paced" => NoOrphan
PacedRecordingFlag == pacing = "paced" => RecordingFlag

\* A match as the camera goes through it, under a paced robot and until the Pi
\* halts: which PiCam objects are open, which raspivid has the camera, and whether
\* a script's raspivid has been told to end or is over.
Playing == pacing = "paced" /\ pi = "on" /\ proc = "up"
OpenCameras == {t \in CamThreads : Open(t)}
Recording == {r \in RecThreads : rec[r] \in {"video", "told"}}
Told == {r \in RecThreads : rec[r] = "told"}
Recorded == {r \in RecThreads : rec[r] \in {"told", "halt", "return"}}

Stage ==
  IF ~Playing THEN "over"
  ELSE IF OpenCameras # {} THEN IF Recorded = {} THEN "seeing" ELSE "again"
  ELSE IF Recorded # {} THEN "recorded"
  ELSE IF Recording # {} THEN "recording"
  ELSE IF \E t \in CamThreads : object[t] # "unborn" THEN "stopped" ELSE "dark"

M == INSTANCE Match WITH
  Cameras <- CamThreads,
  Recorders <- RecThreads,
  stage <- Stage,
  users <- IF Playing THEN OpenCameras \cup Recording ELSE {},
  told <- IF Playing THEN Told ELSE {}

\* With a paced robot the camera changes hands in the order of a match: raspivid
\* opens it only when nobody has it, a PiCam only when nobody has it but a raspivid
\* that has been told to end; and once a script has run, there is no second record,
\* nor a second restart of the camera, before the Pi is halted.
ImplementsMatch == M!Spec

\* A T that finds a camera creates a record thread, and a record ends the match for
\* the Pi: it is switched off, whatever comes in between, unless the program dies
\* or system() cannot run the script, which nobody notices.
TeleopEndsInPowerOff ==
  /\ recvPc = "stop" ~> proc = "down" \/ \E r \in RecThreads : rec[r] = "created"
  /\ \A r \in RecThreads :
       rec[r] = "created" ~> pi = "off" \/ proc = "down" \/ rec[r] = "failed"

\* Once raspivid records, the Pi is switched off whatever happens to the
\* program, including an A, which tells raspivid to end.
RecordingEndsInPowerOff ==
  \A r \in RecThreads : rec[r] = "video" ~> pi = "off"

\* What PiCam.hpp says of the class: there is only one at a time.
OneCameraAtATime ==
  \A t, u \in {c \in CamThreads : picam[c] = "construct" \/ object[c] \in {"open", "stopped"}} : t = u

\* What the A handler says: it restarts the camera that was stopped. So when a
\* paced robot asks for an A, the Pi is not shut down from under that camera.
RestartIsNotShutDown ==
  [][pacing = "paced" /\ inbuf = "A" /\ cam # NoCam /\ pi = "on" => pi' # "halting"]_vars

=============================================================================
