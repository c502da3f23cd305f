------------------------- MODULE PacedCameraProofs -------------------------
(***************************************************************************)
(* Proofs about CameraLifecycle under a paced robot, for any number of     *)
(* threads: one program at a time has the camera, but for a raspivid that  *)
(* has been told to end; each thread starts its own camera, none is left   *)
(* without an owner, and the recording flag is right.                      *)
(***************************************************************************)
EXTENDS CameraLifecycleProofs

\* PiCamThread t is on its way from its creation to its frame loop.
Early(t) == picam[t] \in {"construct", "assign", "call", "start", "run"}

\* The T handler is being run, the A handler is before its use of cam, and
\* ReceiveThread leaves the camera alone.
Teleop == recvPc \in {"stop", "close", "delete", "null", "record"}
Autonomous == recvPc \in {"auto", "kill", "clear", "camera"}
Idle == recvPc \in {"none", "bind", "recv", "halt", "exit"}

\* The global cam, the objects and the threads that make and end them.
CameraInv ==
  /\ \A t, u \in CamThreads : Early(t) /\ Early(u) => t = u
  /\ \A t \in CamThreads : Early(t) => ~Teleop /\ (Autonomous => cam # NoCam)
  /\ \A t \in CamThreads : picam[t] \in {"construct", "assign"} => cam = NoCam
  /\ \A t \in CamThreads : picam[t] = "assign" => Open(t)
  /\ \A t \in CamThreads : picam[t] \in {"call", "start", "run"} => cam = t
  /\ \A t \in CamThreads : picam[t] \in {"start", "run"} => self[t] = t
  /\ NoOrphan
  /\ cam # NoCam /\ recvPc \notin {"delete", "null"} => Open(cam)
  /\ recvPc \in {"stop", "close", "delete", "null"} => cam # NoCam
  /\ recvPc \in {"close", "delete"} => target = cam
  /\ recvPc \in {"delete", "null"} => ~Open(cam)
  /\ recvPc = "record" => cam = NoCam

\* What there is before the program runs, and before main has created the threads.
StartInv ==
  /\ mainPc # "gone" => ~Teleop /\ \A r \in RecThreads : rec[r] = "unused"
  /\ mainPc \in {"recv", "send", "picam"} => Idle
  /\ proc = "down" \/ mainPc \in {"recv", "send", "picam"} =>
       /\ cam = NoCam
       /\ \A t \in CamThreads : picam[t] = "unused" /\ object[t] = "unborn"
  /\ proc = "down" => recvPc = "none" /\ mainPc = "gone"
  /\ pi = "off" => proc = "down" /\ \A r \in RecThreads : rec[r] = "unused"

\* A record thread on its way to its script, or past one that system() could not
\* run; and whoever has the camera or is about to.
Starting(r) == rec[r] \in {"created", "launch", "failed"}
CameraBusy == cam # NoCam \/ recvPc \in {"clear", "camera", "record"} \/ \E t \in CamThreads : Early(t)

\* A record starts alone, when nobody has the camera; and until the Pi halts,
\* whoever has the camera keeps from it each raspivid not told to end.
RecordInv ==
  /\ \A r \in RecThreads : Starting(r) => Idle /\ ~CameraBusy
  /\ \A r, s \in RecThreads : Starting(r) /\ Starting(s) => r = s
  /\ pi = "on" => \A r \in RecThreads : rec[r] # "return"
  /\ pi = "on" => \A r \in RecThreads :
       rec[r] = "video" => ~CameraBusy /\ \A s \in RecThreads : ~Starting(s)
  /\ pi = "on" /\ proc = "up" => \A r \in RecThreads : rec[r] \in {"launch", "video"} => recording

PacedInv == pacing = "paced" => CameraInv /\ StartInv /\ RecordInv

-----------------------------------------------------------------------------

USE NoCamAssumption DEF hostVars, recvVars, camVars, recVars, Teleop, Autonomous, Idle

\* The robot does not change its ways.
LEMMA PacingStays == [Next]_vars => pacing' = pacing
BY DEF Next, vars, hostVars, Boot, HaltCompletes, PowerCut, PowersOff, MainNext, MainCreates,
   MainFails, ProcessEnds, Receive, ReceiveFails, Recv, RecvHandles, ReceiveBinds,
   ReceiveBindFails, AutoReadRecording, AutoKillRecorder, AutoClearRecording,
   AutoRestartCamera, AutoRestartFails, AutoSaveImage, TeleClearRunning, TeleStopsNull,
   TeleCloseCamera, TeleDelete, TeleClearCam, TeleRecord, TeleRecordFails, ShutDown,
   ExitCommand, CamRuns, Cam, Construct, ConstructThrows, AssignCam, CallStart, StartsNull,
   StartCapture, StartThrows, SetRunning, TestRunning, FrameArrives, FrameDone, UsesDeleted,
   RecNext, Rec, RecordBegins, SystemFails, ScriptStarts, VideoEnds, ScriptHalts, RecordEnds

\* A program that is gone has no camera, and only scripts are left of its records.
LEMMA GoneIsPaced ==
  ASSUME ProcessGone,
         \A r \in RecThreads : rec'[r] \notin {"created", "launch", "return", "failed"},
         pi' = "off" => \A r \in RecThreads : rec'[r] = "unused"
  PROVE  CameraInv' /\ StartInv' /\ RecordInv'
<1>1. CameraInv'
  BY DEF ProcessGone, CameraInv, Early, NoOrphan, Open
<1>2. StartInv'
  BY DEF ProcessGone, StartInv
<1>3. RecordInv'
  BY DEF ProcessGone, RecordInv, CameraBusy, Early, Starting
<1> QED
  BY <1>1, <1>2, <1>3

LEMMA EndsIsPaced ==
  ASSUME TypeOK, StartInv, ProcessEnds
  PROVE  CameraInv' /\ StartInv' /\ RecordInv'
<1>1. \A r \in RecThreads :
        \/ rec[r] \in {"unused", "video", "told", "halt"} /\ rec'[r] = rec[r]
        \/ rec[r] \notin {"unused", "video", "told", "halt"} /\ rec'[r] \in {"video", "done"}
  BY DEF ProcessEnds
<1>2. \A r \in RecThreads : rec'[r] \notin {"created", "launch", "return", "failed"}
  BY <1>1
<1>3. pi' = "off" => \A r \in RecThreads : rec'[r] = "unused"
  BY <1>1 DEF ProcessEnds, StartInv
<1> QED
  BY <1>2, <1>3, GoneIsPaced DEF ProcessEnds

\* The computer and main.
LEMMA HostStep ==
  ASSUME IInv, CameraInv, StartInv, RecordInv,
         Boot \/ HaltCompletes \/ PowerCut \/ MainNext
  PROVE  CameraInv' /\ StartInv' /\ RecordInv'
<1> USE DEF IInv
<1>1. CASE Boot
  <2>1. CameraInv'
    BY <1>1 DEF Boot, CameraInv, Early, NoOrphan, Open
  <2>2. StartInv'
    BY <1>1 DEF Boot, StartInv
  <2>3. RecordInv'
    BY <1>1 DEF Boot, StartInv, RecordInv, Starting
  <2> QED
    BY <2>1, <2>2, <2>3
<1>2. CASE HaltCompletes \/ PowerCut
  BY <1>2, GoneIsPaced DEF HaltCompletes, PowerCut, PowersOff
<1>3. CASE MainCreates /\ UNCHANGED picam
  <2>1. /\ proc = "up" /\ mainPc # "gone" /\ recvPc' \in {recvPc, "bind"}
        /\ mainPc' = "picam" => mainPc = "send"
        /\ mainPc' \in {"send", "picam", "gone"} /\ (mainPc' = "gone" <=> mainPc = "web")
        /\ UNCHANGED <<pi, proc, inbuf, target, cam, picam, self, object, running, recVars>>
    <3>1. ~NewCamThread
      BY <1>3 DEF NewCamThread, Unused, TypeOK
    <3> QED
      BY <1>3, <3>1 DEF MainCreates
  <2>2. CameraInv'
    BY <2>1 DEF StartInv, CameraInv, Early, NoOrphan, Open
  <2>3. StartInv'
    BY <2>1 DEF StartInv, TypeOK
  <2>4. RecordInv'
    BY <2>1 DEF StartInv, RecordInv, Starting
  <2> QED
    BY <2>2, <2>3, <2>4
<1>4. CASE MainCreates /\ NewCamThread
  <2>1. PICK t \in CamThreads : picam[t] = "unused" /\ picam' = [picam EXCEPT ![t] = "construct"]
    BY <1>4 DEF NewCamThread, Unused
  <2>2. picam'[t] = "construct" /\ \A u \in CamThreads : u # t => picam'[u] = picam[u]
    BY <2>1 DEF TypeOK
  <2>3. /\ proc = "up" /\ mainPc = "picam" /\ mainPc' = "web"
        /\ UNCHANGED <<pi, proc, recvPc, inbuf, target, cam, self, object, running, recVars>>
    <3>1. picam' # picam
      BY <2>1, <2>2
    <3> QED
      BY <1>4, <3>1 DEF MainCreates
  <2>4. CameraInv'
    BY <2>2, <2>3 DEF StartInv, CameraInv, Early, NoOrphan, Open
  <2>5. StartInv'
    BY <2>3 DEF StartInv
  <2>6. RecordInv'
    BY <2>3 DEF StartInv, RecordInv, Starting
  <2> QED
    BY <2>4, <2>5, <2>6
<1>5. CASE MainFails
  BY <1>5, EndsIsPaced DEF MainFails
<1>6. MainCreates => UNCHANGED picam \/ NewCamThread
  BY DEF MainCreates
<1> QED
  BY <1>1, <1>2, <1>3, <1>4, <1>5, <1>6 DEF MainNext

\* ReceiveThread takes an A or a T only when the threads have settled, or an A that
\* finds its camera there.
LEMMA ReceiveStep ==
  ASSUME IInv, CameraInv, StartInv, RecordInv, pacing = "paced",
         NEW c \in Commands \cup {"other"}, Receive(c)
  PROVE  CameraInv' /\ StartInv' /\ RecordInv'
<1>1. /\ recvPc = "recv" /\ recvPc' \in {"recv", "auto", "stop", "halt", "exit"}
      /\ recvPc' = "stop" => Settled /\ cam # NoCam
      /\ recvPc' = "auto" => Settled \/ cam # NoCam
      /\ UNCHANGED <<pi, proc, mainPc, target, cam, picam, self, object, running, recording, rec>>
  BY DEF Receive, Recv, Handler, Commands
<1>2. CameraInv'
  BY <1>1 DEF Settled, CameraInv, Early, NoOrphan, Open
<1>3. StartInv'
  BY <1>1 DEF Settled, StartInv
<1>4. CameraBusy' <=> CameraBusy
  BY <1>1 DEF CameraBusy, Early
<1>5. recvPc' \in {"auto", "stop"} => \A r \in RecThreads : ~Starting(r)
  BY <1>1 DEF Settled, RecordInv, Starting, CameraBusy
<1>6. RecordInv'
  BY <1>1, <1>4, <1>5 DEF RecordInv, Starting
<1> QED
  BY <1>2, <1>3, <1>6

\* The handlers.
LEMMA AutoHandlerStep ==
  ASSUME IInv, CameraInv, StartInv, RecordInv,
         ReceiveBinds \/ AutoReadRecording \/ AutoKillRecorder \/ AutoClearRecording
           \/ AutoRestartCamera \/ AutoSaveImage \/ ShutDown
  PROVE  CameraInv' /\ StartInv' /\ RecordInv'
<1> USE DEF IInv, Recv
<1>1. CASE ReceiveBinds \/ AutoSaveImage
  <2>1. /\ recvPc \in {"bind", "save"} /\ recvPc' = "recv"
        /\ UNCHANGED <<pi, proc, mainPc, target, cam, picam, self, object, running, recording, rec>>
    BY <1>1 DEF ReceiveBinds, AutoSaveImage
  <2>2. CameraInv'
    BY <2>1 DEF CameraInv, Early, NoOrphan, Open
  <2>3. StartInv'
    BY <2>1 DEF StartInv
  <2>4. RecordInv'
    BY <2>1 DEF RecordInv, Starting, CameraBusy, Early
  <2> QED
    BY <2>2, <2>3, <2>4
<1>2. CASE AutoReadRecording
  <2>1. /\ recvPc = "auto" /\ recvPc' = IF recording THEN "kill" ELSE "camera"
        /\ UNCHANGED <<pi, proc, mainPc, target, cam, picam, self, object, running, recording, rec>>
    BY <1>2 DEF AutoReadRecording
  <2>2. CameraInv'
    BY <2>1 DEF CameraInv, Early, NoOrphan, Open
  <2>3. StartInv'
    BY <2>1 DEF StartInv
  <2>4. RecordInv'
    <3>1. pi = "on" /\ recvPc' = "camera" => \A r \in RecThreads : rec[r] # "video"
      BY <2>1 DEF StartInv, RecordInv, Starting, TypeOK
    <3> QED
      BY <2>1, <3>1 DEF RecordInv, Starting, CameraBusy, Early
  <2> QED
    BY <2>2, <2>3, <2>4
<1>3. CASE AutoKillRecorder
  <2>1. /\ recvPc = "kill" /\ recvPc' = "clear"
        /\ \A r \in RecThreads : rec'[r] = IF rec[r] = "video" THEN "told" ELSE rec[r]
        /\ UNCHANGED <<pi, proc, mainPc, target, cam, picam, self, object, running, recording>>
    BY <1>3 DEF AutoKillRecorder
  <2>2. CameraInv'
    BY <2>1 DEF CameraInv, Early, NoOrphan, Open
  <2>3. StartInv'
    BY <2>1 DEF StartInv
  <2>4. RecordInv'
    BY <2>1 DEF RecordInv, Starting, CameraBusy, Early
  <2> QED
    BY <2>2, <2>3, <2>4
<1>4. CASE AutoClearRecording
  <2>1. /\ recvPc = "clear" /\ recvPc' = "camera" /\ recording' = FALSE
        /\ UNCHANGED <<pi, proc, mainPc, target, cam, picam, self, object, running, rec>>
    BY <1>4 DEF AutoClearRecording
  <2>2. CameraInv'
    BY <2>1 DEF CameraInv, Early, NoOrphan, Open
  <2>3. StartInv'
    BY <2>1 DEF StartInv
  <2>4. RecordInv'
    BY <2>1 DEF RecordInv, Starting, CameraBusy, Early
  <2> QED
    BY <2>2, <2>3, <2>4
<1>5. CASE AutoRestartCamera /\ UNCHANGED picam
  <2>1. /\ recvPc = "camera" /\ recvPc' = "save"
        /\ UNCHANGED <<pi, proc, mainPc, target, cam, picam, self, object, running, recording, rec>>
    BY <1>5 DEF AutoRestartCamera
  <2>2. CameraInv'
    BY <2>1 DEF CameraInv, Early, NoOrphan, Open
  <2>3. StartInv'
    BY <2>1 DEF StartInv
  <2>4. RecordInv'
    BY <2>1 DEF RecordInv, Starting, CameraBusy, Early
  <2> QED
    BY <2>2, <2>3, <2>4
<1>6. CASE AutoRestartCamera /\ cam = NoCam /\ NewCamThread
  <2>1. PICK t \in CamThreads : picam[t] = "unused" /\ picam' = [picam EXCEPT ![t] = "construct"]
    BY <1>6 DEF NewCamThread, Unused
  <2>2. picam'[t] = "construct" /\ \A u \in CamThreads : u # t => picam'[u] = picam[u]
    BY <2>1 DEF TypeOK
  <2>3. /\ recvPc = "camera" /\ recvPc' = "save" /\ cam = NoCam
        /\ UNCHANGED <<pi, proc, mainPc, target, cam, self, object, running, recording, rec>>
    BY <1>6 DEF AutoRestartCamera
  <2>4. \A u \in CamThreads : ~Early(u)
    BY <2>3 DEF CameraInv
  <2>5. CameraInv'
    BY <2>2, <2>3, <2>4 DEF CameraInv, Early, NoOrphan, Open
  <2>6. StartInv'
    BY <2>3 DEF StartInv
  <2>7. RecordInv'
    BY <2>3 DEF RecordInv, Starting, CameraBusy
  <2> QED
    BY <2>5, <2>6, <2>7
<1>7. CASE ShutDown
  <2>1. /\ recvPc = "halt" /\ recvPc' = "recv" /\ pi' \in {pi, "halting"}
        /\ UNCHANGED <<proc, mainPc, target, cam, picam, self, object, running, recording, rec>>
    BY <1>7 DEF ShutDown
  <2>2. CameraInv'
    BY <2>1 DEF CameraInv, Early, NoOrphan, Open
  <2>3. StartInv'
    BY <2>1 DEF StartInv
  <2>4. RecordInv'
    BY <2>1 DEF RecordInv, Starting, CameraBusy, Early
  <2> QED
    BY <2>2, <2>3, <2>4
<1>8. CASE AutoRestartCamera
  <2>1. UNCHANGED picam \/ (cam = NoCam /\ NewCamThread)
    BY <1>8 DEF AutoRestartCamera
  <2> QED
    BY <1>5, <1>6, <1>8, <2>1
<1> QED
  BY <1>1, <1>2, <1>3, <1>4, <1>7, <1>8

LEMMA TeleStep ==
  ASSUME IInv, CameraInv, StartInv, RecordInv,
         TeleClearRunning \/ TeleCloseCamera \/ TeleDelete \/ TeleClearCam \/ TeleRecord
  PROVE  CameraInv' /\ StartInv' /\ RecordInv'
<1> USE DEF IInv, Recv
<1>1. CASE TeleClearRunning
  <2>1. /\ recvPc = "stop" /\ recvPc' = "close" /\ target' = cam
        /\ UNCHANGED <<pi, proc, mainPc, cam, picam, self, object, recording, rec>>
    BY <1>1 DEF TeleClearRunning
  <2>2. CameraInv'
    BY <2>1 DEF CameraInv, Early, NoOrphan, Open
  <2>3. StartInv'
    BY <2>1 DEF StartInv
  <2>4. RecordInv'
    BY <2>1 DEF RecordInv, Starting, CameraBusy, Early
  <2> QED
    BY <2>2, <2>3, <2>4
<1>2. CASE TeleCloseCamera \/ TeleDelete
  <2>1. /\ \/ recvPc = "close" /\ recvPc' = "delete"
           \/ recvPc = "delete" /\ recvPc' = "null"
        /\ UNCHANGED <<pi, proc, mainPc, target, cam, picam, self, running, recording, rec>>
    BY <1>2 DEF TeleCloseCamera, TeleDelete
  <2>2. cam # NoCam /\ target = cam /\ cam \in CamThreads
    BY <2>1 DEF CameraInv, TypeOK
  <2>3. object'[cam] # "open" /\ \A u \in CamThreads : u # cam => object'[u] = object[u]
    BY <1>2, <2>2 DEF TeleCloseCamera, TeleDelete, TypeOK
  <2>4. CameraInv'
    BY <2>1, <2>2, <2>3 DEF CameraInv, Early, NoOrphan, Open
  <2>5. StartInv'
    BY <2>1, <2>2 DEF StartInv
  <2>6. RecordInv'
    BY <2>1 DEF RecordInv, Starting, CameraBusy, Early
  <2> QED
    BY <2>4, <2>5, <2>6
<1>3. CASE TeleClearCam
  <2>1. /\ recvPc = "null" /\ recvPc' = "record" /\ cam' = NoCam
        /\ UNCHANGED <<pi, proc, mainPc, picam, self, object, running, recording, rec>>
    BY <1>3 DEF TeleClearCam
  <2>2. CameraInv'
    BY <2>1 DEF CameraInv, Early, NoOrphan, Open
  <2>3. StartInv'
    BY <2>1 DEF StartInv
  <2>4. RecordInv'
    <3>1. cam # NoCam
      BY <2>1 DEF CameraInv
    <3> QED
      BY <2>1, <3>1 DEF RecordInv, Starting, CameraBusy, Early
  <2> QED
    BY <2>2, <2>3, <2>4
<1>4. CASE TeleRecord
  <2>1. PICK r \in RecThreads : rec[r] = "unused" /\ rec' = [rec EXCEPT ![r] = "created"]
    BY <1>4 DEF TeleRecord
  <2>2. rec'[r] = "created" /\ \A s \in RecThreads : s # r => rec'[s] = rec[s]
    BY <2>1 DEF TypeOK
  <2>3. /\ recvPc = "record" /\ recvPc' = "recv" /\ cam = NoCam
        /\ \A t \in CamThreads : ~Early(t)
        /\ UNCHANGED <<pi, proc, mainPc, target, cam, picam, self, object, running, recording>>
    BY <1>4 DEF TeleRecord, CameraInv
  <2>4. CameraInv'
    BY <2>3 DEF CameraInv, Early, NoOrphan, Open
  <2>5. StartInv'
    BY <2>3 DEF StartInv
  <2>6. RecordInv'
    BY <2>2, <2>3 DEF RecordInv, Starting, CameraBusy, Early
  <2> QED
    BY <2>4, <2>5, <2>6
<1> QED
  BY <1>1, <1>2, <1>3, <1>4

\* The PiCam threads.
LEMMA CamStep ==
  ASSUME IInv, CameraInv, StartInv, RecordInv, NEW t \in CamThreads,
         CamRuns(t) \/ FrameArrives(t) \/ UsesDeleted(t)
  PROVE  CameraInv' /\ StartInv' /\ RecordInv'
<1> USE DEF IInv, Cam
<1>1. ASSUME NEW from \in {"construct", "assign", "call", "start", "run", "loop", "wait", "frame"},
             NEW to \in {"construct", "assign", "call", "start", "run", "loop", "wait", "frame", "exited"},
             Cam(t, from, to)
      PROVE  /\ picam[t] = from /\ picam'[t] = to
             /\ \A u \in CamThreads : u # t => picam'[u] = picam[u]
             /\ UNCHANGED <<pi, proc, mainPc, recvPc, target, recording, rec>>
  BY <1>1 DEF TypeOK
<1>2. ASSUME \E from \in {"construct", "assign", "call", "start", "run", "loop", "wait", "frame"} :
               picam[t] = from,
             UNCHANGED <<pi, proc, mainPc, recvPc, recording, rec>>,
             \A u \in CamThreads : u # t => picam'[u] = picam[u] /\ object'[u] = object[u],
             cam' \in {cam, t}, cam' # cam => Early(t),
             Early(t)' => Early(t)
      PROVE  StartInv' /\ RecordInv'
  <2>1. proc # "down" /\ mainPc \notin {"recv", "send", "picam"}
    BY <1>2 DEF StartInv
  <2>2. StartInv'
    BY <1>2, <2>1 DEF StartInv
  <2>3. CameraBusy' => CameraBusy
    BY <1>2 DEF CameraBusy, Early
  <2>4. RecordInv'
    BY <1>2, <2>3 DEF RecordInv, Starting
  <2> QED
    BY <2>2, <2>4
<1>3. CASE Construct(t)
  <2>1. /\ picam[t] = "construct" /\ picam'[t] = "assign"
        /\ \A u \in CamThreads : u # t => picam'[u] = picam[u]
        /\ object'[t] = "open" /\ \A u \in CamThreads : u # t => object'[u] = object[u]
        /\ UNCHANGED <<pi, proc, mainPc, recvPc, target, cam, self, recording, rec>>
    BY <1>1, <1>3 DEF Construct, TypeOK
  <2>2. CameraInv'
    BY <2>1 DEF CameraInv, Early, NoOrphan, Open
  <2> QED
    BY <1>2, <2>1, <2>2 DEF Early
<1>4. CASE AssignCam(t)
  <2>1. /\ picam[t] = "assign" /\ picam'[t] = "call" /\ cam' = t
        /\ \A u \in CamThreads : u # t => picam'[u] = picam[u]
        /\ UNCHANGED <<pi, proc, mainPc, recvPc, target, self, object, recording, rec>>
    BY <1>1, <1>4 DEF AssignCam
  <2>2. CameraInv'
    BY <2>1 DEF CameraInv, Early, NoOrphan, Open
  <2> QED
    BY <1>2, <2>1, <2>2 DEF Early
<1>5. CASE CallStart(t)
  <2>1. /\ picam[t] = "call" /\ picam'[t] = "start" /\ self'[t] = cam
        /\ \A u \in CamThreads : u # t => picam'[u] = picam[u] /\ self'[u] = self[u]
        /\ UNCHANGED <<pi, proc, mainPc, recvPc, target, cam, object, recording, rec>>
    BY <1>1, <1>5 DEF CallStart, TypeOK
  <2>2. CameraInv'
    BY <2>1 DEF CameraInv, Early, NoOrphan, Open
  <2> QED
    BY <1>2, <2>1, <2>2 DEF Early
<1>6. CASE StartCapture(t) \/ SetRunning(t) \/ FrameArrives(t) \/ FrameDone(t) \/ TestRunning(t)
  <2>1. /\ \/ picam[t] = "start" /\ picam'[t] = "run"
           \/ picam[t] \in {"run", "loop", "wait", "frame"} /\ picam'[t] \in {"loop", "wait", "frame", "exited"}
        /\ \A u \in CamThreads : u # t => picam'[u] = picam[u]
        /\ UNCHANGED <<pi, proc, mainPc, recvPc, target, cam, self, object, recording, rec>>
    BY <1>1, <1>6 DEF StartCapture, SetRunning, FrameArrives, FrameDone, TestRunning
  <2>2. CameraInv'
    BY <2>1 DEF CameraInv, Early, NoOrphan, Open
  <2> QED
    BY <1>2, <2>1, <2>2 DEF Early
<1>7. CASE ConstructThrows(t) \/ StartsNull(t) \/ StartThrows(t) \/ UsesDeleted(t)
  BY <1>7, EndsIsPaced DEF ConstructThrows, StartsNull, StartThrows, UsesDeleted
<1> QED
  BY <1>3, <1>4, <1>5, <1>6, <1>7 DEF CamRuns

\* The record threads and their scripts.
LEMMA RecStep ==
  ASSUME IInv, CameraInv, StartInv, RecordInv, NEW r \in RecThreads, RecNext(r)
  PROVE  CameraInv' /\ StartInv' /\ RecordInv'
<1> USE DEF IInv
<1>1. /\ \A s \in RecThreads : s # r => rec'[s] = rec[s]
      /\ UNCHANGED <<proc, mainPc, recvPc, target, cam, picam, self, object, running>>
      /\ \/ rec[r] = "created" /\ rec'[r] = "launch" /\ recording' = TRUE /\ pi' = pi
         \/ /\ rec[r] = "launch" /\ rec'[r] \in {"video", "halt", "failed"}
            /\ UNCHANGED <<pi, recording>>
         \/ /\ rec[r] \in {"video", "told"} /\ rec'[r] = "halt" /\ UNCHANGED <<pi, recording>>
         \/ /\ rec[r] = "halt" /\ rec'[r] \in {"return", "done"} /\ pi' = "halting"
         \/ /\ rec[r] \in {"return", "failed"} /\ rec'[r] = "done" /\ pi' = pi
  BY DEF RecNext, RecordBegins, SystemFails, ScriptStarts, VideoEnds, ScriptHalts, RecordEnds, Rec, TypeOK
<1>2. CameraInv'
  BY <1>1 DEF CameraInv, Early, NoOrphan, Open
<1>3. StartInv'
  BY <1>1 DEF StartInv
<1>4. RecordInv'
  <2>1. CameraBusy' <=> CameraBusy
    BY <1>1 DEF CameraBusy, Early
  <2> QED
    BY <1>1, <2>1 DEF RecordInv, Starting
<1> QED
  BY <1>2, <1>3, <1>4

-----------------------------------------------------------------------------

\* Under a paced robot the three parts hold in every state: Receive.cpp is given a T
\* only when the threads that the last command set going have settled, and an A then
\* or when its camera is there.
THEOREM PacedInductive == Spec => []PacedInv
<1>1. Init => PacedInv
  <2> SUFFICES ASSUME Init PROVE CameraInv /\ StartInv /\ RecordInv
    BY DEF PacedInv
  <2>1. CameraInv
    BY DEF Init, CameraInv, Early, NoOrphan, Open
  <2>2. StartInv /\ RecordInv
    BY DEF Init, StartInv, RecordInv, Starting
  <2> QED
    BY <2>1, <2>2
<1>2. IInv /\ PacedInv /\ [Next]_vars => PacedInv'
  <2> SUFFICES ASSUME IInv, PacedInv, [Next]_vars, pacing' = "paced"
               PROVE  CameraInv' /\ StartInv' /\ RecordInv'
    BY DEF PacedInv
  <2>1. pacing = "paced"
    BY PacingStays
  <2>2. CameraInv /\ StartInv /\ RecordInv
    BY <2>1 DEF PacedInv
  <2>3. CASE Boot \/ HaltCompletes \/ PowerCut \/ MainNext
    BY <2>2, <2>3, HostStep
  <2>4. CASE \E c \in Commands \cup {"other"} : Receive(c)
    BY <2>1, <2>2, <2>4, ReceiveStep
  <2>5. CASE ReceiveFails
    BY <2>1, <2>5 DEF ReceiveFails
  <2>6. CASE RecvHandles
    <3>1. CASE ReceiveBindFails \/ AutoRestartFails \/ TeleStopsNull \/ TeleRecordFails \/ ExitCommand
      BY <2>2, <3>1, EndsIsPaced DEF IInv, ReceiveBindFails, AutoRestartFails, TeleStopsNull,
         TeleRecordFails, ExitCommand
    <3>2. CASE ReceiveBinds \/ AutoReadRecording \/ AutoKillRecorder \/ AutoClearRecording
                 \/ AutoRestartCamera \/ AutoSaveImage \/ ShutDown
      BY <2>2, <3>2, AutoHandlerStep
    <3>3. CASE TeleClearRunning \/ TeleCloseCamera \/ TeleDelete \/ TeleClearCam \/ TeleRecord
      BY <2>2, <3>3, TeleStep
    <3> QED
      BY <2>6, <3>1, <3>2, <3>3 DEF RecvHandles
  <2>7. CASE \E t \in CamThreads : CamRuns(t) \/ FrameArrives(t) \/ UsesDeleted(t)
    BY <2>2, <2>7, CamStep
  <2>8. CASE \E r \in RecThreads : RecNext(r)
    BY <2>2, <2>8, RecStep
  <2>9. CASE UNCHANGED vars
    BY <2>2, <2>9 DEF vars, CameraInv, StartInv, RecordInv, Early, NoOrphan, Open,
       Starting, CameraBusy
  <2> QED
    BY <2>3, <2>4, <2>5, <2>6, <2>7, <2>8, <2>9 DEF Next
<1> QED
  BY <1>1, <1>2, Inductive, PTL DEF Spec

\* One PiCam at most has the camera open (PiCam.hpp:29), and none while a raspivid
\* records that no A has told to end (Receive.cpp:57), if the robot is paced.
THEOREM OneHolder == Spec => []PacedExclusiveCamera
<1>1. IInv /\ PacedInv => PacedExclusiveCamera
  <2> SUFFICES ASSUME IInv, CameraInv, RecordInv PROVE ExclusiveCamera
    BY DEF PacedInv, PacedExclusiveCamera
  <2>1. \A t, u \in CamThreads : Open(t) /\ Open(u) => t = u
    BY NoCamAssumption DEF CameraInv, NoOrphan, Early
  <2>2. \A r \in RecThreads, t \in CamThreads : pi = "on" => ~(rec[r] = "video" /\ Open(t))
    BY NoCamAssumption DEF CameraInv, NoOrphan, RecordInv, Starting, CameraBusy, Early
  <2> QED
    BY <2>1, <2>2 DEF ExclusiveCamera
<1> QED
  BY <1>1, Inductive, PacedInductive, PTL

\* With a paced robot PiCamThread calls start() on the object that it has constructed
\* (VisionServer.cpp:81), and no T stops that object before its loop runs.
THEOREM OwnCameraCalled == Spec => []PacedCallsOwnCamera
<1>1. PacedInv => PacedCallsOwnCamera
  <2> SUFFICES ASSUME CameraInv PROVE CallsOwnCamera
    BY DEF PacedInv, PacedCallsOwnCamera
  <2> QED
    BY NoCamAssumption DEF CameraInv, Early, CallsOwnCamera
<1> QED
  BY <1>1, PacedInductive, PTL

\* With a paced robot each open camera is cam or about to be, so that a T can stop it.
THEOREM NoCameraOrphaned == Spec => []PacedNoOrphan
<1>1. PacedInv => PacedNoOrphan
  BY DEF PacedInv, PacedNoOrphan, CameraInv
<1> QED
  BY <1>1, PacedInductive, PTL

\* With a paced robot recording is TRUE while a script has a raspivid running that no A
\* has told to end (Receive.cpp:16, 57), so the next A will tell it.
THEOREM RecordingFlagRight == Spec => []PacedRecordingFlag
<1>1. PacedInv => PacedRecordingFlag
  BY DEF PacedInv, PacedRecordingFlag, RecordingFlag, RecordInv
<1> QED
  BY <1>1, PacedInductive, PTL

=============================================================================
