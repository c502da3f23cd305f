------------------------ MODULE CameraLifecycleProofs ------------------------
(***************************************************************************)
(* Proofs about CameraLifecycle, for any number of threads and any robot:  *)
(* the state keeps its type, and the global cam never dangles.             *)
(***************************************************************************)
EXTENDS CameraLifecycle, TLAPS

\* The objects that their threads have published: the only ones that the
\* global cam, and so PiCam::stop, can get hold of.
Published == {t \in CamThreads : picam[t] \notin {"unused", "construct", "assign"}}

\* NoDanglingCam is not inductive: AssignCam(t) publishes object t, and nothing
\* in NoDanglingCam says that t is alive. It is because stop() and delete reach
\* an object only through cam, which holds published objects only.
IInv ==
  /\ TypeOK
  /\ \A t \in CamThreads : picam[t] \in {"unused", "construct"} => object[t] = "unborn"
  /\ \A t \in CamThreads : picam[t] = "assign" => object[t] = "open"
  /\ cam \in Published \cup {NoCam}
  /\ mainPc = "recv" => recvPc = "none"
  /\ pi = "off" => proc = "down" /\ recvPc = "none"
  /\ recvPc \in {"close", "delete"} => target \in Published
  /\ NoDanglingCam

\* Every definition that only groups variables or threads.
USE DEF hostVars, recvVars, camVars, recVars, Published

-----------------------------------------------------------------------------

\* A process that is gone, whatever ended it, leaves nothing to dangle.
LEMMA GoneKeepsIInv ==
  ASSUME TypeOK, ProcessGone,
         pi' \in {"off", "on", "halting"}, pacing' \in {"paced", "hasty"},
         rec' \in [RecThreads -> {"unused", "created", "launch", "video", "told", "halt",
                                  "return", "failed", "done"}]
  PROVE  IInv'
  BY DEF IInv, TypeOK, ProcessGone, NoDanglingCam

LEMMA EndsKeepsIInv ==
  ASSUME TypeOK, ProcessEnds
  PROVE  IInv'
<1>1. rec' \in [RecThreads -> {"unused", "created", "launch", "video", "told", "halt",
                               "return", "failed", "done"}]
  BY DEF TypeOK, ProcessEnds
<1> QED
  BY <1>1, GoneKeepsIInv DEF TypeOK, ProcessEnds

LEMMA HostKeepsIInv ==
  ASSUME IInv, Boot \/ HaltCompletes \/ PowerCut \/ MainNext
  PROVE  IInv'
<1>1. CASE Boot
  BY <1>1 DEF IInv, TypeOK, NoDanglingCam, Boot, Commands
<1>2. CASE HaltCompletes \/ PowerCut
  <2>1. rec' \in [RecThreads -> {"unused", "created", "launch", "video", "told", "halt",
                                 "return", "failed", "done"}]
    BY <1>2 DEF HaltCompletes, PowerCut, PowersOff
  <2> QED
    BY <1>2, <2>1, GoneKeepsIInv DEF IInv, TypeOK, HaltCompletes, PowerCut, PowersOff
<1>3. CASE MainCreates
  <2> USE DEF IInv, TypeOK, NoDanglingCam, MainCreates, NewCamThread, Unused
  <2>1. CASE UNCHANGED picam
    <3>1. /\ proc = "up"
          /\ recvPc' \in {recvPc, "bind"}
          /\ recvPc' # recvPc => recvPc = "none"
          /\ mainPc' \in {"send", "picam", "web", "gone"}
          /\ UNCHANGED <<pi, pacing, proc, inbuf, target, cam, picam, self, object,
                         running, recVars>>
      BY <1>3, <2>1
    <3> QED
      BY <3>1
  <2>2. CASE NewCamThread /\ UNCHANGED recvPc
    <3>1. PICK t \in CamThreads : picam[t] = "unused" /\ picam' = [picam EXCEPT ![t] = "construct"]
      BY <2>2
    <3>2. mainPc' \in {"send", "picam", "web", "gone"}
      BY <1>3
    <3>3. Published' = Published
      BY <3>1
    <3> QED
      BY <1>3, <2>2, <3>1, <3>2, <3>3
  <2> QED
    BY <1>3, <2>1, <2>2
<1>4. CASE MainFails
  BY <1>4, EndsKeepsIInv DEF IInv, MainFails
<1> QED
  BY <1>1, <1>2, <1>3, <1>4 DEF MainNext

LEMMA RecvKeepsIInv ==
  ASSUME IInv,
         (\E c \in Commands \cup {"other"} : Receive(c)) \/ ReceiveFails \/ RecvHandles
  PROVE  IInv'
<1> USE DEF IInv, TypeOK, NoDanglingCam, Recv
<1>1. CASE \E c \in Commands \cup {"other"} : Receive(c)
  BY <1>1 DEF Receive, Handler, Commands
<1>2. CASE ReceiveFails
  BY <1>2 DEF ReceiveFails, Handler, Commands
<1>3. CASE ReceiveBinds \/ AutoReadRecording \/ AutoClearRecording \/ AutoSaveImage
  <2>1. /\ recvPc' \in {"recv", "kill", "camera"} /\ recvPc \notin {"null", "none"}
        /\ UNCHANGED <<hostVars, inbuf, target, cam, camVars, rec>>
        /\ recording' \in BOOLEAN
    BY <1>3 DEF ReceiveBinds, AutoReadRecording, AutoClearRecording, AutoSaveImage
  <2> QED
    BY <2>1
<1>4. CASE AutoKillRecorder
  BY <1>4 DEF AutoKillRecorder
<1>5. CASE AutoRestartCamera
  BY <1>5 DEF AutoRestartCamera, NewCamThread, Unused
<1>6. CASE TeleClearRunning
  BY <1>6 DEF TeleClearRunning
<1>7. CASE TeleCloseCamera
  BY <1>7 DEF TeleCloseCamera
<1>8. CASE TeleDelete
  <2>1. object' \in [CamThreads -> {"unborn", "open", "stopped", "deleted"}]
    BY <1>8 DEF TeleDelete
  <2>2. \A t \in CamThreads : t # cam => object'[t] = object[t]
    BY <1>8 DEF TeleDelete
  <2>3. UNCHANGED <<hostVars, inbuf, target, cam, picam, self, running, recVars>>
    BY <1>8 DEF TeleDelete
  <2> QED
    <3>1. recvPc = "delete" /\ recvPc' = "null" /\ UNCHANGED <<pacing, proc, mainPc>>
      BY <1>8 DEF TeleDelete
    <3>2. \A t \in CamThreads : t \notin Published => object'[t] = object[t]
      BY <2>2, NoCamAssumption
    <3>3. TypeOK'
      BY <2>1, <2>3, <3>1
    <3>4. Published' = Published
      BY <2>3
    <3> QED
      BY <2>1, <2>3, <3>1, <3>2, <3>3, <3>4
<1>9. CASE TeleClearCam
  BY <1>9 DEF TeleClearCam
<1>10. CASE TeleRecord
  BY <1>10 DEF TeleRecord
<1>11. CASE ShutDown
  BY <1>11 DEF ShutDown
<1>12. CASE ReceiveBindFails \/ AutoRestartFails \/ TeleStopsNull \/ TeleRecordFails
            \/ ExitCommand
  BY <1>12, EndsKeepsIInv DEF ReceiveBindFails, AutoRestartFails, TeleStopsNull,
     TeleRecordFails, ExitCommand
<1> QED
  BY <1>1, <1>2, <1>3, <1>4, <1>5, <1>6, <1>7, <1>8, <1>9, <1>10, <1>11, <1>12
  DEF RecvHandles

LEMMA CamKeepsIInv ==
  ASSUME IInv, NEW t \in CamThreads, CamRuns(t) \/ FrameArrives(t) \/ UsesDeleted(t)
  PROVE  IInv'
<1> USE NoCamAssumption DEF IInv, TypeOK, NoDanglingCam, Cam
<1>1. CASE Construct(t)
  BY <1>1 DEF Construct
<1>2. CASE AssignCam(t)
  BY <1>2 DEF AssignCam
<1>3. CASE CallStart(t)
  BY <1>3 DEF CallStart
<1>4. CASE StartCapture(t) \/ FrameDone(t) \/ FrameArrives(t)
  BY <1>4 DEF StartCapture, FrameDone, FrameArrives
<1>5. CASE SetRunning(t)
  <2>1. running' \in [CamThreads -> BOOLEAN]
    BY <1>5 DEF SetRunning
  <2>2. Published' = Published \cup {}
    BY <1>5 DEF SetRunning
  <2> QED
    BY <1>5, <2>1, <2>2 DEF SetRunning
<1>6. CASE TestRunning(t)
  BY <1>6 DEF TestRunning
<1>7. CASE ConstructThrows(t) \/ StartsNull(t) \/ StartThrows(t) \/ UsesDeleted(t)
  BY <1>7, EndsKeepsIInv DEF ConstructThrows, StartsNull, StartThrows, UsesDeleted
<1> QED
  BY <1>1, <1>2, <1>3, <1>4, <1>5, <1>6, <1>7 DEF CamRuns

LEMMA RecKeepsIInv ==
  ASSUME IInv, NEW r \in RecThreads, RecNext(r)
  PROVE  IInv'
<1>1. UNCHANGED <<pacing, proc, mainPc, recvVars, cam, camVars>>
  BY DEF RecNext, Rec, RecordBegins, SystemFails, ScriptStarts, VideoEnds, ScriptHalts, RecordEnds
<1>2. pi' \in {pi, "halting"} /\ recording' \in BOOLEAN
  BY DEF IInv, TypeOK, RecNext, Rec, RecordBegins, SystemFails, ScriptStarts, VideoEnds, ScriptHalts,
     RecordEnds
<1>3. rec' \in [RecThreads -> {"unused", "created", "launch", "video", "told", "halt",
                               "return", "failed", "done"}]
  BY DEF IInv, TypeOK, RecNext, Rec, RecordBegins, SystemFails, ScriptStarts, VideoEnds, ScriptHalts,
     RecordEnds
<1> QED
  BY <1>1, <1>2, <1>3 DEF IInv, TypeOK, NoDanglingCam

-----------------------------------------------------------------------------

\* Every reachable state satisfies the inductive invariant.
THEOREM Inductive == Spec => []IInv
<1>1. Init => IInv
  BY DEF Init, IInv, TypeOK, NoDanglingCam
<1>2. IInv /\ [Next]_vars => IInv'
  <2> SUFFICES ASSUME IInv, [Next]_vars
               PROVE  IInv'
    OBVIOUS
  <2>1. CASE Boot \/ HaltCompletes \/ PowerCut \/ MainNext
    BY <2>1, HostKeepsIInv
  <2>2. CASE (\E c \in Commands \cup {"other"} : Receive(c)) \/ ReceiveFails \/ RecvHandles
    BY <2>2, RecvKeepsIInv
  <2>3. CASE \E t \in CamThreads : CamRuns(t) \/ FrameArrives(t) \/ UsesDeleted(t)
    BY <2>3, CamKeepsIInv
  <2>4. CASE \E r \in RecThreads : RecNext(r)
    BY <2>4, RecKeepsIInv
  <2>5. CASE UNCHANGED vars
    BY <2>5 DEF vars, IInv, TypeOK, NoDanglingCam
  <2> QED
    BY <2>1, <2>2, <2>3, <2>4, <2>5 DEF Next
<1> QED
  BY <1>1, <1>2, PTL DEF Spec

\* The program's state keeps its type, and PiCam::stop never runs on NULL: the
\* write that would trap comes first.
THEOREM TypeCorrect == Spec => []TypeOK
<1>1. IInv => TypeOK
  BY DEF IInv
<1> QED
  BY <1>1, Inductive, PTL

\* The global cam never holds a deleted camera outside the T handler's own
\* delete, so A's test against NULL is a test for a camera.
THEOREM CamNeverDangles == Spec => []NoDanglingCam
<1>1. IInv => NoDanglingCam
  BY DEF IInv
<1> QED
  BY <1>1, Inductive, PTL

-----------------------------------------------------------------------------

HasCamera == cam # NoCam \/ \E t \in CamThreads : picam[t] \in {"construct", "assign"}

\* AutoLeavesCamera is not inductive: it says nothing of the rest of the T
\* handler, which must not be reached with an A in inbuf, nor of the time before
\* the first datagram, when main's own camera is the one.
AutoInv ==
  /\ AutoLeavesCamera
  /\ recvPc \in {"stop", "close", "delete", "null", "record", "halt"} => inbuf # "A"
  /\ proc = "up" /\ recvPc = "bind" /\ mainPc \in {"web", "gone"} => HasCamera

LEMMA GoneKeepsAutoInv ==
  ASSUME ProcessGone
  PROVE  AutoInv'
BY DEF ProcessGone, AutoInv, AutoLeavesCamera

\* No thread but ReceiveThread takes a camera away.
LEMMA HasCameraStays ==
  ASSUME IInv, NEW t \in CamThreads, CamRuns(t) \/ FrameArrives(t), ~ProcessGone
  PROVE  /\ HasCamera => HasCamera'
         /\ UNCHANGED <<proc, mainPc, recvPc, inbuf>>
<1> USE NoCamAssumption DEF IInv, TypeOK, Cam, HasCamera
<1>1. CASE Construct(t) \/ AssignCam(t)
  BY <1>1 DEF Construct, AssignCam
<1>2. CASE CallStart(t) \/ StartCapture(t) \/ SetRunning(t) \/ FrameDone(t) \/ FrameArrives(t)
  BY <1>2 DEF CallStart, StartCapture, SetRunning, FrameDone, FrameArrives
<1>3. CASE TestRunning(t)
  BY <1>3 DEF TestRunning
<1>4. CASE ConstructThrows(t) \/ StartsNull(t) \/ StartThrows(t)
  BY <1>4 DEF ConstructThrows, StartsNull, StartThrows, ProcessEnds
<1> QED
  BY <1>1, <1>2, <1>3, <1>4 DEF CamRuns

LEMMA AutoStep ==
  ASSUME IInv, AutoInv, [Next]_vars
  PROVE  AutoInv'
<1> USE DEF AutoInv, AutoLeavesCamera, HasCamera
<1>1. CASE ProcessGone
  BY <1>1, GoneKeepsAutoInv
<1>2. CASE Boot
  BY <1>2 DEF Boot, IInv
<1>3. CASE HaltCompletes \/ PowerCut
  BY <1>3, GoneKeepsAutoInv DEF HaltCompletes, PowerCut, PowersOff
<1>4. CASE MainCreates
  <2> USE <1>4 DEF MainCreates
  <2>1. CASE mainPc = "picam"
    <3>1. PICK t \in CamThreads : picam[t] = "unused" /\ picam' = [picam EXCEPT ![t] = "construct"]
      BY <2>1 DEF NewCamThread, Unused
    <3>2. picam'[t] = "construct"
      BY <3>1 DEF IInv, TypeOK
    <3> QED
      BY <2>1, <3>2
  <2>2. CASE mainPc # "picam"
    BY <2>2 DEF IInv
  <2> QED
    BY <2>1, <2>2
<1>5. CASE MainFails
  BY <1>5, GoneKeepsAutoInv DEF MainFails, ProcessEnds
<1>6. CASE (\E c \in Commands \cup {"other"} : Receive(c)) \/ ReceiveFails
  <2>1. PICK c \in Commands \cup {"other"} : Recv("recv", Handler(c)) /\ inbuf' = c
    BY <1>6 DEF Receive, ReceiveFails, IInv, TypeOK
  <2>2. c = "A" => recvPc' = "auto"
    BY <2>1 DEF Recv, Handler
  <2>3. recvPc' \in {"auto", "stop", "halt", "exit", "recv"}
    BY <2>1 DEF Recv, Handler, Commands
  <2> QED
    BY <2>1, <2>2, <2>3
<1>7. CASE RecvHandles
  <2> USE DEF Recv
  <2>1. CASE ReceiveBinds \/ AutoReadRecording \/ AutoKillRecorder \/ AutoClearRecording
             \/ AutoSaveImage
    BY <2>1 DEF ReceiveBinds, AutoReadRecording, AutoKillRecorder, AutoClearRecording,
       AutoSaveImage, camVars
  <2>2. CASE AutoRestartCamera
    <3>1. CASE NewCamThread
      <4>1. PICK t \in CamThreads : picam' = [picam EXCEPT ![t] = "construct"]
        BY <3>1 DEF NewCamThread, Unused
      <4>2. picam'[t] = "construct"
        BY <4>1 DEF IInv, TypeOK
      <4> QED
        BY <2>2, <4>2 DEF AutoRestartCamera
    <3>2. CASE cam # NoCam
      BY <2>2, <3>2 DEF AutoRestartCamera
    <3> QED
      BY <2>2, <3>1, <3>2 DEF AutoRestartCamera
  <2>3. CASE TeleClearRunning \/ TeleCloseCamera \/ TeleDelete \/ TeleClearCam \/ TeleRecord
             \/ ShutDown
    BY <2>3 DEF TeleClearRunning, TeleCloseCamera, TeleDelete, TeleClearCam, TeleRecord, ShutDown
  <2>4. CASE ReceiveBindFails \/ AutoRestartFails \/ TeleStopsNull \/ TeleRecordFails
             \/ ExitCommand
    BY <2>4, GoneKeepsAutoInv DEF ReceiveBindFails, AutoRestartFails, TeleStopsNull,
       TeleRecordFails, ExitCommand, ProcessEnds
  <2> QED
    BY <1>7, <2>1, <2>2, <2>3, <2>4 DEF RecvHandles
<1>8. CASE \E t \in CamThreads : CamRuns(t) \/ FrameArrives(t) \/ UsesDeleted(t)
  <2>1. PICK t \in CamThreads : CamRuns(t) \/ FrameArrives(t) \/ UsesDeleted(t)
    BY <1>8
  <2>2. CASE UsesDeleted(t)
    BY <2>2, GoneKeepsAutoInv DEF UsesDeleted, ProcessEnds
  <2>3. CASE CamRuns(t) \/ FrameArrives(t)
    <3>1. CASE ~ProcessGone
      <4>1. (HasCamera => HasCamera') /\ UNCHANGED <<proc, mainPc, recvPc, inbuf>>
        BY <2>3, <3>1, HasCameraStays
      <4> QED
        BY <4>1
    <3> QED
      BY <1>1, <3>1
  <2> QED
    BY <2>1, <2>2, <2>3
<1>9. CASE \E r \in RecThreads : RecNext(r)
  <2>1. UNCHANGED <<proc, mainPc, recvVars, cam, camVars>>
    BY <1>9 DEF RecNext, Rec, RecordBegins, SystemFails, ScriptStarts, VideoEnds, ScriptHalts, RecordEnds
  <2> QED
    BY <2>1
<1>10. CASE UNCHANGED vars
  BY <1>10 DEF vars
<1> QED
  BY <1>2, <1>3, <1>4, <1>5, <1>6, <1>7, <1>8, <1>9, <1>10 DEF Next, MainNext

\* An A always leaves a camera or one on its way, for any number of threads and
\* any datagrams before it.
THEOREM AutoBringsCamera == Spec => []AutoLeavesCamera
<1>1. Init => AutoInv
  BY DEF Init, AutoInv, AutoLeavesCamera
<1>2. AutoInv => AutoLeavesCamera
  BY DEF AutoInv
<1> QED
  BY <1>1, <1>2, AutoStep, Inductive, PTL DEF Spec

-----------------------------------------------------------------------------
(* What the two liveness properties rest on: a power-off that is owed stays  *)
(* owed. That it comes is then a matter of the scheduler alone.              *)

\* A T is being obeyed; record r is on the way to its shutdown.
TeleopPending == recvPc \in {"stop", "close", "delete", "null", "record"}
RecordPending(r) == rec[r] \in {"created", "launch", "video", "told", "halt"} \/ pi = "halting"

\* The RecordMatch script of r has raspivid running, or is past it.
ScriptPending(r) == rec[r] \in {"video", "told", "halt"} \/ pi = "halting"

\* system() cannot run the script, and nobody will make up for it.
ScriptFails(r) == rec[r] = "launch" /\ rec'[r] = "failed"

\* A step of a record thread or of its script brings it nearer to the shutdown,
\* unless system() fails.
LEMMA RecordGoesOn ==
  ASSUME TypeOK, NEW r \in RecThreads, RecNext(r)
  PROVE  /\ \A s \in RecThreads : s # r => rec'[s] = rec[s]
         /\ recvPc' = recvPc
         /\ rec[r] \in {"created", "launch"} =>
              rec'[r] \in {"launch", "video", "halt"} \/ ScriptFails(r)
         /\ rec[r] \in {"video", "told"} => rec'[r] = "halt"
         /\ rec[r] = "halt" => pi' = "halting"
         /\ pi' \in {pi, "halting"}
BY DEF RecNext, Rec, RecordBegins, SystemFails, ScriptStarts, VideoEnds, ScriptHalts, RecordEnds, TypeOK,
   ScriptFails

\* RecordMatch is a process of its own: nothing in the program, not even its end or
\* the killall of an A, keeps a script whose raspivid runs from its shutdown.
THEOREM ScriptNeverAbandoned ==
  Spec => [][\A r \in RecThreads : ScriptPending(r) => ScriptPending(r)' \/ pi' = "off"]_vars
<1>1. ASSUME TypeOK, [Next]_vars, NEW r \in RecThreads, ScriptPending(r)
      PROVE  ScriptPending(r)' \/ pi' = "off"
  <2> USE <1>1 DEF ScriptPending
  <2>1. CASE ProcessEnds
    BY <2>1 DEF ProcessEnds
  <2>2. CASE Boot \/ HaltCompletes \/ PowerCut
    BY <2>2 DEF Boot, HaltCompletes, PowerCut, PowersOff
  <2>3. CASE MainCreates \/ \E c \in Commands \cup {"other"} : Receive(c)
    BY <2>3 DEF MainCreates, Receive
  <2>4. CASE ReceiveFails \/ ReceiveBinds \/ AutoReadRecording \/ AutoClearRecording
             \/ AutoRestartCamera \/ AutoSaveImage \/ ShutDown
             \/ TeleClearRunning \/ TeleCloseCamera \/ TeleDelete \/ TeleClearCam
    BY <2>4 DEF ReceiveFails, ReceiveBinds, AutoReadRecording, AutoClearRecording,
       AutoRestartCamera, AutoSaveImage, ShutDown, TeleClearRunning, TeleCloseCamera,
       TeleDelete, TeleClearCam
  <2>5. CASE AutoKillRecorder
    BY <2>5 DEF AutoKillRecorder
  <2>6. CASE TeleRecord
    BY <2>6 DEF TeleRecord, TypeOK
  <2>7. CASE \E t \in CamThreads : CamRuns(t) \/ FrameArrives(t)
    <3>1. ProcessEnds \/ UNCHANGED <<pi, rec>>
      BY <2>7 DEF CamRuns, Cam, Construct, ConstructThrows, AssignCam, CallStart, StartsNull,
         StartCapture, StartThrows, SetRunning, TestRunning, FrameDone, FrameArrives
    <3> QED
      BY <2>1, <3>1
  <2>8. CASE \E s \in RecThreads : RecNext(s)
    BY <2>8, RecordGoesOn
  <2>9. CASE UNCHANGED vars
    BY <2>9 DEF vars
  <2>10. CASE MainFails \/ ReceiveBindFails \/ AutoRestartFails \/ TeleStopsNull
              \/ TeleRecordFails \/ ExitCommand \/ \E t \in CamThreads : UsesDeleted(t)
    BY <2>1, <2>10 DEF MainFails, ReceiveBindFails, AutoRestartFails, TeleStopsNull,
       TeleRecordFails, ExitCommand, UsesDeleted
  <2> QED
    BY <2>2, <2>3, <2>4, <2>5, <2>6, <2>7, <2>8, <2>9, <2>10 DEF Next, MainNext, RecvHandles
<1>2. TypeOK /\ [Next]_vars =>
        [\A r \in RecThreads : ScriptPending(r) => ScriptPending(r)' \/ pi' = "off"]_vars
  BY <1>1
<1> QED
  BY <1>2, TypeCorrect, PTL DEF Spec

\* What a T that is being obeyed owes, as an action: a record thread, and what each
\* record owes, the Pi's shutdown, unless the program dies or system() fails.
TeleopOwes ==
  /\ TeleopPending =>
       TeleopPending' \/ (\E r \in RecThreads : rec'[r] = "created") \/ proc' = "down"
  /\ \A r \in RecThreads :
       RecordPending(r) => RecordPending(r)' \/ proc' = "down" \/ ScriptFails(r)

\* A T that is being obeyed (Receive.cpp:93) is carried on until its record thread is
\* there, and that record until the Pi is halted: neither the commands that come
\* after it nor another record take the debt away, only a system() of line 14 that
\* fails, and the end of the program.
THEOREM TeleopNeverForgotten == Spec => [][proc = "up" => TeleopOwes]_vars
<1>1. ASSUME IInv, [Next]_vars, proc = "up"
      PROVE  TeleopOwes
  <2> USE <1>1 DEF TeleopOwes, TeleopPending, RecordPending
  <2>1. CASE ProcessGone
    BY <2>1 DEF ProcessGone
  <2>2. CASE MainCreates
    BY <2>2 DEF MainCreates, IInv
  <2>3. CASE ReceiveFails \/ ReceiveBinds \/ AutoReadRecording \/ AutoClearRecording
             \/ AutoRestartCamera \/ AutoSaveImage \/ \E c \in Commands \cup {"other"} : Receive(c)
    <3>1. recvPc \in {"bind", "recv", "auto", "clear", "camera", "save"} /\ UNCHANGED <<pi, rec>>
      BY <2>3 DEF ReceiveFails, ReceiveBinds, AutoReadRecording, AutoClearRecording,
         AutoRestartCamera, AutoSaveImage, Receive, Recv
    <3> QED
      BY <3>1
  <2>4. CASE TeleClearRunning \/ TeleCloseCamera \/ TeleDelete \/ TeleClearCam \/ ShutDown
    <3>1. /\ UNCHANGED rec /\ pi' \in {pi, "halting"}
          /\ TeleopPending => TeleopPending'
      BY <2>4 DEF TeleClearRunning, TeleCloseCamera, TeleDelete, TeleClearCam, ShutDown, Recv
    <3> QED
      BY <3>1
  <2>5. CASE AutoKillRecorder
    BY <2>5 DEF AutoKillRecorder, Recv
  <2>6. CASE TeleRecord
    <3>1. PICK r \in RecThreads : rec[r] = "unused" /\ rec' = [rec EXCEPT ![r] = "created"]
      BY <2>6 DEF TeleRecord
    <3>2. rec'[r] = "created" /\ \A s \in RecThreads : s # r => rec'[s] = rec[s]
      BY <3>1 DEF IInv, TypeOK
    <3> QED
      BY <2>6, <3>1, <3>2 DEF TeleRecord
  <2>7. CASE \E t \in CamThreads : CamRuns(t) \/ FrameArrives(t)
    <3>1. ProcessGone \/ UNCHANGED <<pi, recvPc, rec>>
      BY <2>7 DEF CamRuns, Cam, Construct, ConstructThrows, AssignCam, CallStart, StartsNull,
         StartCapture, StartThrows, SetRunning, TestRunning, FrameDone, FrameArrives, ProcessEnds
    <3> QED
      BY <2>1, <3>1
  <2>8. CASE \E s \in RecThreads : RecNext(s)
    <3>1. PICK s \in RecThreads : RecNext(s)
      BY <2>8
    <3>2. /\ \A r \in RecThreads : r # s => rec'[r] = rec[r]
          /\ recvPc' = recvPc
          /\ pi' \in {pi, "halting"}
      BY <3>1, RecordGoesOn DEF IInv
    <3>3. RecordPending(s) => RecordPending(s)' \/ ScriptFails(s)
      BY <3>1, RecordGoesOn DEF IInv
    <3> QED
      BY <3>2, <3>3
  <2>9. CASE UNCHANGED vars
    BY <2>9 DEF vars
  <2>10. CASE MainFails \/ ReceiveBindFails \/ AutoRestartFails \/ TeleStopsNull
              \/ TeleRecordFails \/ ExitCommand \/ HaltCompletes \/ PowerCut
              \/ \E t \in CamThreads : UsesDeleted(t)
    BY <2>1, <2>10 DEF MainFails, ReceiveBindFails, AutoRestartFails, TeleStopsNull,
       TeleRecordFails, ExitCommand, HaltCompletes, PowerCut, PowersOff, UsesDeleted, ProcessEnds
  <2>11. CASE Boot
    BY <2>11 DEF Boot, IInv
  <2> QED
    BY <2>2, <2>3, <2>4, <2>5, <2>6, <2>7, <2>8, <2>9, <2>10, <2>11 DEF Next, MainNext, RecvHandles
<1>2. IInv /\ [Next]_vars => [proc = "up" => TeleopOwes]_vars
  BY <1>1
<1> QED
  BY <1>2, Inductive, PTL DEF Spec

=============================================================================
