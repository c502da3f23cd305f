----------------------------- MODULE MatchProofs -----------------------------
(***************************************************************************)
(* CameraLifecycle implements Match, for any number of threads: with a     *)
(* paced robot the camera passes from PiCam to raspivid through nobody's   *)
(* hands, and back while raspivid may still be leaving, in the order of a  *)
(* match.                                                                  *)
(***************************************************************************)
EXTENDS PacedCameraProofs

Used(r) == rec[r] # "unused"
Active(r) == rec[r] \in {"created", "launch", "video", "told", "halt"}

\* There is one record at a time in a match: a T meets no record but those whose
\* script could not be run. A record comes after the stop of a camera; and its
\* thread never sees its script end, because the script's end halts the Pi.
MatchInv ==
  Playing =>
    /\ \A r, s \in RecThreads : Active(r) /\ Active(s) => r = s
    /\ Teleop => \A r \in RecThreads : rec[r] \in {"unused", "done"}
    /\ \A r \in RecThreads : rec[r] # "return"
    /\ recvPc \in {"delete", "null", "record"} \/ (\E r \in RecThreads : Used(r)) =>
         \E t \in CamThreads : object[t] \in {"stopped", "deleted"}

Known == IInv /\ CameraInv /\ StartInv /\ RecordInv /\ MatchInv

-----------------------------------------------------------------------------

USE NoCamAssumption DEF hostVars, recvVars, camVars, recVars, Teleop, Autonomous, Idle

LEMMA InitIsMatch == Init => MatchInv /\ M!Init
BY DEF Init, Playing, MatchInv, M!Init, Stage

\* Whatever happens, the match may be over.
LEMMA OverIsEnd ==
  ASSUME ~Playing'
  PROVE  MatchInv' /\ M!Next
<1>1. Stage' = "over"
  BY DEF Stage
<1> QED
  BY <1>1 DEF MatchInv, M!Next, M!End

\* A step that changes neither a PiCam object nor a record shows nothing.
LEMMA NothingShows ==
  ASSUME UNCHANGED <<pi, pacing, proc, object, rec>>
  PROVE  UNCHANGED M!vars
<1>1. /\ Playing' <=> Playing
      /\ OpenCameras' = OpenCameras
      /\ Recording' = Recording
      /\ Recorded' = Recorded
      /\ Told' = Told
  BY DEF Playing, OpenCameras, Open, Recording, Recorded, Told
<1>2. Stage' = Stage
  BY <1>1 DEF Stage
<1> QED
  BY <1>1, <1>2 DEF M!vars

\* While a thread is on its way to its frame loop, no record is on its way, and a
\* raspivid that still has the camera has been told to end.
LEMMA EarlyMeansNoRecord ==
  ASSUME Known, Playing, NEW t \in CamThreads, Early(t)
  PROVE  \A r \in RecThreads : rec[r] \in {"unused", "told", "halt", "done"}
BY DEF Known, IInv, TypeOK, Playing, MatchInv, RecordInv, CameraBusy, Starting

\* While a record is under way that no A has told to end, nobody has a PiCam open,
\* and the match is past the stop.
LEMMA RecordMeansStopped ==
  ASSUME Known, Playing, NEW r \in RecThreads, rec[r] \in {"created", "launch", "video"}
  PROVE  /\ OpenCameras = {} /\ Recorded = {} /\ Told = {}
         /\ Recording = IF rec[r] = "video" THEN {r} ELSE {}
         /\ Stage = IF rec[r] = "video" THEN "recording" ELSE "stopped"
         /\ \E t \in CamThreads : object[t] # "unborn"
<1>1. cam = NoCam /\ \A t \in CamThreads : ~Early(t)
  BY DEF Known, RecordInv, CameraBusy, Starting, Playing
<1>2. OpenCameras = {}
  BY <1>1 DEF Known, CameraInv, NoOrphan, Early, OpenCameras
<1>3. \A s \in RecThreads : s # r => ~Active(s) /\ rec[s] # "return"
  BY DEF Known, MatchInv, Active
<1>4. Recorded = {} /\ Told = {} /\ Recording = IF rec[r] = "video" THEN {r} ELSE {}
  BY <1>3 DEF Recorded, Recording, Told, Active
<1>5. \E t \in CamThreads : object[t] \in {"stopped", "deleted"}
  BY DEF Known, MatchInv, Used
<1> QED
  BY <1>2, <1>4, <1>5 DEF Stage

-----------------------------------------------------------------------------

\* The boot.
LEMMA BootMatches ==
  ASSUME Known, Boot
  PROVE  MatchInv' /\ [M!Next]_(M!vars)
<1>1. ~Playing /\ Stage = "over"
  BY DEF Boot, Playing, Stage
<1>2. /\ \A t \in CamThreads : object'[t] = "unborn"
      /\ \A r \in RecThreads : rec'[r] = "unused"
      /\ recvPc' = "none"
  BY DEF Known, StartInv, Boot
<1>3. MatchInv'
  BY <1>2 DEF MatchInv, Used, Active
<1>4. CASE ~Playing'
  BY <1>4, OverIsEnd
<1>5. CASE Playing'
  <2>1. OpenCameras' = {} /\ Recording' = {} /\ Recorded' = {} /\ Told' = {}
    BY <1>2 DEF OpenCameras, Open, Recording, Recorded, Told
  <2>2. Stage' = "dark"
    BY <1>2, <1>5, <2>1 DEF Stage
  <2> QED
    BY <1>1, <1>3, <2>1, <2>2 DEF M!Next, M!PowerUp
<1> QED
  BY <1>4, <1>5

\* A step of a thread that leaves the objects and the records alone.
LEMMA QuietMatches ==
  ASSUME Known, UNCHANGED <<pi, pacing, proc, object, rec>>,
         Playing /\ Teleop' => \A r \in RecThreads : rec[r] \in {"unused", "done"},
         recvPc' \in {"delete", "null", "record"} => recvPc \in {"delete", "null", "record"}
  PROVE  MatchInv' /\ [M!Next]_(M!vars)
<1>1. Playing' <=> Playing
  BY DEF Playing
<1>2. MatchInv'
  BY <1>1 DEF Known, MatchInv, Used, Active
<1> QED
  BY <1>2, NothingShows

\* main's threads, ReceiveThread's dispatch and what its handlers do besides
\* stopping the camera and recording.
LEMMA HostMatches ==
  ASSUME Known, MainNext
  PROVE  MatchInv' /\ [M!Next]_(M!vars)
<1>1. CASE MainCreates
  <2>1. mainPc # "gone"
    BY <1>1 DEF MainCreates
  <2>2. /\ UNCHANGED <<pi, pacing, proc, object, rec>>
        /\ recvPc' \in {recvPc, "bind"}
    BY <1>1 DEF MainCreates
  <2>3. ~Teleop
    BY <2>1 DEF Known, StartInv
  <2> QED
    BY <2>2, <2>3, QuietMatches
<1>2. CASE MainFails
  <2>1. ~Playing'
    BY <1>2 DEF MainFails, ProcessEnds, ProcessGone, Playing
  <2> QED
    BY <2>1, OverIsEnd
<1> QED
  BY <1>1, <1>2 DEF MainNext

LEMMA ReceiveMatches ==
  ASSUME Known, NEW c \in Commands \cup {"other"}, Receive(c)
  PROVE  MatchInv' /\ [M!Next]_(M!vars)
<1>1. /\ recvPc = "recv" /\ recvPc' \in {"recv", "auto", "stop", "halt", "exit"}
      /\ pacing = "paced" /\ recvPc' = "stop" => Settled /\ cam # NoCam
      /\ UNCHANGED <<pi, pacing, proc, object, rec>>
  BY DEF Receive, Recv, Handler, Commands
<1>2. ASSUME Playing, recvPc' = "stop", NEW r \in RecThreads
      PROVE  rec[r] \in {"unused", "done"}
  <2>1. rec[r] \notin {"created", "launch", "told", "halt", "failed"}
    BY <1>1, <1>2 DEF Settled, Playing
  <2>2. rec[r] # "video"
    BY <1>1, <1>2 DEF Known, RecordInv, CameraBusy, Playing
  <2>3. rec[r] # "return"
    BY <1>2 DEF Known, MatchInv
  <2> QED
    BY <2>1, <2>2, <2>3 DEF Known, IInv, TypeOK
<1> QED
  BY <1>1, <1>2, QuietMatches

LEMMA HandlerMatches ==
  ASSUME Known,
         \/ ReceiveBinds \/ AutoReadRecording \/ AutoClearRecording \/ AutoRestartCamera
         \/ AutoSaveImage \/ TeleClearRunning \/ TeleClearCam
  PROVE  MatchInv' /\ [M!Next]_(M!vars)
<1>1. /\ UNCHANGED <<pi, pacing, proc, object, rec>>
      /\ \/ /\ recvPc \in {"bind", "auto", "clear", "camera", "save"}
            /\ recvPc' \in {"recv", "kill", "camera", "save"}
         \/ recvPc = "stop" /\ recvPc' = "close"
         \/ recvPc = "null" /\ recvPc' = "record"
  BY DEF ReceiveBinds, AutoReadRecording, AutoClearRecording, AutoRestartCamera,
     AutoSaveImage, TeleClearRunning, TeleClearCam, Recv
<1>2. Playing /\ recvPc' \in {"close", "record"} =>
        \A r \in RecThreads : rec[r] \in {"unused", "done"}
  BY <1>1 DEF Known, MatchInv
<1> QED
  BY <1>1, <1>2, QuietMatches

\* T: the camera is closed.
LEMMA CloseMatches ==
  ASSUME Known, TeleCloseCamera
  PROVE  MatchInv' /\ [M!Next]_(M!vars)
<1>1. CASE ~Playing
  <2>1. ~Playing'
    BY <1>1 DEF TeleCloseCamera, Recv, Playing
  <2> QED
    BY <2>1, OverIsEnd
<1>2. CASE Playing
  <2>1. /\ recvPc = "close" /\ recvPc' = "delete"
        /\ UNCHANGED <<pi, pacing, proc, rec>>
    BY DEF TeleCloseCamera, Recv
  <2>2. cam \in CamThreads /\ target = cam /\ Open(cam)
    BY <2>1 DEF Known, IInv, TypeOK, CameraInv
  <2>3. \A t \in CamThreads : Open(t) => t = cam
    BY <2>1 DEF Known, CameraInv, NoOrphan, Early
  <2>4. object'[cam] = "stopped" /\ \A t \in CamThreads : t # cam => object'[t] = object[t]
    BY <2>2 DEF TeleCloseCamera, Known, IInv, TypeOK
  <2>5. \A r \in RecThreads : rec[r] \in {"unused", "done"} /\ rec'[r] = rec[r]
    BY <1>2, <2>1 DEF Known, MatchInv
  <2>6. Playing'
    BY <1>2, <2>1 DEF Playing
  <2>7. MatchInv'
    BY <2>1, <2>2, <2>4, <2>5 DEF MatchInv, Active
  <2>8. /\ OpenCameras # {} /\ OpenCameras' = {}
        /\ Recording' = {}
        /\ Recorded = {} /\ Recorded' = {}
        /\ Told = {} /\ Told' = {}
    BY <2>2, <2>3, <2>4, <2>5 DEF OpenCameras, Open, Recording, Recorded, Told
  <2>9. Stage = "seeing" /\ Stage' = "stopped"
    BY <1>2, <2>2, <2>4, <2>6, <2>8 DEF Stage
  <2> QED
    BY <1>2, <2>6, <2>7, <2>8, <2>9 DEF M!Next, M!Stop, M!Closes
<1> QED
  BY <1>1, <1>2

\* T: the closed camera is deleted.
LEMMA DeleteMatches ==
  ASSUME Known, TeleDelete
  PROVE  MatchInv' /\ [M!Next]_(M!vars)
<1>1. CASE ~Playing
  <2>1. ~Playing'
    BY <1>1 DEF TeleDelete, Recv, Playing
  <2> QED
    BY <2>1, OverIsEnd
<1>2. CASE Playing
  <2>1. /\ recvPc = "delete" /\ recvPc' = "null"
        /\ UNCHANGED <<pi, pacing, proc, rec>>
    BY DEF TeleDelete, Recv
  <2>2. cam \in CamThreads /\ ~Open(cam)
    BY <2>1 DEF Known, IInv, TypeOK, CameraInv
  <2>3. object'[cam] = "deleted" /\ \A t \in CamThreads : t # cam => object'[t] = object[t]
    BY <2>2 DEF TeleDelete
  <2>4. \A r \in RecThreads : rec[r] \in {"unused", "done"} /\ rec'[r] = rec[r]
    BY <1>2, <2>1 DEF Known, MatchInv
  <2>5. Playing'
    BY <1>2, <2>1 DEF Playing
  <2>6. MatchInv'
    BY <2>1, <2>2, <2>3, <2>4 DEF MatchInv, Active
  <2>7. /\ OpenCameras' = OpenCameras
        /\ Recording' = Recording
        /\ Recorded' = Recorded
        /\ Told' = Told
    BY <2>2, <2>3, <2>4 DEF OpenCameras, Open, Recording, Recorded, Told
  <2>8. \E t \in CamThreads : object[t] \in {"stopped", "deleted"}
    BY <1>2, <2>1 DEF Known, MatchInv
  <2>9. (\E t \in CamThreads : object[t] # "unborn")' <=> \E t \in CamThreads : object[t] # "unborn"
    BY <2>2, <2>3, <2>8
  <2>10. Stage' = Stage
    BY <1>2, <2>5, <2>7, <2>9 DEF Stage
  <2> QED
    BY <1>2, <2>5, <2>6, <2>7, <2>10 DEF M!vars
<1> QED
  BY <1>1, <1>2

\* T: the record thread is created.
LEMMA RecordMatches ==
  ASSUME Known, TeleRecord
  PROVE  MatchInv' /\ [M!Next]_(M!vars)
<1>1. CASE ~Playing
  <2>1. ~Playing'
    BY <1>1 DEF TeleRecord, Recv, Playing
  <2> QED
    BY <2>1, OverIsEnd
<1>2. CASE Playing
  <2>1. /\ recvPc = "record" /\ recvPc' = "recv"
        /\ UNCHANGED <<pi, pacing, proc, object>>
    BY DEF TeleRecord, Recv
  <2>2. PICK r \in RecThreads : rec' = [rec EXCEPT ![r] = "created"]
    BY DEF TeleRecord
  <2>3. rec'[r] = "created" /\ \A s \in RecThreads : s # r => rec'[s] = rec[s]
    BY <2>2 DEF Known, IInv, TypeOK
  <2>4. \A s \in RecThreads : rec[s] \in {"unused", "done"}
    BY <1>2, <2>1 DEF Known, MatchInv
  <2>5. Playing' <=> Playing
    BY <2>1 DEF Playing
  <2>6. MatchInv'
    BY <1>2, <2>1, <2>3, <2>4 DEF Known, MatchInv, Active
  <2>7. /\ OpenCameras' = OpenCameras
        /\ Recording' = {} /\ Recording = {}
        /\ Recorded' = {} /\ Recorded = {}
        /\ Told' = {} /\ Told = {}
    BY <2>1, <2>3, <2>4 DEF OpenCameras, Open, Recording, Recorded, Told
  <2>8. Stage' = Stage
    BY <2>1, <2>5, <2>7 DEF Stage
  <2> QED
    BY <2>5, <2>6, <2>7, <2>8 DEF M!vars
<1> QED
  BY <1>1, <1>2

\* A step of a record, which neither PiCam nor the program's life depends on,
\* leaves what MatchInv says of the records.
LEMMA RecorderKeepsMatchInv ==
  ASSUME Known, Playing, NEW r \in RecThreads, Active(r) \/ rec[r] = "failed",
         UNCHANGED <<pi, pacing, proc, object>>,
         recvPc' = recvPc \/ (recvPc = "kill" /\ recvPc' = "clear"),
         \A s \in RecThreads : s # r => rec'[s] = rec[s],
         rec'[r] \notin {"unused", "return"}, Active(r)' => Active(r)
  PROVE  MatchInv' /\ Playing'
<1>1. Used(r)
  BY DEF Used, Active
<1>2. ~Teleop
  BY DEF Known, MatchInv, Active
<1>3. \E t \in CamThreads : object'[t] \in {"stopped", "deleted"}
  BY <1>1 DEF Known, MatchInv
<1> QED
  BY <1>2, <1>3 DEF Known, MatchInv, Playing, Active

\* A record whose thread, script or raspivid starts, fails, is told to end, or ends
\* without having been told.
LEMMA RecorderMatches ==
  ASSUME Known, Playing, NEW r \in RecThreads,
         UNCHANGED <<pi, pacing, proc, object>>,
         recvPc' = recvPc \/ (recvPc = "kill" /\ recvPc' = "clear"),
         \A s \in RecThreads : s # r => rec'[s] = rec[s],
         \/ rec[r] = "created" /\ rec'[r] = "launch"
         \/ rec[r] = "launch" /\ rec'[r] \in {"video", "halt", "failed"}
         \/ rec[r] = "video" /\ rec'[r] \in {"told", "halt"}
  PROVE  MatchInv' /\ [M!Next]_(M!vars)
<1>1. MatchInv' /\ Playing'
  BY RecorderKeepsMatchInv DEF Active
<1>2. \A s \in RecThreads : s # r => ~Active(s) /\ rec[s] # "return"
  BY DEF Known, MatchInv, Active
<1>3. /\ OpenCameras = {} /\ Recorded = {} /\ Told = {}
      /\ Recording = IF rec[r] = "video" THEN {r} ELSE {}
      /\ Stage = IF rec[r] = "video" THEN "recording" ELSE "stopped"
      /\ \E t \in CamThreads : object[t] # "unborn"
  BY RecordMeansStopped
<1>4. /\ OpenCameras' = {}
      /\ Recording' = IF rec'[r] \in {"video", "told"} THEN {r} ELSE {}
      /\ Recorded' = IF rec'[r] \in {"told", "halt"} THEN {r} ELSE {}
      /\ Told' = IF rec'[r] = "told" THEN {r} ELSE {}
  BY <1>2, <1>3 DEF OpenCameras, Open, Recording, Recorded, Told, Active
<1>5. CASE rec'[r] \in {"launch", "failed"}
  <2>1. Stage = "stopped" /\ Stage' = "stopped" /\ Recording = {} /\ Recording' = {} /\ Told' = {}
    BY <1>1, <1>3, <1>4, <1>5 DEF Stage
  <2> QED
    BY <1>1, <1>3, <1>4, <2>1 DEF M!vars
<1>6. CASE rec[r] = "launch" /\ rec'[r] = "video"
  <2>1. Stage = "stopped" /\ Stage' = "recording" /\ Recording = {} /\ Recording' = {r} /\ Told' = {}
    BY <1>1, <1>3, <1>4, <1>6 DEF Stage
  <2> QED
    BY <1>1, <1>3, <1>4, <1>6, <2>1 DEF M!Next, M!Record, M!Opens
<1>7. CASE rec[r] = "launch" /\ rec'[r] = "halt"
  <2>1. Stage = "stopped" /\ Stage' = "recorded" /\ Recording' = {} /\ Told' = {}
    BY <1>1, <1>3, <1>4, <1>7 DEF Stage
  <2> QED
    BY <1>1, <1>3, <1>4, <2>1 DEF M!Next, M!RecordFails, M!Closes
<1>8. CASE rec[r] = "video" /\ rec'[r] = "halt"
  <2>1. Stage = "recording" /\ Stage' = "recorded" /\ Recording' = {} /\ Told' = {}
    BY <1>1, <1>3, <1>4, <1>8 DEF Stage
  <2> QED
    BY <1>1, <1>3, <1>4, <2>1 DEF M!Next, M!RecordEnds, M!Closes
<1>9. CASE rec[r] = "video" /\ rec'[r] = "told"
  <2>1. /\ Stage = "recording" /\ Stage' = "recorded"
        /\ Recording = {r} /\ Recording' = {r} /\ Told' = {r}
    BY <1>1, <1>3, <1>4, <1>9 DEF Stage
  <2> QED
    BY <1>1, <1>3, <1>4, <2>1 DEF M!Next, M!Tell
<1> QED
  BY <1>5, <1>6, <1>7, <1>8, <1>9

\* The raspivid that has been told to end does.
LEMMA LeaveMatches ==
  ASSUME Known, Playing, NEW r \in RecThreads,
         UNCHANGED <<pi, pacing, proc, object, recvPc>>,
         \A s \in RecThreads : s # r => rec'[s] = rec[s],
         rec[r] = "told", rec'[r] = "halt"
  PROVE  MatchInv' /\ [M!Next]_(M!vars)
<1>1. MatchInv' /\ Playing'
  BY RecorderKeepsMatchInv DEF Active
<1>2. \A s \in RecThreads : s # r => ~Active(s)
  BY DEF Known, MatchInv, Active
<1>3. /\ OpenCameras' = OpenCameras
      /\ Recording = {r} /\ Recording' = {}
      /\ Recorded # {} /\ Recorded' # {}
      /\ Told = {r} /\ Told' = {}
  BY <1>2 DEF OpenCameras, Open, Recording, Recorded, Told, Active
<1>4. Stage' = Stage
  BY <1>1, <1>3 DEF Stage
<1>5. r \notin OpenCameras
  BY ThreadsAssumption DEF OpenCameras
<1> QED
  BY <1>1, <1>3, <1>4, <1>5 DEF M!Next, M!Leave

\* A: raspivid is told to end.
LEMMA KillMatches ==
  ASSUME Known, AutoKillRecorder
  PROVE  MatchInv' /\ [M!Next]_(M!vars)
<1>1. /\ recvPc = "kill" /\ recvPc' = "clear"
      /\ UNCHANGED <<pi, pacing, proc, object>>
      /\ rec' = [r \in RecThreads |-> IF rec[r] = "video" THEN "told" ELSE rec[r]]
  BY DEF AutoKillRecorder, Recv
<1>2. CASE ~Playing
  <2>1. ~Playing'
    BY <1>1, <1>2 DEF Playing
  <2> QED
    BY <2>1, OverIsEnd
<1>3. CASE \A r \in RecThreads : rec[r] # "video"
  <2>1. rec' = rec
    BY <1>1, <1>3 DEF Known, IInv, TypeOK
  <2> QED
    BY <1>1, <2>1, QuietMatches
<1>4. CASE Playing /\ \E r \in RecThreads : rec[r] = "video"
  <2>1. PICK r \in RecThreads : rec[r] = "video"
    BY <1>4
  <2>2. \A s \in RecThreads : s # r => rec[s] # "video"
    BY <1>4, <2>1 DEF Known, MatchInv, Active
  <2>3. rec'[r] = "told" /\ \A s \in RecThreads : s # r => rec'[s] = rec[s]
    BY <1>1, <2>1, <2>2
  <2> QED
    BY <1>1, <1>4, <2>1, <2>3, RecorderMatches
<1> QED
  BY <1>2, <1>3, <1>4

\* PiCamThread t opens its camera.
LEMMA ConstructMatches ==
  ASSUME Known, NEW t \in CamThreads, Construct(t)
  PROVE  MatchInv' /\ [M!Next]_(M!vars)
<1>1. /\ picam[t] = "construct"
      /\ UNCHANGED <<pi, pacing, proc, recvPc, rec>>
      /\ object' = [object EXCEPT ![t] = "open"]
  BY DEF Construct, Cam
<1>2. CASE ~Playing
  <2>1. ~Playing'
    BY <1>1, <1>2 DEF Playing
  <2> QED
    BY <2>1, OverIsEnd
<1>3. CASE Playing
  <2>1. Playing'
    BY <1>1, <1>3 DEF Playing
  <2>2. /\ object[t] = "unborn" /\ object'[t] = "open"
        /\ \A u \in CamThreads : u # t => object'[u] = object[u]
    BY <1>1 DEF Known, IInv, TypeOK
  <2>3. \A u \in CamThreads : ~Open(u)
    BY <1>1 DEF Known, CameraInv, NoOrphan, Early
  <2>4. MatchInv'
    BY <1>1, <1>3, <2>1, <2>2 DEF Known, MatchInv, Used, Active
  <2>5. OpenCameras = {} /\ OpenCameras' = {t}
    BY <2>2, <2>3 DEF OpenCameras, Open
  <2>6. \A r \in RecThreads : rec[r] \in {"unused", "told", "halt", "done"}
    BY <1>1, <1>3, EarlyMeansNoRecord DEF Early
  <2>7. /\ Recording = Told /\ UNCHANGED <<Recording, Told, Recorded>>
        /\ Told \subseteq Recorded
    BY <1>1, <2>6 DEF Recording, Recorded, Told
  <2>8. CASE Recorded # {}
    <3>1. Stage = "recorded" /\ Stage' = "again"
      BY <1>3, <2>1, <2>5, <2>7, <2>8 DEF Stage
    <3> QED
      BY <1>3, <2>1, <2>4, <2>5, <2>7, <3>1 DEF M!Next, M!SeeAgain, M!Opens
  <2>9. CASE Recorded = {}
    <3>1. Recording = {} /\ Told = {}
      BY <2>7, <2>9
    <3>2. Stage \in {"dark", "stopped"} /\ Stage' = "seeing"
      BY <1>3, <2>1, <2>5, <2>7, <2>9, <3>1 DEF Stage
    <3> QED
      BY <1>3, <2>1, <2>4, <2>5, <2>7, <3>1, <3>2 DEF M!Next, M!See, M!Opens
  <2> QED
    BY <2>8, <2>9
<1> QED
  BY <1>2, <1>3

\* The other steps of PiCamThread t.
LEMMA CamMatches ==
  ASSUME Known, NEW t \in CamThreads, CamRuns(t) \/ FrameArrives(t) \/ UsesDeleted(t)
  PROVE  MatchInv' /\ [M!Next]_(M!vars)
<1>1. CASE Construct(t)
  BY <1>1, ConstructMatches
<1>2. CASE AssignCam(t) \/ CallStart(t) \/ StartCapture(t) \/ SetRunning(t) \/ TestRunning(t)
             \/ FrameArrives(t) \/ FrameDone(t)
  <2>1. UNCHANGED <<pi, pacing, proc, recvPc, object, rec>>
    BY <1>2 DEF AssignCam, CallStart, StartCapture, SetRunning, TestRunning, FrameArrives,
       FrameDone, Cam
  <2>2. Playing /\ Teleop' => \A r \in RecThreads : rec[r] \in {"unused", "done"}
    BY <2>1 DEF Known, MatchInv
  <2> QED
    BY <2>1, <2>2, QuietMatches
<1>3. CASE ConstructThrows(t) \/ StartsNull(t) \/ StartThrows(t) \/ UsesDeleted(t)
  <2>1. ~Playing'
    BY <1>3 DEF ConstructThrows, StartsNull, StartThrows, UsesDeleted, ProcessEnds,
       ProcessGone, Playing
  <2> QED
    BY <2>1, OverIsEnd
<1> QED
  BY <1>1, <1>2, <1>3 DEF CamRuns

\* The record threads and their scripts.
LEMMA RecMatches ==
  ASSUME Known, NEW r \in RecThreads, RecNext(r)
  PROVE  MatchInv' /\ [M!Next]_(M!vars)
<1>1. CASE ~Playing
  <2>1. ~Playing'
    BY <1>1 DEF RecNext, RecordBegins, SystemFails, ScriptStarts, VideoEnds, ScriptHalts, RecordEnds, Rec,
       Playing
  <2> QED
    BY <2>1, OverIsEnd
<1>2. CASE ScriptHalts(r)
  <2>1. ~Playing'
    BY <1>2 DEF ScriptHalts, Playing
  <2> QED
    BY <2>1, OverIsEnd
<1>3. CASE Playing /\ ~ScriptHalts(r)
  <2>1. /\ UNCHANGED <<pi, pacing, proc, object, recvPc>>
        /\ \A s \in RecThreads : s # r => rec'[s] = rec[s]
        /\ \/ rec[r] = "created" /\ rec'[r] = "launch"
           \/ rec[r] = "launch" /\ rec'[r] \in {"video", "halt", "failed"}
           \/ rec[r] = "video" /\ rec'[r] = "halt"
           \/ rec[r] = "told" /\ rec'[r] = "halt"
           \/ rec[r] \in {"return", "failed"} /\ rec'[r] = "done"
    BY <1>3 DEF RecNext, RecordBegins, SystemFails, ScriptStarts, VideoEnds, RecordEnds, Rec,
       Known, IInv, TypeOK
  <2>2. CASE rec[r] = "told"
    BY <1>3, <2>1, <2>2, LeaveMatches
  <2>3. CASE rec[r] \in {"created", "launch", "video"}
    BY <1>3, <2>1, <2>3, RecorderMatches
  <2>4. CASE rec[r] = "failed"
    <3>1. MatchInv' /\ Playing'
      BY <1>3, <2>1, <2>4, RecorderKeepsMatchInv DEF Active
    <3>2. UNCHANGED <<OpenCameras, Recording, Recorded, Told>>
      BY <2>1, <2>4 DEF OpenCameras, Open, Recording, Recorded, Told
    <3>3. Stage' = Stage
      BY <1>3, <2>1, <3>1, <3>2 DEF Stage
    <3> QED
      BY <1>3, <3>1, <3>2, <3>3 DEF M!vars
  <2>5. rec[r] # "return"
    BY <1>3 DEF Known, MatchInv
  <2> QED
    BY <2>1, <2>2, <2>3, <2>4, <2>5
<1> QED
  BY <1>1, <1>2, <1>3

-----------------------------------------------------------------------------

\* Each step of the program, of the Pi and of whoever switches it is a step of
\* the match, or shows nothing of it.
LEMMA StepMatches ==
  ASSUME Known, [Next]_vars
  PROVE  MatchInv' /\ [M!Next]_(M!vars)
<1>1. CASE Boot
  BY <1>1, BootMatches
<1>2. CASE HaltCompletes \/ PowerCut
  <2>1. ~Playing'
    BY <1>2 DEF HaltCompletes, PowerCut, PowersOff, Playing
  <2> QED
    BY <2>1, OverIsEnd
<1>3. CASE MainNext
  BY <1>3, HostMatches
<1>4. CASE \E c \in Commands \cup {"other"} : Receive(c)
  BY <1>4, ReceiveMatches
<1>5. CASE ReceiveFails
  <2>1. ~Playing'
    BY <1>5 DEF ReceiveFails, Recv, Playing
  <2> QED
    BY <2>1, OverIsEnd
<1>6. CASE RecvHandles
  <2>1. CASE ReceiveBinds \/ AutoReadRecording \/ AutoClearRecording \/ AutoRestartCamera
               \/ AutoSaveImage \/ TeleClearRunning \/ TeleClearCam
    BY <2>1, HandlerMatches
  <2>2. CASE ReceiveBindFails \/ AutoRestartFails \/ TeleStopsNull \/ TeleRecordFails \/ ExitCommand
    <3>1. ~Playing'
      BY <2>2 DEF ReceiveBindFails, AutoRestartFails, TeleStopsNull, TeleRecordFails,
         ExitCommand, ProcessEnds, ProcessGone, Playing
    <3> QED
      BY <3>1, OverIsEnd
  <2>3. CASE ShutDown /\ UNCHANGED pi
    <3>1. /\ UNCHANGED <<pi, pacing, proc, object, rec>>
          /\ recvPc' = "recv"
      BY <2>3 DEF ShutDown, Recv
    <3> QED
      BY <3>1, QuietMatches
  <2>4. CASE ShutDown /\ pi' = "halting"
    <3>1. ~Playing'
      BY <2>4 DEF Playing
    <3> QED
      BY <3>1, OverIsEnd
  <2>5. CASE ShutDown
    BY <2>3, <2>4, <2>5 DEF ShutDown
  <2> QED
    BY <1>6, <2>1, <2>2, <2>5, KillMatches, CloseMatches, DeleteMatches, RecordMatches
    DEF RecvHandles
<1>7. CASE \E t \in CamThreads : CamRuns(t) \/ FrameArrives(t) \/ UsesDeleted(t)
  BY <1>7, CamMatches
<1>8. CASE \E r \in RecThreads : RecNext(r)
  BY <1>8, RecMatches
<1>9. CASE UNCHANGED vars
  <2>1. UNCHANGED <<pi, pacing, proc, recvPc, object, rec>>
    BY <1>9 DEF vars
  <2>2. Playing /\ Teleop' => \A r \in RecThreads : rec[r] \in {"unused", "done"}
    BY <2>1 DEF Known, MatchInv
  <2> QED
    BY <2>1, <2>2, QuietMatches
<1> QED
  BY <1>1, <1>2, <1>3, <1>4, <1>5, <1>6, <1>7, <1>8, <1>9 DEF Next

\* Nothing is claimed of a hasty robot's match, so every step of it shows nothing.
LEMMA HastyMatches ==
  ASSUME MatchInv, pacing # "paced", [Next]_vars
  PROVE  MatchInv' /\ [M!Next]_(M!vars)
<1>1. ~Playing'
  BY PacingStays DEF Playing
<1> QED
  BY <1>1, OverIsEnd

\* In a match of a paced robot there is one record at a time, and no T after a
\* script has run; a record follows a stop of the camera, and its thread sees
\* system() return (Receive.cpp:14) only if that could not run the script.
THEOREM OneRecordAtATime == Spec => []MatchInv
<1>1. IInv /\ PacedInv /\ MatchInv /\ [Next]_vars => MatchInv'
  BY StepMatches, HastyMatches DEF PacedInv, Known
<1> QED
  BY <1>1, InitIsMatch, Inductive, PacedInductive, PTL DEF Spec

\* What a paced robot gets is a match: the threads of PiCam.cpp, Receive.cpp and the
\* script RecordMatch hand the camera over in its order, each when nobody has it but a
\* raspivid that an A has told to end.
THEOREM CameraRefinement == Spec => ImplementsMatch
<1>1. IInv /\ PacedInv /\ MatchInv /\ [Next]_vars => [M!Next]_(M!vars)
  BY StepMatches, HastyMatches DEF PacedInv, Known
<1> QED
  BY <1>1, InitIsMatch, OneRecordAtATime, Inductive, PacedInductive, PTL
  DEF Spec, ImplementsMatch, M!Spec

=============================================================================
