---------------------------- MODULE ResultChannel ----------------------------
(***************************************************************************)
(* What becomes of a frame in the Pi's vision program (Vision/picam): the   *)
(* PiCam threads run process_frame on it, which leaves the image in         *)
(* write_img, under img_mutex, and the result in data, under data_mutex;    *)
(* SendThread sends data to the robot, ReceiveThread saves write_img to a   *)
(* file on an A, and WebThread serves write_img to a browser.               *)
(*                                                                         *)
(* Images and results are named after the frame they come from. Two PiCam   *)
(* threads exist for a while when an A restarts the camera.                 *)
(***************************************************************************)
EXTENDS Integers, FiniteSets

CONSTANTS
  Producers,   \* the PiCam threads that run process_frame
  Sender,      \* SendThread
  Saver,       \* ReceiveThread
  Web,         \* WebThread
  Frames,      \* the frames that are told apart
  Nothing,     \* no frame: an empty image, or the zeros data starts with
  NoThread     \* nobody holds the mutex

Readers == {Saver, Web}
Threads == Producers \cup {Sender} \cup Readers

ASSUME ThreadsAssumption ==
  /\ Saver # Web
  /\ Sender \notin Readers
  /\ Producers \cap ({Sender} \cup Readers) = {}
  /\ NoThread \notin Threads
ASSUME FramesAssumption == Nothing \notin Frames

VARIABLES
  alive,       \* the program has not ended
  pc,          \* pc[t]: where thread t is
  img_mutex,   \* who holds it
  data_mutex,  \* who holds it
  work,        \* work[p]: the frame that producer p processes
  write_img,   \* the shared image: the frames its two halves come from
  copy,        \* copy[t]: the local rgbimg of a reader t
  rc,          \* ReceiveThread's rc: 0, or 1 for any other value
  data,        \* the shared result: the frames its counts and its flags are of
  sent,        \* the last datagram
  unsent       \* history: data holds a result that no datagram has carried

imgVars == <<img_mutex, write_img, copy, rc>>
dataVars == <<data_mutex, data, sent, unsent>>
vars == <<alive, pc, work, imgVars, dataVars>>

Image == [top : Frames \cup {Nothing}, bottom : Frames \cup {Nothing}]
Empty == [top |-> Nothing, bottom |-> Nothing]
Result == [counts : Frames \cup {Nothing}, hot : Frames \cup {Nothing}]

ProducerPcs == {"frame", "lockImage", "top", "bottom", "unlockImage",
                "lockData", "counts", "hot", "broadcast", "unlockData"}
SenderPcs == {"lock", "wait", "blocked", "relock", "send", "unlock"}
ReaderPcs == {"socket", "bind", "idle", "lock", "test", "top", "bottom", "write", "unlock", "send", "gone"}

TypeOK ==
  /\ alive \in BOOLEAN
  /\ pc \in [Threads -> ProducerPcs \cup SenderPcs \cup ReaderPcs]
  /\ \A p \in Producers : pc[p] \in ProducerPcs
  /\ pc[Sender] \in SenderPcs
  /\ \A r \in Readers : pc[r] \in ReaderPcs
  /\ img_mutex \in Producers \cup Readers \cup {NoThread}
  /\ data_mutex \in Producers \cup {Sender, NoThread}
  /\ work \in [Producers -> Frames \cup {Nothing}]
  /\ write_img \in Image
  /\ copy \in [Readers -> Image]
  /\ rc \in {0, 1}
  /\ data \in Result
  /\ sent \in Result
  /\ unsent \in BOOLEAN

\* rc is an uninitialized local of ReceiveThread.
Init ==
  /\ alive = TRUE
  /\ pc = [t \in Threads |-> IF t \in Producers THEN "frame"
                             ELSE IF t = Sender THEN "lock"
                             ELSE IF t = Web THEN "socket" ELSE "idle"]
  /\ img_mutex = NoThread /\ data_mutex = NoThread
  /\ work = [p \in Producers |-> Nothing]
  /\ write_img = Empty
  /\ copy = [r \in Readers |-> Empty]
  /\ rc \in {0, 1}
  /\ data = [counts |-> Nothing, hot |-> Nothing]
  /\ sent = [counts |-> Nothing, hot |-> Nothing]
  /\ unsent = FALSE

Go(t, from, to) ==
  /\ alive
  /\ pc[t] = from
  /\ pc' = [pc EXCEPT ![t] = to]
  /\ UNCHANGED alive

\* exit, an uncaught exception or a fatal signal.
Ends(t, from) ==
  /\ alive
  /\ pc[t] = from
  /\ alive' = FALSE
  /\ UNCHANGED <<pc, work, imgVars, dataVars>>

\* pthread_mutex_lock returns, pthread_mutex_unlock is called.
Lock(mutex, t) == mutex = NoThread /\ mutex' = t
Unlock(mutex) == mutex' = NoThread

-----------------------------------------------------------------------------
(* process_frame in producer p. *)

TakeFrame(p) ==
  /\ Go(p, "frame", "lockImage")
  /\ \E f \in Frames : work' = [work EXCEPT ![p] = f]
  /\ UNCHANGED <<imgVars, dataVars>>

\* Mutant: write_img is written without the mutex.
Bug_LockImage(p) ==
  /\ Go(p, "lockImage", "top")
  /\ UNCHANGED <<work, imgVars, dataVars>>

LockImage(p) ==
  /\ Go(p, "lockImage", "top")
  /\ Lock(img_mutex, p)
  /\ UNCHANGED <<work, write_img, copy, rc, dataVars>>

CopyTop(p) ==
  /\ Go(p, "top", "bottom")
  /\ write_img' = [write_img EXCEPT !.top = work[p]]
  /\ UNCHANGED <<work, img_mutex, copy, rc, dataVars>>

CopyBottom(p) ==
  /\ Go(p, "bottom", "unlockImage")
  /\ write_img' = [write_img EXCEPT !.bottom = work[p]]
  /\ UNCHANGED <<work, img_mutex, copy, rc, dataVars>>

\* Mutant: process_frame returns once the image is copied if it finds no target.
Bug_UnlockImage(p) ==
  /\ \E to \in {"lockData", "frame"} : Go(p, "unlockImage", to)
  /\ Unlock(img_mutex)
  /\ UNCHANGED <<work, write_img, copy, rc, dataVars>>

\* Then the image is searched for targets, see TargetScan.
UnlockImage(p) ==
  /\ Go(p, "unlockImage", "lockData")
  /\ Unlock(img_mutex)
  /\ UNCHANGED <<work, write_img, copy, rc, dataVars>>

LockData(p) ==
  /\ Go(p, "lockData", "counts")
  /\ Lock(data_mutex, p)
  /\ UNCHANGED <<work, imgVars, data, sent, unsent>>

\* total, horiz and vert
WriteCounts(p) ==
  /\ Go(p, "counts", "hot")
  /\ data' = [data EXCEPT !.counts = work[p]]
  /\ UNCHANGED <<work, imgVars, data_mutex, sent, unsent>>

\* lhot and rhot
WriteHot(p) ==
  /\ Go(p, "hot", "broadcast")
  /\ data' = [data EXCEPT !.hot = work[p]]
  /\ unsent' = TRUE
  /\ UNCHANGED <<work, imgVars, data_mutex, sent>>

\* Mutant: nobody is woken.
Bug_Broadcast(p) ==
  /\ Go(p, "broadcast", "unlockData")
  /\ UNCHANGED <<work, imgVars, dataVars>>

\* SendThread, if it is blocked, has to take the mutex before it goes on.
Broadcast(p) ==
  /\ alive
  /\ pc[p] = "broadcast"
  /\ pc' = [pc EXCEPT ![p] = "unlockData", ![Sender] = IF @ = "blocked" THEN "relock" ELSE @]
  /\ UNCHANGED <<alive, work, imgVars, dataVars>>

UnlockData(p) ==
  /\ Go(p, "unlockData", "frame")
  /\ Unlock(data_mutex)
  /\ UNCHANGED <<work, imgVars, data, sent, unsent>>

-----------------------------------------------------------------------------
(* SendThread. *)

\* Mutant: the mutex of the other shared variable is taken.
Bug_SenderLocks ==
  /\ Go(Sender, "lock", "wait")
  /\ Lock(img_mutex, Sender)
  /\ UNCHANGED <<work, write_img, copy, rc, dataVars>>

SenderLocks ==
  /\ Go(Sender, "lock", "wait")
  /\ Lock(data_mutex, Sender)
  /\ UNCHANGED <<work, imgVars, data, sent, unsent>>

\* pthread_cond_wait, whether or not there is data already.
SenderWaits ==
  /\ Go(Sender, "wait", "blocked")
  /\ Unlock(data_mutex)
  /\ UNCHANGED <<work, imgVars, data, sent, unsent>>

\* POSIX allows pthread_cond_wait to return without a broadcast.
SpuriousWakeup ==
  /\ Go(Sender, "blocked", "relock")
  /\ UNCHANGED <<work, imgVars, dataVars>>

\* Mutant: pthread_cond_wait returns without the mutex.
Bug_SenderRelocks ==
  /\ Go(Sender, "relock", "send")
  /\ UNCHANGED <<work, imgVars, dataVars>>

SenderRelocks ==
  /\ Go(Sender, "relock", "send")
  /\ Lock(data_mutex, Sender)
  /\ UNCHANGED <<work, imgVars, data, sent, unsent>>

SendData ==
  /\ Go(Sender, "send", "unlock")
  /\ sent' = data
  /\ unsent' = FALSE
  /\ UNCHANGED <<work, imgVars, data_mutex, data>>

\* sendto fails, as it does when the network is down: exit(1).
SendFails == Ends(Sender, "send")

SenderUnlocks ==
  /\ Go(Sender, "unlock", "lock")
  /\ Unlock(data_mutex)
  /\ UNCHANGED <<work, imgVars, data, sent, unsent>>

-----------------------------------------------------------------------------
(* ReceiveThread: saving the image on an A, after what CameraLifecycle does. *)

\* rc is 0 once a pthread_create of this thread has set it.
ReceiveAuto ==
  /\ Go(Saver, "idle", "lock")
  /\ rc' \in {0, rc}
  /\ UNCHANGED <<work, img_mutex, write_img, copy, dataVars>>

\* if (rc == 0)
TestRc ==
  /\ Go(Saver, "test", IF rc = 0 THEN "top" ELSE "unlock")
  /\ UNCHANGED <<work, imgVars, dataVars>>

\* imwrite, still under the mutex
WriteFile ==
  /\ Go(Saver, "write", "unlock")
  /\ UNCHANGED <<work, imgVars, dataVars>>

\* imwrite throws, as it may of an empty image, and nothing catches it.
WriteFails == copy[Saver] = Empty /\ Ends(Saver, "write")

-----------------------------------------------------------------------------
(* WebThread. *)

WebOpens ==
  /\ Go(Web, "socket", "bind")
  /\ UNCHANGED <<work, imgVars, dataVars>>

\* bind is tried again every 15 seconds, which may never succeed.
WebBinds ==
  /\ Go(Web, "bind", "idle")
  /\ UNCHANGED <<work, imgVars, dataVars>>

\* accept, and read of a request that is not a GET: the socket is closed.
WebIgnores ==
  /\ Go(Web, "idle", "idle")
  /\ UNCHANGED <<work, imgVars, dataVars>>

WebGets ==
  /\ Go(Web, "idle", "lock")
  /\ UNCHANGED <<work, imgVars, dataVars>>

\* socket, accept or read fails: error() ends the thread.
WebError ==
  /\ \E at \in {"socket", "idle"} : Go(Web, at, "gone")
  /\ UNCHANGED <<work, imgVars, dataVars>>

\* Mutant: the image is not tested.
Bug_TestEmpty ==
  /\ Go(Web, "test", "top")
  /\ UNCHANGED <<work, imgVars, dataVars>>

\* if (!write_img.empty())
TestEmpty ==
  /\ Go(Web, "test", IF write_img = Empty THEN "unlock" ELSE "top")
  /\ UNCHANGED <<work, imgVars, dataVars>>

\* The picture or "No Image" is sent, and the socket closed.
WebSends ==
  /\ Go(Web, "send", "idle")
  /\ UNCHANGED <<work, imgVars, dataVars>>

\* The browser has closed the connection: SIGPIPE.
WebSendFails == Ends(Web, "send")

-----------------------------------------------------------------------------
(* Both readers copy write_img under img_mutex. *)

ReaderLocks(r) ==
  /\ Go(r, "lock", "test")
  /\ Lock(img_mutex, r)
  /\ UNCHANGED <<work, write_img, copy, rc, dataVars>>

ReadTop(r) ==
  /\ Go(r, "top", "bottom")
  /\ copy' = [copy EXCEPT ![r].top = write_img.top]
  /\ UNCHANGED <<work, img_mutex, write_img, rc, dataVars>>

ReadBottom(r) ==
  /\ Go(r, "bottom", IF r = Saver THEN "write" ELSE "unlock")
  /\ copy' = [copy EXCEPT ![r].bottom = write_img.bottom]
  /\ UNCHANGED <<work, img_mutex, write_img, rc, dataVars>>

\* Mutant: the branch without an image keeps the mutex.
Bug_ReaderUnlocks(r) ==
  /\ Go(r, "unlock", IF r = Saver THEN "idle" ELSE "send")
  /\ img_mutex' = IF copy[r] = Empty THEN img_mutex ELSE NoThread
  /\ UNCHANGED <<work, write_img, copy, rc, dataVars>>

ReaderUnlocks(r) ==
  /\ Go(r, "unlock", IF r = Saver THEN "idle" ELSE "send")
  /\ Unlock(img_mutex)
  /\ UNCHANGED <<work, write_img, copy, rc, dataVars>>

-----------------------------------------------------------------------------

\* The steps of each thread that wait for a mutex, and the others it owes.
ProducerLocks(p) == LockImage(p) \/ LockData(p)
ProducerRuns(p) ==
  \/ TakeFrame(p)
  \/ CopyTop(p) \/ CopyBottom(p) \/ UnlockImage(p)
  \/ WriteCounts(p) \/ WriteHot(p) \/ Broadcast(p) \/ UnlockData(p)

SenderTakesMutex == SenderLocks \/ SenderRelocks
SenderRuns == SenderWaits \/ SendData \/ SendFails \/ SenderUnlocks

ReaderRuns(r) == ReadTop(r) \/ ReadBottom(r) \/ ReaderUnlocks(r)
SaverRuns == TestRc \/ WriteFile \/ WriteFails \/ ReaderRuns(Saver)
WebRuns == TestEmpty \/ WebSends \/ WebSendFails \/ ReaderRuns(Web)

\* What the robot, the browsers and the network do.
Requests == ReceiveAuto \/ WebOpens \/ WebBinds \/ WebIgnores \/ WebGets \/ WebError

\* Nothing happens once the program has ended.
Ended == ~alive /\ UNCHANGED vars

Next ==
  \/ \E p \in Producers : ProducerLocks(p) \/ ProducerRuns(p)
  \/ SenderTakesMutex \/ SenderRuns \/ SpuriousWakeup
  \/ \E r \in Readers : ReaderLocks(r)
  \/ SaverRuns \/ WebRuns \/ Requests
  \/ Ended

Spec == Init /\ [][Next]_vars

\* Every thread runs, frames keep coming, and a thread that a mutex is free for
\* again and again gets it in the end: the mutexes are free for most of the time
\* between two frames. Nothing is assumed of the robot, the browsers and
\* spurious wakeups.
Fairness ==
  /\ \A p \in Producers : SF_vars(ProducerLocks(p)) /\ WF_vars(ProducerRuns(p))
  /\ SF_vars(SenderTakesMutex) /\ WF_vars(SenderRuns)
  /\ \A r \in Readers : SF_vars(ReaderLocks(r))
  /\ WF_vars(SaverRuns) /\ WF_vars(WebRuns)

FairSpec == Spec /\ Fairness

-----------------------------------------------------------------------------
(* Properties. *)

Whole(image) == image.top = image.bottom

\* A picture that is written to a file or sent to a browser is of one frame.
PicturesWhole ==
  /\ pc[Saver] = "write" => Whole(copy[Saver])
  /\ pc[Web] = "send" => Whole(copy[Web])

\* WebThread encodes no empty image: once it has tested write_img under the
\* mutex, it stays non-empty.
ServesSomething == pc[Web] \in {"top", "bottom"} => Whole(write_img) /\ write_img # Empty

\* A datagram carries the counts and the hot flags of one frame.
DatagramsWhole == sent.counts = sent.hot

\* The board as the threads see it. An image that is written half counts as not yet
\* written, and a picture that is copied half as not yet looked at.
Shown(image, half) == <<IF half THEN image.bottom ELSE image.top, image.bottom>>

B == INSTANCE Board WITH
  image <- Shown(write_img, \E p \in Producers : pc[p] = "bottom"),
  result <- <<IF \E p \in Producers : pc[p] = "hot" THEN data.hot ELSE data.counts, data.hot>>,
  picture <- [r \in Readers |-> Shown(copy[r], pc[r] = "bottom")],
  sent <- <<sent.counts, sent.hot>>,
  owed <- [p \in Producers |->
             IF pc[p] \in {"unlockImage", "lockData", "counts", "hot"} THEN work[p] ELSE Nothing]

\* Each copy and each datagram is what was shared at one instant, though each is
\* made in steps; each image that is shared is followed by its own result, once,
\* however the PiCam threads that an A leaves side by side overtake each other.
ImplementsBoard == B!Spec

\* The robot gets datagrams for ever, as long as frames come.
SenderKeepsSending == []<>(pc[Sender] = "send" \/ ~alive)

\* No reader of write_img, which ReceiveThread holds while it writes a file,
\* stops the frames.
FramesKeepFlowing == \A p \in Producers : []<>(pc[p] = "frame" \/ ~alive)

\* A browser's GET is answered, whatever the frames and the robot do.
GetsAnswered == pc[Web] = "lock" ~> pc[Web] = "send" \/ ~alive

\* What Send.cpp says of the wait: it is for data to be available. So SendThread
\* does not sleep when nobody is at work on data and it holds a new result.
NoSleepOnData == pc[Sender] = "blocked" /\ data_mutex = NoThread => ~unsent

=============================================================================
