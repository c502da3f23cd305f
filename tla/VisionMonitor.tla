---------------------------- MODULE VisionMonitor ----------------------------
(***************************************************************************)
(* The first version of the vision program (Vision/, without DEBUG and      *)
(* GUI): GetImagesThread fetches images from the robot's network camera     *)
(* into img_buf, the main thread processes them and sends each result, and  *)
(* ReceiveThread saves an image on an A.  The three share img_mutex, the    *)
(* condition image_ready_cond and the flag image_ready.                     *)
(*                                                                         *)
(* An image is its number in the order of fetching; 0 is an empty one.      *)
(***************************************************************************)
EXTENDS Naturals

CONSTANTS
  MaxImages,  \* bound: the images that are fetched
  MaxChunks,  \* bound: the pieces in which a transfer arrives
  NoThread    \* nobody holds the mutex

Get == "get"          \* GetImagesThread
Process == "process"  \* the main thread, in RunServer
Save == "save"        \* ReceiveThread
Threads == {Get, Process, Save}

ASSUME MaxImagesAssumption == MaxImages \in Nat
ASSUME MaxChunksAssumption == MaxChunks \in Nat
ASSUME NoThreadAssumption == NoThread \notin Threads

VARIABLES
  alive,        \* the program has not ended
  pc,           \* pc[t]: where thread t is
  img_mutex,    \* who holds it
  image_ready,  \* the flag
  img_buf,      \* the shared image
  fetched,      \* how many images GetImagesThread has stored
  bgrimg,       \* process's copy
  copies,       \* history: how many copies process has made
  rgbimg,       \* ReceiveThread's copy
  timedOut,     \* ReceiveThread's rc is ETIMEDOUT
  data,         \* GetImagesThread's string: how many pieces it holds
  chunks        \* how many pieces of the last transfer have arrived

bufVars == <<image_ready, img_buf, fetched>>
procVars == <<bgrimg, copies>>
dataVars == <<data, chunks>>
vars == <<alive, pc, img_mutex, bufVars, procVars, rgbimg, timedOut, dataVars>>

GetPcs == {"clear", "fetch", "lock", "decode", "ready", "broadcast", "unlock"}
ProcessPcs == {"lock", "test", "blocked", "relock", "copy", "clear", "unlock", "send"}
SavePcs == {"recv", "lock", "wait", "blocked", "relock", "write", "unlock"}

TypeOK ==
  /\ alive \in BOOLEAN
  /\ pc \in [Threads -> GetPcs \cup ProcessPcs \cup SavePcs]
  /\ pc[Get] \in GetPcs /\ pc[Process] \in ProcessPcs /\ pc[Save] \in SavePcs
  /\ img_mutex \in Threads \cup {NoThread}
  /\ image_ready \in {0, 1}
  /\ fetched \in 0..MaxImages
  /\ img_buf \in 0..MaxImages /\ bgrimg \in 0..MaxImages /\ rgbimg \in 0..MaxImages
  /\ copies \in Nat
  /\ timedOut \in BOOLEAN
  /\ data \in 0..MaxChunks /\ chunks \in 0..MaxChunks

Init ==
  /\ alive = TRUE
  /\ pc = [t \in Threads |-> CASE t = Get -> "clear" [] t = Process -> "lock" [] t = Save -> "recv"]
  /\ img_mutex = NoThread
  /\ image_ready = 0 /\ img_buf = 0 /\ fetched = 0
  /\ bgrimg = 0 /\ copies = 0 /\ rgbimg = 0
  /\ timedOut = FALSE
  /\ data = 0 /\ chunks = 0

Go(t, from, to) ==
  /\ alive
  /\ pc[t] = from
  /\ pc' = [pc EXCEPT ![t] = to]
  /\ UNCHANGED alive

Lock(t) == img_mutex = NoThread /\ img_mutex' = t
Unlock == img_mutex' = NoThread

\* exit, or an exception that nothing catches.
Ends(t, from) ==
  /\ alive
  /\ pc[t] = from
  /\ alive' = FALSE
  /\ UNCHANGED <<pc, img_mutex, bufVars, procVars, rgbimg, timedOut, dataVars>>

-----------------------------------------------------------------------------
(* GetImagesThread. *)

\* Mutant: data is not cleared.
Bug_ClearData ==
  /\ Go(Get, "clear", "fetch")
  /\ chunks' = 0
  /\ UNCHANGED <<img_mutex, bufVars, procVars, rgbimg, timedOut, data>>

\* data.clear(), and curl_easy_perform begins a transfer.
ClearData ==
  /\ Go(Get, "clear", "fetch")
  /\ data' = 0
  /\ chunks' = 0
  /\ UNCHANGED <<img_mutex, bufVars, procVars, rgbimg, timedOut>>

\* curl calls with a piece of the image, which is appended to data.
writeCallback ==
  /\ Go(Get, "fetch", "fetch")
  /\ chunks < MaxChunks
  /\ chunks' = chunks + 1
  /\ data' = data + 1
  /\ UNCHANGED <<img_mutex, bufVars, procVars, rgbimg, timedOut>>

\* The transfer fails or times out after any number of pieces, and is tried
\* again, or it is complete.
FetchFails ==
  /\ Go(Get, "fetch", "clear")
  /\ UNCHANGED <<img_mutex, bufVars, procVars, rgbimg, timedOut, dataVars>>

FetchImage ==
  /\ Go(Get, "fetch", "lock")
  /\ fetched < MaxImages
  /\ UNCHANGED <<img_mutex, bufVars, procVars, rgbimg, timedOut, dataVars>>

GetLocks ==
  /\ Go(Get, "lock", "decode")
  /\ Lock(Get)
  /\ UNCHANGED <<bufVars, procVars, rgbimg, timedOut, dataVars>>

Decode ==
  /\ Go(Get, "decode", "ready")
  /\ fetched' = fetched + 1
  /\ img_buf' = fetched'
  /\ UNCHANGED <<img_mutex, image_ready, procVars, rgbimg, timedOut, dataVars>>

\* Mutant: the images that wait are counted.
Bug_CountReady ==
  /\ Go(Get, "ready", "broadcast")
  /\ image_ready' = image_ready + 1
  /\ UNCHANGED <<img_mutex, img_buf, fetched, procVars, rgbimg, timedOut, dataVars>>

\* image_ready = 1
SetReady ==
  /\ Go(Get, "ready", "broadcast")
  /\ image_ready' = 1
  /\ UNCHANGED <<img_mutex, img_buf, fetched, procVars, rgbimg, timedOut, dataVars>>

Blocked == {t \in Threads : pc[t] = "blocked"}

\* Mutant: pthread_cond_signal, which wakes one waiter.
Bug_Broadcast ==
  /\ alive
  /\ pc[Get] = "broadcast"
  /\ \/ \E t \in Blocked : pc' = [pc EXCEPT ![Get] = "unlock", ![t] = "relock"]
     \/ Blocked = {} /\ pc' = [pc EXCEPT ![Get] = "unlock"]
  /\ UNCHANGED <<alive, img_mutex, bufVars, procVars, rgbimg, timedOut, dataVars>>

\* Everyone who waits has to take the mutex before going on.
Broadcast ==
  /\ alive
  /\ pc[Get] = "broadcast"
  /\ pc' = [t \in Threads |-> IF t = Get THEN "unlock"
                              ELSE IF t \in Blocked THEN "relock" ELSE pc[t]]
  /\ UNCHANGED <<alive, img_mutex, bufVars, procVars, rgbimg, timedOut, dataVars>>

GetUnlocks ==
  /\ Go(Get, "unlock", "clear")
  /\ Unlock
  /\ UNCHANGED <<bufVars, procVars, rgbimg, timedOut, dataVars>>

-----------------------------------------------------------------------------
(* process, and the loop of RunServer. *)

ProcessLocks ==
  /\ Go(Process, "lock", "test")
  /\ Lock(Process)
  /\ UNCHANGED <<bufVars, procVars, rgbimg, timedOut, dataVars>>

\* while (!image_ready): pthread_cond_wait releases the mutex.
TestReady ==
  /\ \/ image_ready = 1 /\ Go(Process, "test", "copy") /\ UNCHANGED img_mutex
     \/ image_ready = 0 /\ Go(Process, "test", "blocked") /\ Unlock
  /\ UNCHANGED <<bufVars, procVars, rgbimg, timedOut, dataVars>>

\* POSIX allows a wait to return without a broadcast.
SpuriousWakeup ==
  /\ Go(Process, "blocked", "relock")
  /\ UNCHANGED <<img_mutex, bufVars, procVars, rgbimg, timedOut, dataVars>>

\* Mutant: an if in place of the while.
Bug_ProcessRelocks ==
  /\ Go(Process, "relock", "copy")
  /\ Lock(Process)
  /\ UNCHANGED <<bufVars, procVars, rgbimg, timedOut, dataVars>>

ProcessRelocks ==
  /\ Go(Process, "relock", "test")
  /\ Lock(Process)
  /\ UNCHANGED <<bufVars, procVars, rgbimg, timedOut, dataVars>>

CopyImage ==
  /\ Go(Process, "copy", "clear")
  /\ bgrimg' = img_buf
  /\ copies' = copies + 1
  /\ UNCHANGED <<img_mutex, bufVars, rgbimg, timedOut, dataVars>>

\* image_ready = 0
ClearReady ==
  /\ Go(Process, "clear", "unlock")
  /\ image_ready' = 0
  /\ UNCHANGED <<img_mutex, img_buf, fetched, procVars, rgbimg, timedOut, dataVars>>

ProcessUnlocks ==
  /\ Go(Process, "unlock", "send")
  /\ Unlock
  /\ UNCHANGED <<bufVars, procVars, rgbimg, timedOut, dataVars>>

\* The image is searched for targets and the number of contours sent.
SendResult ==
  /\ Go(Process, "send", "lock")
  /\ UNCHANGED <<img_mutex, bufVars, procVars, rgbimg, timedOut, dataVars>>

\* The image could not be decoded and OpenCV throws, or sendto fails: exit(1).
SendFails == Ends(Process, "send")

-----------------------------------------------------------------------------
(* ReceiveThread. *)

\* A; the other commands touch none of this state but S, after which the Pi
\* shuts down.
ReceiveAuto ==
  /\ Go(Save, "recv", "lock")
  /\ UNCHANGED <<img_mutex, bufVars, procVars, rgbimg, timedOut, dataVars>>

ShutDown == Ends(Save, "recv")

SaveLocks ==
  /\ Go(Save, "lock", "wait")
  /\ Lock(Save)
  /\ UNCHANGED <<bufVars, procVars, rgbimg, timedOut, dataVars>>

SaveWaits ==
  /\ Go(Save, "wait", "blocked")
  /\ Unlock
  /\ timedOut' = FALSE
  /\ UNCHANGED <<bufVars, procVars, rgbimg, dataVars>>

\* Mutant: pthread_cond_wait in place of pthread_cond_timedwait.
Bug_TimeOut == FALSE /\ UNCHANGED vars

\* Five seconds have passed.
TimeOut ==
  /\ Go(Save, "blocked", "relock")
  /\ timedOut' = TRUE
  /\ UNCHANGED <<img_mutex, bufVars, procVars, rgbimg, dataVars>>

SpuriousReturn ==
  /\ Go(Save, "blocked", "relock")
  /\ UNCHANGED <<img_mutex, bufVars, procVars, rgbimg, timedOut, dataVars>>

SaveRelocks ==
  /\ Go(Save, "relock", IF timedOut THEN "unlock" ELSE "write")
  /\ Lock(Save)
  /\ UNCHANGED <<bufVars, procVars, rgbimg, timedOut, dataVars>>

\* img_buf is copied and written to a file, under the mutex.
WriteFile ==
  /\ Go(Save, "write", "unlock")
  /\ rgbimg' = img_buf
  /\ UNCHANGED <<img_mutex, bufVars, procVars, timedOut, dataVars>>

\* imwrite throws, as it does of an empty image: no image has come yet, or the
\* newest could not be decoded.
WriteFails == Ends(Save, "write")

SaveUnlocks ==
  /\ Go(Save, "unlock", "recv")
  /\ Unlock
  /\ UNCHANGED <<bufVars, procVars, rgbimg, timedOut, dataVars>>

-----------------------------------------------------------------------------

GetRuns == Decode \/ SetReady \/ Broadcast \/ GetUnlocks
ProcessTakesMutex == ProcessLocks \/ ProcessRelocks
ProcessRuns == TestReady \/ CopyImage \/ ClearReady \/ ProcessUnlocks \/ SendResult \/ SendFails
SaveTakesMutex == SaveLocks \/ SaveRelocks
SaveRuns == SaveWaits \/ TimeOut \/ WriteFile \/ WriteFails \/ SaveUnlocks

\* Nothing happens once the program has ended.
Ended == ~alive /\ UNCHANGED vars

Next ==
  \/ ClearData \/ writeCallback \/ FetchFails \/ FetchImage \/ GetLocks \/ GetRuns
  \/ ProcessTakesMutex \/ ProcessRuns \/ SpuriousWakeup
  \/ ReceiveAuto \/ ShutDown \/ SaveTakesMutex \/ SaveRuns \/ SpuriousReturn
  \/ Ended

Spec == Init /\ [][Next]_vars

\* Every thread runs, the five seconds pass, and a thread that the mutex is free
\* for again and again gets it in the end. Nothing is assumed of the network
\* camera, of the robot and of spurious wakeups.
Fairness ==
  /\ SF_vars(GetLocks) /\ WF_vars(GetRuns)
  /\ SF_vars(ProcessTakesMutex) /\ WF_vars(ProcessRuns)
  /\ SF_vars(SaveTakesMutex) /\ WF_vars(SaveRuns)

FairSpec == Spec /\ Fairness

-----------------------------------------------------------------------------
(* Properties. *)

\* The main thread does not sleep while an image waits, unless GetImagesThread is
\* just about to wake it: no wakeup is lost.
NoSleepOnImage ==
  pc[Process] = "blocked" /\ image_ready = 1 => pc[Get] = "broadcast"

\* A transfer that has failed leaves nothing behind: what is decoded as an image
\* is what the last transfer has brought.
OneTransferDecoded == pc[Get] = "decode" => data = chunks

\* The image waits from image_ready = 1 to the copy; between the assignments to
\* img_buf and image_ready a new image that finds none waiting is not put yet.
Slot == IF image_ready = 1 /\ pc[Process] # "clear" THEN img_buf ELSE 0
Put == IF pc[Get] = "ready" /\ image_ready = 0 THEN fetched - 1 ELSE fetched

Box == INSTANCE Mailbox WITH put <- Put, slot <- Slot, taken <- bgrimg,
                                takes <- copies, open <- alive

\* GetImagesThread and process implement the one-slot mailbox with a flag, a
\* mutex and a condition variable: every image is processed at most once and in
\* order, only a newer one makes one go unprocessed, and the last is processed.
ImplementsMailbox == Box!FairSpec

\* An A is done with in the end, whether or not images come.
AutoIsAnswered == pc[Save] = "lock" ~> pc[Save] = "recv" \/ ~alive

=============================================================================
