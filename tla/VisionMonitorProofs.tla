------------------------- MODULE VisionMonitorProofs -------------------------
(***************************************************************************)
(* Proofs about VisionMonitor, for any number of images: no wakeup of the  *)
(* main thread is lost, and every step is one of Mailbox or none.          *)
(***************************************************************************)
EXTENDS VisionMonitor, TLAPS

USE MaxImagesAssumption, MaxChunksAssumption, NoThreadAssumption

Holding == [t \in Threads |->
  CASE t = Get -> {"decode", "ready", "broadcast", "unlock"}
    [] t = Process -> {"test", "copy", "clear", "unlock"}
    [] t = Save -> {"wait", "write", "unlock"}]

\* The threads that work on the shared variables hold the mutex.
Exclusion == \A t \in Threads : pc[t] \in Holding[t] => img_mutex = t

\* How image_ready and img_buf go with what the threads are doing.
Consistent ==
  /\ img_buf = fetched
  /\ pc[Get] \in {"lock", "decode"} => fetched < MaxImages
  /\ pc[Get] = "ready" => fetched > 0
  /\ image_ready = 1 => fetched > 0
  /\ pc[Get] \in {"broadcast", "unlock"} => image_ready = 1
  /\ pc[Process] \in {"copy", "clear"} => image_ready = 1

\* data is the transfer under way, or the one that has just been completed.
Transfer == pc[Get] \in {"fetch", "lock", "decode"} => data = chunks

IInv == TypeOK /\ Exclusion /\ Consistent /\ Transfer /\ NoSleepOnImage

-----------------------------------------------------------------------------

\* Init and each step keep the types ...
LEMMA TypeStep == TypeOK /\ Consistent /\ Transfer /\ [Next]_vars => TypeOK'
<1> SUFFICES ASSUME TypeOK, Consistent, Transfer, [Next]_vars PROVE TypeOK'
  OBVIOUS
<1> USE DEF TypeOK, Threads, Get, Process, Save, GetPcs, ProcessPcs, SavePcs, Go, Ends, Lock, Unlock,
            bufVars, procVars, dataVars
<1>0. CASE ClearData \/ writeCallback
  BY <1>0 DEF ClearData, writeCallback, Transfer
<1>1. CASE FetchFails \/ FetchImage \/ GetLocks \/ GetUnlocks
  BY <1>1 DEF FetchFails, FetchImage, GetLocks, GetUnlocks
<1>2. CASE Decode
  BY <1>2 DEF Decode, Consistent
<1>3. CASE SetReady
  BY <1>3 DEF SetReady
<1>4. CASE Broadcast
  BY <1>4 DEF Broadcast
<1>5. CASE ProcessLocks \/ ProcessRelocks \/ SpuriousWakeup
  BY <1>5 DEF ProcessLocks, ProcessRelocks, SpuriousWakeup
<1>6. CASE TestReady
  BY <1>6 DEF TestReady
<1>7. CASE CopyImage
  BY <1>7 DEF CopyImage
<1>8. CASE ReceiveAuto \/ ShutDown \/ SaveLocks \/ SaveWaits
  BY <1>8 DEF ReceiveAuto, ShutDown, SaveLocks, SaveWaits
<1>9. CASE TimeOut \/ SpuriousReturn \/ SaveRelocks
  BY <1>9 DEF TimeOut, SpuriousReturn, SaveRelocks
<1>10. CASE WriteFile \/ WriteFails \/ SaveUnlocks
  BY <1>10 DEF WriteFile, WriteFails, SaveUnlocks
<1>11. CASE Ended \/ UNCHANGED vars
  BY <1>11 DEF Ended, vars
<1>12. CASE ClearReady \/ ProcessUnlocks \/ SendResult \/ SendFails
  BY <1>12 DEF ClearReady, ProcessUnlocks, SendResult, SendFails
<1> QED
  BY <1>0, <1>1, <1>2, <1>3, <1>4, <1>5, <1>6, <1>7, <1>8, <1>9, <1>10, <1>11, <1>12
  DEF Next, GetRuns, ProcessTakesMutex, ProcessRuns, SaveTakesMutex, SaveRuns

\* ... and the rest of the invariant.
LEMMA RestStep == IInv /\ [Next]_vars => Exclusion' /\ Consistent' /\ Transfer' /\ NoSleepOnImage'
<1> SUFFICES ASSUME TypeOK, Exclusion, Consistent, Transfer, NoSleepOnImage, [Next]_vars
             PROVE  Exclusion' /\ Consistent' /\ Transfer' /\ NoSleepOnImage'
  BY DEF IInv
<1> USE DEF TypeOK, Exclusion, Consistent, Transfer, NoSleepOnImage, Holding, Threads, Get, Process, Save,
            GetPcs, ProcessPcs, SavePcs, Go, Ends, Lock, Unlock, bufVars, procVars, dataVars
<1>0. CASE ClearData \/ writeCallback
  BY <1>0 DEF ClearData, writeCallback
<1>1. CASE FetchFails \/ FetchImage \/ GetLocks \/ GetUnlocks
  BY <1>1 DEF FetchFails, FetchImage, GetLocks, GetUnlocks
<1>2. CASE Decode
  BY <1>2 DEF Decode
<1>3. CASE SetReady
  BY <1>3 DEF SetReady
<1>4. CASE Broadcast
  BY <1>4 DEF Broadcast, Blocked
<1>5. CASE ProcessLocks \/ ProcessRelocks \/ SpuriousWakeup
  BY <1>5 DEF ProcessLocks, ProcessRelocks, SpuriousWakeup
<1>6. CASE TestReady
  BY <1>6 DEF TestReady
<1>7. CASE CopyImage \/ ClearReady \/ ProcessUnlocks \/ SendResult \/ SendFails
  BY <1>7 DEF CopyImage, ClearReady, ProcessUnlocks, SendResult, SendFails
<1>8. CASE ReceiveAuto \/ ShutDown \/ SaveLocks \/ SaveWaits
  BY <1>8 DEF ReceiveAuto, ShutDown, SaveLocks, SaveWaits
<1>9. CASE TimeOut \/ SpuriousReturn \/ SaveRelocks
  BY <1>9 DEF TimeOut, SpuriousReturn, SaveRelocks
<1>10. CASE WriteFile \/ WriteFails \/ SaveUnlocks
  BY <1>10 DEF WriteFile, WriteFails, SaveUnlocks
<1>11. CASE Ended \/ UNCHANGED vars
  BY <1>11 DEF Ended, vars
<1> QED
  BY <1>0, <1>1, <1>2, <1>3, <1>4, <1>5, <1>6, <1>7, <1>8, <1>9, <1>10, <1>11
  DEF Next, GetRuns, ProcessTakesMutex, ProcessRuns, SaveTakesMutex, SaveRuns

\* IInv is inductive.
THEOREM Inductive == Spec => []IInv
<1>1. Init => IInv
  <2> SUFFICES ASSUME Init PROVE IInv
    OBVIOUS
  <2>1. /\ pc \in [Threads -> GetPcs \cup ProcessPcs \cup SavePcs]
        /\ pc[Get] = "clear" /\ pc[Process] = "lock" /\ pc[Save] = "recv"
    BY DEF Init, Threads, Get, Process, Save, GetPcs, ProcessPcs, SavePcs
  <2>2. /\ alive = TRUE /\ img_mutex = NoThread /\ timedOut = FALSE
        /\ image_ready = 0 /\ img_buf = 0 /\ fetched = 0 /\ bgrimg = 0 /\ rgbimg = 0 /\ copies = 0
        /\ data = 0 /\ chunks = 0
    BY Zenon DEF Init
  <2>3. TypeOK
    <3>1. alive \in BOOLEAN /\ timedOut \in BOOLEAN
      BY <2>2
    <3>2. pc[Get] \in GetPcs /\ pc[Process] \in ProcessPcs /\ pc[Save] \in SavePcs
      BY <2>1 DEF GetPcs, ProcessPcs, SavePcs
    <3>3. /\ img_mutex \in Threads \cup {NoThread} /\ image_ready \in {0, 1}
          /\ fetched \in 0..MaxImages /\ img_buf \in 0..MaxImages
          /\ bgrimg \in 0..MaxImages /\ rgbimg \in 0..MaxImages /\ copies \in Nat
          /\ data \in 0..MaxChunks /\ chunks \in 0..MaxChunks
      BY <2>2
    <3> QED
      BY <2>1, <3>1, <3>2, <3>3 DEF TypeOK
  <2>4. Exclusion
    BY <2>1 DEF Exclusion, Holding, Threads, Get, Process, Save
  <2>5. Consistent /\ Transfer /\ NoSleepOnImage
    BY <2>1, <2>2 DEF Consistent, Transfer, NoSleepOnImage
  <2> QED
    BY <2>3, <2>4, <2>5 DEF IInv
<1>2. IInv /\ [Next]_vars => IInv'
  BY TypeStep, RestStep DEF IInv
<1> QED
  BY <1>1, <1>2, PTL DEF Spec

\* Types, for any number of images.
THEOREM TypeCorrect == Spec => []TypeOK
BY Inductive, PTL DEF IInv

\* The main thread of Vision/VisionServer.cpp never misses a wakeup.
THEOREM NoLostWakeup == Spec => []NoSleepOnImage
BY Inductive, PTL DEF IInv

\* However many transfers fail, no image is made of the pieces of two.
THEOREM NoMixedTransfer == Spec => []OneTransferDecoded
<1>1. IInv => OneTransferDecoded
  BY DEF IInv, Transfer, OneTransferDecoded
<1> QED
  BY <1>1, Inductive, PTL

-----------------------------------------------------------------------------

\* A step puts an image, takes one, ends the program, or is none of Mailbox's.
LEMMA MailboxStep == IInv /\ [Next]_vars => [Box!Next]_(Box!vars)
<1> SUFFICES ASSUME TypeOK, Exclusion, Consistent, [Next]_vars
             PROVE  [Box!Next]_(Box!vars)
  BY DEF IInv
<1> USE DEF Go, bufVars, procVars, dataVars
<1>1. /\ pc \in [Threads -> GetPcs \cup ProcessPcs \cup SavePcs]
      /\ Get \in Threads /\ Process \in Threads /\ Save \in Threads
      /\ Get # Process /\ Get # Save /\ Process # Save
      /\ image_ready \in {0, 1} /\ fetched \in Nat /\ img_buf = fetched
  BY DEF TypeOK, Threads, Get, Process, Save, Consistent
\* Steps that change neither the shared image nor the two program counters that
\* Slot and Put depend on.
<1>2. ASSUME alive' = alive, image_ready' = image_ready, img_buf' = img_buf,
             fetched' = fetched, bgrimg' = bgrimg, copies' = copies,
             (pc[Get] = "ready") <=> (pc'[Get] = "ready"),
             (pc[Process] = "clear") <=> (pc'[Process] = "clear")
      PROVE  UNCHANGED Box!vars
  BY <1>2 DEF Box!vars, Slot, Put
<1>3. CASE ClearData \/ writeCallback \/ FetchFails \/ FetchImage \/ GetLocks \/ GetUnlocks
  BY <1>1, <1>2, <1>3 DEF ClearData, writeCallback, FetchFails, FetchImage, GetLocks, GetUnlocks
<1>4. CASE Decode
  <2>1. /\ pc[Get] = "decode" /\ pc'[Get] = "ready" /\ pc'[Process] = pc[Process]
        /\ alive /\ alive' = alive /\ UNCHANGED procVars /\ image_ready' = image_ready
        /\ fetched' = fetched + 1 /\ img_buf' = fetched + 1
    BY <1>1, <1>4 DEF Decode
  <2>2. pc[Process] # "clear"
    BY <2>1 DEF Exclusion, Holding, Threads, Get, Process, Save
  <2>3. CASE image_ready = 0
    BY <1>1, <2>1, <2>3 DEF Box!vars, Slot, Put
  <2>4. CASE image_ready = 1
    BY <1>1, <2>1, <2>2, <2>4 DEF Box!Next, Box!Put, Slot, Put
  <2> QED
    BY <1>1, <2>3, <2>4
<1>5. CASE SetReady
  <2>1. /\ pc[Get] = "ready" /\ pc'[Get] = "broadcast" /\ pc'[Process] = pc[Process]
        /\ alive /\ alive' = alive /\ UNCHANGED procVars /\ image_ready' = 1
        /\ fetched' = fetched /\ img_buf' = fetched
    BY <1>1, <1>5 DEF SetReady
  <2>2. pc[Process] # "clear"
    BY <2>1 DEF Exclusion, Holding, Threads, Get, Process, Save
  <2>3. CASE image_ready = 0
    BY <1>1, <2>1, <2>2, <2>3 DEF Box!Next, Box!Put, Slot, Put
  <2>4. CASE image_ready = 1
    BY <1>1, <2>1, <2>2, <2>4 DEF Box!vars, Slot, Put
  <2> QED
    BY <1>1, <2>3, <2>4
<1>6. CASE Broadcast
  BY <1>1, <1>2, <1>6 DEF Broadcast, Blocked
<1>7. CASE ProcessLocks \/ ProcessRelocks \/ SpuriousWakeup \/ TestReady
  BY <1>1, <1>2, <1>7 DEF ProcessLocks, ProcessRelocks, SpuriousWakeup, TestReady
<1>8. CASE CopyImage
  <2>1. /\ pc[Process] = "copy" /\ pc'[Process] = "clear" /\ pc'[Get] = pc[Get]
        /\ alive /\ alive' = alive /\ bgrimg' = fetched /\ image_ready' = image_ready
        /\ copies' = copies + 1 /\ fetched' = fetched /\ img_buf' = fetched
    BY <1>1, <1>8 DEF CopyImage
  <2>2. image_ready = 1 /\ fetched # 0
    BY <1>1, <2>1 DEF Consistent
  <2> QED
    BY <1>1, <2>1, <2>2 DEF Box!Next, Box!Take, Slot, Put
<1>9. CASE ClearReady
  <2>1. /\ pc[Process] = "clear" /\ pc'[Process] = "unlock" /\ pc'[Get] = pc[Get]
        /\ alive' = alive /\ UNCHANGED procVars /\ image_ready' = 0
        /\ fetched' = fetched
    BY <1>1, <1>9 DEF ClearReady
  <2>2. pc[Get] # "ready"
    BY <2>1 DEF Exclusion, Holding, Threads, Get, Process, Save
  <2> QED
    BY <2>1, <2>2 DEF Box!vars, Slot, Put
<1>10. CASE ProcessUnlocks \/ SendResult
  BY <1>1, <1>2, <1>10 DEF ProcessUnlocks, SendResult
<1>11. CASE SendFails \/ ShutDown \/ WriteFails
  BY <1>11 DEF SendFails, ShutDown, WriteFails, Ends, Box!Next, Box!Close, Slot, Put
<1>12. CASE ReceiveAuto \/ SaveLocks \/ SaveWaits \/ TimeOut \/ SpuriousReturn
  BY <1>1, <1>2, <1>12 DEF ReceiveAuto, SaveLocks, SaveWaits, TimeOut, SpuriousReturn
<1>13. CASE SaveRelocks \/ WriteFile \/ SaveUnlocks
  BY <1>1, <1>2, <1>13 DEF SaveRelocks, WriteFile, SaveUnlocks
<1>14. CASE Ended \/ UNCHANGED vars
  BY <1>2, <1>14 DEF Ended, vars
<1> QED
  BY <1>3, <1>4, <1>5, <1>6, <1>7, <1>8, <1>9, <1>10, <1>11, <1>12, <1>13, <1>14
  DEF Next, GetRuns, ProcessTakesMutex, ProcessRuns, SaveTakesMutex, SaveRuns

\* GetImagesThread and process implement the mailbox.
THEOREM Refinement == Spec => Box!Spec
<1>1. Init => Box!Init
  BY DEF Init, Box!Init, Slot, Put, Threads, Get, Process, Save
<1> QED
  BY <1>1, MailboxStep, Inductive, PTL DEF Spec, Box!Spec

\* The image fetched last is waiting, or it is the one processed last: no image
\* is processed twice, none after a newer one.
THEOREM NewestImageKept == Spec => []Box!NewestKept
<1>1. Box!Init => Box!NewestKept
  BY DEF Box!Init, Box!NewestKept
<1>2. Box!NewestKept /\ [Box!Next]_(Box!vars) => Box!NewestKept'
  BY DEF Box!NewestKept, Box!Next, Box!Put, Box!Take, Box!Close, Box!vars
<1> QED
  BY <1>1, <1>2, Refinement, PTL DEF Box!Spec

=============================================================================
