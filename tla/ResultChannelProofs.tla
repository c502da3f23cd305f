------------------------- MODULE ResultChannelProofs -------------------------
(***************************************************************************)
(* Proofs about ResultChannel, for any number of PiCam threads and frames: *)
(* what is sent, saved and served is of one frame.                         *)
(***************************************************************************)
EXTENDS ResultChannel, TLAPS

\* Who holds a mutex is told by where the threads are.
MutexInv ==
  /\ data_mutex \in Producers \cup {Sender, NoThread}
  /\ img_mutex \in Producers \cup Readers \cup {NoThread}
  /\ \A p \in Producers :
       /\ pc[p] \in {"counts", "hot", "broadcast", "unlockData"} <=> data_mutex = p
       /\ pc[p] \in {"top", "bottom", "unlockImage"} <=> img_mutex = p
  /\ pc[Sender] \in {"wait", "send", "unlock"} <=> data_mutex = Sender
  /\ \A r \in Readers : pc[r] \in {"test", "top", "bottom", "write", "unlock"} <=> img_mutex = r

\* What a mutex guards is whole, except between two halves of a write.
ResultInv ==
  /\ \A p \in Producers : pc[p] = "hot" => data.counts = work[p]
  /\ (\A p \in Producers : pc[p] # "hot") => data.counts = data.hot
  /\ DatagramsWhole

ImageInv ==
  /\ \A p \in Producers : pc[p] = "bottom" => write_img.top = work[p]
  /\ (\A p \in Producers : pc[p] # "bottom") => Whole(write_img)
  /\ \A r \in Readers :
       IF pc[r] = "bottom" THEN copy[r].top = write_img.top ELSE Whole(copy[r])

\* A producer has a frame from the time that it takes one.
WorkInv == \A p \in Producers : pc[p] # "frame" => work[p] \in Frames

IInv == TypeOK /\ MutexInv /\ WorkInv /\ ResultInv /\ ImageInv

USE ThreadsAssumption, FramesAssumption
USE DEF imgVars, dataVars, Readers, Threads, Image, Empty, Result, ProducerPcs, SenderPcs,
        ReaderPcs, Whole, DatagramsWhole

-----------------------------------------------------------------------------

\* Nothing but alive changes when the program ends.
LEMMA EndKeepsIInv ==
  ASSUME IInv, alive' \in BOOLEAN, UNCHANGED <<pc, work, imgVars, dataVars>>
  PROVE  IInv'
<1>1. TypeOK'
  BY DEF IInv, TypeOK
<1>2. MutexInv' /\ WorkInv' /\ ResultInv' /\ ImageInv'
  BY DEF IInv, MutexInv, WorkInv, ResultInv, ImageInv
<1> QED
  BY <1>1, <1>2 DEF IInv

LEMMA ProducerKeepsIInv ==
  ASSUME IInv, NEW p \in Producers, ProducerLocks(p) \/ ProducerRuns(p)
  PROVE  IInv'
<1> USE DEF IInv, TypeOK, MutexInv, WorkInv, ResultInv, ImageInv, Go, Lock, Unlock
<1>1. CASE TakeFrame(p)
  BY <1>1 DEF TakeFrame
<1>2. CASE LockImage(p)
  BY <1>2 DEF LockImage
<1>3. CASE CopyTop(p)
  BY <1>3 DEF CopyTop
<1>4. CASE CopyBottom(p)
  BY <1>4 DEF CopyBottom
<1>5. CASE UnlockImage(p)
  BY <1>5 DEF UnlockImage
<1>6. CASE LockData(p)
  BY <1>6 DEF LockData
<1>7. CASE WriteCounts(p)
  BY <1>7 DEF WriteCounts
<1>8. CASE WriteHot(p)
  BY <1>8 DEF WriteHot
<1>9. CASE Broadcast(p)
  BY <1>9 DEF Broadcast
<1>10. CASE UnlockData(p)
  BY <1>10 DEF UnlockData
<1> QED
  BY <1>1, <1>2, <1>3, <1>4, <1>5, <1>6, <1>7, <1>8, <1>9, <1>10
  DEF ProducerLocks, ProducerRuns

LEMMA SenderKeepsIInv ==
  ASSUME IInv, SenderTakesMutex \/ SenderRuns \/ SpuriousWakeup
  PROVE  IInv'
<1> USE DEF IInv, TypeOK, MutexInv, WorkInv, ResultInv, ImageInv, Go, Lock, Unlock
<1>1. CASE SenderLocks
  BY <1>1 DEF SenderLocks
<1>2. CASE SenderWaits
  BY <1>2 DEF SenderWaits
<1>3. CASE SpuriousWakeup
  BY <1>3 DEF SpuriousWakeup
<1>4. CASE SenderRelocks
  BY <1>4 DEF SenderRelocks
<1>5. CASE SendData
  BY <1>5 DEF SendData
<1>6. CASE SendFails
  BY <1>6, EndKeepsIInv DEF SendFails, Ends
<1>7. CASE SenderUnlocks
  BY <1>7 DEF SenderUnlocks
<1> QED
  BY <1>1, <1>2, <1>3, <1>4, <1>5, <1>6, <1>7 DEF SenderTakesMutex, SenderRuns

LEMMA ReaderKeepsIInv ==
  ASSUME IInv, NEW r \in Readers, ReaderLocks(r) \/ ReaderRuns(r)
  PROVE  IInv'
<1> USE DEF IInv, TypeOK, MutexInv, WorkInv, ResultInv, ImageInv, Go, Lock, Unlock
<1>1. CASE ReaderLocks(r)
  BY <1>1 DEF ReaderLocks
<1>2. CASE ReadTop(r)
  BY <1>2 DEF ReadTop
<1>3. CASE ReadBottom(r)
  BY <1>3 DEF ReadBottom
<1>4. CASE ReaderUnlocks(r)
  BY <1>4 DEF ReaderUnlocks
<1> QED
  BY <1>1, <1>2, <1>3, <1>4 DEF ReaderRuns

\* The steps that are a reader's own touch its program counter and rc only.
LEMMA OwnStepsKeepIInv ==
  ASSUME IInv,
         \/ TestRc \/ WriteFile \/ WriteFails
         \/ TestEmpty \/ WebSends \/ WebSendFails
         \/ Requests
  PROVE  IInv'
<1> USE DEF IInv, TypeOK, MutexInv, WorkInv, ResultInv, ImageInv, Go
<1>1. CASE TestRc \/ WriteFile
  BY <1>1 DEF TestRc, WriteFile
<1>2. CASE TestEmpty \/ WebSends
  BY <1>2 DEF TestEmpty, WebSends
<1>3. CASE WriteFails \/ WebSendFails
  BY <1>3, EndKeepsIInv DEF WriteFails, WebSendFails, Ends
<1>4. CASE ReceiveAuto
  BY <1>4 DEF ReceiveAuto
<1>5. CASE WebOpens \/ WebBinds \/ WebIgnores \/ WebGets \/ WebError
  BY <1>5 DEF WebOpens, WebBinds, WebIgnores, WebGets, WebError
<1> QED
  BY <1>1, <1>2, <1>3, <1>4, <1>5 DEF Requests

-----------------------------------------------------------------------------

\* Every reachable state satisfies the inductive invariant.
THEOREM Inductive == Spec => []IInv
<1>1. Init => IInv
  <2> SUFFICES ASSUME Init PROVE IInv
    OBVIOUS
  <2>1. TypeOK
    BY DEF Init, TypeOK
  <2>2. MutexInv /\ WorkInv
    BY DEF Init, MutexInv, WorkInv
  <2>3. ResultInv /\ ImageInv
    BY DEF Init, ResultInv, ImageInv
  <2> QED
    BY <2>1, <2>2, <2>3 DEF IInv
<1>2. IInv /\ [Next]_vars => IInv'
  <2>1. ASSUME IInv, UNCHANGED vars
        PROVE  IInv'
    BY <2>1 DEF vars, IInv, TypeOK, MutexInv, WorkInv, ResultInv, ImageInv
  <2>2. Saver \in Readers /\ Web \in Readers
    OBVIOUS
  <2> QED
    BY <2>1, <2>2, ProducerKeepsIInv, SenderKeepsIInv, ReaderKeepsIInv, OwnStepsKeepIInv
    DEF Next, SaverRuns, WebRuns, Ended
<1> QED
  BY <1>1, <1>2, PTL DEF Spec

\* The threads of the channel keep their types and take the steps of their own
\* code only.
THEOREM TypeCorrect == Spec => []TypeOK
<1>1. IInv => TypeOK
  BY DEF IInv
<1> QED
  BY <1>1, Inductive, PTL

\* Every datagram is of one frame: data_mutex covers all that is written and
\* sent, over pthread_cond_wait too.
THEOREM OneFramePerDatagram == Spec => []DatagramsWhole
<1>1. IInv => DatagramsWhole
  BY DEF IInv, ResultInv
<1> QED
  BY <1>1, Inductive, PTL

\* Every picture saved or served is of one frame.
THEOREM OneFramePerPicture == Spec => []PicturesWhole
<1>1. IInv => PicturesWhole
  BY DEF IInv, ImageInv, PicturesWhole
<1> QED
  BY <1>1, Inductive, PTL

-----------------------------------------------------------------------------

\* Between WebThread's test of write_img and its copy nobody else has the mutex,
\* so what the test has found stays true.
LEMMA ServeStep ==
  ASSUME IInv, ServesSomething, [Next]_vars
  PROVE  ServesSomething'
<1> USE DEF IInv, TypeOK, MutexInv, ServesSomething, Go
<1>1. CASE \E p \in Producers : ProducerLocks(p) \/ ProducerRuns(p)
  <2>1. PICK p \in Producers : ProducerLocks(p) \/ ProducerRuns(p)
    BY <1>1
  <2>2. pc'[Web] = pc[Web]
    BY <2>1 DEF ProducerLocks, ProducerRuns, TakeFrame, LockImage, CopyTop, CopyBottom, UnlockImage,
       LockData, WriteCounts, WriteHot, Broadcast, UnlockData
  <2>3. CASE CopyTop(p) \/ CopyBottom(p)
    <3>1. img_mutex = p
      BY <2>3 DEF CopyTop, CopyBottom
    <3>2. pc[Web] \notin {"top", "bottom"}
      BY <3>1
    <3> QED
      BY <2>2, <3>2
  <2>4. CASE ~(CopyTop(p) \/ CopyBottom(p))
    <3>1. write_img' = write_img
      BY <2>1, <2>4 DEF ProducerLocks, ProducerRuns, TakeFrame, LockImage, UnlockImage,
         LockData, WriteCounts, WriteHot, Broadcast, UnlockData
    <3> QED
      BY <2>2, <3>1
  <2> QED
    BY <2>3, <2>4
<1>2. CASE SenderTakesMutex \/ SenderRuns \/ SpuriousWakeup
  <2>1. pc'[Web] = pc[Web] /\ write_img' = write_img
    BY <1>2 DEF SenderTakesMutex, SenderRuns, SenderLocks, SenderRelocks, SenderWaits, SendData,
       SendFails, SenderUnlocks, SpuriousWakeup, Ends
  <2> QED
    BY <2>1
<1>3. CASE TestEmpty
  <2>1. img_mutex = Web
    BY <1>3 DEF TestEmpty
  <2>2. \A p \in Producers : pc[p] # "bottom"
    BY <2>1
  <2>3. Whole(write_img)
    BY <2>2 DEF ImageInv
  <2> QED
    BY <1>3, <2>3 DEF TestEmpty
<1>4. CASE ReadTop(Web)
  BY <1>4 DEF ReadTop
<1>5. CASE \/ \E r \in Readers : ReaderLocks(r)
           \/ SaverRuns
           \/ ReadBottom(Web) \/ ReaderUnlocks(Web) \/ WebSends \/ WebSendFails
           \/ Requests
  <2>1. write_img' = write_img
    BY <1>5 DEF ReaderLocks, SaverRuns, TestRc, WriteFile, WriteFails, ReaderRuns, ReadTop, ReadBottom,
       ReaderUnlocks, WebSends, WebSendFails, Requests, ReceiveAuto, WebOpens, WebBinds,
       WebIgnores, WebGets, WebError, Ends
  <2>2. pc'[Web] \in {"top", "bottom"} => pc'[Web] = pc[Web]
    BY <1>5 DEF ReaderLocks, SaverRuns, TestRc, WriteFile, WriteFails, ReaderRuns, ReadTop, ReadBottom,
       ReaderUnlocks, WebSends, WebSendFails, Requests, ReceiveAuto, WebOpens, WebBinds,
       WebIgnores, WebGets, WebError, Ends
  <2> QED
    BY <2>1, <2>2
<1>6. CASE Ended \/ UNCHANGED vars
  BY <1>6 DEF Ended, vars
<1> QED
  BY <1>1, <1>2, <1>3, <1>4, <1>5, <1>6 DEF Next, WebRuns, ReaderRuns

\* WebThread never encodes an empty image, however many producers there are.
THEOREM NothingEmptyServed == Spec => []ServesSomething
<1>1. Init => ServesSomething
  BY DEF Init, ServesSomething
<1> QED
  BY <1>1, ServeStep, Inductive, PTL DEF Spec

-----------------------------------------------------------------------------
(* The refinement of Board. *)

\* Where a producer owes a result.
Owing == {"unlockImage", "lockData", "counts", "hot"}

\* A step that writes nothing shared, and neither begins nor ends half a write.
LEMMA Unseen ==
  ASSUME UNCHANGED <<work, write_img, copy, data, sent>>,
         \A p \in Producers :
           /\ pc'[p] = "bottom" <=> pc[p] = "bottom"
           /\ pc'[p] = "hot" <=> pc[p] = "hot"
           /\ pc'[p] \in Owing <=> pc[p] \in Owing,
         \A r \in Readers : pc'[r] = "bottom" <=> pc[r] = "bottom"
  PROVE  UNCHANGED B!vars
<1>1. UNCHANGED [p \in Producers |-> IF pc[p] \in Owing THEN work[p] ELSE Nothing]
  OBVIOUS
<1>2. UNCHANGED [r \in Readers |-> Shown(copy[r], pc[r] = "bottom")]
  BY DEF Shown
<1>3. UNCHANGED <<\E p \in Producers : pc[p] = "bottom", \E p \in Producers : pc[p] = "hot">>
  OBVIOUS
<1> QED
  BY <1>1, <1>2, <1>3 DEF B!vars, Shown, Owing

\* The halves of image and result are the producer's that holds the mutex.
LEMMA ProducerSeen ==
  ASSUME IInv, NEW p \in Producers, ProducerLocks(p) \/ ProducerRuns(p)
  PROVE  [B!Next]_(B!vars)
<1> USE DEF IInv, TypeOK, MutexInv, Go
<1>2. CASE TakeFrame(p)
  <2>1. /\ pc[p] = "frame" /\ pc'[p] = "lockImage"
        /\ \A t \in Threads : t # p => pc'[t] = pc[t]
        /\ \A q \in Producers : q # p => work'[q] = work[q]
        /\ UNCHANGED <<write_img, copy, data, sent>>
    BY <1>2 DEF TakeFrame
  <2>2. UNCHANGED [q \in Producers |-> IF pc[q] \in Owing THEN work[q] ELSE Nothing]
    BY <2>1 DEF Owing
  <2>3. UNCHANGED [r \in Readers |-> Shown(copy[r], pc[r] = "bottom")]
    BY <2>1 DEF Shown
  <2>4. UNCHANGED <<\E q \in Producers : pc[q] = "bottom", \E q \in Producers : pc[q] = "hot">>
    BY <2>1
  <2> QED
    BY <2>1, <2>2, <2>3, <2>4 DEF B!vars, Shown, Owing
<1>3. CASE LockImage(p) \/ UnlockData(p) \/ LockData(p)
  BY <1>3, Unseen DEF LockImage, UnlockData, LockData, Lock, Unlock, Owing
<1>4. CASE Broadcast(p)
  BY <1>4, Unseen DEF Broadcast, Owing
<1>5. CASE UnlockImage(p)
  BY <1>5, Unseen DEF UnlockImage, Unlock, Owing
<1>6. CASE CopyTop(p)
  <2>1. /\ pc[p] = "top" /\ pc'[p] = "bottom"
        /\ \A t \in Threads : t # p => pc'[t] = pc[t]
        /\ write_img'.bottom = write_img.bottom
        /\ UNCHANGED <<work, copy, data, sent>>
    BY <1>6 DEF CopyTop
  <2>2. Whole(write_img) /\ ~\E q \in Producers : pc[q] = "bottom"
    BY <2>1 DEF ImageInv
  <2>3. UNCHANGED Shown(write_img, \E q \in Producers : pc[q] = "bottom")
    BY <2>1, <2>2 DEF Shown
  <2>4. UNCHANGED [q \in Producers |-> IF pc[q] \in Owing THEN work[q] ELSE Nothing]
    BY <2>1 DEF Owing
  <2>5. UNCHANGED [r \in Readers |-> Shown(copy[r], pc[r] = "bottom")]
    BY <2>1 DEF Shown
  <2>6. UNCHANGED (\E q \in Producers : pc[q] = "hot")
    BY <2>1
  <2> QED
    BY <2>1, <2>3, <2>4, <2>5, <2>6 DEF B!vars, Owing
<1>7. CASE CopyBottom(p)
  <2>1. /\ pc[p] = "bottom" /\ pc'[p] = "unlockImage"
        /\ \A t \in Threads : t # p => pc'[t] = pc[t]
        /\ write_img'.top = write_img.top /\ write_img'.bottom = work[p]
        /\ UNCHANGED <<work, copy, data, sent>>
    BY <1>7 DEF CopyBottom
  <2>2. write_img.top = work[p] /\ work[p] \in Frames /\ ~\E q \in Producers : pc'[q] = "bottom"
    BY <2>1 DEF ImageInv, WorkInv
  <2>3. Shown(write_img, \E q \in Producers : pc[q] = "bottom")' = <<work[p], work[p]>>
    BY <2>1, <2>2 DEF Shown
  <2>4. [q \in Producers |-> IF pc[q] \in Owing THEN work[q] ELSE Nothing]'
          = [[q \in Producers |-> IF pc[q] \in Owing THEN work[q] ELSE Nothing] EXCEPT ![p] = work[p]]
    BY <2>1 DEF Owing
  <2>5. UNCHANGED [r \in Readers |-> Shown(copy[r], pc[r] = "bottom")]
    BY <2>1 DEF Shown
  <2>6. UNCHANGED (\E q \in Producers : pc[q] = "hot")
    BY <2>1
  <2>7. B!PutImage(p)
    BY <2>1, <2>2, <2>3, <2>4, <2>5, <2>6 DEF B!PutImage, B!Both, Owing
  <2> QED
    BY <2>7 DEF B!Next
<1>8. CASE WriteCounts(p)
  <2>1. /\ pc[p] = "counts" /\ pc'[p] = "hot"
        /\ \A t \in Threads : t # p => pc'[t] = pc[t]
        /\ data'.hot = data.hot
        /\ UNCHANGED <<work, write_img, copy, sent>>
    BY <1>8 DEF WriteCounts
  <2>2. data.counts = data.hot /\ ~\E q \in Producers : pc[q] = "hot"
    BY <2>1 DEF ResultInv
  <2>3. UNCHANGED <<IF \E q \in Producers : pc[q] = "hot" THEN data.hot ELSE data.counts, data.hot>>
    BY <2>1, <2>2
  <2>4. UNCHANGED [q \in Producers |-> IF pc[q] \in Owing THEN work[q] ELSE Nothing]
    BY <2>1 DEF Owing
  <2>5. UNCHANGED [r \in Readers |-> Shown(copy[r], pc[r] = "bottom")]
    BY <2>1 DEF Shown
  <2>6. UNCHANGED (\E q \in Producers : pc[q] = "bottom")
    BY <2>1
  <2> QED
    BY <2>1, <2>3, <2>4, <2>5, <2>6 DEF B!vars, Owing, Shown
<1>9. CASE WriteHot(p)
  <2>1. /\ pc[p] = "hot" /\ pc'[p] = "broadcast"
        /\ \A t \in Threads : t # p => pc'[t] = pc[t]
        /\ data'.counts = data.counts /\ data'.hot = work[p]
        /\ UNCHANGED <<work, write_img, copy, sent>>
    BY <1>9 DEF WriteHot
  <2>2. data.counts = work[p] /\ work[p] # Nothing /\ ~\E q \in Producers : pc'[q] = "hot"
    BY <2>1 DEF ResultInv, WorkInv
  <2>3. <<IF \E q \in Producers : pc[q] = "hot" THEN data.hot ELSE data.counts, data.hot>>'
          = <<work[p], work[p]>>
    BY <2>1, <2>2
  <2>4. [q \in Producers |-> IF pc[q] \in Owing THEN work[q] ELSE Nothing]'
          = [[q \in Producers |-> IF pc[q] \in Owing THEN work[q] ELSE Nothing] EXCEPT ![p] = Nothing]
    BY <2>1 DEF Owing
  <2>5. UNCHANGED [r \in Readers |-> Shown(copy[r], pc[r] = "bottom")]
    BY <2>1 DEF Shown
  <2>6. UNCHANGED (\E q \in Producers : pc[q] = "bottom")
    BY <2>1
  <2>7. B!PutResult(p)
    BY <2>1, <2>2, <2>3, <2>4, <2>5, <2>6 DEF B!PutResult, B!Both, Owing, Shown
  <2> QED
    BY <2>7 DEF B!Next
<1> QED
  BY <1>2, <1>3, <1>4, <1>5, <1>6, <1>7, <1>8, <1>9 DEF ProducerLocks, ProducerRuns

LEMMA SenderSeen ==
  ASSUME IInv, SenderTakesMutex \/ SenderRuns \/ SpuriousWakeup
  PROVE  [B!Next]_(B!vars)
<1> USE DEF IInv, TypeOK, MutexInv, Go
<1>1. CASE SendData
  <2>1. /\ pc[Sender] = "send" /\ sent' = data
        /\ \A t \in Threads : t # Sender => pc'[t] = pc[t]
        /\ UNCHANGED <<work, write_img, copy, data>>
    BY <1>1 DEF SendData
  <2>2. ~\E p \in Producers : pc[p] = "hot"
    BY <2>1
  <2>3. UNCHANGED [q \in Producers |-> IF pc[q] \in Owing THEN work[q] ELSE Nothing]
    BY <2>1
  <2>4. UNCHANGED [r \in Readers |-> Shown(copy[r], pc[r] = "bottom")]
    BY <2>1 DEF Shown
  <2>5. UNCHANGED <<\E q \in Producers : pc[q] = "bottom", \E q \in Producers : pc[q] = "hot">>
    BY <2>1
  <2>6. B!Send
    BY <2>1, <2>2, <2>3, <2>4, <2>5 DEF B!Send, Owing, Shown
  <2> QED
    BY <2>6 DEF B!Next
<1>2. CASE ~SendData
  <2>1. /\ UNCHANGED <<work, write_img, copy, data, sent>>
        /\ \A t \in Threads : t # Sender => pc'[t] = pc[t]
    BY <1>2 DEF SenderTakesMutex, SenderRuns, SenderLocks, SenderWaits, SpuriousWakeup, SenderRelocks,
       SendFails, SenderUnlocks, Ends
  <2> QED
    BY <2>1, Unseen
<1> QED
  BY <1>1, <1>2

LEMMA ReaderSeen ==
  ASSUME IInv, NEW r \in Readers, ReaderLocks(r) \/ ReaderRuns(r)
  PROVE  [B!Next]_(B!vars)
<1> USE DEF IInv, TypeOK, MutexInv, Go
<1>1. CASE ReadTop(r)
  <2>1. /\ pc[r] = "top" /\ pc'[r] = "bottom"
        /\ \A t \in Threads : t # r => pc'[t] = pc[t]
        /\ copy'[r].bottom = copy[r].bottom
        /\ \A s \in Readers : s # r => copy'[s] = copy[s]
        /\ UNCHANGED <<work, write_img, data, sent>>
    BY <1>1 DEF ReadTop
  <2>2. Whole(copy[r])
    BY <2>1 DEF ImageInv
  <2>3. UNCHANGED [s \in Readers |-> Shown(copy[s], pc[s] = "bottom")]
    BY <2>1, <2>2 DEF Shown
  <2>4. UNCHANGED [q \in Producers |-> IF pc[q] \in Owing THEN work[q] ELSE Nothing]
    BY <2>1
  <2>5. UNCHANGED <<\E q \in Producers : pc[q] = "bottom", \E q \in Producers : pc[q] = "hot">>
    BY <2>1
  <2> QED
    BY <2>1, <2>3, <2>4, <2>5 DEF B!vars, Owing, Shown
<1>2. CASE ReadBottom(r)
  <2>1. /\ pc[r] = "bottom" /\ pc'[r] # "bottom"
        /\ \A t \in Threads : t # r => pc'[t] = pc[t]
        /\ copy'[r].top = copy[r].top /\ copy'[r].bottom = write_img.bottom
        /\ \A s \in Readers : s # r => copy'[s] = copy[s]
        /\ UNCHANGED <<work, write_img, data, sent>>
    BY <1>2 DEF ReadBottom
  <2>2. copy[r].top = write_img.top /\ ~\E q \in Producers : pc[q] = "bottom"
    BY <2>1 DEF ImageInv
  <2>3. Shown(write_img, \E q \in Producers : pc[q] = "bottom") = Shown(copy[r], pc[r] = "bottom")'
    BY <2>1, <2>2 DEF Shown
  <2>4. [s \in Readers |-> Shown(copy[s], pc[s] = "bottom")]'
          = [[s \in Readers |-> Shown(copy[s], pc[s] = "bottom")]
               EXCEPT ![r] = Shown(write_img, \E q \in Producers : pc[q] = "bottom")]
    <3> DEFINE pictures == [s \in Readers |-> Shown(copy[s], pc[s] = "bottom")]
    <3>1. \A s \in Readers : s # r => pictures'[s] = pictures[s]
      BY <2>1 DEF Shown
    <3>2. pictures'[r] = Shown(copy[r], pc[r] = "bottom")'
      OBVIOUS
    <3>3. pictures' = [s \in Readers |-> pictures'[s]] /\ pictures = [s \in Readers |-> pictures[s]]
      OBVIOUS
    <3> HIDE DEF pictures
    <3>4. pictures' = [pictures EXCEPT ![r] = pictures'[r]]
      BY <3>1, <3>3
    <3> QED
      BY <2>3, <3>2, <3>4 DEF pictures
  <2>5. UNCHANGED [q \in Producers |-> IF pc[q] \in Owing THEN work[q] ELSE Nothing]
    BY <2>1
  <2>6. UNCHANGED <<\E q \in Producers : pc[q] = "bottom", \E q \in Producers : pc[q] = "hot">>
    BY <2>1
  <2>7. B!Look(r)
    BY <2>1, <2>4, <2>5, <2>6 DEF B!Look, Owing, Shown
  <2> QED
    BY <2>7 DEF B!Next
<1>3. CASE ReaderLocks(r) \/ ReaderUnlocks(r)
  BY <1>3, Unseen DEF ReaderLocks, ReaderUnlocks
<1> QED
  BY <1>1, <1>2, <1>3 DEF ReaderRuns

\* The threads that share write_img and data implement the board: every copy and
\* every datagram is of one instant, and each image's result is published once.
THEOREM Refinement == Spec => ImplementsBoard
<1>1. Init => B!Init
  BY DEF Init, B!Init, B!Both, Shown
<1>2. IInv /\ [Next]_vars => [B!Next]_(B!vars)
  <2> SUFFICES ASSUME IInv, [Next]_vars
               PROVE  [B!Next]_(B!vars)
    OBVIOUS
  <2>1. CASE TestRc \/ WriteFile \/ WriteFails \/ TestEmpty \/ WebSends \/ WebSendFails \/ Requests
    <3>1. /\ UNCHANGED <<work, write_img, copy, data, sent>>
          /\ \A p \in Producers : pc'[p] = pc[p]
          /\ \A r \in Readers : pc'[r] = "bottom" <=> pc[r] = "bottom"
      BY <2>1 DEF IInv, TypeOK, Go, TestRc, WriteFile, WriteFails, TestEmpty, WebSends, WebSendFails, Ends,
         Requests, ReceiveAuto, WebOpens, WebBinds, WebIgnores, WebGets, WebError
    <3> QED
      BY <3>1, Unseen
  <2>2. CASE Ended \/ UNCHANGED vars
    BY <2>2, Unseen DEF Ended, vars
  <2>3. Saver \in Readers /\ Web \in Readers
    OBVIOUS
  <2> QED
    BY <2>1, <2>2, <2>3, ProducerSeen, SenderSeen, ReaderSeen DEF Next, SaverRuns, WebRuns
<1> QED
  BY <1>1, <1>2, Inductive, PTL DEF Spec, ImplementsBoard, B!Spec

-----------------------------------------------------------------------------

\* Thread t waits for somebody else: a mutex, a frame, a broadcast, the network.
Waiting(t) ==
  \/ t \in Producers /\ pc[t] \in {"frame", "lockImage", "lockData"}
  \/ t = Sender /\ pc[t] \in {"lock", "blocked", "relock"}
  \/ t \in Readers /\ pc[t] \in {"socket", "bind", "idle", "lock", "send", "gone"}

\* Whoever holds img_mutex or data_mutex waits for nobody, so that no number of
\* PiCam threads can make everyone wait for everyone, and no browser, robot or
\* camera that is silent keeps a mutex locked (GetImages.cpp:55 and 228, Send.cpp:35,
\* WebServer.cpp:50, Receive.cpp:70).
THEOREM NoHoldAndWait ==
  Spec => [](\A t \in Threads : img_mutex = t \/ data_mutex = t => ~Waiting(t))
<1>1. IInv => \A t \in Threads : img_mutex = t \/ data_mutex = t => ~Waiting(t)
  BY DEF IInv, MutexInv, Waiting
<1> QED
  BY <1>1, Inductive, PTL

=============================================================================
