--------------------------- MODULE PipelineProofs ---------------------------
(* Theorems about Pipeline, for every value of its constants.              *)
EXTENDS Pipeline, TLAPS, SequenceTheorems, FiniteSetTheorems

USE StoresAssumption, WatcherAssumption, ApiAssumption, WorkerAssumption

-----------------------------------------------------------------------------
(* Type correctness.                                                       *)

LEMMA InitTypes == Init => TypeOK
  BY SMTT(30) DEF Init, TypeOK, StoresInit, WatcherInit, ApiInit, WorkerInit,
     StoresTypeOK, WatcherTypeOK, ApiTypeOK, WorkerTypeOK, Status, Content, Key

\* The writes on the stores keep them well-typed.
LEMMA InsertBatchTypes ==
  ASSUME StoresTypeOK, NEW b \in BatchId, NEW n \in Nat, InsertBatch(b, n)
  PROVE  /\ status' \in [BatchId -> Status]
         /\ fileCount' \in [BatchId -> Nat]
         /\ trail' \in [BatchId -> Seq(Status \X Status)]
<1>1. trail[b] \in Seq(Status \X Status)
  BY DEF StoresTypeOK
<1>2. <<"none", "pending">> \in Status \X Status
  BY DEF Status
<1>3. Append(trail[b], <<"none", "pending">>) \in Seq(Status \X Status)
  BY <1>1, <1>2, AppendProperties
<1> QED
  BY <1>3 DEF StoresTypeOK, InsertBatch, Status

LEMMA EnqueueTypes ==
  ASSUME StoresTypeOK, NEW j \in JobId, NEW k \in Key, Enqueue(j, k)
  PROVE  /\ queue' \in Seq(JobId)
         /\ jobState' \in [JobId -> {"none", "queued", "started", "finished", "failed"}]
         /\ jobKey' \in [JobId -> Key \cup {NoKey}]
<1>1. Append(queue, j) \in Seq(JobId)
  BY AppendProperties DEF StoresTypeOK
<1> QED
  BY <1>1 DEF StoresTypeOK, Enqueue

LEMMA UpdateStatusTypes ==
  ASSUME StoresTypeOK, NEW b \in BatchId, NEW from \in Status, NEW to \in Status,
         UpdateStatus(b, from, to)
  PROVE  /\ status' \in [BatchId -> Status]
         /\ fileCount' \in [BatchId -> Nat]
         /\ trail' \in [BatchId -> Seq(Status \X Status)]
<1>1. Append(trail[b], <<from, to>>) \in Seq(Status \X Status)
  BY AppendProperties DEF StoresTypeOK
<1> QED
  BY <1>1 DEF StoresTypeOK, UpdateStatus

LEMMA MishapTypes ==
  ASSUME StoresTypeOK, NEW f, Mishap(f) \/ Smooth
  PROVE  mishaps' \in 0 .. MaxMishaps
  BY DEF StoresTypeOK, Mishap, Smooth

\* Nothing but the drop directory, and the locals of the watcher, change in
\* most of its steps: each leaf names the operators of the step it is about.
LEMMA NewFilesCount == ASSUME WatcherTypeOK PROVE Cardinality(NewFiles) \in Nat
<1>1. NewFiles \in SUBSET Dropped
  BY DEF NewFiles
<1>2. IsFiniteSet(NewFiles)
  BY <1>1, FS_Subset
<1> QED
  BY <1>2, FS_CardinalityType

LEMMA PollTypes ==
  ASSUME StoresTypeOK, WatcherTypeOK, Poll PROVE StoresTypeOK' /\ WatcherTypeOK'
<1>1. PICK b \in BatchId :
         /\ InsertBatch(b, Cardinality(NewFiles))
         /\ \/ Smooth /\ phase' = "next" /\ todo' = NewFiles /\ into' = b
               /\ UNCHANGED <<file, data>>
            \/ Mishap("cache") /\ Suspended
  BY DEF Poll, CreateBatch
<1>2. mishaps' \in 0 .. MaxMishaps
  BY <1>1, MishapTypes
<1>3. WatcherTypeOK'
  BY <1>1 DEF Poll, WatcherTypeOK, Suspended, NewFiles, localVars, Content
<1>4. StoresTypeOK'
  BY <1>1, <1>2, NewFilesCount, InsertBatchTypes
     DEF Poll, StoresTypeOK, blobVars, queueVars
<1> QED
  BY <1>3, <1>4

LEMMA EnqueueFileTypes ==
  ASSUME StoresTypeOK, WatcherTypeOK, EnqueueFile, file \in Dropped, into \in BatchId
  PROVE  StoresTypeOK' /\ WatcherTypeOK'
<1>1. mishaps' \in 0 .. MaxMishaps
  BY MishapTypes DEF EnqueueFile
<1>2. WatcherTypeOK'
  BY DEF EnqueueFile, WatcherTypeOK, NextFile, Content
<1>3. <<into, file>> \in Key
  BY DEF Key
<1>4. CASE \E j \in JobId : Enqueue(j, <<into, file>>)
  BY <1>1, <1>2, <1>3, <1>4, EnqueueTypes DEF EnqueueFile, StoresTypeOK, batchVars, blobVars
<1>5. CASE UNCHANGED queueVars
  BY <1>1, <1>2, <1>5 DEF EnqueueFile, StoresTypeOK, batchVars, blobVars, queueVars
<1> QED
  BY <1>2, <1>4, <1>5 DEF EnqueueFile

\* The remaining steps of the watcher and of the scanner.
LEMMA WatcherTypes ==
  ASSUME StoresTypeOK, WatcherTypeOK, WatcherNext,
         phase \notin {"idle", "next"} => file \in Dropped,
         phase # "idle" => into \in BatchId
  PROVE  StoresTypeOK' /\ WatcherTypeOK'
<1> USE MishapTypes DEF StoresTypeOK, WatcherTypeOK, batchVars, blobVars, queueVars,
        storeVars, watcherVars, localVars
<1>1. CASE Poll
  BY <1>1, PollTypes
<1>2. CASE EndPoll
  BY <1>2 DEF EndPoll, Suspended, Content
<1>3. CASE StatFile
  BY <1>3 DEF StatFile, NextFile, Content
<1>4. CASE ReadFile
  BY <1>4 DEF ReadFile, NextFile, Content
<1>5. CASE QuarantineFile
  <2>1. <<into, file>> \in Key
    BY <1>5 DEF QuarantineFile, Key
  <2>2. mishaps' \in 0 .. MaxMishaps
    BY <1>5 DEF QuarantineFile
  <2>3. WatcherTypeOK'
    BY <1>5 DEF QuarantineFile, NextFile, Content
  <2> QED
    BY <1>5, <2>1, <2>2, <2>3 DEF QuarantineFile
<1>6. CASE UploadFile
  <2>1. mishaps' \in 0 .. MaxMishaps
    BY <1>6 DEF UploadFile
  <2>2. WatcherTypeOK'
    BY <1>6 DEF UploadFile, NextFile, Content
  <2>3. original' \in [Key -> Content \cup {"absent"}]
    BY <1>6 DEF UploadFile, PutOriginal
  <2> QED
    BY <1>6, <2>1, <2>2, <2>3 DEF UploadFile
<1>7. CASE EnqueueFile
  BY <1>7, EnqueueFileTypes DEF EnqueueFile
<1>8. ASSUME NEW n \in Dropped, BeginFile(n) PROVE StoresTypeOK' /\ WatcherTypeOK'
  BY <1>8 DEF BeginFile, Suspended, Content
<1>9. CASE PollNothing
  BY <1>9 DEF PollNothing
<1>10. CASE RestartWatcher
  BY <1>10 DEF RestartWatcher, Suspended, Content
<1>11. CASE ScannerStep
  <2>1. PICK n \in Dropped, c \in Content \cup {"absent"} : Write(n, c)
    BY <1>11 DEF ScannerStep, DropFile, StartSlowDrop, ContinueSlowDrop, RemoveFile, Content
  <2> QED
    BY <2>1 DEF Write
<1> QED
  BY <1>1, <1>2, <1>3, <1>4, <1>5, <1>6, <1>7, <1>8, <1>9, <1>10, <1>11
     DEF WatcherNext, WatcherStep

\* The file at the turn of the loop is one of the accepted ones.
LEMMA TurnIsAFile ==
  ASSUME ApiTypeOK, NEW r \in Request, sent[r] < Len(files[r])
  PROVE  sent[r] + 1 \in 1 .. Len(files[r]) /\ Turn(r) \in Name \X Content
<1>1. files[r] \in Seq(Name \X Content) /\ sent[r] \in Nat
  BY DEF ApiTypeOK
<1>2. Len(files[r]) \in Nat
  BY <1>1, LenProperties
<1>3. sent[r] + 1 \in 1 .. Len(files[r])
  BY ONLY <1>1, <1>2, sent[r] < Len(files[r])
<1> QED
  BY <1>1, <1>3, ElementOfSeq DEF Turn

LEMMA ApiTypes ==
  ASSUME StoresTypeOK, ApiTypeOK, ApiStep,
         \A r \in Request : stage[r] \in {"store", "enqueue"} => batchOf[r] \in BatchId,
         \A r \in Request : stage[r] = "enqueue" => sent[r] < Len(files[r])
  PROVE  StoresTypeOK' /\ ApiTypeOK'
<1> USE MishapTypes DEF StoresTypeOK, ApiTypeOK, batchVars, blobVars, queueVars, storeVars
<1> SUFFICES ASSUME NEW r \in Request, RequestStep(r) \/ FailUpload(r)
             PROVE  StoresTypeOK' /\ ApiTypeOK'
  BY DEF ApiStep
<1>1. CASE Refuse(r)
  BY <1>1 DEF Refuse
<1>2. CASE Accept(r)
  <2>1. PICK fs \in Payload, b \in BatchId :
           /\ InsertBatch(b, Len(fs))
           /\ files' = [files EXCEPT ![r] = fs]
           /\ batchOf' = [batchOf EXCEPT ![r] = b]
           /\ sent' = [sent EXCEPT ![r] = 0]
    BY <1>2 DEF Accept
  <2>2. fs \in Seq(Name \X Content) /\ Len(fs) \in Nat
    BY LenProperties
  <2>3. ApiTypeOK'
    BY <1>2, <2>1, <2>2 DEF Accept
  <2>4. StoresTypeOK'
    BY <1>2, <2>1, <2>2, InsertBatchTypes DEF Accept
  <2> QED
    BY <2>3, <2>4
<1>3. CASE StoreFile(r)
  <2>1. Turn(r) \in Name \X Content
    BY <1>3, TurnIsAFile DEF StoreFile
  <2> QED
    BY <1>3, <2>1 DEF StoreFile, PutOriginal
<1>4. CASE EnqueueUpload(r)
  <2>1. Turn(r) \in Name \X Content
    BY <1>4, TurnIsAFile DEF EnqueueUpload
  <2>2. NextKey(r) \in Key
    BY <1>4, <2>1 DEF EnqueueUpload, NextKey, Key
  <2>3. ApiTypeOK'
    BY <1>4 DEF EnqueueUpload
  <2>4. StoresTypeOK'
    BY <1>4, <2>2, EnqueueTypes DEF EnqueueUpload
  <2> QED
    BY <2>3, <2>4
<1>5. CASE Answer(r)
  BY <1>5 DEF Answer
<1>6. CASE FailUpload(r)
  BY <1>6 DEF FailUpload
<1> QED
  BY <1>1, <1>2, <1>3, <1>4, <1>5, <1>6 DEF RequestStep

LEMMA InsertRowTypes ==
  ASSUME StoresTypeOK, NEW k \in Key, InsertRow(k) PROVE rows' \in [Key -> Nat]
  BY DEF StoresTypeOK, InsertRow

LEMMA RequeuesBounded ==
  ASSUME WorkerTypeOK, requeues < MaxRequeues, requeues' = requeues + 1
  PROVE  requeues' \in 0 .. MaxRequeues
<1>1. requeues \in 0 .. MaxRequeues /\ MaxRequeues \in Nat
  BY DEF WorkerTypeOK, WorkerAssumption
<1> QED
  BY ONLY <1>1, requeues < MaxRequeues, requeues' = requeues + 1

LEMMA WorkerTypes ==
  ASSUME StoresTypeOK, WorkerTypeOK, WorkerStep, JobsInv, WorkerInv
  PROVE  StoresTypeOK' /\ WorkerTypeOK'
<1> USE MishapTypes DEF StoresTypeOK, WorkerTypeOK, batchVars, blobVars, queueVars,
        storeVars, workerVars, Goto, Target
<1>1. ASSUME NEW w \in Worker, pc[w] # "idle" PROVE job[w] \in JobId /\ KeyOf(w) \in Key
  BY <1>1 DEF WorkerInv, WorkerOk, JobsInv, Backed, KeyOf
<1>2. ASSUME NEW w \in Worker, JobStep(w) PROVE StoresTypeOK' /\ WorkerTypeOK'
  <2>1. CASE TakeJob(w)
    <3>1. Head(queue) \in JobId /\ Tail(queue) \in Seq(JobId)
      BY <2>1, HeadTailProperties DEF TakeJob
    <3> QED
      BY <2>1, <3>1 DEF TakeJob
  <2>2. CASE Predict(w)
    BY <2>2 DEF Predict
  <2>3. CASE UploadOverlay(w)
    <3>1. KeyOf(w)[2] \in Name
      BY <1>1, <2>3 DEF UploadOverlay, Key
    <3>2. overlay' \in [StemKey -> Name \cup {NoName}]
      BY <2>3, <3>1 DEF UploadOverlay, PutOverlay
    <3> QED
      BY <2>3, <3>2 DEF UploadOverlay
  <2>4. CASE SavePrediction(w)
    <3>1. rows' \in [Key -> Nat]
      BY <1>1, <2>4, InsertRowTypes DEF SavePrediction
    <3> QED
      BY <2>4, <3>1 DEF SavePrediction
  <2>5. CASE FinishJob(w)
    BY <1>1, <2>5 DEF FinishJob
  <2>6. CASE RaiseInJob(w)
    BY <1>1, <2>6 DEF RaiseInJob
  <2>7. ASSUME NEW to \in Target, SelectStatus(w, to) PROVE StoresTypeOK' /\ WorkerTypeOK'
    BY <2>7 DEF SelectStatus, Reading, Writing, After
  <2>8. ASSUME NEW to \in Target, CommitStatus(w, to) PROVE StoresTypeOK' /\ WorkerTypeOK'
    <3>1. BatchOf(w) \in BatchId /\ Allowed(to) \in Status /\ to \in Status
      BY <1>1, <2>8 DEF CommitStatus, Writing, BatchOf, Allowed, Status, Key
    <3>2. WorkerTypeOK'
      BY <2>8 DEF CommitStatus, After
    <3>3. StoresTypeOK'
      BY <2>8, <3>1, UpdateStatusTypes DEF CommitStatus
    <3> QED
      BY <3>2, <3>3
  <2> QED
    BY <1>2, <2>1, <2>2, <2>3, <2>4, <2>5, <2>6, <2>7, <2>8 DEF JobStep
<1>3. ASSUME NEW w \in Worker, AwaitJob(w) \/ CrashWorker(w)
      PROVE  StoresTypeOK' /\ WorkerTypeOK'
  BY <1>3 DEF AwaitJob, CrashWorker
<1>4. ASSUME NEW j \in JobId, ReapAbandonedJob(j) PROVE StoresTypeOK' /\ WorkerTypeOK'
  BY <1>4 DEF ReapAbandonedJob
<1>5. ASSUME NEW j \in JobId, RequeueJob(j) PROVE StoresTypeOK' /\ WorkerTypeOK'
  <2>1. Append(queue, j) \in Seq(JobId)
    BY AppendProperties
  <2>2. WorkerTypeOK'
    <3>1. requeues' \in 0 .. MaxRequeues
      BY <1>5, RequeuesBounded DEF RequeueJob
    <3> QED
      BY <1>5, <3>1 DEF RequeueJob
  <2>3. StoresTypeOK'
    BY <1>5, <2>1 DEF RequeueJob
  <2> QED
    BY <2>2, <2>3
<1> QED
  BY <1>2, <1>3, <1>4, <1>5 DEF WorkerStep

LEMMA NextTypes ==
  ASSUME TypeOK, IInv, [Next]_vars PROVE TypeOK'
<1> USE DEF TypeOK
<1>1. CASE WatcherNext /\ UNCHANGED <<apiVars, workerVars>>
  BY <1>1, WatcherTypes DEF IInv, WatcherInv, apiVars, workerVars, ApiTypeOK, WorkerTypeOK
<1>2. CASE ApiStep /\ UNCHANGED <<watcherVars, workerVars>>
  BY <1>2, ApiTypes DEF IInv, ApiInv, watcherVars, workerVars, WatcherTypeOK, WorkerTypeOK
<1>3. CASE WorkerStep /\ UNCHANGED <<watcherVars, apiVars>>
  BY <1>3, WorkerTypes DEF IInv, watcherVars, apiVars, WatcherTypeOK, ApiTypeOK
<1>4. CASE UNCHANGED vars
  BY <1>4 DEF vars, storeVars, watcherVars, apiVars, workerVars, batchVars, blobVars,
     queueVars, StoresTypeOK, WatcherTypeOK, ApiTypeOK, WorkerTypeOK
<1> QED
  BY <1>1, <1>2, <1>3, <1>4 DEF Next

-----------------------------------------------------------------------------
(* The stores only grow: no step removes an object, a row, a batch or a     *)
(* job, nor replaces an ingested original by anything that is rejected.     *)

Grows ==
    /\ \A k \in Key : original[k] \in Ingestable => original'[k] \in Ingestable
    /\ \A k \in StemKey : overlay[k] # NoName => overlay'[k] # NoName
    /\ \A k \in Key : rows[k] > 0 => rows'[k] > 0
    /\ \A b \in BatchId : status[b] # "none" => status'[b] # "none"
    /\ \A j \in JobId : jobState[j] # "none" =>
          jobState'[j] # "none" /\ jobKey'[j] = jobKey[j]

LEMMA WatcherGrows ==
  ASSUME TypeOK, IInv, WatcherNext PROVE Grows
<1> USE DEF TypeOK, StoresTypeOK, IInv, WatcherInv, batchVars, blobVars, queueVars,
        storeVars, Grows
<1>1. CASE Poll
  BY <1>1 DEF Poll, CreateBatch, InsertBatch
<1>2. CASE UploadFile
  BY <1>2 DEF UploadFile, PutOriginal
<1>3. CASE EnqueueFile
  BY <1>3 DEF EnqueueFile, Enqueue
<1>4. CASE EndPoll \/ StatFile \/ ReadFile \/ QuarantineFile \/ PollNothing \/ RestartWatcher
  BY <1>4 DEF EndPoll, StatFile, ReadFile, QuarantineFile, PollNothing, RestartWatcher
<1>5. ASSUME NEW n \in Dropped, BeginFile(n) PROVE Grows
  BY <1>5 DEF BeginFile
<1>6. CASE ScannerStep
  BY <1>6 DEF ScannerStep, DropFile, StartSlowDrop, ContinueSlowDrop, RemoveFile, Write
<1> QED
  BY <1>1, <1>2, <1>3, <1>4, <1>5, <1>6 DEF WatcherNext, WatcherStep

LEMMA ApiGrows ==
  ASSUME TypeOK, IInv, ApiStep PROVE Grows
<1> USE DEF TypeOK, StoresTypeOK, batchVars, blobVars, queueVars, storeVars, Grows
<1> SUFFICES ASSUME NEW r \in Request, RequestStep(r) \/ FailUpload(r) PROVE Grows
  BY DEF ApiStep
<1>1. CASE Accept(r)
  BY <1>1 DEF Accept, InsertBatch
<1>2. CASE StoreFile(r)
  <2>1. sent[r] + 1 \in 1 .. Len(files[r])
    BY <1>2, TurnIsAFile DEF StoreFile
  <2>2. Turn(r)[2] \in Ingestable
    BY <2>1 DEF IInv, ApiInv, Turn
  <2> QED
    BY <1>2, <2>2 DEF StoreFile, PutOriginal
<1>3. CASE EnqueueUpload(r)
  BY <1>3 DEF EnqueueUpload, Enqueue
<1>4. CASE Refuse(r) \/ Answer(r) \/ FailUpload(r)
  BY <1>4 DEF Refuse, Answer, FailUpload
<1> QED
  BY <1>1, <1>2, <1>3, <1>4 DEF RequestStep

LEMMA InsertRowGrows ==
  ASSUME StoresTypeOK, NEW k \in Key, InsertRow(k)
  PROVE  rows'[k] > 0 /\ \A q \in Key : rows[q] > 0 => rows'[q] > 0
<1>1. rows \in [Key -> Nat]
  BY DEF StoresTypeOK
<1>2. rows' = [rows EXCEPT ![k] = rows[k] + 1]
  BY DEF InsertRow
<1>3. rows[k] \in Nat
  BY <1>1
<1> QED
  BY ONLY <1>1, <1>2, <1>3, k \in Key

LEMMA WorkerGrows ==
  ASSUME TypeOK, IInv, WorkerStep PROVE Grows
<1> USE DEF TypeOK, StoresTypeOK, WorkerTypeOK, batchVars, blobVars, queueVars,
        storeVars, workerVars, Grows
<1>1. ASSUME NEW w \in Worker, pc[w] # "idle"
      PROVE  job[w] \in JobId /\ jobState[job[w]] # "none" /\ KeyOf(w) \in Key
  BY <1>1 DEF IInv, WorkerInv, WorkerOk, JobsInv, Backed, KeyOf
<1>2. ASSUME NEW w \in Worker, JobStep(w) PROVE Grows
  <2>1. CASE TakeJob(w)
    BY <2>1 DEF TakeJob
  <2>2. CASE Predict(w)
    BY <2>2 DEF Predict
  <2>3. CASE UploadOverlay(w)
    <3>1. KeyOf(w)[2] \in Name
      BY <1>1, <2>3 DEF UploadOverlay, Key
    <3>2. \A k \in StemKey : overlay[k] # NoName => overlay'[k] # NoName
      BY <2>3, <3>1, StoresAssumption DEF UploadOverlay, PutOverlay
    <3> QED
      BY <2>3, <3>2 DEF UploadOverlay
  <2>4. CASE SavePrediction(w)
    <3>1. \A k \in Key : rows[k] > 0 => rows'[k] > 0
      BY <1>1, <2>4, InsertRowGrows DEF SavePrediction
    <3> QED
      BY <2>4, <3>1 DEF SavePrediction
  <2>5. CASE FinishJob(w) \/ RaiseInJob(w)
    BY <2>5 DEF FinishJob, RaiseInJob
  <2>6. ASSUME NEW to \in Target, SelectStatus(w, to) PROVE Grows
    BY <2>6 DEF SelectStatus
  <2>7. ASSUME NEW to \in Target, CommitStatus(w, to) PROVE Grows
    BY <2>7 DEF CommitStatus, UpdateStatus, Target
  <2> QED
    BY <1>2, <2>1, <2>2, <2>3, <2>4, <2>5, <2>6, <2>7 DEF JobStep
<1>3. ASSUME NEW w \in Worker, AwaitJob(w) \/ CrashWorker(w) PROVE Grows
  BY <1>3 DEF AwaitJob, CrashWorker
<1>4. ASSUME NEW j \in JobId, ReapAbandonedJob(j) \/ RequeueJob(j) PROVE Grows
  BY <1>4 DEF ReapAbandonedJob, RequeueJob
<1> QED
  BY <1>2, <1>3, <1>4 DEF WorkerStep

-----------------------------------------------------------------------------
(* What a process relies on survives the steps of the others.              *)

LEMMA BackedStays ==
  ASSUME Grows, NEW k, Backed(k) PROVE Backed(k)'
  BY DEF Grows, Backed, Key

LEMMA WatcherInvStays ==
  ASSUME TypeOK, WatcherInv, Grows, UNCHANGED watcherVars PROVE WatcherInv'
<1>1. phase' = phase /\ into' = into /\ file' = file /\ data' = data
  BY DEF watcherVars
<1>2. phase # "idle" => into \in BatchId /\ status'[into] # "none"
  BY DEF WatcherInv, Grows
<1>3. phase = "enqueue" => Backed(<<into, file>>)'
  BY <1>1, BackedStays DEF WatcherInv
<1> QED
  BY <1>1, <1>2, <1>3 DEF WatcherInv

LEMMA ApiInvStays ==
  ASSUME TypeOK, ApiInv, Grows, UNCHANGED apiVars PROVE ApiInv'
<1> SUFFICES ASSUME NEW r \in Request
             PROVE  /\ stage[r] \in {"store", "enqueue"} =>
                          batchOf[r] \in BatchId /\ status'[batchOf[r]] # "none"
                    /\ stage[r] = "enqueue" => Backed(NextKey(r))'
  BY DEF ApiInv, apiVars, NextKey
<1>1. stage[r] \in {"store", "enqueue"} =>
         batchOf[r] \in BatchId /\ status'[batchOf[r]] # "none"
  BY DEF ApiInv, Grows
<1>2. stage[r] = "enqueue" => Backed(NextKey(r))'
  BY BackedStays DEF ApiInv, apiVars, NextKey, Turn, Backed
<1> QED
  BY <1>1, <1>2

LEMMA WorkerOkStays ==
  ASSUME TypeOK, JobsInv, Grows, NEW w \in Worker, WorkerOk(w),
         pc'[w] = pc[w], job'[w] = job[w]
  PROVE  WorkerOk(w)'
<1> SUFFICES ASSUME pc[w] # "idle" PROVE WorkerOk(w)'
  BY DEF WorkerOk
<1>1. job[w] \in JobId /\ jobState[job[w]] # "none" /\ jobKey'[job[w]] = jobKey[job[w]]
  BY DEF WorkerOk, Grows
<1>2. KeyOf(w) \in Key /\ OverlayKey(KeyOf(w)) \in StemKey
  BY <1>1 DEF JobsInv, Backed, KeyOf, Key, StemKey, OverlayKey
<1> QED
  BY <1>1, <1>2 DEF WorkerOk, Grows, KeyOf, OverlayKey

LEMMA WorkerInvStays ==
  ASSUME TypeOK, JobsInv, WorkerInv, Grows, UNCHANGED <<pc, job>> PROVE WorkerInv'
  BY WorkerOkStays DEF WorkerInv

LEMMA JobsInvStays ==
  ASSUME TypeOK, JobsInv, Grows, UNCHANGED queueVars PROVE JobsInv'
<1>1. \A j \in JobId : jobState[j] # "none" => Backed(jobKey[j])'
  BY BackedStays DEF JobsInv, queueVars, Backed
<1> QED
  BY <1>1 DEF JobsInv, queueVars

\* The promises about rows hold on as long as no row is inserted, no batch
\* becomes done and no job becomes finished.
LEMMA PromisesStay ==
  ASSUME TypeOK, JobsInv, RowsInv, DoneHasPrediction, FinishedJobHasPrediction, Grows,
         UNCHANGED rows,
         \A b \in BatchId : status'[b] = "done" => status[b] = "done",
         \A j \in JobId : jobState'[j] = "finished" => jobState[j] = "finished"
  PROVE  RowsInv' /\ DoneHasPrediction' /\ FinishedJobHasPrediction'
<1>1. \A k \in Key : OverlayKey(k) \in StemKey
  BY DEF Key, StemKey, OverlayKey
<1>2. RowsInv'
  BY <1>1 DEF RowsInv, Grows, OverlayKey
<1>3. DoneHasPrediction'
  BY DEF DoneHasPrediction
<1>4. FinishedJobHasPrediction'
  BY DEF FinishedJobHasPrediction, Grows
<1> QED
  BY <1>2, <1>3, <1>4

\* A job enqueued for a backed key keeps all jobs backed.
LEMMA EnqueueKeepsJobs ==
  ASSUME StoresTypeOK, JobsInv, Grows, NEW j \in JobId, NEW k, Backed(k), Enqueue(j, k)
  PROVE  JobsInv'
<1>1. queue \in Seq(JobId) /\ jobState[j] = "none" /\ queue' = Append(queue, j)
  BY DEF StoresTypeOK, Enqueue
<1>2. \A i \in JobId : jobState'[i] # "none" => Backed(jobKey[i])'
  <2> SUFFICES ASSUME NEW i \in JobId, jobState'[i] # "none" PROVE Backed(jobKey[i])'
    OBVIOUS
  <2>1. CASE i = j
    <3>1. jobKey'[i] = k
      BY <2>1 DEF Enqueue, StoresTypeOK
    <3> QED
      BY <3>1 DEF Backed, Grows, Key
  <2>2. CASE i # j
    <3>1. jobKey'[i] = jobKey[i] /\ jobState[i] # "none"
      BY <2>2 DEF Enqueue, StoresTypeOK
    <3>2. Backed(jobKey[i])
      BY <3>1 DEF JobsInv
    <3> QED
      BY <3>1, <3>2 DEF Backed, Grows, Key
  <2> QED
    BY <2>1, <2>2
<1>3. \A i \in 1 .. Len(queue') : jobState'[queue'[i]] # "none"
  <2>1. /\ Len(queue') = Len(queue) + 1 /\ Len(queue) \in Nat
        /\ \A i \in 1 .. Len(queue) : queue'[i] = queue[i] /\ queue[i] \in JobId
        /\ queue'[Len(queue) + 1] = j
    BY <1>1, AppendProperties, LenProperties, ElementOfSeq
  <2>2. jobState'[j] = "queued" /\ \A i \in 1 .. Len(queue) : jobState'[queue[i]] # "none"
    BY <2>1 DEF JobsInv, Enqueue, StoresTypeOK
  <2> QED
    BY ONLY <2>1, <2>2
<1> QED
  BY <1>2, <1>3 DEF JobsInv

-----------------------------------------------------------------------------
(* The steps of each process preserve the inductive invariant.             *)

LEMMA WatcherKeepsItsInv ==
  ASSUME TypeOK, IInv, WatcherNext, Grows PROVE WatcherInv'
<1> USE DEF TypeOK, StoresTypeOK, WatcherTypeOK, IInv, WatcherInv, storeVars, watcherVars,
        batchVars, blobVars, queueVars, localVars
<1>1. CASE Poll
  BY <1>1 DEF Poll, CreateBatch, Suspended, InsertBatch
<1>2. CASE EndPoll \/ RestartWatcher
  BY <1>2 DEF EndPoll, RestartWatcher, Suspended
<1>3. CASE StatFile
  BY <1>3 DEF StatFile, NextFile
<1>4. CASE ReadFile
  BY <1>4 DEF ReadFile, NextFile, Rejected, Ingestable
<1>5. CASE QuarantineFile
  BY <1>5 DEF QuarantineFile, NextFile
<1>6. CASE UploadFile
  <2>1. CASE phase' = "enqueue"
    <3>1. <<into, file>> \in Key /\ original' = [original EXCEPT ![<<into, file>>] = data]
      BY <1>6, <2>1 DEF UploadFile, NextFile, PutOriginal, Key
    <3>2. original'[<<into, file>>] \in Ingestable
      BY <1>6, <3>1 DEF UploadFile
    <3> QED
      BY <1>6, <2>1, <3>1, <3>2 DEF UploadFile, NextFile, Backed
  <2>2. CASE phase' # "enqueue"
    BY <1>6, <2>2 DEF UploadFile, NextFile
  <2> QED
    BY <2>1, <2>2
<1>7. CASE EnqueueFile
  BY <1>7 DEF EnqueueFile, NextFile
<1>8. ASSUME NEW n \in Dropped, BeginFile(n) PROVE WatcherInv'
  BY <1>8 DEF BeginFile, Suspended
<1>9. CASE PollNothing
  BY <1>9 DEF PollNothing, Backed
<1>10. CASE ScannerStep
  BY <1>10 DEF ScannerStep, DropFile, StartSlowDrop, ContinueSlowDrop, RemoveFile, Write, Backed
<1> QED
  BY <1>1, <1>2, <1>3, <1>4, <1>5, <1>6, <1>7, <1>8, <1>9, <1>10 DEF WatcherNext, WatcherStep

\* Only EnqueueFile touches the queue, only Poll the batches, nothing the rows.
LEMMA WatcherFrame ==
  ASSUME TypeOK, WatcherNext
  PROVE  /\ UNCHANGED rows
         /\ EnqueueFile \/ UNCHANGED queueVars
         /\ \A b \in BatchId : status'[b] = "done" => status[b] = "done"
         /\ \A j \in JobId : jobState'[j] = "finished" => jobState[j] = "finished"
<1> USE DEF TypeOK, StoresTypeOK, storeVars, watcherVars, batchVars, blobVars, queueVars,
        localVars
<1>1. CASE Poll
  BY <1>1 DEF Poll, CreateBatch, InsertBatch
<1>2. CASE EndPoll \/ RestartWatcher \/ StatFile \/ ReadFile \/ QuarantineFile \/ UploadFile
           \/ PollNothing
  BY <1>2 DEF EndPoll, RestartWatcher, StatFile, ReadFile, QuarantineFile, UploadFile, PollNothing
<1>3. CASE EnqueueFile
  BY <1>3 DEF EnqueueFile, Enqueue
<1>4. ASSUME NEW n \in Dropped, BeginFile(n)
      PROVE  UNCHANGED <<batchVars, rows, queueVars>>
  BY <1>4 DEF BeginFile
<1>5. CASE ScannerStep
  BY <1>5 DEF ScannerStep, DropFile, StartSlowDrop, ContinueSlowDrop, RemoveFile, Write
<1> QED
  BY <1>1, <1>2, <1>3, <1>4, <1>5 DEF WatcherNext, WatcherStep

LEMMA WatcherPreserves ==
  ASSUME TypeOK, IInv, WatcherNext, UNCHANGED <<apiVars, workerVars>> PROVE IInv'
<1>1. Grows
  BY WatcherGrows
<1>2. WatcherInv' /\ ApiInv' /\ WorkerInv'
  BY <1>1, WatcherKeepsItsInv, ApiInvStays, WorkerInvStays DEF IInv, workerVars
<1>3. RowsInv' /\ DoneHasPrediction' /\ FinishedJobHasPrediction'
  BY <1>1, WatcherFrame, PromisesStay DEF IInv
<1>4. JobsInv'
  <2>1. CASE UNCHANGED queueVars
    BY <1>1, <2>1, JobsInvStays DEF IInv
  <2>2. CASE EnqueueFile
    <3>1. Backed(<<into, file>>)
      BY <2>2 DEF EnqueueFile, IInv, WatcherInv
    <3>2. CASE \E j \in JobId : Enqueue(j, <<into, file>>)
      BY <1>1, <3>1, <3>2, EnqueueKeepsJobs DEF IInv, TypeOK
    <3> QED
      BY <2>1, <2>2, <3>2 DEF EnqueueFile
  <2> QED
    BY <2>1, <2>2, WatcherFrame
<1> QED
  BY <1>2, <1>3, <1>4 DEF IInv

\* The file at the turn of the loop was validated.
LEMMA ValidatedTurn ==
  ASSUME ApiTypeOK, ApiInv, NEW r \in Request, sent[r] < Len(files[r])
  PROVE  Turn(r) \in Tiff \X Ingestable
  BY TurnIsAFile DEF ApiInv, Turn

LEMMA AcceptedFiles ==
  ASSUME NEW fs \in Payload, NEW role, Admissible(role, fs)
  PROVE  \A i \in 1 .. Len(fs) : fs[i] \in Tiff \X Ingestable
<1>1. fs \in Seq(Name \X Content)
  BY DEF ApiAssumption
<1>2. \A i \in 1 .. Len(fs) : fs[i] \in Name \X Content /\ i \in DOMAIN fs
  BY <1>1, ElementOfSeq, LenProperties
<1> QED
  BY <1>2 DEF Admissible, Ingestable

LEMMA ApiKeepsItsInv ==
  ASSUME TypeOK, IInv, ApiStep, Grows PROVE ApiInv'
<1>1. PICK r \in Request : RequestStep(r) \/ FailUpload(r)
  BY DEF ApiStep
<1>2. \A q \in Request \ {r} :
         /\ stage'[q] = stage[q] /\ files'[q] = files[q]
         /\ sent'[q] = sent[q] /\ batchOf'[q] = batchOf[q]
  BY <1>1 DEF RequestStep, FailUpload, Refuse, Accept, StoreFile, EnqueueUpload, Answer,
     TypeOK, ApiTypeOK
<1> DEFINE P(q) ==
      /\ stage'[q] \in {"store", "enqueue"} =>
            batchOf'[q] \in BatchId /\ status'[batchOf'[q]] # "none"
      /\ \A i \in 1 .. Len(files'[q]) : files'[q][i] \in Tiff \X Ingestable
      /\ stage'[q] = "enqueue" => sent'[q] < Len(files'[q]) /\ Backed(NextKey(q))'
<1>3. ASSUME NEW q \in Request \ {r} PROVE P(q)
  BY <1>2, <1>3 DEF IInv, ApiInv, Grows, Backed, NextKey, Turn, Key
<1> USE DEF TypeOK, ApiTypeOK, StoresTypeOK, IInv
<1>4. P(r)
  <2>1. CASE Refuse(r)
    BY <2>1 DEF Refuse, ApiInv
  <2>2. CASE Accept(r)
    <3>1. PICK role \in Role, fs \in Payload, b \in BatchId :
             /\ Admissible(role, fs) /\ InsertBatch(b, Len(fs))
             /\ files' = [files EXCEPT ![r] = fs] /\ batchOf' = [batchOf EXCEPT ![r] = b]
      BY <2>2 DEF Accept
    <3>2. \A i \in 1 .. Len(fs) : fs[i] \in Tiff \X Ingestable
      BY <3>1, AcceptedFiles
    <3>3. files'[r] = fs /\ batchOf'[r] = b /\ status'[b] = "pending" /\ stage'[r] = "store"
      BY <2>2, <3>1 DEF Accept, InsertBatch
    <3> QED
      BY <3>2, <3>3
  <2>3. CASE StoreFile(r)
    <3>1. /\ stage'[r] = "enqueue" /\ files' = files /\ batchOf' = batchOf /\ status' = status
          /\ sent' = sent /\ sent[r] < Len(files[r])
          /\ batchOf[r] \in BatchId /\ status[batchOf[r]] # "none"
      BY <2>3 DEF StoreFile, ApiInv, batchVars
    <3>2. Turn(r) \in Tiff \X Ingestable
      BY <3>1, ValidatedTurn
    <3>3. NextKey(r) \in Key /\ original'[NextKey(r)] = Turn(r)[2]
      BY <2>3, <3>1, <3>2, StoresAssumption DEF StoreFile, PutOriginal, NextKey, Key
    <3>4. Backed(NextKey(r))'
      BY <3>1, <3>2, <3>3 DEF Backed, NextKey, Turn
    <3> QED
      BY <3>1, <3>4 DEF ApiInv
  <2>4. CASE EnqueueUpload(r)
    <3>1. /\ stage'[r] = "store" /\ files' = files /\ batchOf' = batchOf
          /\ batchOf[r] \in BatchId /\ status[batchOf[r]] # "none"
      BY <2>4 DEF EnqueueUpload, ApiInv
    <3> QED
      BY <3>1 DEF Grows, ApiInv
  <2>5. CASE Answer(r) \/ FailUpload(r)
    BY <2>5 DEF Answer, FailUpload, ApiInv
  <2> QED
    BY <1>1, <2>1, <2>2, <2>3, <2>4, <2>5 DEF RequestStep
<1> QED
  BY <1>3, <1>4 DEF ApiInv

LEMMA ApiPreserves ==
  ASSUME TypeOK, IInv, ApiStep, UNCHANGED <<watcherVars, workerVars>> PROVE IInv'
<1>1. Grows
  BY ApiGrows
<1>2. WatcherInv' /\ ApiInv' /\ WorkerInv'
  BY <1>1, ApiKeepsItsInv, WatcherInvStays, WorkerInvStays DEF IInv, workerVars
<1>3. PICK r \in Request : RequestStep(r) \/ FailUpload(r)
  BY DEF ApiStep
<1> USE DEF storeVars, batchVars, queueVars
<1>4. /\ UNCHANGED rows
      /\ \A b \in BatchId : status'[b] = "done" => status[b] = "done"
      /\ \A j \in JobId : jobState'[j] = "finished" => jobState[j] = "finished"
  BY <1>3 DEF RequestStep, Refuse, Accept, StoreFile, EnqueueUpload, Answer, FailUpload,
     InsertBatch, Enqueue, TypeOK, StoresTypeOK
<1>5. RowsInv' /\ DoneHasPrediction' /\ FinishedJobHasPrediction'
  BY <1>1, <1>4, PromisesStay DEF IInv
<1>6. JobsInv'
  <2>1. CASE EnqueueUpload(r)
    <3>1. Backed(NextKey(r))
      BY <2>1 DEF EnqueueUpload, IInv, ApiInv
    <3>2. \E j \in JobId : Enqueue(j, NextKey(r))
      BY <2>1 DEF EnqueueUpload
    <3> QED
      BY <1>1, <3>1, <3>2, EnqueueKeepsJobs DEF IInv, TypeOK
  <2>2. CASE ~EnqueueUpload(r)
    <3>1. UNCHANGED queueVars
      BY <1>3, <2>2 DEF RequestStep, Refuse, Accept, StoreFile, Answer, FailUpload
    <3> QED
      BY <1>1, <3>1, JobsInvStays DEF IInv
  <2> QED
    BY <2>1, <2>2
<1> QED
  BY <1>2, <1>5, <1>6 DEF IInv

\* The workers add no job: whatever job they move was enqueued before.
LEMMA WorkerAddsNoJob ==
  ASSUME TypeOK, IInv, WorkerStep, NEW j \in JobId, jobState'[j] # "none"
  PROVE  jobState[j] # "none"
<1> USE DEF TypeOK, StoresTypeOK
<1>1. CASE \E w \in Worker : TakeJob(w)
  <2>1. Head(queue) = queue[1] /\ 1 \in 1 .. Len(queue)
    BY <1>1, HeadTailProperties, EmptySeq DEF TakeJob
  <2> QED
    BY <1>1, <2>1 DEF TakeJob, IInv, JobsInv
<1>2. CASE \E w \in Worker : (FinishJob(w) \/ RaiseInJob(w))
  BY <1>2 DEF FinishJob, RaiseInJob, IInv, WorkerInv, WorkerOk
<1>3. CASE \E i \in JobId : (ReapAbandonedJob(i) \/ RequeueJob(i))
  BY <1>3 DEF ReapAbandonedJob, RequeueJob
<1>4. CASE UNCHANGED jobState
  BY <1>4
<1> QED
  BY <1>1, <1>2, <1>3, <1>4 DEF WorkerStep, JobStep, Predict, UploadOverlay, SavePrediction,
     SelectStatus, CommitStatus, AwaitJob, CrashWorker, storeVars, queueVars

LEMMA WorkerKeepsJobs ==
  ASSUME TypeOK, IInv, WorkerStep, Grows PROVE JobsInv'
<1> USE DEF TypeOK, StoresTypeOK
<1>1. ASSUME NEW j \in JobId, jobState'[j] # "none" PROVE jobState[j] # "none"
  BY <1>1, WorkerAddsNoJob
<1>2. \A j \in JobId : jobState'[j] # "none" => Backed(jobKey[j])'
  <2> SUFFICES ASSUME NEW j \in JobId, jobState'[j] # "none" PROVE Backed(jobKey[j])'
    OBVIOUS
  <2>1. Backed(jobKey[j]) /\ jobKey'[j] = jobKey[j]
    BY <1>1 DEF IInv, JobsInv, Grows
  <2> QED
    BY <2>1 DEF Backed, Grows, Key
<1>3. ASSUME UNCHANGED queue
      PROVE  \A i \in 1 .. Len(queue') : jobState'[queue'[i]] # "none"
  <2>1. \A i \in 1 .. Len(queue) : queue[i] \in JobId
    BY ElementOfSeq
  <2> QED
    BY <1>3, <2>1 DEF IInv, JobsInv, Grows
<1>4. \A i \in 1 .. Len(queue') : jobState'[queue'[i]] # "none"
  <2>1. CASE \E w \in Worker : TakeJob(w)
    <3>1. /\ queue' = Tail(queue) /\ Len(Tail(queue)) = Len(queue) - 1 /\ Len(queue) \in Nat
          /\ \A i \in 1 .. Len(Tail(queue)) : Tail(queue)[i] = queue[i + 1]
      BY <2>1, HeadTailProperties, LenProperties DEF TakeJob
    <3>2. \A i \in 1 .. Len(queue) : queue[i] \in JobId /\ jobState'[queue[i]] # "none"
      BY ElementOfSeq DEF IInv, JobsInv, Grows
    <3> QED
      BY ONLY <3>1, <3>2
  <2>2. CASE \E j \in JobId : RequeueJob(j)
    <3>1. PICK j \in JobId : RequeueJob(j)
      BY <2>2
    <3>2. /\ queue' = Append(queue, j) /\ Len(queue') = Len(queue) + 1 /\ Len(queue) \in Nat
          /\ \A i \in 1 .. Len(queue) : queue'[i] = queue[i]
          /\ queue'[Len(queue) + 1] = j
      BY <3>1, AppendProperties, LenProperties DEF RequeueJob
    <3>3. /\ jobState'[j] # "none"
          /\ \A i \in 1 .. Len(queue) : queue[i] \in JobId /\ jobState'[queue[i]] # "none"
      BY <3>1, ElementOfSeq DEF IInv, JobsInv, Grows, RequeueJob
    <3> QED
      BY ONLY <3>2, <3>3
  <2> QED
    BY <1>3, <2>1, <2>2 DEF WorkerStep, JobStep, Predict, UploadOverlay, SavePrediction,
       SelectStatus, CommitStatus, FinishJob, RaiseInJob, AwaitJob, CrashWorker,
       ReapAbandonedJob, storeVars, queueVars
<1> QED
  BY <1>2, <1>4 DEF JobsInv

LEMMA WorkerKeepsItsInv ==
  ASSUME TypeOK, IInv, WorkerStep, Grows PROVE WorkerInv'
<1> USE DEF TypeOK, WorkerTypeOK, StoresTypeOK, Goto, Target
<1>1. ASSUME NEW w \in Worker, JobStep(w) PROVE WorkerInv'
  <2>1. ASSUME NEW v \in Worker \ {w} PROVE WorkerOk(v)'
    <3>1. pc'[v] = pc[v] /\ job'[v] = job[v]
      <4>1. CASE TakeJob(w) \/ Predict(w) \/ UploadOverlay(w) \/ SavePrediction(w)
        BY <2>1, <4>1 DEF TakeJob, Predict, UploadOverlay, SavePrediction
      <4>2. CASE FinishJob(w) \/ RaiseInJob(w)
        BY <2>1, <4>2 DEF FinishJob, RaiseInJob
      <4>3. CASE \E to \in Target : SelectStatus(w, to) \/ CommitStatus(w, to)
        BY <2>1, <4>3 DEF SelectStatus, CommitStatus
      <4> QED
        BY <1>1, <4>1, <4>2, <4>3 DEF JobStep
    <3> QED
      BY <2>1, <3>1, WorkerOkStays DEF IInv, WorkerInv
  <2>2. ASSUME pc[w] # "idle", UNCHANGED jobKey, job'[w] = job[w]
        PROVE  /\ KeyOf(w) \in Key /\ KeyOf(w)' = KeyOf(w) /\ OverlayKey(KeyOf(w)) \in StemKey
               /\ job'[w] \in JobId /\ jobState'[job'[w]] # "none"
    BY <2>2 DEF IInv, WorkerInv, WorkerOk, JobsInv, Backed, KeyOf, OverlayKey, Key, StemKey, Grows
  <2>3. CASE TakeJob(w)
    <3>1. Head(queue) \in JobId
      BY <2>3, HeadTailProperties DEF TakeJob
    <3> QED
      BY <2>1, <2>3, <3>1 DEF TakeJob, WorkerInv, WorkerOk
  <2>4. CASE Predict(w)
    <3>1. WorkerOk(w)'
      BY <2>2, <2>4 DEF Predict, WorkerOk, storeVars, queueVars
    <3> QED
      BY <2>1, <3>1 DEF WorkerInv
  <2>5. CASE UploadOverlay(w)
    <3>1. /\ pc'[w] = "mark processing" /\ KeyOf(w) \in Key /\ KeyOf(w)' = KeyOf(w)
          /\ OverlayKey(KeyOf(w)) \in StemKey
          /\ job'[w] \in JobId /\ jobState'[job'[w]] # "none"
      BY <2>2, <2>5 DEF UploadOverlay, queueVars
    <3>2. overlay'[OverlayKey(KeyOf(w))] = KeyOf(w)[2] /\ KeyOf(w)[2] \in Name
      BY <2>5, <3>1 DEF UploadOverlay, PutOverlay, Key
    <3>3. overlay'[OverlayKey(KeyOf(w))'] # NoName
      BY <3>1, <3>2, StoresAssumption DEF OverlayKey
    <3>4. WorkerOk(w)'
      BY <3>1, <3>3 DEF WorkerOk
    <3> QED
      BY <2>1, <3>4 DEF WorkerInv
  <2>6. CASE SavePrediction(w)
    <3>1. pc[w] # "idle" /\ pc'[w] = "mark done" /\ overlay' = overlay
      BY <2>6 DEF SavePrediction, blobVars
    <3>2. /\ KeyOf(w) \in Key /\ KeyOf(w)' = KeyOf(w)
          /\ job'[w] \in JobId /\ jobState'[job'[w]] # "none"
      BY <2>2, <2>6 DEF SavePrediction, queueVars
    <3>3. rows'[KeyOf(w)] > 0
      BY <2>6, <3>2, InsertRowGrows DEF SavePrediction
    <3>4. overlay[OverlayKey(KeyOf(w))] # NoName
      BY <2>6 DEF SavePrediction, IInv, WorkerInv, WorkerOk
    <3>5. WorkerOk(w)'
      BY <3>1, <3>2, <3>3, <3>4 DEF WorkerOk, OverlayKey
    <3> QED
      BY <2>1, <3>5 DEF WorkerInv
  <2>7. CASE FinishJob(w) \/ RaiseInJob(w)
    <3>1. pc'[w] = "idle"
      BY <2>7 DEF FinishJob, RaiseInJob
    <3> QED
      BY <2>1, <3>1 DEF WorkerInv, WorkerOk
  <2>8. ASSUME NEW to \in Target, SelectStatus(w, to) \/ CommitStatus(w, to) PROVE WorkerInv'
    <3>1. /\ pc[w] \notin {"idle", "predict", "overlay"} /\ overlay' = overlay /\ rows' = rows
          /\ UNCHANGED jobKey /\ job' = job
          /\ pc'[w] \in {"mark done", "commit done", "return"} =>
                pc[w] \in {"mark done", "commit done", "return"}
          /\ pc'[w] \notin {"idle", "predict", "overlay"}
      <4>1. CASE SelectStatus(w, to)
        <5>1. UNCHANGED <<storeVars, job>>
          BY <4>1 DEF SelectStatus
        <5>2. /\ pc[w] = Reading(to)
              /\ pc'[w] = Writing(to) \/ pc'[w] = After(to)
          BY <4>1 DEF SelectStatus
        <5> QED
          BY <5>1, <5>2 DEF Reading, Writing, After, storeVars, blobVars, queueVars
      <4>2. CASE CommitStatus(w, to)
        <5>1. UNCHANGED <<rows, blobVars, queueVars, job>>
          BY <4>2 DEF CommitStatus
        <5>2. pc[w] = Writing(to) /\ pc'[w] = After(to)
          BY <4>2 DEF CommitStatus
        <5> QED
          BY <5>1, <5>2 DEF Writing, After, blobVars, queueVars
      <4> QED
        BY <2>8, <4>1, <4>2
    <3>2. WorkerOk(w)'
      BY <2>2, <3>1 DEF WorkerOk, IInv, WorkerInv, OverlayKey
    <3> QED
      BY <2>1, <3>2 DEF WorkerInv
  <2> QED
    BY <1>1, <2>3, <2>4, <2>5, <2>6, <2>7, <2>8 DEF JobStep
<1>2. ASSUME NEW w \in Worker, CrashWorker(w) PROVE WorkerInv'
  <2>1. ASSUME NEW v \in Worker \ {w} PROVE WorkerOk(v)'
    <3>1. pc'[v] = pc[v] /\ job'[v] = job[v]
      BY <1>2, <2>1 DEF CrashWorker
    <3> QED
      BY <2>1, <3>1, WorkerOkStays DEF IInv, WorkerInv
  <2> QED
    BY <1>2, <2>1 DEF CrashWorker, WorkerInv, WorkerOk
<1>3. CASE UNCHANGED <<pc, job>>
  BY <1>3, WorkerInvStays DEF IInv
<1> QED
  BY <1>1, <1>2, <1>3 DEF WorkerStep, AwaitJob, ReapAbandonedJob, RequeueJob, workerVars

LEMMA WorkerKeepsPromises ==
  ASSUME TypeOK, IInv, WorkerStep, Grows
  PROVE  RowsInv' /\ DoneHasPrediction' /\ FinishedJobHasPrediction'
<1> USE DEF TypeOK, StoresTypeOK
<1>1. ASSUME NEW w \in Worker, pc[w] # "idle"
      PROVE  job[w] \in JobId /\ Backed(KeyOf(w)) /\ KeyOf(w) \in Key
  BY <1>1 DEF IInv, WorkerInv, WorkerOk, JobsInv, Backed, KeyOf
<1>2. ASSUME NEW w \in Worker, SavePrediction(w)
      PROVE  RowsInv' /\ DoneHasPrediction' /\ FinishedJobHasPrediction'
  <2>1. /\ KeyOf(w) \in Key /\ Backed(KeyOf(w)) /\ overlay[OverlayKey(KeyOf(w))] # NoName
        /\ UNCHANGED <<status, overlay, original, jobState, jobKey>>
    BY <1>1, <1>2 DEF SavePrediction, IInv, WorkerInv, WorkerOk, batchVars, blobVars, queueVars
  <2>2. \A k \in Key \ {KeyOf(w)} : rows'[k] = rows[k]
    BY <1>2, <2>1 DEF SavePrediction, InsertRow
  <2>3. RowsInv'
    BY <2>1, <2>2 DEF RowsInv, IInv, OverlayKey, Backed
  <2>4. DoneHasPrediction'
    BY <2>1 DEF DoneHasPrediction, IInv, Grows, Key
  <2>5. FinishedJobHasPrediction'
    BY <2>1 DEF FinishedJobHasPrediction, IInv, Grows, JobsInv, Backed
  <2> QED
    BY <2>3, <2>4, <2>5
<1>3. ASSUME NEW w \in Worker, NEW to \in Target, CommitStatus(w, to)
      PROVE  RowsInv' /\ DoneHasPrediction' /\ FinishedJobHasPrediction'
  <2>1. UNCHANGED <<rows, overlay, original, jobState, jobKey>>
    BY <1>3 DEF CommitStatus, blobVars, queueVars
  <2>2. /\ KeyOf(w) \in Key /\ status' = [status EXCEPT ![KeyOf(w)[1]] = to]
        /\ to = "done" => rows[KeyOf(w)] > 0
    BY <1>1, <1>3 DEF CommitStatus, UpdateStatus, BatchOf, Writing, Target, IInv, WorkerInv, WorkerOk
  <2>3. DoneHasPrediction'
    <3> SUFFICES ASSUME NEW b \in BatchId, status'[b] = "done"
                 PROVE  \E n \in Name : rows'[<<b, n>>] > 0
      BY DEF DoneHasPrediction
    <3>1. CASE b = KeyOf(w)[1]
      <4>1. KeyOf(w) = <<b, KeyOf(w)[2]>> /\ KeyOf(w)[2] \in Name /\ to = "done"
        BY <2>2, <3>1 DEF Key
      <4> QED
        BY <2>1, <2>2, <4>1
    <3>2. CASE b # KeyOf(w)[1]
      BY <2>1, <2>2, <3>2 DEF DoneHasPrediction, IInv
    <3> QED
      BY <3>1, <3>2
  <2> QED
    BY <2>1, <2>3 DEF RowsInv, FinishedJobHasPrediction, IInv, OverlayKey
<1>4. ASSUME NEW w \in Worker, FinishJob(w)
      PROVE  RowsInv' /\ DoneHasPrediction' /\ FinishedJobHasPrediction'
  <2>1. UNCHANGED <<status, rows, overlay, original, jobKey>>
    BY <1>4 DEF FinishJob, batchVars, blobVars
  <2>2. \A j \in JobId : jobState'[j] = "finished" => j = job[w] \/ jobState[j] = "finished"
    BY <1>4 DEF FinishJob
  <2>3. rows[jobKey[job[w]]] > 0
    BY <1>4 DEF FinishJob, IInv, WorkerInv, WorkerOk, KeyOf
  <2> QED
    BY <2>1, <2>2, <2>3 DEF RowsInv, DoneHasPrediction, FinishedJobHasPrediction, IInv, OverlayKey
<1>5. CASE /\ UNCHANGED <<rows, status>>
           /\ \A j \in JobId : jobState'[j] = "finished" => jobState[j] = "finished"
  BY <1>5, PromisesStay DEF IInv
<1>6. ASSUME NEW w \in Worker,
             TakeJob(w) \/ Predict(w) \/ UploadOverlay(w) \/ RaiseInJob(w) \/ CrashWorker(w)
             \/ AwaitJob(w) \/ \E to \in Target : SelectStatus(w, to)
      PROVE  RowsInv' /\ DoneHasPrediction' /\ FinishedJobHasPrediction'
  <2>1. CASE TakeJob(w) \/ RaiseInJob(w) \/ CrashWorker(w)
    BY <1>5, <2>1 DEF TakeJob, RaiseInJob, CrashWorker, batchVars, queueVars
  <2>2. CASE Predict(w) \/ UploadOverlay(w)
    BY <1>5, <2>2 DEF Predict, UploadOverlay, storeVars, batchVars, queueVars
  <2>3. CASE AwaitJob(w) \/ \E to \in Target : SelectStatus(w, to)
    BY <1>5, <2>3 DEF AwaitJob, SelectStatus, storeVars, batchVars, queueVars
  <2> QED
    BY <1>6, <2>1, <2>2, <2>3
<1>7. ASSUME NEW j \in JobId, ReapAbandonedJob(j) \/ RequeueJob(j)
      PROVE  RowsInv' /\ DoneHasPrediction' /\ FinishedJobHasPrediction'
  BY <1>5, <1>7 DEF ReapAbandonedJob, RequeueJob, batchVars
<1> QED
  BY <1>2, <1>3, <1>4, <1>6, <1>7 DEF WorkerStep, JobStep

LEMMA WorkerPreserves ==
  ASSUME TypeOK, IInv, WorkerStep, UNCHANGED <<watcherVars, apiVars>> PROVE IInv'
<1>1. Grows
  BY WorkerGrows
<1> QED
  BY <1>1, WorkerKeepsJobs, WorkerKeepsItsInv, WorkerKeepsPromises, WatcherInvStays, ApiInvStays
     DEF IInv

-----------------------------------------------------------------------------
(* The theorems.                                                           *)

LEMMA InitInvariant == Init => IInv
  BY DEF Init, StoresInit, WatcherInit, ApiInit, WorkerInit, IInv, JobsInv, RowsInv, WatcherInv,
     ApiInv, WorkerInv, WorkerOk, DoneHasPrediction, FinishedJobHasPrediction

LEMMA NextInvariant ==
  ASSUME TypeOK, IInv, [Next]_vars PROVE IInv'
<1>1. CASE UNCHANGED vars
  BY <1>1 DEF vars, storeVars, batchVars, blobVars, queueVars, watcherVars, apiVars, workerVars,
     IInv, JobsInv, RowsInv, WatcherInv, ApiInv, WorkerInv, WorkerOk, DoneHasPrediction,
     FinishedJobHasPrediction, Backed, NextKey, Turn, KeyOf, OverlayKey
<1> QED
  BY <1>1, WatcherPreserves, ApiPreserves, WorkerPreserves DEF Next

\* Every value the processes store or keep has its type, and each process finds
\* at each of its steps what that step relies on, for any number of workers,
\* requests, files, errors and restarts.
THEOREM InvariantTheorem == Spec => [](TypeOK /\ IInv)
<1>1. Init => TypeOK /\ IInv
  BY InitTypes, InitInvariant
<1>2. TypeOK /\ IInv /\ [Next]_vars => (TypeOK /\ IInv)'
  BY NextTypes, NextInvariant
<1> QED
  BY <1>1, <1>2, PTL DEF Spec

\* The type invariant of the pipeline (what the code's schemas promise).
THEOREM TypeTheorem == Spec => []TypeOK
  BY InvariantTheorem, PTL

\* A prediction row always points at a stored original and a stored overlay:
\* classify uploads before _persist, whatever fails or runs in parallel.
THEOREM ReferenceTheorem == Spec => []PredictionsReferenceStoredBlobs
<1>1. IInv => PredictionsReferenceStoredBlobs
  BY DEF IInv, RowsInv, PredictionsReferenceStoredBlobs, Ingestable, Content
<1> QED
  BY <1>1, InvariantTheorem, PTL

\* A batch that reads done has a prediction: mark_done follows save_prediction
\* in the same job, for any number of workers.
THEOREM DoneTheorem == Spec => []DoneHasPrediction
<1>1. IInv => DoneHasPrediction
  BY DEF IInv
<1> QED
  BY <1>1, InvariantTheorem, PTL

\* A job that RQ lists as finished has left a prediction in Postgres.
THEOREM FinishedTheorem == Spec => []FinishedJobHasPrediction
<1>1. IInv => FinishedJobHasPrediction
  BY DEF IInv
<1> QED
  BY <1>1, InvariantTheorem, PTL
=============================================================================
