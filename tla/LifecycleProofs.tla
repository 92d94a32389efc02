--------------------------- MODULE LifecycleProofs ---------------------------
(***************************************************************************)
(* What holds of the batches while one worker runs, which is what          *)
(* docker-compose.yml starts: their status and audit rows follow the       *)
(* status machine, and a finished job's batch is done.                     *)
(***************************************************************************)
EXTENDS PipelineProofs

\* docker-compose.yml starts one inference-worker.
OneWorker == \A v, w \in Worker : v = w

\* What the worker knows of its batch at each step: with nobody else to move it
\* on, what the SELECT of _transition found still holds at its commit.
BatchAt(w) ==
    /\ pc[w] = "commit processing" => status[BatchOf(w)] = "pending"
    /\ pc[w] = "commit done" => status[BatchOf(w)] = "processing"
    /\ pc[w] \in {"save", "mark done"} => status[BatchOf(w)] \in {"processing", "done"}
    /\ pc[w] = "return" => status[BatchOf(w)] = "done"

NoneFailed == \A b \in BatchId : status[b] # "failed"

BatchesInv ==
    /\ NoneFailed
    /\ \A w \in Worker : BatchAt(w)
    /\ FinishedJobBatchIsDone
    /\ AuditTrailIsAPath

-----------------------------------------------------------------------------
(* Steps of the status machine.                                            *)

\* One edge and one audit row keep the audit rows a path.
LEMMA MoveKeepsPath ==
  ASSUME StoresTypeOK, AuditTrailIsAPath, NEW b \in BatchId, NEW to, Lifecycle!Move(b, to)
  PROVE  AuditTrailIsAPath'
<1> DEFINE Path(t, s) == /\ \A i \in 1 .. Len(t) - 1 : t[i][2] = t[i + 1][1]
                         /\ s = IF t = <<>> THEN "none" ELSE t[Len(t)][2]
<1>1. /\ trail[b] \in Seq(Status \X Status) /\ status[b] \in Status /\ to \in Status
      /\ status'[b] = to /\ trail'[b] = Append(trail[b], <<status[b], to>>)
      /\ \A c \in BatchId \ {b} : status'[c] = status[c] /\ trail'[c] = trail[c]
  BY DEF StoresTypeOK, Lifecycle!Move, Lifecycle!Edges, Status
<1>2. \A c \in BatchId : Path(trail[c], status[c])
  BY DEF AuditTrailIsAPath
<1>3. Path(trail'[b], status'[b])
  <2> DEFINE t == trail[b]  u == trail'[b]
  <2>1. /\ Len(t) \in Nat /\ Len(u) = Len(t) + 1 /\ u # <<>>
        /\ \A i \in 1 .. Len(t) : u[i] = t[i]
        /\ u[Len(t) + 1] = <<status[b], to>>
        /\ t # <<>> => Len(t) # 0
    BY <1>1, AppendProperties, LenProperties, EmptySeq
  <2>2. \A i \in 1 .. Len(t) - 1 : t[i][2] = t[i + 1][1]
    BY <1>2
  <2>3. t # <<>> => status[b] = t[Len(t)][2]
    BY <1>2
  <2>4. Len(t) # 0 => t # <<>>
    BY EmptySeq
  <2> HIDE DEF t, u
  <2>5. \A i \in 1 .. Len(u) - 1 : u[i][2] = u[i + 1][1]
    BY <2>1, <2>2, <2>3, <2>4
  <2>6. u[Len(u)][2] = to
    BY <2>1
  <2> QED
    BY <1>1, <2>1, <2>5, <2>6 DEF t, u
<1>4. \A c \in BatchId \ {b} : Path(trail'[c], status'[c])
  BY <1>1, <1>2
<1> QED
  BY <1>3, <1>4 DEF AuditTrailIsAPath

LEMMA InsertIsAMove ==
  ASSUME StoresTypeOK, NEW b \in BatchId, NEW n, InsertBatch(b, n)
  PROVE  Lifecycle!Move(b, "pending") /\ status[b] = "none"
  BY DEF InsertBatch, Lifecycle!Move, Lifecycle!Edges

LEMMA CommitIsAMove ==
  ASSUME TypeOK, NEW w \in Worker, NEW to \in Target, CommitStatus(w, to), BatchAt(w)
  PROVE  Lifecycle!Move(BatchOf(w), to)
  BY DEF CommitStatus, Writing, Allowed, Target, BatchAt, UpdateStatus,
     Lifecycle!Move, Lifecycle!Edges

\* The watcher and the endpoint only ever insert batches.
Inserts == \E b \in BatchId : status[b] = "none" /\ Lifecycle!Move(b, "pending")

LEMMA WatcherInserts ==
  ASSUME TypeOK, WatcherNext PROVE Inserts \/ UNCHANGED <<status, trail>>
<1> USE DEF batchVars, storeVars
<1>1. CASE Poll
  BY <1>1, InsertIsAMove DEF Poll, CreateBatch, Inserts, TypeOK
<1>2. CASE EndPoll \/ StatFile \/ ReadFile \/ QuarantineFile \/ UploadFile \/ EnqueueFile
           \/ PollNothing \/ RestartWatcher
  BY <1>2 DEF EndPoll, StatFile, ReadFile, QuarantineFile, UploadFile, EnqueueFile,
     PollNothing, RestartWatcher
<1>3. CASE \E n \in Dropped : BeginFile(n)
  BY <1>3 DEF BeginFile
<1>4. CASE ScannerStep
  BY <1>4 DEF ScannerStep, DropFile, StartSlowDrop, ContinueSlowDrop, RemoveFile, Write
<1> QED
  BY <1>1, <1>2, <1>3, <1>4 DEF WatcherNext, WatcherStep

LEMMA ApiInserts ==
  ASSUME TypeOK, ApiStep PROVE Inserts \/ UNCHANGED <<status, trail>>
<1> USE DEF batchVars, storeVars
<1>1. PICK r \in Request : RequestStep(r) \/ FailUpload(r)
  BY DEF ApiStep
<1>2. CASE Accept(r)
  BY <1>2, InsertIsAMove DEF Accept, Inserts, TypeOK
<1>3. CASE ~Accept(r)
  BY <1>1, <1>3 DEF RequestStep, Refuse, StoreFile, EnqueueUpload, Answer, FailUpload
<1> QED
  BY <1>2, <1>3

\* Jobs that an ingesting process leaves alone, or queues.
LEMMA ApiFrame ==
  ASSUME TypeOK, ApiStep
  PROVE  \A j \in JobId : jobState'[j] = "finished" => jobState[j] = "finished"
  BY DEF ApiStep, RequestStep, Refuse, Accept, StoreFile, EnqueueUpload, Answer, FailUpload,
     Enqueue, TypeOK, StoresTypeOK, storeVars, queueVars

-----------------------------------------------------------------------------
(* The invariant.                                                          *)

\* A worker that runs a job runs it for an existing batch.
LEMMA BatchOfWorker ==
  ASSUME TypeOK, IInv, NEW w \in Worker, pc[w] # "idle"
  PROVE  /\ job[w] \in JobId /\ jobState[job[w]] # "none" /\ jobKey[job[w]] \in Key
         /\ BatchOf(w) \in BatchId /\ status[BatchOf(w)] # "none"
  BY DEF IInv, WorkerInv, WorkerOk, JobsInv, Backed, KeyOf, BatchOf, Key

\* Where a finished job's batch is done, a new batch or none makes no difference.
LEMMA FinishedStays ==
  ASSUME TypeOK, IInv, FinishedJobBatchIsDone, Grows,
         \A b \in BatchId : status[b] = "done" => status'[b] = "done",
         \A j \in JobId : jobState'[j] = "finished" => jobState[j] = "finished"
  PROVE  FinishedJobBatchIsDone'
<1> SUFFICES ASSUME NEW j \in JobId, jobState'[j] = "finished"
             PROVE  status'[jobKey'[j][1]] = "done"
  BY DEF FinishedJobBatchIsDone
<1>1. jobState[j] = "finished" /\ jobKey'[j] = jobKey[j] /\ jobKey[j] \in Key
  BY DEF Grows, IInv, JobsInv, Backed
<1>2. status[jobKey[j][1]] = "done" /\ jobKey[j][1] \in BatchId
  BY <1>1 DEF FinishedJobBatchIsDone, Key
<1> QED
  BY <1>1, <1>2

LEMMA BatchAtStays ==
  ASSUME TypeOK, IInv, Grows, NEW w \in Worker, BatchAt(w), UNCHANGED workerVars,
         \A b \in BatchId : status[b] # "none" => status'[b] = status[b]
  PROVE  BatchAt(w)'
<1>1. CASE pc[w] = "idle"
  BY <1>1 DEF BatchAt, workerVars
<1>2. CASE pc[w] # "idle"
  <2>1. BatchOf(w)' = BatchOf(w) /\ BatchOf(w) \in BatchId /\ status'[BatchOf(w)] = status[BatchOf(w)]
    BY <1>2, BatchOfWorker DEF BatchOf, KeyOf, Grows, workerVars
  <2> QED
    BY <2>1 DEF BatchAt, workerVars
<1> QED
  BY <1>1, <1>2

LEMMA OthersKeepBatches ==
  ASSUME TypeOK, IInv, BatchesInv, Grows, UNCHANGED workerVars,
         Inserts \/ UNCHANGED <<status, trail>>,
         \A j \in JobId : jobState'[j] = "finished" => jobState[j] = "finished"
  PROVE  BatchesInv'
<1>1. \A b \in BatchId :
         /\ status[b] # "none" => status'[b] = status[b]
         /\ status'[b] # "failed"
  BY DEF Inserts, Lifecycle!Move, TypeOK, StoresTypeOK, BatchesInv, NoneFailed
<1>2. NoneFailed' /\ \A w \in Worker : BatchAt(w)'
  BY <1>1, BatchAtStays DEF BatchesInv, NoneFailed
<1>3. FinishedJobBatchIsDone'
  BY <1>1, FinishedStays DEF BatchesInv
<1>4. AuditTrailIsAPath'
  BY MoveKeepsPath DEF Inserts, BatchesInv, TypeOK, AuditTrailIsAPath
<1> QED
  BY <1>2, <1>3, <1>4 DEF BatchesInv

LEMMA CommitKeepsBatches ==
  ASSUME OneWorker, TypeOK, IInv, BatchesInv, Grows,
         NEW w \in Worker, NEW to \in Target, CommitStatus(w, to)
  PROVE  BatchesInv'
<1>1. /\ BatchOf(w) \in BatchId /\ status[BatchOf(w)] = Allowed(to) /\ Allowed(to) # "done"
      /\ Lifecycle!Move(BatchOf(w), to)
      /\ job' = job /\ jobKey' = jobKey /\ jobState' = jobState
      /\ pc' = [pc EXCEPT ![w] = After(to)]
  BY BatchOfWorker, CommitIsAMove
     DEF BatchesInv, BatchAt, CommitStatus, Writing, Allowed, Target, queueVars, Goto
<1>2. status'[BatchOf(w)] = to /\ \A b \in BatchId \ {BatchOf(w)} : status'[b] = status[b]
  BY <1>1 DEF Lifecycle!Move, TypeOK, StoresTypeOK
<1>3. AuditTrailIsAPath'
  BY <1>1, MoveKeepsPath DEF BatchesInv, TypeOK
<1>4. FinishedJobBatchIsDone'
  BY <1>1, <1>2, FinishedStays DEF BatchesInv
<1>5. NoneFailed'
  BY <1>2 DEF BatchesInv, NoneFailed, Target
<1>6. BatchOf(w)' = BatchOf(w) /\ pc'[w] = After(to)
  BY <1>1 DEF BatchOf, KeyOf, TypeOK, WorkerTypeOK
<1>7. BatchAt(w)'
  BY <1>2, <1>6 DEF BatchAt, After, Target
<1> QED
  BY <1>3, <1>4, <1>5, <1>7 DEF BatchesInv, OneWorker

LEMMA WorkerKeepsBatches ==
  ASSUME OneWorker, TypeOK, IInv, BatchesInv, WorkerStep, Grows
  PROVE  BatchesInv'
<1>1. ASSUME UNCHANGED <<status, trail>>,
             \A j \in JobId : jobState'[j] = "finished" => jobState[j] = "finished"
      PROVE  NoneFailed' /\ FinishedJobBatchIsDone' /\ AuditTrailIsAPath'
  BY <1>1, FinishedStays DEF BatchesInv, NoneFailed, AuditTrailIsAPath
<1> USE DEF TypeOK, WorkerTypeOK, StoresTypeOK, Goto, Target
<1>2. ASSUME NEW w \in Worker, JobStep(w) PROVE BatchesInv'
  <2>1. CASE \E to \in Target : CommitStatus(w, to)
    BY <2>1, CommitKeepsBatches
  <2>2. CASE FinishJob(w)
    <3>1. /\ job[w] \in JobId /\ status[jobKey[job[w]][1]] = "done" /\ pc[w] = "return"
          /\ UNCHANGED <<status, trail, jobKey>>
          /\ jobState' = [jobState EXCEPT ![job[w]] = "finished"] /\ pc'[w] = "idle"
      <4>1. /\ pc[w] = "return" /\ pc'[w] = "idle"
            /\ jobState' = [jobState EXCEPT ![job[w]] = "finished"]
            /\ UNCHANGED <<batchVars, jobKey>>
        BY <2>2 DEF FinishJob
      <4>2. job[w] \in JobId
        BY <4>1, BatchOfWorker
      <4>3. status[BatchOf(w)] = "done"
        BY <4>1 DEF BatchesInv, BatchAt
      <4> QED
        BY <4>1, <4>2, <4>3 DEF BatchOf, KeyOf, batchVars
    <3>2. FinishedJobBatchIsDone'
      BY <3>1 DEF FinishedJobBatchIsDone, BatchesInv
    <3>3. NoneFailed' /\ AuditTrailIsAPath'
      BY <3>1 DEF NoneFailed, AuditTrailIsAPath, BatchesInv
    <3>4. BatchAt(w)'
      BY <3>1 DEF BatchAt
    <3> QED
      BY <3>2, <3>3, <3>4 DEF BatchesInv, OneWorker
  <2>3. CASE SavePrediction(w) \/ \E to \in Target : SelectStatus(w, to)
    <3>1. /\ UNCHANGED <<status, trail, jobState, jobKey, job>> /\ pc[w] # "idle"
          /\ BatchOf(w)' = BatchOf(w)
      BY <2>3 DEF SavePrediction, SelectStatus, Reading, batchVars, storeVars, queueVars,
         BatchOf, KeyOf
    <3>2. status[BatchOf(w)] \in {"pending", "processing", "done"}
      BY <3>1, BatchOfWorker DEF BatchesInv, NoneFailed, Status
    <3>3. BatchAt(w)'
      <4>1. CASE SavePrediction(w)
        <5>1. pc[w] = "save" /\ pc'[w] = "mark done"
          BY <4>1 DEF SavePrediction
        <5>2. status[BatchOf(w)] \in {"processing", "done"}
          BY <5>1 DEF BatchAt, BatchesInv
        <5> QED
          BY <3>1, <5>1, <5>2 DEF BatchAt
      <4>2. ASSUME NEW to \in Target, SelectStatus(w, to) PROVE BatchAt(w)'
        <5>1. /\ pc[w] = Reading(to)
              /\ pc'[w] = IF status[BatchOf(w)] = Allowed(to) THEN Writing(to) ELSE After(to)
          BY <4>2 DEF SelectStatus
        <5>2. pc[w] = "mark done" => status[BatchOf(w)] \in {"processing", "done"}
          BY DEF BatchAt, BatchesInv
        <5>3. CASE to = "processing"
          BY <3>1, <3>2, <5>1, <5>3 DEF Writing, After, Allowed, BatchAt
        <5>4. CASE to = "done"
          BY <3>1, <5>1, <5>2, <5>4 DEF Reading, Writing, After, Allowed, BatchAt
        <5> QED
          BY <5>3, <5>4
      <4> QED
        BY <2>3, <4>1, <4>2
    <3> QED
      BY <1>1, <3>1, <3>3 DEF BatchesInv, OneWorker
  <2>4. CASE TakeJob(w) \/ Predict(w) \/ UploadOverlay(w) \/ RaiseInJob(w)
    <3>1. pc'[w] \in {"idle", "predict", "overlay", "mark processing"} /\ UNCHANGED <<status, trail>>
      BY <2>4 DEF TakeJob, Predict, UploadOverlay, RaiseInJob, batchVars, storeVars
    <3>2. \A j \in JobId : jobState'[j] = "finished" => jobState[j] = "finished"
      BY <2>4 DEF TakeJob, Predict, UploadOverlay, RaiseInJob, storeVars, queueVars
    <3> QED
      BY <1>1, <3>1, <3>2 DEF BatchesInv, BatchAt, OneWorker
  <2> QED
    BY <1>2, <2>1, <2>2, <2>3, <2>4 DEF JobStep
<1>3. ASSUME NEW w \in Worker, CrashWorker(w) PROVE BatchesInv'
  <2>1. pc'[w] = "idle" /\ UNCHANGED <<status, trail, jobState>>
    BY <1>3 DEF CrashWorker, batchVars, queueVars
  <2>2. BatchAt(w)'
    BY <2>1 DEF BatchAt
  <2> QED
    BY <1>1, <2>1, <2>2 DEF BatchesInv, OneWorker
<1>4. ASSUME UNCHANGED <<status, trail, pc, job>>,
             \A j \in JobId : jobState'[j] = "finished" => jobState[j] = "finished"
      PROVE  BatchesInv'
  <2>1. \A w \in Worker : BatchAt(w)'
    <3> SUFFICES ASSUME NEW w \in Worker, pc[w] # "idle" PROVE BatchAt(w)'
      BY <1>4 DEF BatchAt
    <3>1. BatchOf(w)' = BatchOf(w)
      BY <1>4, BatchOfWorker DEF Grows, BatchOf, KeyOf
    <3> QED
      BY <1>4, <3>1 DEF BatchAt, BatchesInv
  <2> QED
    BY <1>1, <1>4, <2>1 DEF BatchesInv
<1>5. ASSUME NEW j \in JobId, ReapAbandonedJob(j) \/ RequeueJob(j) PROVE BatchesInv'
  BY <1>4, <1>5 DEF ReapAbandonedJob, RequeueJob, batchVars, workerVars
<1>6. ASSUME NEW w \in Worker, AwaitJob(w) PROVE BatchesInv'
  BY <1>4, <1>6 DEF AwaitJob, storeVars, batchVars, queueVars, workerVars
<1> QED
  BY <1>2, <1>3, <1>5, <1>6 DEF WorkerStep

LEMMA BatchesInit == Init => BatchesInv
  BY EmptySeq DEF Init, StoresInit, WorkerInit, BatchesInv, NoneFailed, BatchAt,
     FinishedJobBatchIsDone, AuditTrailIsAPath

LEMMA BatchesNext ==
  ASSUME OneWorker, TypeOK, IInv, BatchesInv, [Next]_vars PROVE BatchesInv'
<1>1. CASE WatcherNext /\ UNCHANGED <<apiVars, workerVars>>
  BY <1>1, WatcherGrows, WatcherInserts, WatcherFrame, OthersKeepBatches
<1>2. CASE ApiStep /\ UNCHANGED <<watcherVars, workerVars>>
  BY <1>2, ApiGrows, ApiInserts, ApiFrame, OthersKeepBatches
<1>3. CASE WorkerStep /\ UNCHANGED <<watcherVars, apiVars>>
  BY <1>3, WorkerGrows, WorkerKeepsBatches
<1>4. CASE UNCHANGED vars
  BY <1>4 DEF vars, storeVars, batchVars, queueVars, workerVars, BatchesInv, NoneFailed, BatchAt,
     BatchOf, KeyOf, FinishedJobBatchIsDone, AuditTrailIsAPath
<1> QED
  BY <1>1, <1>2, <1>3, <1>4 DEF Next

LEMMA BatchesAlways == ASSUME OneWorker PROVE Spec => []BatchesInv
<1>1. TypeOK /\ IInv /\ BatchesInv /\ [Next]_vars => BatchesInv'
  BY BatchesNext
<1> QED
  BY <1>1, BatchesInit, InvariantTheorem, PTL DEF Spec

-----------------------------------------------------------------------------
(* The theorems.                                                           *)

\* With one worker a job ends only after its batch is done, and nothing moves a
\* done batch again: a sibling's mark_processing and mark_done find it done.
THEOREM FinishedDoneTheorem == ASSUME OneWorker PROVE Spec => []FinishedJobBatchIsDone
<1>1. BatchesInv => FinishedJobBatchIsDone
  BY DEF BatchesInv
<1> QED
  BY <1>1, BatchesAlways, PTL

\* With one worker the audit rows of _transition lead from "none" to the status
\* that is stored, each from where the one before it ended.
THEOREM AuditPathTheorem == ASSUME OneWorker PROVE Spec => []AuditTrailIsAPath
<1>1. BatchesInv => AuditTrailIsAPath
  BY DEF BatchesInv
<1> QED
  BY <1>1, BatchesAlways, PTL

\* Every step of a process is a step of the status machine, or leaves the batches alone.
LEMMA NextIsAMove ==
  ASSUME TypeOK, BatchesInv, IInv, [Next]_vars
  PROVE  [Lifecycle!Next]_<<status, trail>>
<1>1. CASE WatcherNext
  BY <1>1, WatcherInserts DEF Inserts, Lifecycle!Next
<1>2. CASE ApiStep
  BY <1>2, ApiInserts DEF Inserts, Lifecycle!Next
<1>3. CASE WorkerStep
  <2>1. CASE \E w \in Worker, to \in Target : CommitStatus(w, to)
    <3>1. PICK w \in Worker, to \in Target : CommitStatus(w, to)
      BY <2>1
    <3>2. BatchOf(w) \in BatchId /\ Lifecycle!Move(BatchOf(w), to)
      BY <3>1, BatchOfWorker, CommitIsAMove DEF BatchesInv, CommitStatus, Writing, Target
    <3> QED
      BY <3>2 DEF Lifecycle!Next, Target
  <2>2. CASE ~ \E w \in Worker, to \in Target : CommitStatus(w, to)
    BY <1>3, <2>2 DEF WorkerStep, JobStep, TakeJob, Predict, UploadOverlay, SavePrediction,
       FinishJob, RaiseInJob, SelectStatus, AwaitJob, CrashWorker, ReapAbandonedJob, RequeueJob,
       storeVars, batchVars
  <2> QED
    BY <2>1, <2>2
<1>4. CASE UNCHANGED vars
  BY <1>4 DEF vars, storeVars, batchVars
<1> QED
  BY <1>1, <1>2, <1>3, <1>4 DEF Next

\* With one worker, uploads, polls, jobs, failures and requeues together do to
\* the batches and their audit rows what the abstract status machine does.
THEOREM LifecycleTheorem == ASSUME OneWorker PROVE Spec => ImplementsLifecycle
<1>1. Init => Lifecycle!Init
  BY DEF Init, StoresInit, Lifecycle!Init
<1>2. TypeOK /\ IInv /\ BatchesInv /\ [Next]_vars => [Lifecycle!Next]_<<status, trail>>
  BY NextIsAMove
<1> QED
  BY <1>1, <1>2, InvariantTheorem, BatchesAlways, PTL DEF Spec, ImplementsLifecycle, Lifecycle!Spec
=============================================================================
