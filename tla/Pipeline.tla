------------------------------ MODULE Pipeline ------------------------------
(***************************************************************************)
(* The classifier at work: the SFTP watcher and the upload endpoint feed   *)
(* the queue, the inference workers drain it, and all of them write to the *)
(* same stores, one step of one process at a time.                         *)
(***************************************************************************)
EXTENDS SftpWatcher, UploadApi, InferenceWorker

vars == <<storeVars, watcherVars, apiVars, workerVars>>

TypeOK == StoresTypeOK /\ WatcherTypeOK /\ ApiTypeOK /\ WorkerTypeOK

Init == StoresInit /\ WatcherInit /\ ApiInit /\ WorkerInit

Next ==
    \/ WatcherNext /\ UNCHANGED <<apiVars, workerVars>>
    \/ ApiStep /\ UNCHANGED <<watcherVars, workerVars>>
    \/ WorkerStep /\ UNCHANGED <<watcherVars, apiVars>>

\* The poll loop and the event loop of the API keep running, RQ workers are
\* restarted with their containers and RQ's maintenance runs with them.  No
\* fairness for the scanner, the clients, the operator, or any mishap.
Fairness ==
    /\ WF_vars(WatcherStep /\ UNCHANGED <<apiVars, workerVars>>)
    /\ \A r \in Request :
          WF_vars((StoreFile(r) \/ EnqueueUpload(r) \/ Answer(r))
                  /\ UNCHANGED <<watcherVars, workerVars>>)
    /\ \A w \in Worker : WF_vars(JobStep(w) /\ UNCHANGED <<watcherVars, apiVars>>)
    /\ \A j \in JobId : WF_vars(ReapAbandonedJob(j) /\ UNCHANGED <<watcherVars, apiVars>>)

Spec == Init /\ [][Next]_vars /\ Fairness

-----------------------------------------------------------------------------
(* Why the promises of Stores hold: what each process may rely on at each of *)
(* its steps.  Everything here survives the steps of the other processes,   *)
(* because nothing removes an object, a row, a batch or a job.              *)

Ingestable == Content \ {"empty", "oversized"}
Backed(k)  == k \in Key /\ k[2] \in Tiff /\ original[k] \in Ingestable /\ status[k[1]] # "none"

JobsInv ==
    /\ \A j \in JobId : jobState[j] # "none" => Backed(jobKey[j])
    /\ \A i \in 1 .. Len(queue) : jobState[queue[i]] # "none"

WatcherInv ==
    /\ phase # "idle" => into \in BatchId /\ status[into] # "none"
    /\ phase \notin {"idle", "next"} => file \in Dropped
    /\ phase = "upload" => file \in Tiff /\ data \in Ingestable
    /\ phase = "enqueue" => Backed(<<into, file>>)

ApiInv ==
    \A r \in Request :
        /\ stage[r] \in {"store", "enqueue"} =>
              batchOf[r] \in BatchId /\ status[batchOf[r]] # "none"
        /\ \A i \in 1 .. Len(files[r]) : files[r][i] \in Tiff \X Ingestable
        /\ stage[r] = "enqueue" => sent[r] < Len(files[r]) /\ Backed(NextKey(r))

WorkerOk(w) ==
    pc[w] # "idle" =>
        /\ job[w] \in JobId /\ jobState[job[w]] # "none"
        /\ pc[w] \notin {"predict", "overlay"} => overlay[OverlayKey(KeyOf(w))] # NoName
        /\ pc[w] \in {"mark done", "commit done", "return"} => rows[KeyOf(w)] > 0

WorkerInv == \A w \in Worker : WorkerOk(w)

RowsInv ==
    \A k \in Key : rows[k] > 0 =>
        original[k] \in Ingestable /\ overlay[OverlayKey(k)] # NoName

IInv ==
    /\ JobsInv /\ RowsInv /\ WatcherInv /\ ApiInv /\ WorkerInv
    /\ DoneHasPrediction /\ FinishedJobHasPrediction

-----------------------------------------------------------------------------
(* What the pipeline promises, beyond the invariants of its parts.         *)

\* A file is classified as often as its job was run to the insert: one row per
\* job, and one more at most for every requeue of a failed one.
RowsAreAccounted ==
    \A k \in Key :
        rows[k] <= Cardinality({j \in JobId : jobKey[j] = k}) + requeues

\* A finished job's batch is done, and a done batch stays done whatever its
\* other jobs do, fail or repeat.
FinishedJobBatchIsDone ==
    \A j \in JobId : jobState[j] = "finished" => status[jobKey[j][1]] = "done"

\* The batches and their audit rows follow the status machine, one edge and
\* one audit row at a time: what happens to them implements BatchLifecycle.
Lifecycle == INSTANCE BatchLifecycle WITH BatchId <- BatchId, status <- status, trail <- trail
ImplementsLifecycle == Lifecycle!Spec

\* No accepted job is left behind: crashes, abandoned jobs, bad bytes and
\* requeues included, RQ ends up listing it as finished or failed.
JobsSettle ==
    \A j \in JobId : jobState[j] = "queued" ~> jobState[j] \in {"finished", "failed"}

\* Nothing calls mark_failed, so a batch may stay processing for good; but only
\* one with a failed job does: every other batch that got a job reads done in
\* the end, whichever of its jobs, raising at whatever line, came first.
BatchesSettle ==
    \A b \in BatchId : JobsOf(b) # {} ~>
        status[b] = "done" \/ \E j \in JobsOf(b) : jobState[j] = "failed"

\* From the drop directory to Postgres: unless an error intervenes, a good scan
\* ends up with a prediction in a batch that reads done.
ScansAreClassified ==
    \A n \in Dropped \cap Tiff : drop[n] = "whole" ~>
        mishaps > 0 \/ \E b \in BatchId : rows[<<b, n>>] > 0 /\ status[b] = "done"

-----------------------------------------------------------------------------
(* What the comments and documents say, and the code does not do.          *)

\* domain/batch.py:24 and inference_worker.py:181: done means that all jobs of
\* the batch finished; the last one sets it.  The first one does, while the
\* others are still queued.  The job that marks the batch is not held against it.
Marking(j) == \E w \in Worker : job[w] = j /\ pc[w] = "return"

DoneMeansAllFinished ==
    \A b \in BatchId :
        status[b] = "done" /\ Cardinality(JobsOf(b)) = fileCount[b] =>
            \A j \in JobsOf(b) : jobState[j] = "finished" \/ Marking(j)

\* domain/prediction.py:4: one prediction row is written per document.  The
\* insert is repeated when a job that failed after it is requeued.
OnePredictionPerDocument == \A k \in Key : rows[k] <= 1
=============================================================================
