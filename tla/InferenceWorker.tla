--------------------------- MODULE InferenceWorker ---------------------------
(***************************************************************************)
(* The RQ workers running classify (app/workers/inference_worker.py) with  *)
(* the services it calls.  A transaction of _transition is two steps, its  *)
(* SELECT and its commit: under READ COMMITTED the UPDATE does not look at *)
(* the status again, and the row lock orders only the writes.              *)
(***************************************************************************)
EXTENDS Stores

CONSTANTS
    Worker,        \* worker processes; docker-compose.yml starts one
    NoJob,
    MaxRequeues    \* bound on how often an operator requeues a failed job

VARIABLES
    pc,            \* where each worker is in classify
    job,           \* the job it runs
    requeues

workerVars == <<pc, job, requeues>>

ASSUME WorkerAssumption == NoJob \notin JobId /\ MaxRequeues \in Nat

Target == {"processing", "done"}

WorkerTypeOK ==
    /\ pc \in [Worker -> {"idle", "predict", "overlay", "mark processing",
                          "commit processing", "save", "mark done",
                          "commit done", "return"}]
    /\ job \in [Worker -> JobId \cup {NoJob}]
    /\ requeues \in 0 .. MaxRequeues

WorkerInit ==
    /\ pc = [w \in Worker |-> "idle"]
    /\ job = [w \in Worker |-> NoJob]
    /\ requeues = 0

KeyOf(w)   == jobKey[job[w]]
BatchOf(w) == KeyOf(w)[1]
Goto(w, place) == pc' = [pc EXCEPT ![w] = place]

-----------------------------------------------------------------------------
TakeJob(w) ==
    /\ pc[w] = "idle" /\ queue # <<>>
    /\ queue' = Tail(queue)
    /\ job' = [job EXCEPT ![w] = Head(queue)]
    /\ jobState' = [jobState EXCEPT ![Head(queue)] = "started"]
    /\ Goto(w, "predict")
    /\ Smooth /\ UNCHANGED <<batchVars, rows, blobVars, jobKey, requeues>>

\* Blocked on the empty queue.
AwaitJob(w) ==
    /\ pc[w] = "idle" /\ queue = <<>>
    /\ UNCHANGED <<storeVars, workerVars>>

\* blob.download and predict; only a complete TIFF can be decoded.
Decodable(k) == original[k] = "whole"

\* Mutant: the overlay is left out.
PredictWithoutOverlay(w) ==
    /\ pc[w] = "predict" /\ Decodable(KeyOf(w))
    /\ Goto(w, "mark processing")
    /\ UNCHANGED <<storeVars, job, requeues>>

Predict(w) ==
    /\ pc[w] = "predict" /\ Decodable(KeyOf(w))
    /\ Goto(w, "overlay")
    /\ UNCHANGED <<storeVars, job, requeues>>

UploadOverlay(w) ==
    /\ pc[w] = "overlay"
    /\ PutOverlay(KeyOf(w))
    /\ Goto(w, "mark processing")
    /\ Smooth
    /\ UNCHANGED <<batchVars, rows, original, quarantine, queueVars, job, requeues>>

\* Mutant: mark_done comes before the insert.
AfterDoneFirst(to) == IF to = "processing" THEN "mark done" ELSE "return"

\* The status _transition requires, and what classify does after it.
Allowed(to) == IF to = "processing" THEN "pending" ELSE "processing"
Reading(to) == IF to = "processing" THEN "mark processing" ELSE "mark done"
Writing(to) == IF to = "processing" THEN "commit processing" ELSE "commit done"
After(to)   == IF to = "processing" THEN "save" ELSE "return"

\* Mutants: no check of the status; InvalidStateTransition is not caught.
SelectStatusUnchecked(w, to) ==
    /\ pc[w] = Reading(to)
    /\ Goto(w, Writing(to))
    /\ UNCHANGED <<storeVars, job, requeues>>
SelectStatusUncaught(w, to) ==
    /\ pc[w] = Reading(to)
    /\ IF status[BatchOf(w)] = Allowed(to)
         THEN Goto(w, Writing(to)) /\ UNCHANGED <<jobState, job>>
         ELSE /\ Goto(w, "idle") /\ job' = [job EXCEPT ![w] = NoJob]
              /\ jobState' = [jobState EXCEPT ![job[w]] = "failed"]
    /\ UNCHANGED <<batchVars, rows, blobVars, queue, jobKey, mishaps, requeues>>

\* The SELECT of _transition and its check.  InvalidStateTransition is caught
\* by _persist_async and classify goes on.
SelectStatus(w, to) ==
    /\ pc[w] = Reading(to)
    /\ Goto(w, IF status[BatchOf(w)] = Allowed(to) THEN Writing(to) ELSE After(to))
    /\ UNCHANGED <<storeVars, job, requeues>>

CommitStatus(w, to) ==
    /\ pc[w] = Writing(to)
    /\ UpdateStatus(BatchOf(w), Allowed(to), to)
    /\ Goto(w, After(to))
    /\ Smooth /\ UNCHANGED <<rows, blobVars, queueVars, job, requeues>>

\* Mutant: mark_done is left to the caller, which does not exist.
SavePredictionOnly(w) ==
    /\ pc[w] = "save"
    /\ InsertRow(KeyOf(w))
    /\ Goto(w, "return")
    /\ Smooth /\ UNCHANGED <<batchVars, blobVars, queueVars, job, requeues>>

SavePrediction(w) ==
    /\ pc[w] = "save"
    /\ InsertRow(KeyOf(w))
    /\ Goto(w, "mark done")
    /\ Smooth /\ UNCHANGED <<batchVars, blobVars, queueVars, job, requeues>>

\* Mutant: the job gets the status name of a batch.
FinishJobDone(w) ==
    /\ pc[w] = "return"
    /\ jobState' = [jobState EXCEPT ![job[w]] = "done"]
    /\ Goto(w, "idle") /\ job' = [job EXCEPT ![w] = NoJob]
    /\ Smooth /\ UNCHANGED <<batchVars, rows, blobVars, queue, jobKey, requeues>>

FinishJob(w) ==
    /\ pc[w] = "return"
    /\ jobState' = [jobState EXCEPT ![job[w]] = "finished"]
    /\ Goto(w, "idle") /\ job' = [job EXCEPT ![w] = NoJob]
    /\ Smooth /\ UNCHANGED <<batchVars, rows, blobVars, queue, jobKey, requeues>>

\* Mutants: classify logs the exception and returns; it puts the job back.
RaiseInJobSwallowed(w) ==
    /\ pc[w] # "idle"
    /\ Mishap("job")
    /\ jobState' = [jobState EXCEPT ![job[w]] = "finished"]
    /\ Goto(w, "idle") /\ job' = [job EXCEPT ![w] = NoJob]
    /\ UNCHANGED <<batchVars, rows, blobVars, queue, jobKey, requeues>>

RaiseInJobRetried(w) ==
    /\ pc[w] # "idle"
    /\ \/ pc[w] = "predict" /\ ~Decodable(KeyOf(w)) /\ Smooth
       \/ Mishap("job")
    /\ jobState' = [jobState EXCEPT ![job[w]] = "queued"] /\ queue' = Append(queue, job[w])
    /\ Goto(w, "idle") /\ job' = [job EXCEPT ![w] = NoJob]
    /\ UNCHANGED <<batchVars, rows, blobVars, jobKey, requeues>>

\* classify raises: on bytes it cannot decode always, and anywhere on a MinIO,
\* database or cache error, before or after that call's effect, or on
\* JOB_TIMEOUT.  RQ files the job as failed; nothing tells the batch.
RaiseInJob(w) ==
    /\ pc[w] # "idle"
    /\ \/ pc[w] = "predict" /\ ~Decodable(KeyOf(w)) /\ Smooth
       \/ Mishap("job")
    /\ jobState' = [jobState EXCEPT ![job[w]] = "failed"]
    /\ Goto(w, "idle") /\ job' = [job EXCEPT ![w] = NoJob]
    /\ UNCHANGED <<batchVars, rows, blobVars, queue, jobKey, requeues>>

\* The container dies and restarts; RQ still lists its job as started.
CrashWorker(w) ==
    /\ pc[w] # "idle"
    /\ Mishap("crash")
    /\ Goto(w, "idle") /\ job' = [job EXCEPT ![w] = NoJob]
    /\ UNCHANGED <<batchVars, rows, blobVars, queueVars, requeues>>

\* RQ's registry maintenance fails the started jobs that no worker runs.
ReapAbandonedJob(j) ==
    /\ jobState[j] = "started" /\ \A w \in Worker : job[w] # j
    /\ jobState' = [jobState EXCEPT ![j] = "failed"]
    /\ UNCHANGED <<batchVars, rows, blobVars, queue, jobKey, mishaps, workerVars>>

\* The operator's "rq requeue" of a failed job.
RequeueJob(j) ==
    /\ jobState[j] = "failed" /\ requeues < MaxRequeues
    /\ requeues' = requeues + 1
    /\ jobState' = [jobState EXCEPT ![j] = "queued"]
    /\ queue' = Append(queue, j)
    /\ UNCHANGED <<batchVars, rows, blobVars, jobKey, mishaps, pc, job>>

JobStep(w) ==
    \/ TakeJob(w) \/ Predict(w) \/ UploadOverlay(w)
    \/ SavePrediction(w) \/ FinishJob(w) \/ RaiseInJob(w)
    \/ \E to \in Target : SelectStatus(w, to) \/ CommitStatus(w, to)

WorkerStep ==
    \/ \E w \in Worker : JobStep(w) \/ AwaitJob(w) \/ CrashWorker(w)
    \/ \E j \in JobId : ReapAbandonedJob(j) \/ RequeueJob(j)
=============================================================================
