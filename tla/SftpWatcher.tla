----------------------------- MODULE SftpWatcher -----------------------------
(***************************************************************************)
(* The sftp-ingest process (app/infra/sftp_watcher.py driven by            *)
(* app/workers/sftp_ingest.py) and the drop directory it polls.  One       *)
(* process; every await is a step boundary, so the scanner may write       *)
(* between any two of its steps.                                           *)
(***************************************************************************)
EXTENDS Stores

CONSTANTS
    Dropped,       \* the names the scanner uploads to the drop directory
    Scans,         \* what an upload may turn out to be, once complete
    Scanner,       \* "slow": uploads are visible while they grow; "remove"
    MaxRestarts    \* bound on the container's restarts

VARIABLES
    drop,          \* the drop directory: content of each name, or "absent"
    seen,          \* self._seen, lost on restart
    phase,         \* where _poll is suspended
    todo,          \* new_files still to process
    into,          \* batch_id of this poll
    file,          \* the file _process_file is working on
    data,          \* the bytes _sftp_download returned
    restarts

watcherVars == <<drop, seen, phase, todo, into, file, data, restarts>>
localVars   == <<drop, seen, restarts>>

NoBatch == "no-batch"

ASSUME WatcherAssumption ==
    /\ Dropped \subseteq Name /\ IsFiniteSet(Dropped)
    /\ Scans \subseteq Content \ {"partial"}
    /\ NoBatch \notin BatchId
    /\ MaxRestarts \in Nat

WatcherTypeOK ==
    /\ drop \in [Dropped -> Content \cup {"absent"}]
    /\ seen \in SUBSET Dropped
    /\ phase \in {"idle", "next", "stat", "read", "quarantine", "upload", "enqueue"}
    /\ todo \in SUBSET Dropped
    /\ into \in BatchId \cup {NoBatch}
    /\ file \in Dropped \cup {NoName}
    /\ data \in Content
    /\ restarts \in 0 .. MaxRestarts

\* The locals of _poll and _process_file while neither runs.
Suspended ==
    /\ phase' = "idle" /\ todo' = {} /\ into' = NoBatch
    /\ file' = NoName /\ data' = "empty"

WatcherInit ==
    /\ drop = [n \in Dropped |-> "absent"]
    /\ seen = {}
    /\ phase = "idle" /\ todo = {} /\ into = NoBatch
    /\ file = NoName /\ data = "empty"
    /\ restarts = 0

-----------------------------------------------------------------------------
(* The scanner.  A quick upload appears complete; a slow one is listed     *)
(* from its first, empty, moment on.                                       *)

Write(n, content) ==
    /\ drop' = [drop EXCEPT ![n] = content]
    /\ UNCHANGED <<storeVars, seen, phase, todo, into, file, data, restarts>>

DropFile(n) == drop[n] = "absent" /\ \E c \in Scans : Write(n, c)

StartSlowDrop(n) == "slow" \in Scanner /\ drop[n] = "absent" /\ Write(n, "empty")

\* "empty" is both a slow upload that has not begun and a zero-byte scan.
ContinueSlowDrop(n) ==
    /\ "slow" \in Scanner
    /\ \/ drop[n] = "empty" /\ Write(n, "partial")
       \/ drop[n] = "partial" /\ \E c \in Scans \ {"empty"} : Write(n, c)

RemoveFile(n) == "remove" \in Scanner /\ drop[n] # "absent" /\ Write(n, "absent")

-----------------------------------------------------------------------------
NewFiles == {n \in Dropped : drop[n] # "absent"} \ seen

\* Nothing new, or the connection failed and the listing counts as empty.
\* Bound: without a fresh id left, polling goes on without effect.
PollNothing ==
    /\ phase = "idle"
    /\ NewFiles = {} \/ "sftp" \in Faults \/ \A b \in BatchId : status[b] # "none"
    /\ UNCHANGED <<storeVars, watcherVars>>

\* The callback sftp_ingest.py injects: a batch that counts the new files.
CreateBatch(b) == InsertBatch(b, Cardinality(NewFiles))

\* The listing and create_batch.  When the cache call after the commit raises,
\* run() catches it and the batch stays behind with nothing in it.
Poll ==
    /\ phase = "idle" /\ NewFiles # {}
    /\ \E b \in BatchId :
          /\ CreateBatch(b)
          /\ \/ /\ Smooth
                /\ phase' = "next" /\ todo' = NewFiles /\ into' = b
                /\ UNCHANGED <<file, data>>
             \/ Mishap("cache") /\ Suspended
    /\ UNCHANGED <<rows, blobVars, queueVars, localVars>>

\* exists() answers, or raises what is not an S3Error and ends the poll.
BeginFile(n) ==
    /\ phase = "next" /\ n \in todo
    /\ \/ /\ original[<<into, n>>] # "absent"
          /\ seen' = seen \cup {n} /\ todo' = todo \ {n}
          /\ Smooth /\ UNCHANGED <<phase, into, file, data>>
       \/ /\ original[<<into, n>>] = "absent"
          /\ phase' = "stat" /\ file' = n
          /\ Smooth /\ UNCHANGED <<seen, todo, into, data>>
       \/ Mishap("blob") /\ Suspended /\ UNCHANGED seen
    /\ UNCHANGED <<batchVars, rows, blobVars, queueVars, drop, restarts>>

EndPoll ==
    /\ phase = "next" /\ todo = {} /\ Suspended
    /\ UNCHANGED <<storeVars, localVars>>

\* _process_file returns to the loop of _poll.
NextFile ==
    /\ phase' = "next" /\ todo' = todo \ {file} /\ file' = NoName /\ data' = "empty"
    /\ UNCHANGED into

\* Mutant: an SFTP error marks the file as seen.
StatFileSeenOnError ==
    /\ phase = "stat"
    /\ \/ /\ drop[file] \notin {"absent", "oversized"}
          /\ phase' = "read" /\ Smooth /\ UNCHANGED <<todo, into, file, data, seen>>
       \/ /\ Mishap("sftp") \/ (drop[file] \in {"absent", "oversized"} /\ Smooth)
          /\ seen' = seen \cup {file} /\ NextFile
    /\ UNCHANGED <<batchVars, rows, blobVars, queueVars, drop, restarts>>

\* The size check before the read.  A missing or too large file raises, and
\* the handler leaves it out of _seen.
StatFile ==
    /\ phase = "stat"
    /\ \/ /\ drop[file] \notin {"absent", "oversized"}
          /\ phase' = "read" /\ Smooth /\ UNCHANGED <<todo, into, file, data>>
       \/ drop[file] \in {"absent", "oversized"} /\ Smooth /\ NextFile
       \/ Mishap("sftp") /\ NextFile
    /\ UNCHANGED <<batchVars, rows, blobVars, queueVars, localVars>>

\* Mutant: the extension is not checked.
RejectedBySizeOnly(n, content) == content \in {"empty", "oversized"}

\* _reject_reason
Rejected(n, content) == content \in {"empty", "oversized"} \/ n \notin Tiff

\* fh.read(), and the validation of what it returned.
ReadFile ==
    /\ phase = "read"
    /\ \/ /\ drop[file] # "absent"
          /\ data' = drop[file]
          /\ phase' = IF Rejected(file, drop[file]) THEN "quarantine" ELSE "upload"
          /\ Smooth /\ UNCHANGED <<todo, into, file>>
       \/ drop[file] = "absent" /\ Smooth /\ NextFile
       \/ Mishap("sftp") /\ NextFile
    /\ UNCHANGED <<batchVars, rows, blobVars, queueVars, localVars>>

\* Mutant: a rejected file is not marked as seen.
QuarantineFileUnseen ==
    /\ phase = "quarantine"
    /\ Smooth /\ quarantine' = quarantine \cup {<<into, file>>}
    /\ NextFile
    /\ UNCHANGED <<batchVars, rows, original, overlay, queueVars, localVars>>

\* Blob.upload refuses what is over the cap; a failed upload is only logged,
\* and the file is seen either way.
QuarantineFile ==
    /\ phase = "quarantine"
    /\ \/ /\ data # "oversized" /\ Smooth
          /\ quarantine' = quarantine \cup {<<into, file>>}
       \/ data = "oversized" /\ Smooth /\ UNCHANGED quarantine
       \/ Mishap("blob") /\ UNCHANGED quarantine
    /\ seen' = seen \cup {file}
    /\ NextFile
    /\ UNCHANGED <<batchVars, rows, original, overlay, queueVars, drop, restarts>>

\* Mutants: after a failed upload the job is enqueued all the same, or the file
\* is marked as seen.
UploadFileEnqueuesAnyway ==
    /\ phase = "upload"
    /\ phase' = "enqueue" /\ UNCHANGED <<todo, into, file, data>>
    /\ \/ Smooth /\ PutOriginal(<<into, file>>, data)
       \/ Mishap("blob") /\ UNCHANGED original
    /\ UNCHANGED <<batchVars, rows, overlay, quarantine, queueVars, localVars>>
UploadFileSeenOnError ==
    /\ phase = "upload"
    /\ \/ /\ PutOriginal(<<into, file>>, data) /\ Smooth
          /\ phase' = "enqueue" /\ UNCHANGED <<todo, into, file, data, seen>>
       \/ Mishap("blob") /\ NextFile /\ seen' = seen \cup {file} /\ UNCHANGED original
    /\ UNCHANGED <<batchVars, rows, overlay, quarantine, queueVars, drop, restarts>>

\* A failed upload may still have stored the object.
UploadFile ==
    /\ phase = "upload"
    /\ \/ /\ PutOriginal(<<into, file>>, data) /\ Smooth
          /\ phase' = "enqueue" /\ UNCHANGED <<todo, into, file, data>>
       \/ /\ Mishap("blob") /\ NextFile
          /\ PutOriginal(<<into, file>>, data) \/ UNCHANGED original
    /\ UNCHANGED <<batchVars, rows, overlay, quarantine, queueVars, localVars>>

\* Mutants: _seen holds stems instead of names; a failed enqueue is retried.
EnqueueFileSeesStems ==
    /\ phase = "enqueue"
    /\ Smooth /\ \E j \in JobId : Enqueue(j, <<into, file>>)
    /\ seen' = seen \cup {Stem[file]}
    /\ NextFile
    /\ UNCHANGED <<batchVars, rows, blobVars, drop, restarts>>
EnqueueFileRetried ==
    /\ phase = "enqueue"
    /\ \E j \in JobId : Enqueue(j, <<into, file>>)
    /\ \/ Smooth /\ seen' = seen \cup {file}
       \/ Mishap("enqueue") /\ UNCHANGED seen
    /\ NextFile
    /\ UNCHANGED <<batchVars, rows, blobVars, drop, restarts>>

\* Seen whether or not enqueue_classify raised, and it may raise after RQ has
\* stored the job.
EnqueueFile ==
    /\ phase = "enqueue"
    /\ \/ Smooth /\ \E j \in JobId : Enqueue(j, <<into, file>>)
       \/ Mishap("enqueue") /\ UNCHANGED queueVars
       \/ Mishap("enqueue") /\ \E j \in JobId : Enqueue(j, <<into, file>>)
    /\ seen' = seen \cup {file}
    /\ NextFile
    /\ UNCHANGED <<batchVars, rows, blobVars, drop, restarts>>

\* The container dies anywhere and comes back with an empty _seen.
RestartWatcher ==
    /\ restarts < MaxRestarts
    /\ restarts' = restarts + 1
    /\ seen' = {}
    /\ Suspended
    /\ UNCHANGED <<storeVars, drop>>

WatcherStep ==
    \/ Poll \/ EndPoll \/ StatFile \/ ReadFile
    \/ QuarantineFile \/ UploadFile \/ EnqueueFile
    \/ \E n \in Dropped : BeginFile(n)

ScannerStep ==
    \E n \in Dropped :
        DropFile(n) \/ StartSlowDrop(n) \/ ContinueSlowDrop(n) \/ RemoveFile(n)

WatcherNext == WatcherStep \/ PollNothing \/ RestartWatcher \/ ScannerStep

WatcherVars == <<storeVars, watcherVars>>

\* The watcher by itself, on empty stores.
AloneInit == StoresInit /\ WatcherInit

WatcherSpec ==
    /\ AloneInit
    /\ [][WatcherNext]_WatcherVars
    /\ WF_WatcherVars(WatcherStep)

-----------------------------------------------------------------------------
(* What the watcher promises.                                              *)

\* One run of the process enqueues a name at most once, however its uploads
\* fail and retry; only a restart, which forgets _seen, can enqueue it again.
AtMostOneJobPerRun ==
    \A n \in Dropped : Cardinality(JobsNamed(n)) <= restarts + 1

\* Every stored original passed _reject_reason, and within a poll a file is
\* either ingested or quarantined, even if the scanner changes it meanwhile.
RejectsStayOut ==
    \A n \in Dropped, b \in BatchId : original[<<b, n>>] # "absent" =>
        /\ n \in Tiff /\ <<b, n>> \notin quarantine
        /\ original[<<b, n>>] \notin {"empty", "oversized"}

\* With whole uploads, _seen never hides a good scan that is not in MinIO:
\* quarantined and lost-job files aside, seen means stored.
SeenScansAreStored ==
    \A n \in seen \cap Tiff : drop[n] = "whole" =>
        \E b \in BatchId : original[<<b, n>>] = "whole"

\* Download, upload and cache errors only delay a good scan: the loop polls on
\* until it is enqueued.
GoodScansAreEnqueued ==
    \A n \in Dropped \cap Tiff : drop[n] = "whole" ~> JobsNamed(n) # {}

\* What is rejected leaves the new files for good, even when the quarantine
\* cannot be written, so it cannot starve the poll.  Not so what is oversized:
\* its download fails before it can be rejected.
Settles(n, content) == Rejected(n, content) /\ content \notin {"absent", "oversized"}

RejectsSettle ==
    \A n \in Dropped : Settles(n, drop[n]) ~> n \in seen

-----------------------------------------------------------------------------
(* What the comments and documents say, and the code does not do.          *)

\* sftp_watcher.py:15-17: files already in MinIO are skipped, so jobs are never
\* duplicated after a restart.  The key exists() looks up holds a new batch id.
NoDuplicateJobsAfterRestart == \A n \in Dropped : Cardinality(JobsNamed(n)) <= 1
=============================================================================
