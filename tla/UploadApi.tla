------------------------------ MODULE UploadApi ------------------------------
(***************************************************************************)
(* POST /upload (app/api/routers/upload.py): one coroutine per request.    *)
(* Each awaited call on a store is a step, so requests interleave with     *)
(* each other and with the other processes.                                *)
(***************************************************************************)
EXTENDS Stores

CONSTANTS
    Request,       \* the requests of a run
    Role,          \* roles of the users who send them
    Uploader,      \* the roles policy.csv lets POST /upload
    Payload        \* the file lists they carry: sequences of <<name, content>>

VARIABLES
    stage,         \* where the handler of each request is
    files,         \* file_data: the files it accepted, as <<name, content>>
    sent,          \* how many of them the loop has stored and enqueued
    batchOf        \* the batch it created

apiVars == <<stage, files, sent, batchOf>>

NoUpload == "no-upload"

ASSUME ApiAssumption ==
    /\ Uploader \subseteq Role
    /\ Payload \subseteq Seq(Name \X Content)
    /\ NoUpload \notin BatchId

ApiTypeOK ==
    /\ stage \in [Request -> {"new", "refused", "store", "enqueue", "answered", "error"}]
    /\ files \in [Request -> Seq(Name \X Content)]
    /\ sent \in [Request -> Nat]
    /\ batchOf \in [Request -> BatchId \cup {NoUpload}]

ApiInit ==
    /\ stage = [r \in Request |-> "new"]
    /\ files = [r \in Request |-> <<>>]
    /\ sent = [r \in Request |-> 0]
    /\ batchOf = [r \in Request |-> NoUpload]

-----------------------------------------------------------------------------
\* The checks made before anything is written: the role, then that there are
\* files, then every extension, then every size.
Admissible(role, fs) ==
    /\ role \in Uploader
    /\ fs # <<>>
    /\ \A i \in DOMAIN fs :
          fs[i][1] \in Tiff /\ fs[i][2] \notin {"empty", "oversized"}

Refuse(r) ==
    /\ stage[r] = "new"
    /\ \E role \in Role, fs \in Payload : ~Admissible(role, fs)
    /\ stage' = [stage EXCEPT ![r] = "refused"]
    /\ UNCHANGED <<storeVars, files, sent, batchOf>>

\* create_batch, with the number of files that follow.
Accept(r) ==
    /\ stage[r] = "new"
    /\ \E role \in Role, fs \in Payload, b \in BatchId :
          /\ Admissible(role, fs)
          /\ InsertBatch(b, Len(fs))
          /\ files' = [files EXCEPT ![r] = fs]
          /\ batchOf' = [batchOf EXCEPT ![r] = b]
    /\ sent' = [sent EXCEPT ![r] = 0]
    /\ stage' = [stage EXCEPT ![r] = "store"]
    /\ Smooth
    /\ UNCHANGED <<rows, blobVars, queueVars>>

\* The turn of the loop: the file it is at, and the key of its object.
Turn(r)    == files[r][sent[r] + 1]
NextKey(r) == <<batchOf[r], Turn(r)[1]>>

\* A second file of the same name overwrites the first.
StoreFile(r) ==
    /\ stage[r] = "store" /\ sent[r] < Len(files[r])
    /\ PutOriginal(NextKey(r), Turn(r)[2])
    /\ stage' = [stage EXCEPT ![r] = "enqueue"]
    /\ Smooth
    /\ UNCHANGED <<batchVars, rows, overlay, quarantine, queueVars, files, sent, batchOf>>

\* Mutant: files are kept by name, so a repeated name is enqueued once.
EnqueueUploadByName(r) ==
    /\ stage[r] = "enqueue"
    /\ IF \E i \in 1 .. sent[r] : files[r][i][1] = Turn(r)[1]
       THEN UNCHANGED queueVars
       ELSE \E j \in JobId : Enqueue(j, NextKey(r))
    /\ sent' = [sent EXCEPT ![r] = @ + 1]
    /\ stage' = [stage EXCEPT ![r] = "store"]
    /\ Smooth
    /\ UNCHANGED <<batchVars, rows, blobVars, files, batchOf>>

EnqueueUpload(r) ==
    /\ stage[r] = "enqueue"
    /\ \E j \in JobId : Enqueue(j, NextKey(r))
    /\ sent' = [sent EXCEPT ![r] = @ + 1]
    /\ stage' = [stage EXCEPT ![r] = "store"]
    /\ Smooth
    /\ UNCHANGED <<batchVars, rows, blobVars, files, batchOf>>

Answer(r) ==
    /\ stage[r] = "store" /\ sent[r] = Len(files[r])
    /\ stage' = [stage EXCEPT ![r] = "answered"]
    /\ UNCHANGED <<storeVars, files, sent, batchOf>>

\* Nothing is caught after create_batch: a cache, MinIO or Redis error, before
\* or after the call took effect, or the death of the API, leaves it all there.
FailUpload(r) ==
    /\ stage[r] \in {"store", "enqueue"}
    /\ Mishap("api")
    /\ stage' = [stage EXCEPT ![r] = "error"]
    /\ UNCHANGED <<batchVars, rows, blobVars, queueVars, files, sent, batchOf>>

RequestStep(r) ==
    Refuse(r) \/ Accept(r) \/ StoreFile(r) \/ EnqueueUpload(r) \/ Answer(r)

ApiStep == \E r \in Request : RequestStep(r) \/ FailUpload(r)

-----------------------------------------------------------------------------
(* What the endpoint promises.                                             *)

\* Among the first m files of a request, those of one name.
FilesNamed(r, n, m) == {i \in 1 .. m : files[r][i][1] = n}

\* A 200 means one job for each file, under its name, and an object for each
\* name that holds the bytes of the last file of that name: nobody else writes
\* to the request's batch, and a repeated name loses nothing but the earlier bytes.
AnsweredMeansEnqueued ==
    \A r \in Request : stage[r] = "answered" =>
        /\ Cardinality(JobsOf(batchOf[r])) = fileCount[batchOf[r]]
        /\ \A n \in Name :
              Cardinality(JobsOf(batchOf[r]) \cap JobsNamed(n)) =
              Cardinality(FilesNamed(r, n, Len(files[r])))
        /\ \A i \in 1 .. Len(files[r]) :
              (\A k \in FilesNamed(r, files[r][i][1], Len(files[r])) : k <= i) =>
                  original[<<batchOf[r], files[r][i][1]>>] = files[r][i][2]
=============================================================================
