------------------------------- MODULE Stores -------------------------------
(***************************************************************************)
(* What the processes of the classifier share: the batches, prediction     *)
(* rows and audit log of Postgres, the objects of MinIO, and the RQ queue  *)
(* that lives in Redis.  The operators are the writes the services make;   *)
(* each is one committed transaction or one call on the store.             *)
(***************************************************************************)
EXTENDS Naturals, Sequences, FiniteSets

CONSTANTS
    BatchId,      \* uuids of batches; bounds how many can be created
    JobId,        \* RQ job ids; bounds how many jobs can be enqueued
    Name,         \* file names
    Tiff,         \* the names that end in .tif or .tiff
    Stem,         \* [Name -> stem]: the name without its last extension
    Faults,       \* the kinds of error that may occur in a run
    MaxMishaps    \* bound on how many of them occur

VARIABLES
    status,       \* batches.status; "none" while the row does not exist
    fileCount,    \* batches.file_count
    trail,        \* audit_log rows about each batch, as <<from, to>>
    rows,         \* number of predictions rows for each blob key
    original,     \* MinIO batches/{id}/original/{name}: what it holds
    overlay,      \* MinIO batches/{id}/overlay/{stem}.png: whose page it shows
    quarantine,   \* keys stored under quarantine/
    queue,        \* the RQ queue "default": job ids, oldest first
    jobState,     \* the RQ registry each job is in
    jobKey,       \* batch and name a job was enqueued for
    mishaps       \* errors that occurred so far

batchVars == <<status, fileCount, trail>>
blobVars  == <<original, overlay, quarantine>>
queueVars == <<queue, jobState, jobKey>>
storeVars == <<batchVars, rows, blobVars, queueVars, mishaps>>

Key     == BatchId \X Name
StemKey == BatchId \X {Stem[n] : n \in Name}

\* What a file holds: nothing yet, a part of a scan, a decodable scan, bytes
\* that no decoder accepts, or more than MAX_FILE_BYTES.
Content == {"empty", "partial", "whole", "malformed", "oversized"}
Status  == {"none", "pending", "processing", "done", "failed"}

NoName == "no-name"
NoKey  == <<"no-batch", NoName>>

ASSUME StoresAssumption ==
    /\ Tiff \subseteq Name
    /\ NoName \notin Name
    /\ DOMAIN Stem = Name
    /\ MaxMishaps \in Nat

StoresTypeOK ==
    /\ status \in [BatchId -> Status]
    /\ fileCount \in [BatchId -> Nat]
    /\ trail \in [BatchId -> Seq(Status \X Status)]
    /\ rows \in [Key -> Nat]
    /\ original \in [Key -> Content \cup {"absent"}]
    /\ overlay \in [StemKey -> Name \cup {NoName}]
    /\ quarantine \in SUBSET Key
    /\ queue \in Seq(JobId)
    /\ jobState \in [JobId -> {"none", "queued", "started", "finished", "failed"}]
    /\ jobKey \in [JobId -> Key \cup {NoKey}]
    /\ mishaps \in 0 .. MaxMishaps

StoresInit ==
    /\ status = [b \in BatchId |-> "none"]
    /\ fileCount = [b \in BatchId |-> 0]
    /\ trail = [b \in BatchId |-> <<>>]
    /\ rows = [k \in Key |-> 0]
    /\ original = [k \in Key |-> "absent"]
    /\ overlay = [k \in StemKey |-> NoName]
    /\ quarantine = {}
    /\ queue = <<>>
    /\ jobState = [j \in JobId |-> "none"]
    /\ jobKey = [j \in JobId |-> NoKey]
    /\ mishaps = 0

-----------------------------------------------------------------------------
\* A new id is one that is not used yet; which one makes no difference to anybody.
FreshBatch == CHOOSE b \in BatchId : status[b] = "none"
FreshJob   == CHOOSE j \in JobId : jobState[j] = "none"

\* The transaction of create_batch: a fresh pending batch and its audit row.
InsertBatch(b, count) ==
    /\ status[b] = "none"
    /\ b = FreshBatch
    /\ status' = [status EXCEPT ![b] = "pending"]
    /\ fileCount' = [fileCount EXCEPT ![b] = count]
    /\ trail' = [trail EXCEPT ![b] = Append(@, <<"none", "pending">>)]

\* Mutant: the audit row is built from the row after the update.
UpdateStatusAuditsNew(b, from, to) ==
    /\ status' = [status EXCEPT ![b] = to]
    /\ trail' = [trail EXCEPT ![b] = Append(@, <<to, to>>)]
    /\ UNCHANGED fileCount

\* The write half of _transition: UPDATE ... WHERE id = b, whatever the status
\* is by now, and the audit row built from the status that was read.
UpdateStatus(b, from, to) ==
    /\ status' = [status EXCEPT ![b] = to]
    /\ trail' = [trail EXCEPT ![b] = Append(@, <<from, to>>)]
    /\ UNCHANGED fileCount

InsertRow(k) == rows' = [rows EXCEPT ![k] = @ + 1]

PutOriginal(k, content) == original' = [original EXCEPT ![k] = content]

\* overlay_key drops the extension, so it is the stem that names the object.
OverlayKey(k) == <<k[1], Stem[k[2]]>>
PutOverlay(k) == overlay' = [overlay EXCEPT ![OverlayKey(k)] = k[2]]

Enqueue(j, k) ==
    /\ jobState[j] = "none"
    /\ j = FreshJob
    /\ jobState' = [jobState EXCEPT ![j] = "queued"]
    /\ jobKey' = [jobKey EXCEPT ![j] = k]
    /\ queue' = Append(queue, j)

\* An error of kind f happens now; without one, mishaps does not move.
Mishap(f) == f \in Faults /\ mishaps < MaxMishaps /\ mishaps' = mishaps + 1
Smooth    == UNCHANGED mishaps

JobsOf(b)     == {j \in JobId : jobState[j] # "none" /\ jobKey[j][1] = b}
JobsNamed(n)  == {j \in JobId : jobState[j] # "none" /\ jobKey[j][2] = n}

-----------------------------------------------------------------------------
(* What must hold of the stores, whichever processes write to them.        *)

\* A prediction never points at an object that is not there: the original and
\* the overlay of a row's key are stored (classify uploads before _persist).
PredictionsReferenceStoredBlobs ==
    \A k \in Key : rows[k] > 0 =>
        original[k] # "absent" /\ overlay[OverlayKey(k)] # NoName

\* A batch only reads "done" once it has at least one prediction to show.
DoneHasPrediction ==
    \A b \in BatchId : status[b] = "done" => \E n \in Name : rows[<<b, n>>] > 0

\* A job RQ lists as finished has left its prediction in Postgres.
FinishedJobHasPrediction ==
    \A j \in JobId : jobState[j] = "finished" => rows[jobKey[j]] > 0

\* Whoever enqueues has stored the bytes and created the batch first, so no
\* job can fail for want of them, and no batch gets more jobs than it counts.
JobsAreBacked ==
    /\ \A j \in JobId : jobState[j] # "none" =>
          /\ jobKey[j][2] \in Tiff
          /\ original[jobKey[j]] \notin {"absent", "empty", "oversized"}
    /\ \A b \in BatchId : Cardinality(JobsOf(b)) <= fileCount[b]

\* The audit rows of a batch form one path of the status machine: each starts
\* where the one before it ended, and the last one ends at the stored status.
AuditTrailIsAPath ==
    \A b \in BatchId : LET t == trail[b] IN
        /\ \A i \in 1 .. Len(t) - 1 : t[i][2] = t[i + 1][1]
        /\ status[b] = IF t = <<>> THEN "none" ELSE t[Len(t)][2]
=============================================================================
