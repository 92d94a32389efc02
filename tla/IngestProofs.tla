----------------------------- MODULE IngestProofs -----------------------------
(***************************************************************************)
(* What the watcher and the upload endpoint promise of the batches they    *)
(* fill, in the composed system: whatever fails, restarts or runs in       *)
(* parallel, and for any number of workers.                                *)
(***************************************************************************)
EXTENDS PipelineProofs

\* A batch has one owner: the request or the poll that created it.
SeparateInv ==
    /\ \A r \in Request :
          /\ stage[r] \in {"new", "refused"} <=> batchOf[r] = NoUpload
          /\ batchOf[r] # NoUpload => status[batchOf[r]] # "none"
          /\ phase # "idle" => batchOf[r] # into
    /\ \A r, q \in Request : r # q /\ batchOf[r] # NoUpload => batchOf[r] # batchOf[q]

JobsFinite == \A b \in BatchId : IsFiniteSet(JobsOf(b))
JobCount   == [b \in BatchId |-> Cardinality(JobsOf(b))]

Accepted(r) == stage[r] \notin {"new", "refused"}

\* Every file counted for a batch has its job, or is one the owner still holds.
CountInv ==
    /\ JobsFinite
    /\ \A b \in BatchId : JobCount[b] <= fileCount[b]
    /\ phase # "idle" => JobCount[into] + Cardinality(todo) <= fileCount[into]
    /\ \A r \in Request : Accepted(r) =>
          /\ JobCount[batchOf[r]] = sent[r] /\ sent[r] <= Len(files[r])
          /\ fileCount[batchOf[r]] = Len(files[r])
          /\ stage[r] = "answered" => sent[r] = Len(files[r])

\* A file the poll has yet to settle has left no trace under its batch.
RejectsInv ==
    /\ \A k \in Key : status[k[1]] = "none" => original[k] = "absent" /\ k \notin quarantine
    /\ \A k \in Key : original[k] # "absent" => original[k] \in Ingestable /\ k[2] \in Tiff
    /\ \A k \in quarantine :
          /\ original[k] = "absent"
          /\ \A r \in Request : batchOf[r] # k[1]
    /\ phase # "idle" => \A n \in todo :
          /\ <<into, n>> \notin quarantine
          /\ original[<<into, n>>] # "absent" => phase = "enqueue" /\ n = file
    /\ phase \notin {"idle", "next"} => file \in todo

IngestInv == SeparateInv /\ CountInv /\ RejectsInv

-----------------------------------------------------------------------------
(* Counting jobs.                                                          *)

LEMMA JobCountType == ASSUME JobsFinite PROVE JobCount \in [BatchId -> Nat]
  BY FS_CardinalityType DEF JobsFinite, JobCount

\* Without a new job, the batches keep theirs.
LEMMA SameJobs ==
  ASSUME Grows, JobsFinite, \A j \in JobId : jobState'[j] # "none" => jobState[j] # "none"
  PROVE  JobsFinite' /\ JobCount' = JobCount
<1>1. \A b \in BatchId : JobsOf(b)' = JobsOf(b)
  BY DEF JobsOf, Grows
<1> QED
  BY <1>1 DEF JobsFinite, JobCount

\* An enqueued job is one more of its batch.
LEMMA OneMoreJob ==
  ASSUME TypeOK, JobsFinite, NEW j \in JobId, NEW k \in Key, Enqueue(j, k)
  PROVE  /\ JobsFinite'
         /\ JobCount' = [JobCount EXCEPT ![k[1]] = JobCount[k[1]] + 1]
<1>1. k[1] \in BatchId
  BY DEF Key
<1>2. ASSUME NEW b \in BatchId
      PROVE  JobsOf(b)' = IF b = k[1] THEN JobsOf(b) \cup {j} ELSE JobsOf(b)
  BY DEF JobsOf, Enqueue, TypeOK, StoresTypeOK
<1>3. ASSUME NEW b \in BatchId PROVE j \notin JobsOf(b)
  BY DEF JobsOf, Enqueue
<1>4. JobsFinite'
  BY <1>2, FS_AddElement DEF JobsFinite
<1>5. ASSUME NEW b \in BatchId
      PROVE  Cardinality(JobsOf(b)') =
                IF b = k[1] THEN Cardinality(JobsOf(b)) + 1 ELSE Cardinality(JobsOf(b))
  BY <1>2, <1>3, FS_AddElement DEF JobsFinite
<1> QED
  BY <1>1, <1>4, <1>5 DEF JobCount

\* A batch that does not exist has no job.
LEMMA NoBatchNoJob ==
  ASSUME TypeOK, IInv, NEW b \in BatchId, status[b] = "none" PROVE JobCount[b] = 0
<1>1. JobsOf(b) = {}
  BY DEF JobsOf, IInv, JobsInv, Backed
<1> QED
  BY <1>1, FS_EmptySet DEF JobCount

LEMMA TodoFinite ==
  ASSUME WatcherTypeOK PROVE IsFiniteSet(todo) /\ Cardinality(todo) \in Nat
<1>1. todo \in SUBSET Dropped /\ IsFiniteSet(Dropped)
  BY WatcherAssumption DEF WatcherTypeOK
<1>2. IsFiniteSet(todo)
  BY <1>1, FS_Subset
<1> QED
  BY <1>2, FS_CardinalityType

\* A file that is settled leaves the poll with one less to do.
LEMMA OneFileLess ==
  ASSUME WatcherTypeOK, NEW n \in todo
  PROVE  Cardinality(todo \ {n}) = Cardinality(todo) - 1
  BY TodoFinite, FS_RemoveElement

-----------------------------------------------------------------------------
(* What a step leaves alone.                                               *)

LEMMA SeparateStays ==
  ASSUME SeparateInv, Grows, TypeOK, UNCHANGED batchOf,
         \A r \in Request : stage'[r] \in {"new", "refused"} <=> stage[r] \in {"new", "refused"},
         phase' # "idle" => phase # "idle" /\ into' = into
  PROVE  SeparateInv'
  BY DEF SeparateInv, Grows, TypeOK, ApiTypeOK

LEMMA CountStays ==
  ASSUME CountInv, JobsFinite', UNCHANGED <<JobCount, fileCount, batchOf, files, sent>>,
         \A r \in Request : Accepted(r)' => Accepted(r),
         \A r \in Request : stage'[r] = "answered" => sent[r] = Len(files[r]),
         phase' # "idle" => phase # "idle" /\ into' = into /\ todo' = todo
  PROVE  CountInv'
  BY DEF CountInv

LEMMA RejectsStay ==
  ASSUME TypeOK, RejectsInv, Grows, UNCHANGED <<original, quarantine, batchOf>>,
         phase' # "idle" => phase # "idle" /\ UNCHANGED <<phase, into, todo, file>>
  PROVE  RejectsInv'
  BY DEF RejectsInv, Grows, Key

-----------------------------------------------------------------------------
(* The watcher.                                                            *)

LEMMA PollKeepsIngest ==
  ASSUME TypeOK, TypeOK', IInv, IngestInv, Grows, Poll, UNCHANGED apiVars PROVE IngestInv'
<1> USE DEF TypeOK, StoresTypeOK, IngestInv
<1>1. PICK b \in BatchId : InsertBatch(b, Cardinality(NewFiles))
  BY DEF Poll, CreateBatch
<1>2. /\ UNCHANGED <<original, quarantine, jobState, jobKey, stage, files, sent, batchOf>>
      /\ status[b] = "none" /\ status' = [status EXCEPT ![b] = "pending"]
      /\ fileCount' = [fileCount EXCEPT ![b] = Cardinality(NewFiles)]
  BY <1>1 DEF Poll, blobVars, queueVars, apiVars, InsertBatch
<1>3. \/ phase' = "idle"
      \/ phase' = "next" /\ todo' = NewFiles /\ into' = b
  <2>1. \A c, d \in BatchId : InsertBatch(c, Cardinality(NewFiles))
                              /\ InsertBatch(d, Cardinality(NewFiles)) => c = d
    BY DEF InsertBatch
  <2> QED
    BY <1>1, <2>1 DEF Poll, CreateBatch, Suspended
<1>4. Cardinality(NewFiles) \in Nat
  BY NewFilesCount
<1>5. JobsFinite' /\ JobCount' = JobCount /\ JobCount[b] = 0
  BY <1>2, SameJobs, NoBatchNoJob DEF CountInv
<1>6. \A r \in Request : batchOf[r] # b
  <2>1. \A r \in Request : batchOf[r] # NoUpload => status[batchOf[r]] # "none"
    BY DEF SeparateInv
  <2>2. b # NoUpload /\ status[b] = "none"
    BY <1>2, ApiAssumption
  <2> QED
    BY ONLY <2>1, <2>2
<1>7. SeparateInv'
  <2>1. \A r \in Request : batchOf[r] # NoUpload => status'[batchOf[r]] # "none"
    BY <1>2, <1>6 DEF SeparateInv, ApiTypeOK
  <2> QED
    BY <1>2, <1>3, <1>6, <2>1 DEF SeparateInv
<1>8. CountInv'
  BY <1>2, <1>3, <1>4, <1>5, <1>6 DEF CountInv, SeparateInv, ApiTypeOK, Accepted
<1>9. RejectsInv'
  <2>1. \A n \in Dropped : <<b, n>> \in Key /\ <<b, n>>[1] = b
    BY WatcherAssumption DEF Key
  <2>2. \A n \in Dropped : original[<<b, n>>] = "absent" /\ <<b, n>> \notin quarantine
    BY <1>2, <2>1 DEF RejectsInv
  <2>3. \A k \in Key : k[1] \in BatchId /\ (status'[k[1]] = "none" => status[k[1]] = "none")
    BY <1>2 DEF Key
  <2> QED
    BY <1>2, <1>3, <2>2, <2>3 DEF RejectsInv, NewFiles
<1> QED
  BY <1>7, <1>8, <1>9

\* A file leaves the poll without a job.
LEMMA DropKeepsCount ==
  ASSUME TypeOK, IInv, CountInv, JobsFinite', UNCHANGED <<JobCount, fileCount, apiVars>>,
         phase # "idle", phase' # "idle" => into' = into /\ \E n \in todo : todo' = todo \ {n}
  PROVE  CountInv'
<1>1. JobCount \in [BatchId -> Nat] /\ fileCount \in [BatchId -> Nat]
  BY JobCountType DEF CountInv, TypeOK, StoresTypeOK
<1>2. \A n \in todo : Cardinality(todo \ {n}) = Cardinality(todo) - 1
  BY OneFileLess DEF TypeOK
<1>3. Cardinality(todo) \in Nat
  BY TodoFinite DEF TypeOK
<1>4. into \in BatchId
  BY DEF IInv, WatcherInv
<1> QED
  BY <1>1, <1>2, <1>3, <1>4 DEF CountInv, apiVars, Accepted

LEMMA EnqueueFileKeepsIngest ==
  ASSUME TypeOK, IInv, IngestInv, Grows, EnqueueFile, UNCHANGED apiVars PROVE IngestInv'
<1> USE DEF TypeOK, IngestInv
<1>1. /\ UNCHANGED <<status, fileCount, original, quarantine, stage, files, sent, batchOf>>
      /\ phase = "enqueue" /\ phase' = "next" /\ into' = into /\ todo' = todo \ {file}
      /\ file \in todo /\ into \in BatchId /\ <<into, file>> \in Key
  BY DEF EnqueueFile, NextFile, batchVars, blobVars, apiVars, RejectsInv, IInv, WatcherInv, Backed
<1>2. SeparateInv'
  BY <1>1 DEF SeparateInv
<1>3. CountInv'
  <2>1. CASE UNCHANGED queueVars
    <3>1. JobsFinite' /\ JobCount' = JobCount
      BY <2>1, SameJobs DEF CountInv, queueVars
    <3> QED
      BY <1>1, <3>1, DropKeepsCount DEF EnqueueFile, batchVars
  <2>2. CASE \E j \in JobId : Enqueue(j, <<into, file>>)
    <3>1. JobsFinite' /\ JobCount' = [JobCount EXCEPT ![into] = JobCount[into] + 1]
      BY <1>1, <2>2, OneMoreJob DEF CountInv
    <3>2. JobCount \in [BatchId -> Nat] /\ fileCount \in [BatchId -> Nat]
      BY JobCountType DEF CountInv, StoresTypeOK
    <3>3. Cardinality(todo) \in Nat /\ Cardinality(todo') = Cardinality(todo) - 1
      BY <1>1, OneFileLess, TodoFinite
    <3>4. Cardinality(todo) # 0
      BY <1>1, TodoFinite, FS_EmptySet
    <3>5. \A r \in Request : batchOf[r] # into
      BY <1>1 DEF SeparateInv
    <3> QED
      BY <1>1, <3>1, <3>2, <3>3, <3>4, <3>5 DEF CountInv, Accepted
  <2> QED
    BY <2>1, <2>2 DEF EnqueueFile
<1>4. RejectsInv'
  BY <1>1 DEF RejectsInv
<1> QED
  BY <1>2, <1>3, <1>4

\* Any other step of the watcher goes on, settles a file or leaves the poll.
Carries ==
    phase' # "idle" =>
        /\ phase # "idle" /\ into' = into
        /\ todo' = todo \/ \E n \in todo : todo' = todo \ {n}

LEMMA WatcherCarries ==
  ASSUME TypeOK, RejectsInv, WatcherNext, ~Poll, ~EnqueueFile
  PROVE  Carries /\ UNCHANGED <<batchVars, queueVars>>
<1> USE DEF Carries, RejectsInv, storeVars, watcherVars, localVars
<1>1. CASE StatFile \/ ReadFile
  BY <1>1 DEF StatFile, ReadFile, NextFile
<1>2. CASE QuarantineFile \/ UploadFile
  BY <1>2 DEF QuarantineFile, UploadFile, NextFile
<1>3. CASE EndPoll \/ RestartWatcher \/ PollNothing
  BY <1>3 DEF EndPoll, RestartWatcher, PollNothing, Suspended
<1>4. CASE \E n \in Dropped : BeginFile(n)
  BY <1>4 DEF BeginFile, Suspended
<1>5. CASE ScannerStep
  BY <1>5 DEF ScannerStep, DropFile, StartSlowDrop, ContinueSlowDrop, RemoveFile, Write
<1> QED
  BY <1>1, <1>2, <1>3, <1>4, <1>5 DEF WatcherNext, WatcherStep

LEMMA WatcherKeepsRejects ==
  ASSUME TypeOK, IInv, IngestInv, Grows, WatcherNext, ~Poll, ~EnqueueFile, UNCHANGED apiVars
  PROVE  RejectsInv'
<1> USE DEF TypeOK, StoresTypeOK, WatcherTypeOK, IngestInv, apiVars, storeVars, watcherVars,
        localVars, batchVars, blobVars
<1>1. CASE StatFile \/ ReadFile
  BY <1>1 DEF StatFile, ReadFile, NextFile, RejectsInv
<1>2. CASE EndPoll \/ RestartWatcher
  BY <1>2 DEF EndPoll, RestartWatcher, Suspended, RejectsInv
<1>3. CASE \E n \in Dropped : BeginFile(n)
  BY <1>3 DEF BeginFile, Suspended, RejectsInv
<1>4. CASE PollNothing \/ ScannerStep
  BY <1>4, RejectsStay DEF PollNothing, ScannerStep, DropFile, StartSlowDrop, ContinueSlowDrop,
     RemoveFile, Write
<1>5. CASE QuarantineFile \/ UploadFile
  <2> DEFINE k == <<into, file>>
  <2>1. /\ UNCHANGED <<status, batchOf, into>> /\ phase # "idle" /\ phase \notin {"next", "enqueue"}
        /\ into \in BatchId /\ file \in todo /\ k \in Key /\ k[1] = into /\ k[2] = file
        /\ original[k] = "absent" /\ k \notin quarantine /\ status[k[1]] # "none"
    BY <1>5, WatcherAssumption
       DEF QuarantineFile, UploadFile, NextFile, RejectsInv, IInv, WatcherInv, Key
  <2>2. CASE QuarantineFile
    <3>1. /\ UNCHANGED original /\ phase' = "next" /\ todo' = todo \ {file}
          /\ quarantine' = quarantine \/ quarantine' = quarantine \cup {k}
      BY <2>2 DEF QuarantineFile, NextFile
    <3> HIDE DEF k
    <3> QED
      BY <2>1, <3>1 DEF RejectsInv, SeparateInv, k
  <2>3. CASE UploadFile
    <3>1. /\ UNCHANGED quarantine /\ data \in Ingestable /\ file \in Tiff
          /\ original' = original \/ original' = [original EXCEPT ![k] = data]
          /\ \/ phase' = "next" /\ todo' = todo \ {file}
             \/ phase' = "enqueue" /\ todo' = todo /\ file' = file
      BY <2>3 DEF UploadFile, NextFile, PutOriginal, IInv, WatcherInv
    <3>2. \A q \in Key \ {k} : original'[q] = original[q]
      BY <3>1
    <3>3. \A n \in todo \ {file} : <<into, n>> \in Key \ {k}
      BY <2>1, WatcherAssumption DEF Key
    <3>4. original'[k] = "absent" \/ original'[k] \in Ingestable
      BY <2>1, <3>1
    <3>5. \A n \in todo' : /\ <<into, n>> \notin quarantine
                           /\ original'[<<into, n>>] # "absent" =>
                                 phase' = "enqueue" /\ n = file'
      BY <2>1, <3>1, <3>2, <3>3 DEF RejectsInv
    <3>6. \A q \in Key : /\ status[q[1]] = "none" => original'[q] = "absent"
                         /\ original'[q] # "absent" => original'[q] \in Ingestable /\ q[2] \in Tiff
                         /\ q \in quarantine => original'[q] = "absent"
      <4>1. ASSUME NEW q \in Key \ {k}
            PROVE  /\ status[q[1]] = "none" => original'[q] = "absent"
                   /\ original'[q] # "absent" => original'[q] \in Ingestable /\ q[2] \in Tiff
                   /\ q \in quarantine => original'[q] = "absent"
        BY <3>2, <4>1 DEF RejectsInv
      <4>2. /\ status[k[1]] # "none" /\ k \notin quarantine
            /\ original'[k] # "absent" => original'[k] \in Ingestable /\ k[2] \in Tiff
        BY <2>1, <3>1, <3>4
      <4> QED
        BY <4>1, <4>2
    <3> HIDE DEF k
    <3> QED
      BY <2>1, <3>1, <3>5, <3>6 DEF RejectsInv
  <2> QED
    BY <1>5, <2>2, <2>3
<1> QED
  BY <1>1, <1>2, <1>3, <1>4, <1>5 DEF WatcherNext, WatcherStep

LEMMA WatcherKeepsIngest ==
  ASSUME TypeOK, TypeOK', IInv, IngestInv, WatcherNext, UNCHANGED <<apiVars, workerVars>>
  PROVE  IngestInv'
<1>1. Grows
  BY WatcherGrows
<1>2. CASE Poll
  BY <1>1, <1>2, PollKeepsIngest
<1>3. CASE EnqueueFile
  BY <1>1, <1>3, EnqueueFileKeepsIngest
<1>4. CASE ~Poll /\ ~EnqueueFile
  <2>1. Carries /\ UNCHANGED <<fileCount, jobState, jobKey>>
    BY <1>4, WatcherCarries DEF IngestInv, batchVars, queueVars
  <2>2. JobsFinite' /\ JobCount' = JobCount
    BY <1>1, <2>1, SameJobs DEF IngestInv, CountInv
  <2>3. SeparateInv'
    BY <1>1, <2>1, SeparateStays DEF IngestInv, Carries, apiVars
  <2>4. CountInv'
    <3>1. \A r \in Request : /\ stage[r] = "answered" => sent[r] = Len(files[r])
                             /\ Accepted(r)' => Accepted(r)
      BY DEF IngestInv, CountInv, Accepted, apiVars
    <3> QED
      BY <2>1, <2>2, <3>1, CountStays, DropKeepsCount DEF IngestInv, Carries, apiVars
  <2>5. RejectsInv'
    BY <1>1, <1>4, WatcherKeepsRejects
  <2> QED
    BY <2>3, <2>4, <2>5 DEF IngestInv
<1> QED
  BY <1>2, <1>3, <1>4

-----------------------------------------------------------------------------
(* The upload endpoint.                                                    *)

LEMMA AcceptKeepsIngest ==
  ASSUME TypeOK, TypeOK', IInv, IngestInv, Grows, NEW r \in Request, Accept(r),
         UNCHANGED watcherVars
  PROVE  IngestInv'
<1> USE DEF TypeOK, StoresTypeOK, ApiTypeOK, IngestInv
<1>1. PICK fs \in Payload, b \in BatchId :
         /\ InsertBatch(b, Len(fs))
         /\ files' = [files EXCEPT ![r] = fs] /\ batchOf' = [batchOf EXCEPT ![r] = b]
         /\ sent' = [sent EXCEPT ![r] = 0]
  BY DEF Accept
<1>2. /\ UNCHANGED <<original, quarantine, jobState, jobKey, phase, into, todo, file>>
      /\ stage[r] = "new" /\ stage' = [stage EXCEPT ![r] = "store"]
      /\ status[b] = "none" /\ status' = [status EXCEPT ![b] = "pending"]
      /\ fileCount' = [fileCount EXCEPT ![b] = Len(fs)]
  BY <1>1 DEF Accept, blobVars, queueVars, watcherVars, InsertBatch
<1>3. Len(fs) \in Nat
  BY ApiAssumption, LenProperties
<1>4. JobsFinite' /\ JobCount' = JobCount /\ JobCount[b] = 0
  BY <1>2, SameJobs, NoBatchNoJob DEF CountInv
<1>5. \A q \in Request : batchOf[q] # b
  BY <1>2, ApiAssumption DEF SeparateInv
<1>6. phase # "idle" => into \in BatchId \ {b}
  BY <1>2 DEF IInv, WatcherInv
<1>7. SeparateInv'
  <2>1. \A q \in Request : batchOf'[q] # NoUpload => status'[batchOf'[q]] # "none"
    BY <1>1, <1>2, <1>5 DEF SeparateInv
  <2>2. \A q \in Request : stage'[q] \in {"new", "refused"} <=> batchOf'[q] = NoUpload
    BY <1>1, <1>2, ApiAssumption DEF SeparateInv
  <2>3. phase' # "idle" => \A q \in Request : batchOf'[q] # into'
    BY <1>1, <1>2, <1>6 DEF SeparateInv
  <2>4. \A p, q \in Request : p # q /\ batchOf'[p] # NoUpload => batchOf'[p] # batchOf'[q]
    <3>1. \A p, q \in Request : p # q /\ batchOf[p] # NoUpload => batchOf[p] # batchOf[q]
      BY DEF SeparateInv
    <3>2. batchOf'[r] = b /\ \A q \in Request \ {r} : batchOf'[q] = batchOf[q]
      BY <1>1
    <3> QED
      BY ONLY <1>5, <3>1, <3>2
  <2> QED
    BY <2>1, <2>2, <2>3, <2>4 DEF SeparateInv
<1>8. CountInv'
  <2>1. \A q \in Request \ {r} :
           /\ batchOf'[q] = batchOf[q] /\ batchOf[q] # b
           /\ files'[q] = files[q] /\ sent'[q] = sent[q] /\ stage'[q] = stage[q]
    BY <1>1, <1>2, <1>5
  <2>2. ASSUME NEW q \in Request \ {r}, Accepted(q)'
        PROVE  /\ JobCount'[batchOf'[q]] = sent'[q] /\ sent'[q] <= Len(files'[q])
               /\ fileCount'[batchOf'[q]] = Len(files'[q])
               /\ stage'[q] = "answered" => sent'[q] = Len(files'[q])
    <3>1. Accepted(q) /\ batchOf[q] \in BatchId
      BY <2>1, <2>2 DEF Accepted, SeparateInv
    <3>2. /\ JobCount[batchOf[q]] = sent[q] /\ sent[q] <= Len(files[q])
          /\ fileCount[batchOf[q]] = Len(files[q])
          /\ stage[q] = "answered" => sent[q] = Len(files[q])
      BY <3>1 DEF CountInv
    <3>3. fileCount'[batchOf[q]] = fileCount[batchOf[q]]
      BY <1>2, <2>1, <3>1
    <3> QED
      BY <1>4, <2>1, <3>2, <3>3
  <2>3. /\ JobCount'[batchOf'[r]] = sent'[r] /\ sent'[r] <= Len(files'[r])
        /\ fileCount'[batchOf'[r]] = Len(files'[r]) /\ stage'[r] = "store"
    BY <1>1, <1>2, <1>3, <1>4
  <2>4. \A c \in BatchId : JobCount'[c] <= fileCount'[c]
    BY <1>2, <1>3, <1>4 DEF CountInv
  <2>5. phase' # "idle" => JobCount'[into'] + Cardinality(todo') <= fileCount'[into']
    BY <1>2, <1>4, <1>6 DEF CountInv
  <2> QED
    BY <1>4, <2>2, <2>3, <2>4, <2>5 DEF CountInv
<1>9. RejectsInv'
  <2>1. \A k \in Key : k[1] \in BatchId /\ (status'[k[1]] = "none" => status[k[1]] = "none")
    BY <1>2 DEF Key
  <2>2. \A k \in quarantine : k \in Key /\ k[1] # b
    BY <1>2 DEF RejectsInv
  <2> QED
    BY <1>1, <1>2, <2>1, <2>2 DEF RejectsInv
<1> QED
  BY <1>7, <1>8, <1>9

LEMMA StoreFileKeepsIngest ==
  ASSUME TypeOK, IInv, IngestInv, Grows, NEW r \in Request, StoreFile(r), UNCHANGED watcherVars
  PROVE  IngestInv'
<1> USE DEF TypeOK, StoresTypeOK, ApiTypeOK, IngestInv
<1> DEFINE k == NextKey(r)
<1>1. Turn(r) \in Tiff \X Ingestable
  BY ValidatedTurn DEF StoreFile, IInv
<1>2. /\ UNCHANGED <<batchVars, quarantine, jobState, jobKey, watcherVars, files, sent, batchOf>>
      /\ stage[r] = "store" /\ stage' = [stage EXCEPT ![r] = "enqueue"]
      /\ original' = [original EXCEPT ![k] = Turn(r)[2]]
      /\ batchOf[r] \in BatchId /\ status[batchOf[r]] # "none"
  BY DEF StoreFile, PutOriginal, IInv, ApiInv, queueVars
<1>3. k \in Key /\ k[1] = batchOf[r] /\ k[2] \in Tiff
  BY <1>1, <1>2, StoresAssumption DEF NextKey, Key
<1>4. SeparateInv'
  BY <1>2, SeparateStays DEF watcherVars
<1>5. CountInv'
  <2>1. JobsFinite' /\ JobCount' = JobCount
    BY <1>2, SameJobs DEF CountInv
  <2>2. \A q \in Request : /\ Accepted(q)' => Accepted(q)
                           /\ stage'[q] = "answered" => sent[q] = Len(files[q])
    BY <1>2 DEF CountInv, Accepted
  <2> QED
    BY <1>2, <2>1, <2>2, CountStays DEF watcherVars, batchVars
<1>6. RejectsInv'
  <2> HIDE DEF k
  <2>1. \A q \in Key \ {k} : original'[q] = original[q]
    BY <1>2, <1>3
  <2>2. original'[k] \in Ingestable
    BY <1>1, <1>2, <1>3
  <2>3. k \notin quarantine /\ status[k[1]] # "none"
    BY <1>2, <1>3 DEF RejectsInv
  <2>4. phase # "idle" => \A n \in todo : <<into, n>> \in Key \ {k}
    BY <1>3, WatcherAssumption DEF SeparateInv, IInv, WatcherInv, WatcherTypeOK, Key
  <2> QED
    BY <1>2, <1>3, <2>1, <2>2, <2>3, <2>4 DEF RejectsInv, watcherVars, batchVars
<1> QED
  BY <1>4, <1>5, <1>6

LEMMA EnqueueUploadKeepsIngest ==
  ASSUME TypeOK, IInv, IngestInv, Grows, NEW r \in Request, EnqueueUpload(r),
         UNCHANGED watcherVars
  PROVE  IngestInv'
<1> USE DEF TypeOK, StoresTypeOK, ApiTypeOK, IngestInv
<1>1. /\ UNCHANGED <<batchVars, original, quarantine, watcherVars, batchOf, files>>
      /\ stage[r] = "enqueue" /\ stage' = [stage EXCEPT ![r] = "store"]
      /\ sent' = [sent EXCEPT ![r] = sent[r] + 1]
      /\ sent[r] < Len(files[r]) /\ batchOf[r] \in BatchId
      /\ NextKey(r) \in Key /\ NextKey(r)[1] = batchOf[r]
  BY DEF EnqueueUpload, blobVars, IInv, ApiInv, Backed, NextKey
<1>2. PICK j \in JobId : Enqueue(j, NextKey(r))
  BY DEF EnqueueUpload
<1>3. /\ JobsFinite'
      /\ JobCount' = [JobCount EXCEPT ![batchOf[r]] = JobCount[batchOf[r]] + 1]
  BY <1>1, <1>2, OneMoreJob DEF CountInv
<1>4. SeparateInv'
  BY <1>1, SeparateStays DEF watcherVars
<1>5. CountInv'
  <2>1. JobCount \in [BatchId -> Nat]
    BY JobCountType DEF CountInv
  <2>2. /\ sent[r] \in Nat /\ Len(files[r]) \in Nat
        /\ sent[r] + 1 <= Len(files[r]) /\ sent'[r] = sent[r] + 1
    BY <1>1, LenProperties
  <2>3. JobCount[batchOf[r]] = sent[r] /\ fileCount[batchOf[r]] = Len(files[r])
    BY <1>1 DEF CountInv, Accepted
  <2>4. JobCount'[batchOf[r]] = sent'[r] /\ sent'[r] <= Len(files[r])
    BY <1>1, <1>3, <2>1, <2>2, <2>3
  <2>5. \A b \in BatchId : JobCount'[b] <= fileCount[b]
    BY <1>1, <1>3, <2>1, <2>3, <2>4 DEF CountInv
  <2>6. phase # "idle" => into \in BatchId \ {batchOf[r]}
    BY DEF SeparateInv, IInv, WatcherInv
  <2>7. \A q \in Request \ {r} :
           /\ batchOf[q] # batchOf[r]
           /\ sent'[q] = sent[q] /\ stage'[q] = stage[q]
           /\ Accepted(q) => batchOf[q] \in BatchId
    BY <1>1, ApiAssumption DEF SeparateInv, Accepted
  <2>8. ASSUME NEW q \in Request \ {r}, Accepted(q)'
        PROVE  /\ JobCount'[batchOf[q]] = sent'[q] /\ sent'[q] <= Len(files[q])
               /\ fileCount[batchOf[q]] = Len(files[q])
               /\ stage'[q] = "answered" => sent'[q] = Len(files[q])
    <3>1. Accepted(q)
      BY <2>7, <2>8 DEF Accepted
    <3> QED
      BY <1>3, <2>1, <2>7, <3>1 DEF CountInv
  <2> QED
    BY <1>1, <1>3, <2>1, <2>3, <2>4, <2>5, <2>6, <2>8 DEF CountInv, watcherVars, batchVars
<1>6. RejectsInv'
  BY <1>1, RejectsStay DEF watcherVars
<1> QED
  BY <1>4, <1>5, <1>6

LEMMA ApiKeepsIngest ==
  ASSUME TypeOK, TypeOK', IInv, IngestInv, ApiStep, UNCHANGED <<watcherVars, workerVars>>
  PROVE  IngestInv'
<1>1. Grows
  BY ApiGrows
<1>2. PICK r \in Request : RequestStep(r) \/ FailUpload(r)
  BY DEF ApiStep
<1>3. CASE Accept(r) \/ StoreFile(r) \/ EnqueueUpload(r)
  BY <1>1, <1>3, AcceptKeepsIngest, StoreFileKeepsIngest, EnqueueUploadKeepsIngest
<1>4. CASE Refuse(r) \/ Answer(r) \/ FailUpload(r)
  <2>1. /\ UNCHANGED <<fileCount, original, quarantine, jobState, jobKey, files, sent, batchOf>>
        /\ \A q \in Request : /\ stage'[q] \in {"new", "refused"} <=> stage[q] \in {"new", "refused"}
                              /\ Accepted(q)' => Accepted(q)
                              /\ stage'[q] = "answered" => sent[q] = Len(files[q])
    BY <1>4 DEF Accepted, IngestInv, CountInv, Refuse, Answer, FailUpload, TypeOK, ApiTypeOK, storeVars, batchVars, blobVars,
       queueVars
  <2>2. JobsFinite' /\ JobCount' = JobCount
    BY <1>1, <2>1, SameJobs DEF IngestInv, CountInv
  <2> QED
    BY <1>1, <2>1, <2>2, SeparateStays, CountStays, RejectsStay DEF IngestInv, watcherVars
<1> QED
  BY <1>2, <1>3, <1>4 DEF RequestStep

-----------------------------------------------------------------------------
(* The workers.                                                            *)

LEMMA WorkerKeepsIngest ==
  ASSUME TypeOK, IInv, IngestInv, WorkerStep, UNCHANGED <<watcherVars, apiVars>>
  PROVE  IngestInv'
<1>1. Grows
  BY WorkerGrows
<1>2. UNCHANGED <<fileCount, original, quarantine>>
  BY DEF WorkerStep, JobStep, TakeJob, Predict, UploadOverlay, SavePrediction, FinishJob,
     RaiseInJob, SelectStatus, CommitStatus, UpdateStatus, AwaitJob, CrashWorker,
     ReapAbandonedJob, RequeueJob, storeVars, batchVars, blobVars
<1>3. JobsFinite' /\ JobCount' = JobCount
  BY <1>1, WorkerAddsNoJob, SameJobs DEF IngestInv, CountInv
<1>4. \A r \in Request : /\ stage[r] = "answered" => sent[r] = Len(files[r])
                         /\ Accepted(r)' => Accepted(r)
  BY DEF IngestInv, CountInv, Accepted, apiVars
<1> QED
  BY <1>1, <1>2, <1>3, <1>4, SeparateStays, CountStays, RejectsStay
     DEF IngestInv, watcherVars, apiVars

-----------------------------------------------------------------------------
(* The theorems.                                                           *)

LEMMA IngestInit == Init => IngestInv
<1> SUFFICES ASSUME Init PROVE IngestInv
  OBVIOUS
<1> USE DEF Init, StoresInit, WatcherInit, ApiInit
<1>1. SeparateInv /\ RejectsInv
  BY DEF SeparateInv, RejectsInv, Key
<1>2. \A b \in BatchId : JobsOf(b) = {}
  BY DEF JobsOf
<1>3. JobsFinite /\ \A b \in BatchId : JobCount[b] = 0 /\ fileCount[b] = 0
  BY <1>2, FS_EmptySet DEF JobsFinite, JobCount
<1>4. CountInv
  BY <1>3 DEF CountInv, Accepted
<1> QED
  BY <1>1, <1>4 DEF IngestInv

LEMMA IngestNext ==
  ASSUME TypeOK, TypeOK', IInv, IngestInv, [Next]_vars PROVE IngestInv'
<1>1. CASE UNCHANGED vars
  <2> USE <1>1 DEF vars, storeVars, batchVars, blobVars, queueVars, watcherVars, apiVars
  <2>1. SeparateInv' /\ RejectsInv'
    BY DEF IngestInv, SeparateInv, RejectsInv
  <2>2. JobsFinite' /\ JobCount' = JobCount
    BY DEF IngestInv, CountInv, JobsFinite, JobCount, JobsOf
  <2>3. CountInv'
    BY <2>2 DEF IngestInv, CountInv, Accepted
  <2> QED
    BY <2>1, <2>2, <2>3 DEF IngestInv
<1> QED
  BY <1>1, WatcherKeepsIngest, ApiKeepsIngest, WorkerKeepsIngest DEF Next

\* The inductive invariant: a batch has one owner, which still holds every file
\* that has no job yet, and a file of a poll leaves one trace only.
THEOREM IngestTheorem == Spec => []IngestInv
<1>1. TypeOK /\ IInv /\ TypeOK' /\ IngestInv /\ [Next]_vars => IngestInv'
  BY IngestNext
<1> QED
  BY <1>1, IngestInit, InvariantTheorem, PTL DEF Spec

-----------------------------------------------------------------------------
(* The files of a request: what each name was enqueued for and holds.      *)

JobsFor(b, n) == JobsOf(b) \cap JobsNamed(n)

\* How many files of the request have their object.
Stored(r) == IF stage[r] = "enqueue" THEN sent[r] + 1 ELSE sent[r]

\* One job per name and file enqueued, and in MinIO the last file of each name.
FilesOk(r) ==
    stage[r] \in {"store", "enqueue", "answered"} =>
        /\ \A n \in Name :
              Cardinality(JobsFor(batchOf[r], n)) = Cardinality(FilesNamed(r, n, sent[r]))
        /\ \A i \in 1 .. Stored(r) :
              (\A k \in FilesNamed(r, files[r][i][1], Stored(r)) : k <= i) =>
                  original[<<batchOf[r], files[r][i][1]>>] = files[r][i][2]

FilesInv == \A r \in Request : FilesOk(r)

\* The next file is one more of its name.
LEMMA OneMoreNamed ==
  ASSUME NEW r \in Request, NEW n \in Name, NEW m \in Nat, NEW p, p = m + 1
  PROVE  /\ files[r][p][1] = n =>
              Cardinality(FilesNamed(r, n, p)) = Cardinality(FilesNamed(r, n, m)) + 1
         /\ files[r][p][1] # n => FilesNamed(r, n, p) = FilesNamed(r, n, m)
<1>1. FilesNamed(r, n, m) \subseteq 1 .. m /\ IsFiniteSet(1 .. m)
  BY FS_Interval DEF FilesNamed
<1>2. \A i : i \in 1 .. p <=> i \in 1 .. m \/ i = p
  OBVIOUS
<1>3. p \notin FilesNamed(r, n, m)
  BY DEF FilesNamed
<1>4. Cardinality(FilesNamed(r, n, m) \cup {p}) = Cardinality(FilesNamed(r, n, m)) + 1
  BY <1>1, <1>3, FS_Subset, FS_AddElement
<1>5. files[r][p][1] = n => FilesNamed(r, n, p) = FilesNamed(r, n, m) \cup {p}
  BY <1>2 DEF FilesNamed
<1>6. files[r][p][1] # n => FilesNamed(r, n, p) = FilesNamed(r, n, m)
  BY <1>2 DEF FilesNamed
<1> QED
  BY <1>4, <1>5, <1>6

LEMMA JobsForFinite ==
  ASSUME JobsFinite, NEW b \in BatchId, NEW n PROVE IsFiniteSet(JobsFor(b, n))
<1>1. JobsFor(b, n) \subseteq JobsOf(b)
  BY DEF JobsFor
<1> QED
  BY <1>1, FS_Subset DEF JobsFinite

\* A new job is one more under its batch and name.
LEMMA OneMoreJobFor ==
  ASSUME TypeOK, NEW j \in JobId, NEW k \in Key, Enqueue(j, k), NEW b \in BatchId, NEW n
  PROVE  /\ j \notin JobsFor(b, n)
         /\ JobsFor(b, n)' = IF b = k[1] /\ n = k[2] THEN JobsFor(b, n) \cup {j}
                             ELSE JobsFor(b, n)
  BY DEF JobsFor, JobsOf, JobsNamed, Enqueue, TypeOK, StoresTypeOK

LEMMA SameJobsFor ==
  ASSUME Grows, \A j \in JobId : jobState'[j] # "none" => jobState[j] # "none",
         NEW b \in BatchId, NEW n
  PROVE  JobsFor(b, n)' = JobsFor(b, n)
  BY DEF JobsFor, JobsOf, JobsNamed, Grows

LEMMA SameQueue ==
  ASSUME UNCHANGED queueVars, NEW b \in BatchId, NEW n PROVE JobsFor(b, n)' = JobsFor(b, n)
  BY DEF queueVars, JobsFor, JobsOf, JobsNamed

\* What is stored is among the accepted files.
LEMMA StoredFiles ==
  ASSUME TypeOK, IInv, CountInv, NEW r \in Request, Accepted(r)
  PROVE  /\ Stored(r) \in Nat /\ Stored(r) <= Len(files[r])
         /\ \A i \in 1 .. Stored(r) : files[r][i] \in Name \X Content
<1>1. files[r] \in Seq(Name \X Content) /\ sent[r] \in Nat /\ Len(files[r]) \in Nat
  BY LenProperties DEF TypeOK, ApiTypeOK
<1>2. sent[r] <= Len(files[r]) /\ (stage[r] = "enqueue" => sent[r] < Len(files[r]))
  BY DEF CountInv, IInv, ApiInv
<1>3. Stored(r) \in Nat /\ Stored(r) <= Len(files[r])
  BY <1>1, <1>2 DEF Stored
<1>4. \A i \in 1 .. Stored(r) : i \in 1 .. Len(files[r])
  BY ONLY <1>1, <1>3
<1> QED
  BY <1>1, <1>3, <1>4, ElementOfSeq

\* A request is as well off as before when nobody touched it or its batch.
LEMMA FilesStay ==
  ASSUME TypeOK, IInv, IngestInv, NEW r \in Request, FilesOk(r),
         stage'[r] \in {"store", "enqueue", "answered"} =>
             stage[r] \in {"store", "enqueue", "answered"} /\ Stored(r)' = Stored(r),
         files'[r] = files[r], sent'[r] = sent[r], batchOf'[r] = batchOf[r],
         \A b \in BatchId, n \in Name : b = batchOf[r] =>
             JobsFor(b, n)' = JobsFor(b, n) /\ original'[<<b, n>>] = original[<<b, n>>]
  PROVE  FilesOk(r)'
<1> SUFFICES ASSUME stage'[r] \in {"store", "enqueue", "answered"} PROVE FilesOk(r)'
  BY DEF FilesOk
<1>1. Accepted(r) /\ batchOf[r] \in BatchId
  BY DEF IngestInv, SeparateInv, Accepted, TypeOK, ApiTypeOK
<1>2. \A i \in 1 .. Stored(r) : files[r][i][1] \in Name
  BY <1>1, StoredFiles DEF IngestInv
<1>3. \A n, m : FilesNamed(r, n, m)' = FilesNamed(r, n, m)
  BY DEF FilesNamed
<1>4. ASSUME NEW n \in Name
      PROVE  Cardinality(JobsFor(batchOf[r], n))' = Cardinality(FilesNamed(r, n, sent[r]))'
  <2>1. PICK b \in BatchId : b = batchOf[r]
    BY <1>1
  <2>2. Cardinality(JobsFor(b, n))' = Cardinality(FilesNamed(r, n, sent[r]))
    BY <2>1 DEF FilesOk
  <2> QED
    BY <1>3, <2>1, <2>2 DEF JobsFor, JobsOf
<1>5. ASSUME NEW i \in 1 .. Stored(r), \A k \in FilesNamed(r, files[r][i][1], Stored(r)) : k <= i
      PROVE  original'[<<batchOf[r], files[r][i][1]>>] = files[r][i][2]
  BY <1>1, <1>2, <1>5 DEF FilesOk
<1> DEFINE S == Stored(r)
<1>6. Stored(r)' = S
  OBVIOUS
<1> HIDE DEF S
<1> QED
  BY <1>3, <1>4, <1>5, <1>6 DEF FilesOk, S

LEMMA WatcherKeepsFiles ==
  ASSUME TypeOK, IInv, IngestInv, FilesInv, WatcherNext, UNCHANGED apiVars PROVE FilesInv'
<1> SUFFICES ASSUME NEW r \in Request PROVE FilesOk(r)'
  BY DEF FilesInv
<1>1. FilesOk(r) /\ UNCHANGED <<stage, files, sent, batchOf>> /\ Stored(r)' = Stored(r)
  BY DEF FilesInv, apiVars, Stored
<1>2. SUFFICES ASSUME NEW b \in BatchId, b = batchOf[r], NEW n \in Name
               PROVE  JobsFor(b, n)' = JobsFor(b, n) /\ original'[<<b, n>>] = original[<<b, n>>]
  BY <1>1, FilesStay
<1>3. phase # "idle" => b # into
  BY <1>2, ApiAssumption DEF IngestInv, SeparateInv
<1>4. CASE EnqueueFile
  <2>1. UNCHANGED original /\ phase # "idle" /\ <<into, file>> \in Key
    BY <1>4 DEF EnqueueFile, blobVars, IInv, WatcherInv, Backed
  <2>2. CASE \E j \in JobId : Enqueue(j, <<into, file>>)
    BY <1>3, <2>1, <2>2, OneMoreJobFor
  <2>3. CASE UNCHANGED queueVars
    BY <2>1, <2>3, SameQueue
  <2> QED
    BY <1>4, <2>2, <2>3 DEF EnqueueFile
<1>5. CASE ~EnqueueFile
  <2>1. UNCHANGED queueVars
    <3>1. CASE Poll
      BY <3>1 DEF Poll
    <3>2. CASE ~Poll
      BY <1>5, <3>2, WatcherCarries DEF IngestInv
    <3> QED
      BY <3>1, <3>2
  <2>2. CASE UploadFile
    <3>1. /\ phase # "idle" /\ <<into, file>> # <<b, n>>
          /\ \/ original' = original
             \/ original' = [original EXCEPT ![<<into, file>>] = data]
      BY <1>3, <2>2 DEF UploadFile, PutOriginal
    <3> QED
      BY <1>3, <2>1, <3>1, SameQueue DEF TypeOK, StoresTypeOK, Key
  <2>3. CASE ~UploadFile
    <3>1. UNCHANGED original
      BY <1>5, <2>3 DEF WatcherNext, WatcherStep, Poll, EndPoll, StatFile, ReadFile,
         QuarantineFile, BeginFile, PollNothing, RestartWatcher, ScannerStep, DropFile,
         StartSlowDrop, ContinueSlowDrop, RemoveFile, Write, storeVars, blobVars
    <3> QED
      BY <2>1, <3>1, SameQueue
  <2> QED
    BY <2>2, <2>3
<1> QED
  BY <1>4, <1>5

LEMMA WorkerKeepsFiles ==
  ASSUME TypeOK, IInv, IngestInv, FilesInv, WorkerStep, UNCHANGED apiVars PROVE FilesInv'
<1> SUFFICES ASSUME NEW r \in Request PROVE FilesOk(r)'
  BY DEF FilesInv
<1>1. FilesOk(r) /\ UNCHANGED <<stage, files, sent, batchOf>> /\ Stored(r)' = Stored(r)
  BY DEF FilesInv, apiVars, Stored
<1>2. UNCHANGED original
  BY DEF WorkerStep, JobStep, TakeJob, Predict, UploadOverlay, SavePrediction, FinishJob,
     RaiseInJob, SelectStatus, CommitStatus, AwaitJob, CrashWorker,
     ReapAbandonedJob, RequeueJob, storeVars, blobVars
<1>3. \A b \in BatchId, n \in Name : JobsFor(b, n)' = JobsFor(b, n)
  BY WorkerGrows, WorkerAddsNoJob, SameJobsFor
<1> QED
  BY <1>1, <1>2, <1>3, FilesStay

\* The other requests have batches of their own.
LEMMA OthersKeepFiles ==
  ASSUME TypeOK, IInv, IngestInv, FilesInv, NEW r \in Request, RequestStep(r) \/ FailUpload(r),
         NEW q \in Request \ {r}
  PROVE  FilesOk(q)'
<1>1. FilesOk(q) /\ Grows
  BY ApiGrows DEF FilesInv, ApiStep
<1>2. /\ stage'[q] = stage[q] /\ files'[q] = files[q]
      /\ sent'[q] = sent[q] /\ batchOf'[q] = batchOf[q]
  BY DEF RequestStep, FailUpload, Refuse, Accept, StoreFile, EnqueueUpload, Answer,
     TypeOK, ApiTypeOK
<1>3. Stored(q)' = Stored(q)
  BY <1>2 DEF Stored
<1>4. SUFFICES ASSUME NEW b \in BatchId, b = batchOf[q], NEW n \in Name
               PROVE  JobsFor(b, n)' = JobsFor(b, n) /\ original'[<<b, n>>] = original[<<b, n>>]
  BY <1>1, <1>2, <1>3, FilesStay
<1>5. b # batchOf[r]
  BY <1>4, ApiAssumption DEF IngestInv, SeparateInv
<1>6. CASE StoreFile(r)
  <2>1. UNCHANGED queueVars /\ original' = [original EXCEPT ![NextKey(r)] = Turn(r)[2]]
    BY <1>6 DEF StoreFile, PutOriginal
  <2>2. NextKey(r) # <<b, n>>
    BY <1>5 DEF NextKey
  <2> QED
    BY <1>5, <2>1, <2>2, SameQueue DEF TypeOK, StoresTypeOK, Key
<1>7. CASE EnqueueUpload(r)
  <2>1. PICK j \in JobId : Enqueue(j, NextKey(r))
    BY <1>7 DEF EnqueueUpload
  <2>2. UNCHANGED original /\ NextKey(r) \in Key /\ NextKey(r)[1] # b
    BY <1>5, <1>7 DEF EnqueueUpload, blobVars, NextKey, IInv, ApiInv, Backed
  <2> QED
    BY <1>5, <2>1, <2>2, OneMoreJobFor
<1>8. CASE Refuse(r) \/ Accept(r) \/ Answer(r) \/ FailUpload(r)
  <2>1. UNCHANGED queueVars /\ UNCHANGED original
    BY <1>8 DEF Refuse, Accept, Answer, FailUpload, storeVars, blobVars, queueVars
  <2> QED
    BY <2>1, SameQueue
<1> QED
  BY <1>6, <1>7, <1>8 DEF RequestStep

LEMMA AcceptKeepsFiles ==
  ASSUME TypeOK, IInv, NEW r \in Request, Accept(r) PROVE FilesOk(r)'
<1>1. PICK b \in BatchId, fs \in Payload :
         InsertBatch(b, Len(fs)) /\ batchOf' = [batchOf EXCEPT ![r] = b]
  BY DEF Accept
<1>2. /\ UNCHANGED queueVars /\ status[b] = "none" /\ batchOf'[r] = b
      /\ sent'[r] = 0 /\ stage'[r] = "store"
  BY <1>1 DEF Accept, InsertBatch, TypeOK, ApiTypeOK
<1>3. ASSUME NEW n \in Name PROVE JobsFor(b, n)' = {} /\ FilesNamed(r, n, 0)' = {}
  <2>1. JobsFor(b, n) = {}
    BY <1>2 DEF JobsFor, JobsOf, IInv, JobsInv, Backed
  <2>2. JobsFor(b, n)' = JobsFor(b, n)
    BY <1>2, SameQueue
  <2> QED
    BY <2>1, <2>2 DEF FilesNamed
<1>4. Stored(r)' = 0
  BY <1>2 DEF Stored
<1>5. ASSUME NEW n \in Name
      PROVE  Cardinality(JobsFor(batchOf[r], n))' = Cardinality(FilesNamed(r, n, sent[r]))'
  <2>1. JobsFor(batchOf[r], n)' = {} /\ FilesNamed(r, n, sent[r])' = {}
    BY <1>2, <1>3 DEF JobsFor, JobsOf, FilesNamed
  <2> QED
    BY <2>1
<1> QED
  BY <1>4, <1>5 DEF FilesOk

LEMMA StoreKeepsFiles ==
  ASSUME TypeOK, IInv, IngestInv, NEW r \in Request, FilesOk(r), StoreFile(r) PROVE FilesOk(r)'
<1>1. PICK b \in BatchId : b = batchOf[r]
  BY DEF StoreFile, IInv, ApiInv
<1>2. PICK m \in Nat : m = sent[r]
  BY DEF TypeOK, ApiTypeOK
<1>3. /\ stage[r] = "store" /\ stage'[r] = "enqueue" /\ sent'[r] = m /\ batchOf'[r] = b
      /\ UNCHANGED <<files, queueVars>>
      /\ original' = [original EXCEPT ![<<b, files[r][m + 1][1]>>] = files[r][m + 1][2]]
      /\ sent[r] < Len(files[r])
  BY <1>1, <1>2 DEF StoreFile, PutOriginal, NextKey, Turn, TypeOK, ApiTypeOK
<1>4. Stored(r) = m /\ Stored(r)' = m + 1 /\ Accepted(r)
  BY <1>2, <1>3 DEF Stored, Accepted
<1>5. \A i \in 1 .. m : files[r][i][1] \in Name
  BY <1>4, StoredFiles DEF IngestInv
<1>6. files[r][m + 1][1] \in Name
  BY <1>2, <1>3, TurnIsAFile DEF TypeOK, Turn
<1>7. ASSUME NEW n \in Name
      PROVE  Cardinality(JobsFor(batchOf[r], n))' = Cardinality(FilesNamed(r, n, sent[r]))'
  <2>1. Cardinality(JobsFor(b, n)) = Cardinality(FilesNamed(r, n, m))
    BY <1>1, <1>2, <1>3 DEF FilesOk
  <2>2. JobsFor(b, n)' = JobsFor(b, n) /\ FilesNamed(r, n, m)' = FilesNamed(r, n, m)
    BY <1>3, SameQueue DEF FilesNamed
  <2> QED
    BY <1>1, <1>2, <1>3, <2>1, <2>2 DEF JobsFor, JobsOf, FilesNamed
<1>8. ASSUME NEW i \in 1 .. m + 1, \A k \in FilesNamed(r, files[r][i][1], m + 1) : k <= i
      PROVE  original'[<<b, files[r][i][1]>>] = files[r][i][2]
  <2>1. CASE i = m + 1
    BY <1>3, <1>6, <2>1 DEF TypeOK, StoresTypeOK, Key
  <2>2. CASE i # m + 1
    <3>1. i \in 1 .. m /\ m + 1 \in 1 .. m + 1 /\ ~(m + 1 <= i)
      BY ONLY <2>2, i \in 1 .. m + 1, m \in Nat
    <3>2. files[r][m + 1][1] # files[r][i][1]
      BY <1>8, <3>1 DEF FilesNamed
    <3>3. \A k \in FilesNamed(r, files[r][i][1], m) : k <= i
      BY <1>8 DEF FilesNamed
    <3>4. original[<<b, files[r][i][1]>>] = files[r][i][2]
      BY <1>1, <1>3, <1>4, <3>1, <3>3 DEF FilesOk
    <3>5. <<b, files[r][i][1]>> \in Key /\ <<b, files[r][i][1]>> # <<b, files[r][m + 1][1]>>
      BY <1>5, <3>1, <3>2 DEF Key
    <3> QED
      BY <1>3, <3>4, <3>5 DEF TypeOK, StoresTypeOK
  <2> QED
    BY <2>1, <2>2
<1> QED
  BY <1>3, <1>4, <1>7, <1>8 DEF FilesOk, FilesNamed

LEMMA EnqueueKeepsFiles ==
  ASSUME TypeOK, IInv, IngestInv, NEW r \in Request, FilesOk(r), EnqueueUpload(r)
  PROVE  FilesOk(r)'
<1>1. PICK b \in BatchId : b = batchOf[r]
  BY DEF EnqueueUpload, IInv, ApiInv
<1>2. PICK m \in Nat : m = sent[r]
  BY DEF TypeOK, ApiTypeOK
<1>3. /\ stage[r] = "enqueue" /\ stage'[r] = "store" /\ sent'[r] = m + 1 /\ batchOf'[r] = b
      /\ UNCHANGED <<files, original>>
      /\ NextKey(r) = <<b, files[r][m + 1][1]>> /\ NextKey(r) \in Key
  BY <1>1, <1>2 DEF EnqueueUpload, blobVars, NextKey, Turn, TypeOK, ApiTypeOK, IInv, ApiInv, Backed
<1>4. Stored(r) = m + 1 /\ Stored(r)' = m + 1
  BY <1>2, <1>3 DEF Stored
<1>5. PICK j \in JobId : Enqueue(j, <<b, files[r][m + 1][1]>>)
  BY <1>3 DEF EnqueueUpload
<1>6. ASSUME NEW n \in Name
      PROVE  Cardinality(JobsFor(batchOf[r], n))' = Cardinality(FilesNamed(r, n, sent[r]))'
  <2>1. Cardinality(JobsFor(b, n)) = Cardinality(FilesNamed(r, n, m))
    BY <1>1, <1>2, <1>3 DEF FilesOk
  <2>2. /\ j \notin JobsFor(b, n)
        /\ JobsFor(b, n)' = IF files[r][m + 1][1] = n THEN JobsFor(b, n) \cup {j}
                            ELSE JobsFor(b, n)
    BY <1>3, <1>5, OneMoreJobFor
  <2>3. IsFiniteSet(JobsFor(b, n))
    BY JobsForFinite DEF IngestInv, CountInv
  <2>4. Cardinality(JobsFor(b, n)') = Cardinality(FilesNamed(r, n, m + 1))
    <3>1. PICK p \in Nat : p = m + 1
      OBVIOUS
    <3>2. /\ files[r][p][1] = n =>
                Cardinality(FilesNamed(r, n, p)) = Cardinality(FilesNamed(r, n, m)) + 1
          /\ files[r][p][1] # n => FilesNamed(r, n, p) = FilesNamed(r, n, m)
      BY <3>1, OneMoreNamed
    <3>3. Cardinality(JobsFor(b, n) \cup {j}) = Cardinality(JobsFor(b, n)) + 1
      BY <2>2, <2>3, FS_AddElement
    <3>4. Cardinality(JobsFor(b, n)') = Cardinality(FilesNamed(r, n, p))
      BY <2>1, <2>2, <3>1, <3>2, <3>3
    <3> QED
      BY <3>1, <3>4
  <2>5. FilesNamed(r, n, m + 1)' = FilesNamed(r, n, m + 1)
    BY <1>3 DEF FilesNamed
  <2> QED
    BY <1>3, <2>4, <2>5 DEF JobsFor, JobsOf, FilesNamed
<1>7. ASSUME NEW i \in 1 .. m + 1, \A k \in FilesNamed(r, files[r][i][1], m + 1) : k <= i
      PROVE  original'[<<b, files[r][i][1]>>] = files[r][i][2]
  BY <1>1, <1>3, <1>4, <1>7 DEF FilesOk
<1> QED
  BY <1>3, <1>4, <1>6, <1>7 DEF FilesOk, FilesNamed

LEMMA ApiKeepsFiles ==
  ASSUME TypeOK, IInv, IngestInv, FilesInv, ApiStep PROVE FilesInv'
<1>1. PICK r \in Request : RequestStep(r) \/ FailUpload(r)
  BY DEF ApiStep
<1>2. \A q \in Request \ {r} : FilesOk(q)'
  BY <1>1, OthersKeepFiles
<1>3. FilesOk(r)
  BY DEF FilesInv
<1>4. CASE Accept(r) \/ StoreFile(r) \/ EnqueueUpload(r)
  BY <1>2, <1>3, <1>4, AcceptKeepsFiles, StoreKeepsFiles, EnqueueKeepsFiles DEF FilesInv
<1>5. CASE Refuse(r) \/ FailUpload(r)
  <2>1. stage'[r] \notin {"store", "enqueue", "answered"}
    BY <1>5 DEF Refuse, FailUpload, TypeOK, ApiTypeOK
  <2> QED
    BY <1>2, <2>1 DEF FilesInv, FilesOk
<1>6. CASE Answer(r)
  <2>1. /\ stage[r] = "store" /\ stage'[r] = "answered"
        /\ UNCHANGED <<files, sent, batchOf, original, queueVars>>
    BY <1>6 DEF Answer, TypeOK, ApiTypeOK, storeVars, blobVars
  <2>2. Stored(r)' = Stored(r)
    BY <2>1 DEF Stored
  <2>3. FilesOk(r)'
    BY <1>3, <2>1, <2>2, SameQueue, FilesStay
  <2> QED
    BY <1>2, <2>3 DEF FilesInv
<1> QED
  BY <1>1, <1>4, <1>5, <1>6 DEF RequestStep

\* A 200 of POST /upload means one job for each file, under its name, and for
\* each name the bytes of its last file, whatever the watcher, the workers and
\* the other requests do at the same time.
THEOREM AnsweredTheorem == Spec => []AnsweredMeansEnqueued
<1>1. Init => FilesInv
  BY DEF Init, ApiInit, FilesInv, FilesOk
<1>2. TypeOK /\ IInv /\ IngestInv /\ FilesInv /\ [Next]_vars => FilesInv'
  <2> SUFFICES ASSUME TypeOK, IInv, IngestInv, FilesInv, [Next]_vars PROVE FilesInv'
    OBVIOUS
  <2>1. CASE UNCHANGED vars
    <3>1. UNCHANGED <<stage, files, sent, batchOf, original, queueVars>>
      BY <2>1 DEF vars, storeVars, blobVars, apiVars
    <3>2. \A r \in Request : Stored(r)' = Stored(r)
      BY <3>1 DEF Stored
    <3> QED
      BY <3>1, <3>2, SameQueue, FilesStay DEF FilesInv
  <2> QED
    BY <2>1, WatcherKeepsFiles, ApiKeepsFiles, WorkerKeepsFiles DEF Next
<1>3. TypeOK /\ IngestInv /\ FilesInv => AnsweredMeansEnqueued
  <2> SUFFICES ASSUME TypeOK, IngestInv, FilesInv, NEW r \in Request, stage[r] = "answered"
               PROVE  /\ Cardinality(JobsOf(batchOf[r])) = fileCount[batchOf[r]]
                      /\ \A n \in Name : Cardinality(JobsOf(batchOf[r]) \cap JobsNamed(n)) =
                                         Cardinality(FilesNamed(r, n, Len(files[r])))
                      /\ \A i \in 1 .. Len(files[r]) :
                            (\A k \in FilesNamed(r, files[r][i][1], Len(files[r])) : k <= i) =>
                                original[<<batchOf[r], files[r][i][1]>>] = files[r][i][2]
    BY DEF AnsweredMeansEnqueued
  <2>1. Accepted(r) /\ batchOf[r] \in BatchId
    BY DEF IngestInv, SeparateInv, Accepted, TypeOK, ApiTypeOK
  <2>2. JobCount[batchOf[r]] = fileCount[batchOf[r]] /\ sent[r] = Len(files[r])
    BY <2>1 DEF IngestInv, CountInv
  <2>3. FilesOk(r) /\ Stored(r) = sent[r]
    BY DEF FilesInv, Stored
  <2> QED
    BY <2>1, <2>2, <2>3 DEF JobCount, FilesOk, JobsFor
<1> QED
  BY <1>1, <1>2, <1>3, InvariantTheorem, IngestTheorem, PTL DEF Spec

\* Whoever enqueues a job has stored its bytes and created its batch before, and
\* no batch gets more jobs than the files it was created for.
THEOREM BackedTheorem == Spec => []JobsAreBacked
<1>1. IInv /\ IngestInv => JobsAreBacked
  <2> SUFFICES ASSUME IInv, IngestInv PROVE JobsAreBacked
    OBVIOUS
  <2>1. \A b \in BatchId : Cardinality(JobsOf(b)) <= fileCount[b]
    BY DEF IngestInv, CountInv, JobCount
  <2>2. \A j \in JobId : jobState[j] # "none" =>
           jobKey[j][2] \in Tiff /\ original[jobKey[j]] \notin {"absent", "empty", "oversized"}
    BY DEF IInv, JobsInv, Backed, Ingestable, Content
  <2> QED
    BY <2>1, <2>2 DEF JobsAreBacked
<1> QED
  BY <1>1, InvariantTheorem, IngestTheorem, PTL

\* What _reject_reason refuses is never stored as an original, and no file of a
\* poll is both ingested and quarantined, whatever the scanner does meanwhile.
THEOREM RejectsTheorem == Spec => []RejectsStayOut
<1>1. IngestInv => RejectsStayOut
  <2> SUFFICES ASSUME IngestInv, NEW n \in Dropped, NEW b \in BatchId, original[<<b, n>>] # "absent"
               PROVE  /\ n \in Tiff /\ <<b, n>> \notin quarantine
                      /\ original[<<b, n>>] \notin {"empty", "oversized"}
    BY DEF RejectsStayOut
  <2>1. <<b, n>> \in Key /\ <<b, n>>[2] = n
    BY WatcherAssumption DEF Key
  <2> QED
    BY <2>1 DEF IngestInv, RejectsInv, Ingestable
<1> QED
  BY <1>1, IngestTheorem, PTL
=============================================================================
