---------------------------- MODULE WatcherProofs ----------------------------
(***************************************************************************)
(* What the watcher promises of its file names: how often one is enqueued  *)
(* while only the watcher runs, and what being seen means in the composed  *)
(* system.                                                                 *)
(***************************************************************************)
EXTENDS IngestProofs

\* Of the watcher by itself: what _seen holds has been enqueued once in this run
\* of the process, and what a poll still holds has not.
NamesFinite == \A n \in Dropped : IsFiniteSet(JobsNamed(n))
NameCount   == [n \in Dropped |-> Cardinality(JobsNamed(n))]

AloneInv ==
    /\ phase # "idle" => into \in BatchId
    /\ phase \notin {"idle", "next"} => file \in todo
    /\ todo \cap seen = {}
    /\ NamesFinite
    /\ \A n \in Dropped : NameCount[n] <= restarts + (IF n \in seen THEN 1 ELSE 0)

\* A scan is kept when its object is in a batch that no request owns.
KeptIn(n, b) ==
    /\ original[<<b, n>>] = "whole"
    /\ \A r \in Request : batchOf[r] # b

\* Of the watcher among the others, while uploads appear complete and stay: what
\* it read is what the directory holds, and what it stored nobody overwrites.
KeptInv ==
    /\ \A n \in seen \cup todo : drop[n] # "absent"
    /\ phase \in {"quarantine", "upload", "enqueue"} => data = drop[file]
    /\ phase = "quarantine" => Rejected(file, data)
    /\ phase = "enqueue" => original[<<into, file>>] = data
    /\ \A n \in seen \cap Tiff : drop[n] = "whole" => \E b \in BatchId : KeptIn(n, b)

-----------------------------------------------------------------------------
(* The watcher by itself.                                                  *)

LEMMA NameCountType == ASSUME NamesFinite PROVE NameCount \in [Dropped -> Nat]
  BY FS_CardinalityType DEF NamesFinite, NameCount

\* An enqueued job is one more of its name.
LEMMA OneMoreOfName ==
  ASSUME StoresTypeOK, NamesFinite, NEW j \in JobId, NEW k \in Key, k[2] \in Dropped,
         Enqueue(j, k)
  PROVE  /\ NamesFinite'
         /\ NameCount' = [NameCount EXCEPT ![k[2]] = NameCount[k[2]] + 1]
<1>1. ASSUME NEW n \in Dropped
      PROVE  JobsNamed(n)' = IF n = k[2] THEN JobsNamed(n) \cup {j} ELSE JobsNamed(n)
  BY DEF JobsNamed, Enqueue, StoresTypeOK
<1>2. ASSUME NEW n \in Dropped PROVE j \notin JobsNamed(n)
  BY DEF JobsNamed, Enqueue
<1>3. NamesFinite'
  BY <1>1, FS_AddElement DEF NamesFinite
<1>4. ASSUME NEW n \in Dropped
      PROVE  Cardinality(JobsNamed(n)') =
                IF n = k[2] THEN Cardinality(JobsNamed(n)) + 1 ELSE Cardinality(JobsNamed(n))
  BY <1>1, <1>2, FS_AddElement DEF NamesFinite
<1> QED
  BY <1>3, <1>4 DEF NameCount

LEMMA SameNames ==
  ASSUME NamesFinite, UNCHANGED queueVars PROVE NamesFinite' /\ NameCount' = NameCount
<1>1. \A n \in Dropped : JobsNamed(n)' = JobsNamed(n)
  BY DEF JobsNamed, queueVars
<1> QED
  BY <1>1 DEF NamesFinite, NameCount

\* A step that enqueues nothing may see names, but gives up none it has seen
\* unless the process restarts.
LEMMA QuietKeepsAlone ==
  ASSUME WatcherTypeOK, AloneInv, UNCHANGED queueVars,
         phase' # "idle" => into' \in BatchId,
         phase' \notin {"idle", "next"} => file' \in todo',
         todo' \cap seen' = {}, restarts' \in Nat,
         \/ seen \subseteq seen' /\ restarts' = restarts
         \/ restarts' = restarts + 1
  PROVE  AloneInv'
<1>1. NamesFinite' /\ NameCount' = NameCount
  BY SameNames DEF AloneInv
<1>2. NameCount \in [Dropped -> Nat] /\ restarts \in Nat
  BY NameCountType, WatcherAssumption DEF AloneInv, WatcherTypeOK
<1> QED
  BY <1>1, <1>2 DEF AloneInv

LEMMA EnqueueKeepsAlone ==
  ASSUME StoresTypeOK, WatcherTypeOK, AloneInv, EnqueueFile PROVE AloneInv'
<1>1. /\ file \in todo /\ file \notin seen /\ file \in Dropped /\ into \in BatchId
      /\ phase' = "next" /\ into' = into /\ todo' = todo \ {file}
      /\ seen' = seen \cup {file} /\ restarts' = restarts
  BY DEF EnqueueFile, NextFile, AloneInv, WatcherTypeOK
<1>2. CASE UNCHANGED queueVars
  BY <1>1, <1>2, QuietKeepsAlone, WatcherAssumption DEF AloneInv, WatcherTypeOK
<1>3. CASE \E j \in JobId : Enqueue(j, <<into, file>>)
  <2>1. <<into, file>> \in Key /\ <<into, file>>[2] = file
    BY <1>1, WatcherAssumption DEF Key
  <2>2. NamesFinite' /\ NameCount' = [NameCount EXCEPT ![file] = NameCount[file] + 1]
    BY <1>1, <1>3, <2>1, OneMoreOfName DEF AloneInv
  <2>3. NameCount \in [Dropped -> Nat] /\ restarts \in Nat
    BY NameCountType, WatcherAssumption DEF AloneInv, WatcherTypeOK
  <2> QED
    BY <1>1, <2>2, <2>3 DEF AloneInv
<1> QED
  BY <1>2, <1>3 DEF EnqueueFile

LEMMA WatcherKeepsAlone ==
  ASSUME StoresTypeOK, WatcherTypeOK, AloneInv, WatcherNext PROVE AloneInv'
<1>0. restarts \in Nat /\ restarts + 1 \in Nat
  BY WatcherAssumption DEF WatcherTypeOK
<1> USE DEF AloneInv, WatcherTypeOK, storeVars, watcherVars, localVars
<1>1. CASE Poll
  <2>1. UNCHANGED <<queueVars, seen, restarts>>
    BY <1>1 DEF Poll
  <2>2. \/ phase' = "idle" /\ todo' = {}
        \/ phase' = "next" /\ todo' = NewFiles /\ into' \in BatchId
    BY <1>1 DEF Poll, Suspended
  <2> QED
    BY <1>0, <2>1, <2>2, QuietKeepsAlone DEF NewFiles
<1>2. CASE StatFile \/ ReadFile \/ UploadFile
  BY <1>0, <1>2, QuietKeepsAlone DEF StatFile, ReadFile, UploadFile, NextFile
<1>3. CASE QuarantineFile
  BY <1>0, <1>3, QuietKeepsAlone DEF QuarantineFile, NextFile
<1>4. CASE EnqueueFile
  BY <1>4, EnqueueKeepsAlone
<1>5. CASE EndPoll \/ PollNothing \/ RestartWatcher
  BY <1>0, <1>5, QuietKeepsAlone DEF EndPoll, PollNothing, RestartWatcher, Suspended
<1>6. ASSUME NEW n \in Dropped, BeginFile(n) PROVE AloneInv'
  BY <1>0, <1>6, QuietKeepsAlone DEF BeginFile, Suspended
<1>7. CASE ScannerStep
  BY <1>0, <1>7, QuietKeepsAlone
     DEF ScannerStep, DropFile, StartSlowDrop, ContinueSlowDrop, RemoveFile, Write
<1> QED
  BY <1>1, <1>2, <1>3, <1>4, <1>5, <1>6, <1>7 DEF WatcherNext, WatcherStep

LEMMA AloneStart == AloneInit => StoresTypeOK /\ WatcherTypeOK /\ AloneInv
<1> SUFFICES ASSUME AloneInit PROVE StoresTypeOK /\ WatcherTypeOK /\ AloneInv
  OBVIOUS
<1> USE DEF AloneInit, StoresInit, WatcherInit
<1>1. StoresTypeOK
  BY StoresAssumption DEF StoresTypeOK, Status, Content
<1>2. WatcherTypeOK
  BY WatcherAssumption DEF WatcherTypeOK, Content
<1>3. \A n \in Dropped : JobsNamed(n) = {}
  BY DEF JobsNamed
<1>4. NamesFinite /\ \A n \in Dropped : NameCount[n] = 0
  BY <1>3, FS_EmptySet DEF NamesFinite, NameCount
<1> QED
  BY <1>1, <1>2, <1>4 DEF AloneInv

\* The variables of the watcher keep their types, and what it has seen it has
\* settled: its file is one of the poll, and no file of the poll is seen.
THEOREM AloneTheorem == WatcherSpec => [](StoresTypeOK /\ WatcherTypeOK /\ AloneInv)
<1> DEFINE I == StoresTypeOK /\ WatcherTypeOK /\ AloneInv
<1>1. I /\ [WatcherNext]_WatcherVars => I'
  <2>1. CASE WatcherNext
    BY <2>1, WatcherTypes, WatcherKeepsAlone DEF AloneInv, WatcherTypeOK
  <2>2. CASE UNCHANGED WatcherVars
    BY <2>2 DEF WatcherVars, storeVars, batchVars, blobVars, queueVars, watcherVars,
       StoresTypeOK, WatcherTypeOK, AloneInv, NamesFinite, NameCount, JobsNamed
  <2> QED
    BY <2>1, <2>2
<1> QED
  BY <1>1, AloneStart, PTL DEF WatcherSpec

\* One run of the watcher enqueues a name at most once, however often its
\* download, upload or enqueue fails; only a restart forgets what it has seen.
THEOREM OneJobTheorem == WatcherSpec => []AtMostOneJobPerRun
<1>1. StoresTypeOK /\ WatcherTypeOK /\ AloneInv => AtMostOneJobPerRun
  <2> SUFFICES ASSUME WatcherTypeOK, AloneInv, NEW n \in Dropped
               PROVE  Cardinality(JobsNamed(n)) <= restarts + 1
    BY DEF AtMostOneJobPerRun
  <2>1. NameCount[n] \in Nat /\ restarts \in Nat
    BY NameCountType, WatcherAssumption DEF AloneInv, WatcherTypeOK
  <2>2. NameCount[n] <= restarts + 1
    BY <2>1 DEF AloneInv
  <2> QED
    BY <2>2 DEF NameCount
<1> QED
  BY <1>1, AloneTheorem, PTL

\* The watcher's variables have their types when it runs by itself.
THEOREM WatcherTypeTheorem == WatcherSpec => []WatcherTypeOK
  BY AloneTheorem, PTL

-----------------------------------------------------------------------------
(* The watcher among the others, when the scanner only adds whole files.    *)

\* Nobody overwrites what a poll has stored and settled.
LEMMA WatcherKeepsScans ==
  ASSUME TypeOK, IInv, IngestInv, WatcherNext, UNCHANGED apiVars,
         NEW n \in Dropped, NEW b \in BatchId, KeptIn(n, b), n \in seen
  PROVE  KeptIn(n, b)'
<1>1. <<b, n>> \in Key
  BY WatcherAssumption DEF Key
<1>2. CASE UNCHANGED original
  BY <1>2 DEF KeptIn, apiVars
<1>3. CASE UploadFile
  <2>1. file \in todo /\ original[<<into, file>>] = "absent"
    BY <1>3 DEF UploadFile, IngestInv, RejectsInv
  <2>2. <<into, file>> # <<b, n>>
    BY <2>1 DEF KeptIn
  <2> QED
    BY <1>1, <1>3, <2>2 DEF UploadFile, PutOriginal, KeptIn, apiVars, TypeOK, StoresTypeOK
<1> QED
  BY <1>2, <1>3 DEF WatcherNext, WatcherStep, Poll, PollNothing, RestartWatcher, EndPoll, StatFile,
     ReadFile, QuarantineFile, EnqueueFile, BeginFile, ScannerStep, DropFile, StartSlowDrop,
     ContinueSlowDrop, RemoveFile, Write, storeVars, blobVars

LEMMA ApiKeepsScans ==
  ASSUME TypeOK, IInv, IngestInv, ApiStep, NEW n \in Dropped, NEW b \in BatchId, KeptIn(n, b)
  PROVE  KeptIn(n, b)'
<1>1. <<b, n>> \in Key /\ <<b, n>>[1] = b
  BY WatcherAssumption DEF Key
<1>2. status[b] # "none"
  BY <1>1 DEF KeptIn, IngestInv, RejectsInv
<1>3. PICK r \in Request : RequestStep(r) \/ FailUpload(r)
  BY DEF ApiStep
<1>4. CASE Accept(r)
  <2>1. PICK c \in BatchId : status[c] = "none" /\ batchOf' = [batchOf EXCEPT ![r] = c]
    BY <1>4 DEF Accept, InsertBatch
  <2> QED
    BY <1>2, <1>4, <2>1 DEF Accept, KeptIn, blobVars, TypeOK, ApiTypeOK
<1>5. CASE StoreFile(r)
  BY <1>1, <1>5 DEF StoreFile, PutOriginal, NextKey, KeptIn, TypeOK, StoresTypeOK
<1>6. CASE ~Accept(r) /\ ~StoreFile(r)
  BY <1>3, <1>6 DEF RequestStep, Refuse, EnqueueUpload, Answer, FailUpload, KeptIn, storeVars, blobVars
<1> QED
  BY <1>4, <1>5, <1>6

\* The locals of the watcher stay true while another process moves.
LEMMA OthersKeepKept ==
  ASSUME KeptInv, UNCHANGED watcherVars, seen \subseteq Dropped,
         phase = "enqueue" => original'[<<into, file>>] = original[<<into, file>>],
         \A n \in Dropped, b \in BatchId : KeptIn(n, b) => KeptIn(n, b)'
  PROVE  KeptInv'
<1>1. ASSUME NEW n \in seen \cap Tiff, drop[n] = "whole"
      PROVE  \E b \in BatchId : KeptIn(n, b)'
  <2>1. PICK b \in BatchId : KeptIn(n, b)
    BY <1>1 DEF KeptInv
  <2> QED
    BY <2>1
<1> QED
  BY <1>1 DEF KeptInv, Rejected, watcherVars

LEMMA ApiKeepsKept ==
  ASSUME TypeOK, IInv, IngestInv, KeptInv, ApiStep, UNCHANGED watcherVars PROVE KeptInv'
<1>1. seen \subseteq Dropped
  BY DEF TypeOK, WatcherTypeOK
<1>2. phase = "enqueue" => original'[<<into, file>>] = original[<<into, file>>]
  <2> SUFFICES ASSUME phase = "enqueue", NEW r \in Request, RequestStep(r) \/ FailUpload(r)
               PROVE  original'[<<into, file>>] = original[<<into, file>>]
    BY DEF ApiStep
  <2>1. <<into, file>> \in Key /\ batchOf[r] # into
    BY DEF IInv, WatcherInv, Backed, IngestInv, SeparateInv
  <2>2. CASE StoreFile(r)
    BY <2>1, <2>2 DEF StoreFile, PutOriginal, NextKey, TypeOK, StoresTypeOK
  <2>3. CASE ~StoreFile(r)
    BY <2>3 DEF RequestStep, Accept, Refuse, EnqueueUpload, Answer, FailUpload, storeVars, blobVars
  <2> QED
    BY <2>2, <2>3
<1> QED
  BY <1>1, <1>2, ApiKeepsScans, OthersKeepKept

LEMMA WorkerKeepsKept ==
  ASSUME TypeOK, KeptInv, WorkerStep, UNCHANGED <<watcherVars, apiVars>> PROVE KeptInv'
<1>1. seen \subseteq Dropped
  BY DEF TypeOK, WatcherTypeOK
<1>2. UNCHANGED original
  BY DEF WorkerStep, JobStep, TakeJob, Predict, UploadOverlay, SavePrediction, FinishJob,
     RaiseInJob, SelectStatus, CommitStatus, UpdateStatus, AwaitJob, CrashWorker,
     ReapAbandonedJob, RequeueJob, storeVars, batchVars, blobVars
<1> QED
  BY <1>1, <1>2, OthersKeepKept DEF KeptIn, apiVars

\* Every upload appears complete in the directory, and none is removed.
WholeUploads == Scanner = {}

\* The steps that settle no file: what is seen now was seen before.
LEMMA QuietKeepsKept ==
  ASSUME TypeOK, KeptInv, UNCHANGED drop, seen' \subseteq seen,
         \A n \in todo' : drop[n] # "absent",
         phase' \in {"quarantine", "upload", "enqueue"} => data' = drop[file'],
         phase' = "quarantine" => Rejected(file, data)',
         phase' = "enqueue" => original'[<<into', file'>>] = data',
         \A n \in seen, b \in BatchId : KeptIn(n, b) => KeptIn(n, b)'
  PROVE  KeptInv'
<1>1. ASSUME NEW n \in seen' \cap Tiff, drop'[n] = "whole"
      PROVE  \E b \in BatchId : KeptIn(n, b)'
  <2>1. n \in seen \cap Tiff /\ drop[n] = "whole"
    BY <1>1
  <2>2. PICK b \in BatchId : KeptIn(n, b)
    BY <2>1 DEF KeptInv
  <2> QED
    BY <2>1, <2>2
<1> QED
  BY <1>1 DEF KeptInv

\* A step that settles the file at hand has quarantined or stored it.
LEMMA SettleKeepsKept ==
  ASSUME TypeOK, KeptInv, UNCHANGED drop, NextFile, NEW f \in todo, f = file,
         seen' = seen \cup {f},
         f \in Tiff /\ drop[f] = "whole" => \E b \in BatchId : KeptIn(f, b)',
         \A n \in seen, b \in BatchId : KeptIn(n, b) => KeptIn(n, b)'
  PROVE  KeptInv'
<1>1. ASSUME NEW n \in seen \cap Tiff, drop[n] = "whole"
      PROVE  \E b \in BatchId : KeptIn(n, b)'
  <2>1. PICK b \in BatchId : KeptIn(n, b)
    BY <1>1 DEF KeptInv
  <2> QED
    BY <2>1
<1>2. \A n \in seen' \cap Tiff : drop'[n] = "whole" => \E b \in BatchId : KeptIn(n, b)'
  BY <1>1
<1>3. \A n \in seen' \cup todo' : drop'[n] # "absent"
  BY DEF KeptInv, NextFile
<1>4. phase' = "next"
  BY DEF NextFile
<1> QED
  BY <1>2, <1>3, <1>4 DEF KeptInv

LEMMA ScannerKeepsKept ==
  ASSUME WholeUploads, TypeOK, KeptInv, ScannerStep, UNCHANGED apiVars,
         phase \notin {"idle", "next"} => file \in todo
  PROVE  KeptInv'
<1>1. PICK n \in Dropped, c \in Scans : drop[n] = "absent" /\ Write(n, c)
  BY DEF ScannerStep, DropFile, StartSlowDrop, ContinueSlowDrop, RemoveFile, WholeUploads
<1>2. \A m \in seen \cup todo : drop'[m] = drop[m] /\ drop[m] # "absent"
  BY <1>1 DEF Write, KeptInv, TypeOK, WatcherTypeOK
<1>3. UNCHANGED <<original, seen, phase, todo, into, file, data, batchOf>>
  BY <1>1 DEF Write, storeVars, blobVars, apiVars
<1>4. ASSUME NEW m \in seen \cap Tiff, drop'[m] = "whole"
      PROVE  \E b \in BatchId : KeptIn(m, b)'
  <2>1. PICK b \in BatchId : KeptIn(m, b)
    BY <1>2, <1>4 DEF KeptInv
  <2> QED
    BY <1>3, <2>1 DEF KeptIn
<1> QED
  BY <1>2, <1>3, <1>4 DEF KeptInv, Rejected

LEMMA WatcherKeepsKept ==
  ASSUME WholeUploads, TypeOK, IInv, IngestInv, KeptInv, WatcherNext, UNCHANGED apiVars
  PROVE  KeptInv'
<1>1. seen \subseteq Dropped /\ todo \subseteq Dropped
  BY DEF TypeOK, WatcherTypeOK
<1>2. \A n \in seen, b \in BatchId : KeptIn(n, b) => KeptIn(n, b)'
  BY <1>1, WatcherKeepsScans
<1>3. \A n \in todo : drop[n] # "absent"
  BY DEF KeptInv
<1>4. phase \notin {"idle", "next"} => file \in todo
  BY DEF IngestInv, RejectsInv
<1> USE DEF localVars, storeVars, watcherVars, blobVars
<1>5. CASE ScannerStep
  BY <1>4, <1>5, ScannerKeepsKept
<1>6. CASE Poll
  <2>1. /\ UNCHANGED <<seen, drop>>
        /\ todo' = {} \/ todo' = NewFiles
        /\ phase' \in {"idle", "next"}
    BY <1>6 DEF Poll, Suspended
  <2> QED
    BY <1>2, <2>1, QuietKeepsKept DEF NewFiles
<1>7. CASE EndPoll \/ PollNothing \/ RestartWatcher
  <2>1. \/ seen' \subseteq seen /\ todo' = {} /\ phase' = "idle" /\ UNCHANGED drop
        \/ UNCHANGED <<drop, seen, todo, phase, file, data, into, original>>
    BY <1>7 DEF EndPoll, PollNothing, RestartWatcher, Suspended
  <2> QED
    BY <1>2, <1>3, <2>1, QuietKeepsKept DEF KeptInv, Rejected
<1>8. ASSUME NEW n \in Dropped, BeginFile(n) PROVE KeptInv'
  <2>1. original[<<into, n>>] = "absent"
    BY <1>8 DEF BeginFile, IngestInv, RejectsInv
  <2>2. /\ UNCHANGED <<drop, seen>> /\ todo' \subseteq todo
        /\ phase' \in {"idle", "stat"}
    BY <1>8, <2>1 DEF BeginFile, Suspended
  <2> QED
    BY <1>2, <1>3, <2>2, QuietKeepsKept
<1>9. CASE StatFile
  <2>1. /\ UNCHANGED <<drop, seen>> /\ todo' \subseteq todo /\ phase' \in {"next", "read"}
    BY <1>9 DEF StatFile, NextFile
  <2> QED
    BY <1>2, <1>3, <2>1, QuietKeepsKept
<1>10. CASE ReadFile
  <2>1. /\ UNCHANGED <<drop, seen>> /\ todo' \subseteq todo
        /\ \/ phase' = "next"
           \/ /\ phase' \in {"quarantine", "upload"} /\ file' = file /\ data' = drop[file]
              /\ phase' = "quarantine" => Rejected(file, drop[file])
    BY <1>10 DEF ReadFile, NextFile
  <2> QED
    BY <1>2, <1>3, <2>1, QuietKeepsKept DEF Rejected
<1>11. CASE QuarantineFile
  <2>1. ~(file \in Tiff /\ drop[file] = "whole")
    BY <1>11 DEF QuarantineFile, KeptInv, Rejected
  <2> QED
    BY <1>2, <1>4, <1>11, <2>1, SettleKeepsKept DEF QuarantineFile
<1>12. CASE UploadFile
  <2>1. /\ UNCHANGED <<drop, seen>> /\ todo' \subseteq todo /\ data = drop[file]
        /\ \/ phase' = "next"
           \/ /\ phase' = "enqueue" /\ UNCHANGED <<into, file, data>>
              /\ original' = [original EXCEPT ![<<into, file>>] = data]
    BY <1>12 DEF UploadFile, NextFile, PutOriginal, KeptInv
  <2>2. <<into, file>> \in Key
    BY <1>1, <1>4, <1>12, WatcherAssumption DEF UploadFile, IInv, WatcherInv, Key
  <2>3. phase' = "enqueue" => original'[<<into', file'>>] = data'
    BY <2>1, <2>2 DEF TypeOK, StoresTypeOK
  <2> QED
    BY <1>2, <1>3, <2>1, <2>3, QuietKeepsKept
<1>13. CASE EnqueueFile
  <2>1. /\ UNCHANGED <<drop, original, batchOf>> /\ seen' = seen \cup {file} /\ NextFile
        /\ into \in BatchId
        /\ original[<<into, file>>] = drop[file]
    BY <1>13 DEF EnqueueFile, KeptInv, IInv, WatcherInv, apiVars
  <2>2. PICK f \in todo, b \in BatchId : f = file /\ b = into
    BY <1>4, <1>13, <2>1 DEF EnqueueFile
  <2>3. drop[f] = "whole" => KeptIn(f, b)'
    BY <1>13, <2>1, <2>2 DEF KeptIn, IngestInv, SeparateInv, EnqueueFile
  <2> QED
    BY <1>2, <2>1, <2>2, <2>3, SettleKeepsKept
<1> QED
  BY <1>5, <1>6, <1>7, <1>8, <1>9, <1>10, <1>11, <1>12, <1>13 DEF WatcherNext, WatcherStep

\* When uploads appear complete, a good scan that the watcher has seen is stored
\* in MinIO, for every worker, request, failure and restart: only the job that
\* should follow may be lost.
THEOREM SeenTheorem == ASSUME WholeUploads PROVE Spec => []SeenScansAreStored
<1>1. Init => KeptInv
  BY DEF Init, WatcherInit, KeptInv
<1>2. TypeOK /\ IInv /\ IngestInv /\ KeptInv /\ [Next]_vars => KeptInv'
  <2> SUFFICES ASSUME TypeOK, IInv, IngestInv, KeptInv, [Next]_vars PROVE KeptInv'
    OBVIOUS
  <2>1. CASE UNCHANGED vars
    <3>1. seen \subseteq Dropped
      BY DEF TypeOK, WatcherTypeOK
    <3> QED
      BY <2>1, <3>1, OthersKeepKept DEF vars, storeVars, blobVars, apiVars, KeptIn
  <2> QED
    BY <2>1, WatcherKeepsKept, ApiKeepsKept, WorkerKeepsKept DEF Next
<1>3. KeptInv => SeenScansAreStored
  BY DEF KeptInv, KeptIn, SeenScansAreStored
<1> QED
  BY <1>1, <1>2, <1>3, InvariantTheorem, IngestTheorem, PTL DEF Spec
=============================================================================
