------------------------------ MODULE RowsProofs ------------------------------
(***************************************************************************)
(* Where the prediction rows come from: each run of a job leaves one at    *)
(* most, for any number of workers, crashes, failures and requeues.        *)
(***************************************************************************)
EXTENDS PipelineProofs

\* The steps of classify before its insert.
BeforeSave == {"predict", "overlay", "mark processing", "commit processing", "save"}

\* The jobs of a key, and those that may still insert a row for it.
JobsFor(k) == {j \in JobId : jobKey[j] = k}
Pending(k) ==
    {j \in JobsFor(k) : \/ jobState[j] = "queued"
                        \/ \E w \in Worker : job[w] = j /\ pc[w] \in BeforeSave}

\* A job is in one place: in the queue once, with one worker, or in a registry.
QueuedOnce ==
    /\ \A i \in 1 .. Len(queue) : jobState[queue[i]] = "queued"
    /\ \A i, h \in 1 .. Len(queue) : queue[i] = queue[h] => i = h

HeldOnce ==
    /\ \A w \in Worker : pc[w] = "idle" => job[w] = NoJob
    /\ \A w \in Worker : pc[w] # "idle" => job[w] \in JobId /\ jobState[job[w]] = "started"
    /\ \A v, w \in Worker : v # w /\ pc[v] # "idle" => job[v] # job[w]

PlaceInv ==
    /\ QueuedOnce /\ HeldOnce
    /\ \A j \in JobId : jobState[j] = "none" => jobKey[j] = NoKey

Balanced(k) ==
    /\ IsFiniteSet(JobsFor(k))
    /\ rows[k] + Cardinality(Pending(k)) <= Cardinality(JobsFor(k)) + requeues

AccountInv == PlaceInv /\ \A k \in Key : Balanced(k)

-----------------------------------------------------------------------------
(* Where the jobs are.                                                     *)

\* A new job, or a failed one that is requeued, joins the queue.
LEMMA JoinPlaces ==
  ASSUME TypeOK, PlaceInv, NEW j \in JobId, jobState[j] \in {"none", "failed"},
         jobState' = [jobState EXCEPT ![j] = "queued"], queue' = Append(queue, j),
         \A i \in JobId \ {j} : jobKey'[i] = jobKey[i], UNCHANGED <<pc, job>>
  PROVE  PlaceInv'
<1>1. jobState \in [JobId -> {"none", "queued", "started", "finished", "failed"}]
      /\ queue \in Seq(JobId)
  BY DEF TypeOK, StoresTypeOK
<1>2. QueuedOnce'
  <2>1. /\ Len(queue') = Len(queue) + 1 /\ Len(queue) \in Nat
        /\ \A i \in 1 .. Len(queue) : queue'[i] = queue[i]
        /\ queue'[Len(queue) + 1] = j
    BY <1>1, AppendProperties, LenProperties
  <2>2. \A i \in 1 .. Len(queue) : queue[i] \in JobId \ {j} /\ jobState'[queue[i]] = "queued"
    BY <1>1, ElementOfSeq DEF PlaceInv, QueuedOnce
  <2>3. \A i, h \in 1 .. Len(queue) : queue[i] = queue[h] => i = h
    BY DEF PlaceInv, QueuedOnce
  <2>4. jobState'[j] = "queued"
    BY <1>1
  <2>5. \A i \in 1 .. Len(queue') : jobState'[queue'[i]] = "queued"
    BY ONLY <2>1, <2>2, <2>4
  <2>6. \A i, h \in 1 .. Len(queue') : queue'[i] = queue'[h] => i = h
    BY ONLY <2>1, <2>2, <2>3
  <2> QED
    BY <2>5, <2>6 DEF QueuedOnce
<1>3. HeldOnce'
  BY <1>1 DEF PlaceInv, HeldOnce
<1> QED
  BY <1>1, <1>2, <1>3 DEF PlaceInv

LEMMA PlacesStay == ASSUME PlaceInv, UNCHANGED <<queueVars, pc, job>> PROVE PlaceInv'
  BY DEF PlaceInv, QueuedOnce, HeldOnce, queueVars

LEMMA TakeJobPlaces ==
  ASSUME TypeOK, PlaceInv, NEW w \in Worker, TakeJob(w)
  PROVE  PlaceInv' /\ Head(queue) \in JobId /\ jobState[Head(queue)] = "queued"
<1> DEFINE j == Head(queue)
<1>1. /\ queue \in Seq(JobId) /\ queue # <<>> /\ queue' = Tail(queue)
      /\ jobState \in [JobId -> {"none", "queued", "started", "finished", "failed"}]
      /\ pc[w] = "idle" /\ job \in [Worker -> JobId \cup {NoJob}] /\ pc' = [pc EXCEPT ![w] = "predict"]
      /\ pc \in [Worker -> {"idle", "predict", "overlay", "mark processing",
                          "commit processing", "save", "mark done", "commit done", "return"}]
      /\ jobState' = [jobState EXCEPT ![j] = "started"] /\ jobKey' = jobKey
      /\ job' = [job EXCEPT ![w] = j]
  BY DEF TakeJob, Goto, TypeOK, StoresTypeOK, WorkerTypeOK
<1>2. /\ j = queue[1] /\ Len(queue) \in Nat \ {0} /\ Len(queue') = Len(queue) - 1
      /\ \A i \in 1 .. Len(queue') : queue'[i] = queue[i + 1]
  <2>1. queue \in Seq(JobId) /\ queue # <<>> /\ queue' = Tail(queue)
    BY <1>1
  <2> QED
    BY ONLY <2>1, HeadTailProperties, EmptySeq, LenProperties
<1>3. \A i \in 1 .. Len(queue) : queue[i] \in JobId /\ jobState[queue[i]] = "queued"
  BY <1>1, ElementOfSeq DEF PlaceInv, QueuedOnce
<1>4. \A i, h \in 1 .. Len(queue) : queue[i] = queue[h] => i = h
  BY DEF PlaceInv, QueuedOnce
<1>5. j \in JobId /\ jobState[j] = "queued"
  BY ONLY <1>2, <1>3
<1>6. QueuedOnce'
  <2>1. \A i \in 1 .. Len(queue') : queue'[i] \in JobId \ {j} /\ jobState[queue'[i]] = "queued"
    BY ONLY <1>2, <1>3, <1>4
  <2>2. \A i, h \in 1 .. Len(queue') : queue'[i] = queue'[h] => i = h
    BY ONLY <1>2, <1>4
  <2> QED
    BY <1>1, <2>1, <2>2 DEF QueuedOnce
<1> HIDE DEF j
<1>7. \A v \in Worker : job[v] # j
  BY <1>5, WorkerAssumption DEF PlaceInv, HeldOnce
<1>8. HeldOnce'
  <2>1. pc'[w] = "predict" /\ job'[w] = j /\ jobState'[j] = "started"
    BY <1>1, <1>5
  <2>2. \A v \in Worker \ {w} : pc'[v] = pc[v] /\ job'[v] = job[v]
    BY <1>1
  <2>3. \A i \in JobId \ {j} : jobState'[i] = jobState[i]
    BY <1>1
  <2>4. \A v \in Worker : pc'[v] = "idle" => job'[v] = NoJob
    BY <2>1, <2>2 DEF PlaceInv, HeldOnce
  <2>5. \A v \in Worker \ {w} : pc[v] # "idle" => job[v] \in JobId \ {j} /\ jobState[job[v]] = "started"
    BY <1>7 DEF PlaceInv, HeldOnce
  <2>6. \A v \in Worker : pc'[v] # "idle" => job'[v] \in JobId /\ jobState'[job'[v]] = "started"
    BY <1>5, <2>1, <2>2, <2>3, <2>5
  <2>7. \A u, v \in Worker : u # v /\ pc'[u] # "idle" => job'[u] # job'[v]
    BY <1>7, <2>1, <2>2 DEF PlaceInv, HeldOnce
  <2> QED
    BY <2>4, <2>6, <2>7 DEF HeldOnce
<1>9. \A i \in JobId : jobState'[i] = "none" => jobState[i] = "none"
  BY <1>1, <1>5
<1> QED
  BY <1>1, <1>5, <1>6, <1>8, <1>9 DEF PlaceInv, j

\* A worker goes on with its job, or gives it up for a registry.
LEMMA MovePlaces ==
  ASSUME TypeOK, PlaceInv, NEW w \in Worker, pc[w] # "idle", UNCHANGED <<queue, jobKey>>,
         \A v \in Worker \ {w} : pc'[v] = pc[v] /\ job'[v] = job[v],
         \/ pc'[w] # "idle" /\ job'[w] = job[w] /\ UNCHANGED jobState
         \/ /\ pc'[w] = "idle" /\ job'[w] = NoJob
            /\ \/ UNCHANGED jobState
               \/ \E s \in {"finished", "failed"} : jobState' = [jobState EXCEPT ![job[w]] = s]
  PROVE  PlaceInv'
<1>1. /\ job[w] \in JobId /\ jobState[job[w]] = "started" /\ queue \in Seq(JobId)
      /\ jobState \in [JobId -> {"none", "queued", "started", "finished", "failed"}]
  BY DEF TypeOK, StoresTypeOK, PlaceInv, HeldOnce
<1>2. (\A i \in JobId \ {job[w]} : jobState'[i] = jobState[i]) /\ jobState'[job[w]] # "none"
  BY <1>1
<1>3. QueuedOnce'
  <2>1. \A i \in 1 .. Len(queue) : queue[i] \in JobId /\ jobState[queue[i]] = "queued"
    BY <1>1, ElementOfSeq DEF PlaceInv, QueuedOnce
  <2> QED
    BY <1>1, <1>2, <2>1 DEF PlaceInv, QueuedOnce
<1>4. HeldOnce'
  <2>1. \/ pc'[w] = "idle" /\ job'[w] = NoJob
        \/ pc'[w] # "idle" /\ job'[w] = job[w] /\ jobState'[job[w]] = "started"
    BY <1>1, Zenon
  <2>2. \A v \in Worker \ {w} : job[v] # job[w]
    BY DEF PlaceInv, HeldOnce
  <2> QED
    BY <1>1, <1>2, <2>1, <2>2, WorkerAssumption DEF PlaceInv, HeldOnce
<1> QED
  BY <1>2, <1>3, <1>4 DEF PlaceInv

-----------------------------------------------------------------------------
(* The account of a key.                                                   *)

LEMMA CountTypes ==
  ASSUME TypeOK, NEW k \in Key PROVE rows[k] \in Nat /\ requeues \in Nat
<1>1. rows[k] \in Nat
  BY DEF TypeOK, StoresTypeOK
<1>2. requeues \in 0 .. MaxRequeues
  BY DEF TypeOK, WorkerTypeOK
<1> QED
  BY ONLY <1>1, <1>2

\* A set that gains, or loses, one element at least or at most.
LEMMA AtMostOneMore ==
  ASSUME NEW S, IsFiniteSet(S), NEW x, NEW T \in SUBSET (S \cup {x})
  PROVE  IsFiniteSet(T) /\ Cardinality(T) \in Nat /\ Cardinality(T) <= Cardinality(S) + 1
<1>1. Cardinality(S) \in Nat
  BY FS_CardinalityType
<1>2. /\ IsFiniteSet(S \cup {x})
      /\ Cardinality(S \cup {x}) = IF x \in S THEN Cardinality(S) ELSE Cardinality(S) + 1
  BY FS_AddElement
<1>3. IsFiniteSet(T) /\ Cardinality(T) <= Cardinality(S \cup {x})
  BY <1>2, FS_Subset
<1>4. Cardinality(T) \in Nat
  BY <1>3, FS_CardinalityType
<1> QED
  BY <1>1, <1>2, <1>3, <1>4

LEMMA AtLeastOneLess ==
  ASSUME NEW S, IsFiniteSet(S), NEW x \in S, NEW T \in SUBSET (S \ {x})
  PROVE  IsFiniteSet(T) /\ Cardinality(T) \in Nat /\ Cardinality(T) + 1 <= Cardinality(S)
<1>1. Cardinality(S) \in Nat
  BY FS_CardinalityType
<1>2. IsFiniteSet(S \ {x}) /\ Cardinality(S \ {x}) = Cardinality(S) - 1
  BY FS_RemoveElement
<1>3. IsFiniteSet(T) /\ Cardinality(T) <= Cardinality(S \ {x})
  BY <1>2, FS_Subset
<1>4. Cardinality(T) \in Nat
  BY <1>3, FS_CardinalityType
<1> QED
  BY <1>1, <1>2, <1>3, <1>4

LEMMA PendingFinite ==
  ASSUME NEW k, IsFiniteSet(JobsFor(k))
  PROVE  /\ IsFiniteSet(Pending(k)) /\ Cardinality(Pending(k)) \in Nat
         /\ Cardinality(JobsFor(k)) \in Nat
<1>1. Pending(k) \in SUBSET JobsFor(k)
  BY DEF Pending
<1> QED
  BY <1>1, FS_Subset, FS_CardinalityType

\* Without a row, a job or a requeue more, and nothing more pending.
LEMMA BalanceStays ==
  ASSUME TypeOK, NEW k \in Key, Balanced(k), UNCHANGED requeues,
         rows'[k] = rows[k], JobsFor(k)' = JobsFor(k), Pending(k)' \subseteq Pending(k)
  PROVE  Balanced(k)'
<1>1. rows[k] \in Nat /\ requeues \in Nat
  BY CountTypes
<1>2. IsFiniteSet(JobsFor(k)) /\ IsFiniteSet(JobsFor(k)')
  BY DEF Balanced
<1>3. Cardinality(Pending(k)) \in Nat /\ IsFiniteSet(Pending(k)) /\ Cardinality(JobsFor(k)) \in Nat
  BY <1>2, PendingFinite
<1>4. Pending(k)' \in SUBSET Pending(k)
  OBVIOUS
<1>5. Cardinality(Pending(k)') \in Nat /\ Cardinality(Pending(k)') <= Cardinality(Pending(k))
  BY <1>3, <1>4, FS_Subset, FS_CardinalityType
<1> QED
  BY <1>1, <1>2, <1>3, <1>5 DEF Balanced

\* A new job may insert one row more.
LEMMA EnqueueBalance ==
  ASSUME TypeOK, AccountInv, NEW j \in JobId, NEW k \in Key, Enqueue(j, k),
         UNCHANGED <<rows, pc, job, requeues>>, NEW q \in Key
  PROVE  Balanced(q)'
<1>1. /\ jobState[j] = "none" /\ jobState' = [jobState EXCEPT ![j] = "queued"]
      /\ jobKey' = [jobKey EXCEPT ![j] = k]
      /\ jobState \in [JobId -> {"none", "queued", "started", "finished", "failed"}]
      /\ jobKey \in [JobId -> Key \cup {NoKey}]
  BY DEF Enqueue, TypeOK, StoresTypeOK
<1>2. j \notin JobsFor(q)
  <2>1. jobKey[j] = NoKey /\ NoKey \notin Key
    BY <1>1, StoresAssumption DEF AccountInv, PlaceInv, NoKey, Key
  <2> QED
    BY <2>1 DEF JobsFor
<1>3. Balanced(q)
  BY DEF AccountInv
<1>4. CASE q # k
  <2>1. JobsFor(q)' = JobsFor(q)
    BY <1>1, <1>2, <1>4 DEF JobsFor
  <2>2. Pending(q)' \subseteq Pending(q)
    BY <1>1, <1>2, <2>1 DEF Pending, JobsFor
  <2> QED
    BY <1>3, <2>1, <2>2, BalanceStays
<1>5. CASE q = k
  <2>1. JobsFor(q)' = JobsFor(q) \cup {j}
    BY <1>1, <1>2, <1>5 DEF JobsFor
  <2>2. Pending(q)' \subseteq Pending(q) \cup {j}
    BY <1>1, <1>2, <2>1 DEF Pending, JobsFor
  <2>3. /\ IsFiniteSet(JobsFor(q)) /\ IsFiniteSet(Pending(q))
        /\ Cardinality(Pending(q)) \in Nat /\ Cardinality(JobsFor(q)) \in Nat
    BY <1>3, PendingFinite DEF Balanced
  <2>4. /\ IsFiniteSet(JobsFor(q)')
        /\ Cardinality(JobsFor(q)') = Cardinality(JobsFor(q)) + 1
    BY <1>2, <2>1, <2>3, FS_AddElement
  <2>5. Cardinality(Pending(q)') \in Nat /\ Cardinality(Pending(q)') <= Cardinality(Pending(q)) + 1
    BY <2>2, <2>3, AtMostOneMore
  <2>6. rows[q] \in Nat /\ requeues \in Nat
    BY CountTypes
  <2> QED
    BY <1>3, <2>3, <2>4, <2>5, <2>6 DEF Balanced
<1> QED
  BY <1>4, <1>5

\* A requeued job may insert its row once more.
LEMMA RequeueBalance ==
  ASSUME TypeOK, AccountInv, NEW j \in JobId, RequeueJob(j), NEW k \in Key PROVE Balanced(k)'
<1>1. /\ jobState' = [jobState EXCEPT ![j] = "queued"] /\ UNCHANGED <<rows, jobKey, pc, job>>
      /\ jobState \in [JobId -> {"none", "queued", "started", "finished", "failed"}]
      /\ requeues' = requeues + 1
  BY DEF RequeueJob, TypeOK, StoresTypeOK
<1>2. JobsFor(k)' = JobsFor(k) /\ Pending(k)' \in SUBSET (Pending(k) \cup {j})
  BY <1>1 DEF JobsFor, Pending
<1>3. /\ IsFiniteSet(JobsFor(k)) /\ IsFiniteSet(Pending(k))
      /\ Cardinality(Pending(k)) \in Nat /\ Cardinality(JobsFor(k)) \in Nat
  BY PendingFinite DEF AccountInv, Balanced
<1>4. Cardinality(Pending(k)') \in Nat /\ Cardinality(Pending(k)') <= Cardinality(Pending(k)) + 1
  BY <1>2, <1>3, AtMostOneMore
<1>5. rows[k] \in Nat /\ requeues \in Nat
  BY CountTypes
<1> QED
  BY <1>1, <1>2, <1>3, <1>4, <1>5 DEF AccountInv, Balanced

\* A worker's step adds nothing to what is pending.
LEMMA StepBalance ==
  ASSUME TypeOK, AccountInv, NEW w \in Worker, UNCHANGED <<jobKey, requeues>>,
         \A i \in JobId : jobState'[i] = "queued" => jobState[i] = "queued",
         \A v \in Worker \ {w} : pc'[v] = pc[v] /\ job'[v] = job[v],
         pc'[w] \in BeforeSave /\ job'[w] \in JobId =>
            jobState[job'[w]] = "queued" \/ (pc[w] \in BeforeSave /\ job'[w] = job[w]),
         NEW k \in Key, rows'[k] = rows[k]
  PROVE  Balanced(k)'
<1>1. JobsFor(k)' = JobsFor(k)
  BY DEF JobsFor
<1>2. Pending(k)' \subseteq Pending(k)
  BY <1>1 DEF Pending, JobsFor
<1> QED
  BY <1>1, <1>2, BalanceStays DEF AccountInv

\* The insert: the job is no longer pending for its key.
LEMMA SaveBalance ==
  ASSUME TypeOK, IInv, AccountInv, NEW w \in Worker, SavePrediction(w), NEW k \in Key
  PROVE  Balanced(k)'
<1>1. /\ UNCHANGED <<jobState, jobKey, job, requeues>> /\ pc[w] = "save"
      /\ pc' = [pc EXCEPT ![w] = "mark done"] /\ job[w] \in JobId /\ jobState[job[w]] = "started"
      /\ pc \in [Worker -> {"idle", "predict", "overlay", "mark processing",
                          "commit processing", "save", "mark done", "commit done", "return"}]
  BY DEF SavePrediction, Goto, queueVars, AccountInv, PlaceInv, HeldOnce, TypeOK, WorkerTypeOK
<1>2. pc'[w] = "mark done" /\ \A v \in Worker \ {w} : pc'[v] = pc[v] /\ job[v] # job[w]
  BY <1>1 DEF AccountInv, PlaceInv, HeldOnce
<1>3. KeyOf(w) \in Key /\ rows' = [rows EXCEPT ![KeyOf(w)] = rows[KeyOf(w)] + 1]
      /\ rows \in [Key -> Nat]
  BY <1>1 DEF SavePrediction, InsertRow, KeyOf, IInv, JobsInv, Backed, TypeOK, StoresTypeOK
<1>4. CASE k # KeyOf(w)
  <2>1. rows'[k] = rows[k]
    BY <1>3, <1>4
  <2> QED
    BY <1>1, <1>2, <2>1, StepBalance DEF BeforeSave
<1>5. CASE k = KeyOf(w)
  <2>1. JobsFor(k)' = JobsFor(k) /\ job[w] \in JobsFor(k)
    BY <1>1, <1>5 DEF JobsFor, KeyOf
  <2>2. job[w] \in Pending(k)
    BY <1>1, <2>1 DEF Pending, BeforeSave
  <2>3. Pending(k)' \in SUBSET (Pending(k) \ {job[w]})
    BY <1>1, <1>2, <2>1 DEF Pending, BeforeSave
  <2>4. /\ IsFiniteSet(JobsFor(k)) /\ IsFiniteSet(Pending(k))
        /\ Cardinality(Pending(k)) \in Nat /\ Cardinality(JobsFor(k)) \in Nat
    BY PendingFinite DEF AccountInv, Balanced
  <2>5. Cardinality(Pending(k)') \in Nat /\ Cardinality(Pending(k)') + 1 <= Cardinality(Pending(k))
    BY <2>2, <2>3, <2>4, AtLeastOneLess
  <2>6. rows[k] \in Nat /\ requeues \in Nat /\ rows'[k] = rows[k] + 1
    BY <1>3, <1>5, CountTypes
  <2>7. rows[k] + Cardinality(Pending(k)) <= Cardinality(JobsFor(k)) + requeues
    BY DEF AccountInv, Balanced
  <2>8. rows'[k] + Cardinality(Pending(k)') <= Cardinality(JobsFor(k)) + requeues
    BY ONLY <2>4, <2>5, <2>6, <2>7
  <2> QED
    BY <1>1, <2>1, <2>4, <2>8 DEF Balanced
<1> QED
  BY <1>4, <1>5

-----------------------------------------------------------------------------
(* The steps of the processes.                                             *)

LEMMA OthersKeepAccounts ==
  ASSUME TypeOK, IInv, AccountInv, UNCHANGED <<rows, workerVars>>,
         UNCHANGED queueVars \/ \E j \in JobId, k \in Key : Enqueue(j, k)
  PROVE  AccountInv'
<1>1. CASE UNCHANGED queueVars
  <2>1. PlaceInv'
    BY <1>1, PlacesStay DEF AccountInv, workerVars
  <2>2. ASSUME NEW k \in Key PROVE Balanced(k)'
    <3>1. JobsFor(k)' = JobsFor(k)
      BY <1>1 DEF JobsFor, queueVars
    <3>2. Pending(k)' \subseteq Pending(k)
      BY <1>1, <3>1 DEF Pending, queueVars, workerVars
    <3> QED
      BY <3>1, <3>2, BalanceStays DEF AccountInv, workerVars
  <2> QED
    BY <2>1, <2>2 DEF AccountInv
<1>2. CASE \E j \in JobId, k \in Key : Enqueue(j, k)
  <2>1. PICK j \in JobId, k \in Key : Enqueue(j, k)
    BY <1>2
  <2>2. PlaceInv'
    BY <2>1, JoinPlaces DEF AccountInv, Enqueue, workerVars, TypeOK, StoresTypeOK
  <2> QED
    BY <2>1, <2>2, EnqueueBalance DEF AccountInv, workerVars
<1> QED
  BY <1>1, <1>2

LEMMA WatcherKeepsAccounts ==
  ASSUME TypeOK, IInv, AccountInv, WatcherNext, UNCHANGED workerVars PROVE AccountInv'
<1>1. UNCHANGED rows /\ (EnqueueFile \/ UNCHANGED queueVars)
  BY WatcherFrame
<1>2. EnqueueFile => UNCHANGED queueVars \/ \E j \in JobId, k \in Key : Enqueue(j, k)
  <2>1. EnqueueFile => <<into, file>> \in Key
    BY DEF EnqueueFile, IInv, WatcherInv, Backed
  <2> QED
    BY <2>1 DEF EnqueueFile
<1> QED
  BY <1>1, <1>2, OthersKeepAccounts

LEMMA ApiKeepsAccounts ==
  ASSUME TypeOK, IInv, AccountInv, ApiStep, UNCHANGED workerVars PROVE AccountInv'
<1>1. PICK r \in Request : RequestStep(r) \/ FailUpload(r)
  BY DEF ApiStep
<1>2. UNCHANGED rows /\ (EnqueueUpload(r) \/ UNCHANGED queueVars)
  BY <1>1 DEF RequestStep, Refuse, Accept, StoreFile, EnqueueUpload, Answer, FailUpload, storeVars
<1>3. EnqueueUpload(r) => \E j \in JobId, k \in Key : Enqueue(j, k)
  BY DEF EnqueueUpload, IInv, ApiInv, Backed
<1> QED
  BY <1>2, <1>3, OthersKeepAccounts

LEMMA WorkerKeepsAccounts ==
  ASSUME TypeOK, IInv, AccountInv, WorkerStep PROVE AccountInv'
<1> USE DEF storeVars, queueVars
<1>1. ASSUME NEW w \in Worker, TakeJob(w) PROVE AccountInv'
  <2>1. PlaceInv' /\ Head(queue) \in JobId /\ jobState[Head(queue)] = "queued"
    BY <1>1, TakeJobPlaces DEF AccountInv
  <2>2. /\ UNCHANGED <<rows, jobKey, requeues>>
        /\ \A i \in JobId : jobState'[i] = "queued" => jobState[i] = "queued"
        /\ \A v \in Worker \ {w} : pc'[v] = pc[v] /\ job'[v] = job[v]
        /\ jobState[job'[w]] = "queued"
    BY <1>1, <2>1 DEF TakeJob, Goto, TypeOK, StoresTypeOK, WorkerTypeOK
  <2>3. ASSUME NEW k \in Key PROVE Balanced(k)'
    <3>1. JobsFor(k)' = JobsFor(k)
      BY <2>2 DEF JobsFor
    <3>2. Pending(k)' \subseteq Pending(k)
      BY <2>2, <3>1 DEF Pending, JobsFor
    <3> QED
      BY <2>2, <3>1, <3>2, BalanceStays DEF AccountInv
  <2> QED
    BY <2>1, <2>3 DEF AccountInv
<1>2. ASSUME NEW w \in Worker, SavePrediction(w) PROVE AccountInv'
  <2>1. PlaceInv'
    BY <1>2, MovePlaces DEF AccountInv, SavePrediction, Goto, TypeOK, WorkerTypeOK
  <2> QED
    BY <1>2, <2>1, SaveBalance DEF AccountInv
<1>3. ASSUME NEW w \in Worker, Predict(w) \/ UploadOverlay(w)
                               \/ \E to \in Target : SelectStatus(w, to) \/ CommitStatus(w, to)
      PROVE  AccountInv'
  <2>1. /\ UNCHANGED <<rows, jobState, jobKey, queue, requeues, job>> /\ pc[w] # "idle"
        /\ pc'[w] # "idle" /\ (pc'[w] \in BeforeSave => pc[w] \in BeforeSave)
        /\ \A v \in Worker \ {w} : pc'[v] = pc[v] /\ job'[v] = job[v]
    BY <1>3 DEF Predict, UploadOverlay, SelectStatus, CommitStatus, Goto, Target, Reading, Writing,
       After, BeforeSave, TypeOK, WorkerTypeOK
  <2>2. PlaceInv'
    BY <2>1, MovePlaces DEF AccountInv
  <2> QED
    BY <2>1, <2>2, StepBalance DEF AccountInv
<1>4. ASSUME NEW w \in Worker, FinishJob(w) \/ RaiseInJob(w) \/ CrashWorker(w) PROVE AccountInv'
  <2>1. /\ UNCHANGED <<rows, jobKey, queue, requeues>> /\ pc[w] # "idle"
        /\ pc'[w] = "idle" /\ job'[w] = NoJob
        /\ \A v \in Worker \ {w} : pc'[v] = pc[v] /\ job'[v] = job[v]
        /\ \/ UNCHANGED jobState
           \/ \E s \in {"finished", "failed"} : jobState' = [jobState EXCEPT ![job[w]] = s]
    BY <1>4 DEF FinishJob, RaiseInJob, CrashWorker, Goto, TypeOK, WorkerTypeOK
  <2>2. PlaceInv'
    BY <2>1, MovePlaces DEF AccountInv
  <2>3. \A i \in JobId : jobState'[i] = "queued" => jobState[i] = "queued"
    BY <2>1 DEF TypeOK, StoresTypeOK
  <2> QED
    BY <2>1, <2>2, <2>3, StepBalance DEF AccountInv, BeforeSave
<1>5. ASSUME NEW j \in JobId, ReapAbandonedJob(j) PROVE AccountInv'
  <2>1. /\ UNCHANGED <<rows, jobKey, queue, requeues, pc, job>> /\ jobState[j] = "started"
        /\ jobState' = [jobState EXCEPT ![j] = "failed"] /\ \A w \in Worker : job[w] # j
        /\ jobState \in [JobId -> {"none", "queued", "started", "finished", "failed"}]
    BY <1>5 DEF ReapAbandonedJob, workerVars, TypeOK, StoresTypeOK
  <2>2. QueuedOnce' /\ HeldOnce'
    <3>1. \A i \in 1 .. Len(queue) : queue[i] \in JobId \ {j}
      BY <2>1, ElementOfSeq DEF AccountInv, PlaceInv, QueuedOnce, TypeOK, StoresTypeOK
    <3> QED
      BY <2>1, <3>1 DEF AccountInv, PlaceInv, QueuedOnce, HeldOnce
  <2>3. PlaceInv'
    BY <2>1, <2>2 DEF AccountInv, PlaceInv
  <2>4. ASSUME NEW k \in Key PROVE Balanced(k)'
    <3>1. JobsFor(k)' = JobsFor(k) /\ Pending(k)' \subseteq Pending(k)
      BY <2>1 DEF JobsFor, Pending
    <3> QED
      BY <2>1, <3>1, BalanceStays DEF AccountInv
  <2> QED
    BY <2>3, <2>4 DEF AccountInv
<1>6. ASSUME NEW j \in JobId, RequeueJob(j) PROVE AccountInv'
  <2>1. PlaceInv'
    BY <1>6, JoinPlaces DEF AccountInv, RequeueJob
  <2> QED
    BY <1>6, <2>1, RequeueBalance DEF AccountInv
<1>7. ASSUME NEW w \in Worker, AwaitJob(w) PROVE AccountInv'
  BY <1>7, OthersKeepAccounts DEF AwaitJob
<1> QED
  BY <1>1, <1>2, <1>3, <1>4, <1>5, <1>6, <1>7 DEF WorkerStep, JobStep

-----------------------------------------------------------------------------
(* The theorem.                                                            *)

LEMMA AccountInit == Init => AccountInv
<1> SUFFICES ASSUME Init PROVE AccountInv
  OBVIOUS
<1> USE DEF Init, StoresInit, WorkerInit
<1>1. PlaceInv
  BY DEF PlaceInv, QueuedOnce, HeldOnce
<1>2. ASSUME NEW k \in Key PROVE Balanced(k)
  <2>1. JobsFor(k) = {} /\ Pending(k) = {}
    BY StoresAssumption DEF JobsFor, Pending, NoKey, Key
  <2> QED
    BY <2>1, FS_EmptySet DEF Balanced
<1> QED
  BY <1>1, <1>2 DEF AccountInv

LEMMA AccountNext == ASSUME TypeOK, IInv, AccountInv, [Next]_vars PROVE AccountInv'
<1>1. CASE UNCHANGED vars
  BY <1>1, OthersKeepAccounts DEF vars, storeVars
<1> QED
  BY <1>1, WatcherKeepsAccounts, ApiKeepsAccounts, WorkerKeepsAccounts DEF Next, workerVars

\* A file has at most one prediction row for each job it was enqueued as, and one
\* more for each requeue: RQ runs no job twice at once, so no crash, failure or
\* race of classify inserts a row that nobody asked for.
THEOREM RowsTheorem == Spec => []RowsAreAccounted
<1>1. TypeOK /\ IInv /\ AccountInv /\ [Next]_vars => AccountInv'
  BY AccountNext
<1>2. Spec => []AccountInv
  BY <1>1, AccountInit, InvariantTheorem, PTL DEF Spec
<1>3. TypeOK /\ AccountInv => RowsAreAccounted
  <2> SUFFICES ASSUME TypeOK, AccountInv, NEW k \in Key
               PROVE  rows[k] <= Cardinality(JobsFor(k)) + requeues
    BY DEF RowsAreAccounted, JobsFor
  <2>1. /\ IsFiniteSet(JobsFor(k))
        /\ rows[k] + Cardinality(Pending(k)) <= Cardinality(JobsFor(k)) + requeues
    BY DEF AccountInv, Balanced
  <2>2. Cardinality(Pending(k)) \in Nat /\ Cardinality(JobsFor(k)) \in Nat
    BY <2>1, PendingFinite
  <2> QED
    BY <2>1, <2>2, CountTypes
<1> QED
  BY <1>2, <1>3, InvariantTheorem, PTL
=============================================================================
