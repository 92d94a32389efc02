----------------------------- MODULE CachedRoutes -----------------------------
(***************************************************************************)
(* The cached GET routes of the API and the writes that outdate them.  A   *)
(* read looks its key up in Redis and on a miss queries Postgres, then     *)
(* stores the answer; a write commits, then deletes keys one call at a     *)
(* time.  Nothing orders the steps of one caller with those of another.    *)
(***************************************************************************)
EXTENDS Naturals, Sequences, SequencesExt

CONSTANTS
    Session,      \* dashboards under study: one HTTP request at a time each
    Client,       \* everyone else's requests, one at a time each
    Worker,       \* inference workers and sftp-ingest: one service call at a time
    Overlaps,     \* bound: the sets of callers that are at work at one time
    RoleOf,       \* [Session \cup Client -> the role of the account]
    MaxBatches,   \* bound on the batches
    MaxRows,      \* bound on the prediction rows
    BatchOf,      \* [Row -> its batch]
    Doubtful,     \* the rows with a confidence below 0.7
    Class,        \* the labels of a document
    Window,       \* the values of ?skip= and ?limit= that callers send
    MaxPatches,   \* bound on the corrections that are asked for
    MaxFailures,  \* bound on the calls that end half way
    Nothing       \* no cache entry, or no answer yet

VARIABLES
    label,        \* the prediction rows: relabeled_class, if there is a row
    status,       \* batches.status, if there is a row
    corrector,    \* audit_logs: who wrote the last "relabel" row about each row
    cache,        \* Redis: the answer stored under each key
    online,       \* the callers at work
    route,        \* the key of the one route each client reads
    call,         \* the call each session or worker is in
    patches, failures,
    outrun        \* keys whose entry outlived the delete meant for it (kept for
                  \* the properties only; no code reads it)

dbVars    == <<label, status, corrector>>
bounds    == <<online, route, patches, failures>>
routeVars == <<dbVars, cache, call, bounds, outrun>>

Caller == Session \cup Client \cup Worker

\* In the order of created_at.
Row     == 1 .. MaxRows
BatchId == 1 .. MaxBatches

Label  == Class \cup {"no row", "not corrected"}
Status == {"no row", "pending", "processing", "done", "failed"}

PREDICTIONS_RECENT_KEY   == <<"predictions:recent">>
BATCHES_LIST_KEY         == <<"batches:list">>
batch_key(b)             == <<"batch", b>>
predictions_batch_key(b) == <<"predictions:batch", b>>
Key == {PREDICTIONS_RECENT_KEY, BATCHES_LIST_KEY}
         \cup {batch_key(b) : b \in BatchId} \cup {predictions_batch_key(b) : b \in BatchId}

\* ORDER BY created_at DESC OFFSET skip LIMIT limit.
Newest(S, skip, limit) ==
    LET newer(x) == Cardinality({y \in S : y > x})
    IN  {x \in S : skip <= newer(x) /\ newer(x) < skip + limit}

\* load_live_dashboard asks for 50 rows of everything.
DashboardWindow == [skip |-> 0, limit |-> 50]

get_recent(limit) ==
    LET rows == Newest({p \in Row : label[p] # "no row"}, 0, limit)
    IN  [p \in Row |-> IF p \in rows THEN label[p] ELSE "no row"]

list_batches(w) ==
    LET rows == Newest({b \in BatchId : status[b] # "no row"}, w.skip, w.limit)
    IN  [b \in BatchId |-> IF b \in rows THEN status[b] ELSE "no row"]

\* What the service behind each cached route reads from the committed rows; a
\* batch that is missing is a 404, and only the two lists look at w.
Answer(k, w) ==
    CASE k = PREDICTIONS_RECENT_KEY -> get_recent(w.limit)
      [] k = BATCHES_LIST_KEY -> list_batches(w)
      [] k[1] = "batch" -> IF status[k[2]] = "no row" THEN Nothing ELSE status[k[2]]
      [] OTHER -> [p \in {q \in Row : BatchOf[q] = k[2]} |-> label[p]]

\* The key leaves the window out: an entry may be the answer to any.
Answers(k) == {Answer(k, w) : w \in Window}

Stage  == {"idle", "query", "fill", "answered", "invalidate", "failed"}
NoCall == [at |-> "idle", key |-> <<>>, got |-> Nothing, keys |-> <<>>]

ASSUME RoutesAssumption ==
    /\ MaxRows \in Nat \ {0} /\ MaxBatches \in Nat \ {0} /\ MaxFailures \in Nat /\ MaxPatches \in Nat
    /\ BatchOf \in [Row -> BatchId]
    /\ Doubtful \subseteq Row
    /\ Window \subseteq [skip : Nat, limit : Nat \ {0}] /\ DashboardWindow \in Window
    /\ Class \cap {"no row", "not corrected"} = {}
    /\ Session \cap Client = {} /\ Worker \cap (Session \cup Client) = {}

RoutesTypeOK ==
    /\ label \in [Row -> Label]
    /\ status \in [BatchId -> Status]
    /\ corrector \in [Row -> Caller \cup {Nothing}]
    /\ online \in Overlaps
    /\ route \in [Client \cap online -> Key]
    /\ DOMAIN cache = Key /\ DOMAIN call = Caller
    /\ \A c \in Caller :
          /\ DOMAIN call[c] = DOMAIN NoCall
          /\ call[c].at \in Stage
          /\ call[c].at \in {"query", "fill"} => call[c].key \in Key
          /\ call[c].keys \in Seq(Key)
    /\ patches \in 0 .. MaxPatches
    /\ failures \in 0 .. MaxFailures
    /\ outrun \subseteq Key

\* Redis has just come back empty, in front of tables with some uncorrected rows.
RoutesInit ==
    /\ \E n \in 0 .. MaxRows, m \in 0 .. MaxBatches :
          /\ \A p \in 1 .. n : BatchOf[p] <= m
          /\ label = [p \in Row |-> IF p <= n THEN "not corrected" ELSE "no row"]
          /\ status = [b \in BatchId |-> IF b > m THEN "no row"
                                        ELSE IF \E p \in 1 .. n : BatchOf[p] = b
                                             THEN "processing" ELSE "pending"]
    /\ corrector = [p \in Row |-> Nothing]
    /\ online \in Overlaps
    /\ cache = [k \in Key |-> Nothing]
    /\ route \in [Client \cap online -> Key]
    /\ call = [c \in Caller |-> NoCall]
    /\ patches = 0
    /\ failures = 0
    /\ outrun = {}

-----------------------------------------------------------------------------
(* The cache decorator around a GET route.                                 *)

\* The end of call c.  What a session got it goes on to use; nothing depends on
\* what the others got.
Ended(c, how, got) ==
    [call EXCEPT ![c] = IF c \in Session THEN [NoCall EXCEPT !.at = how, !.got = got] ELSE NoCall]

Hit(c, k) ==
    /\ call[c].at = "idle"
    /\ cache[k] # Nothing
    /\ call' = Ended(c, "answered", cache[k])
    /\ UNCHANGED <<dbVars, cache, bounds, outrun>>

GoOnMiss(c, k) ==
    /\ call[c].at = "idle"
    /\ cache[k] = Nothing
    /\ call' = [call EXCEPT ![c] = [NoCall EXCEPT !.at = "query", !.key = k]]
    /\ UNCHANGED <<dbVars, cache, bounds, outrun>>

Lookup(c, k) == Hit(c, k) \/ GoOnMiss(c, k)

Asked(c) == IF c \in Session THEN {DashboardWindow} ELSE Window

\* Only answers are stored, a 404 is not.
Query(c) ==
    /\ call[c].at = "query"
    /\ \E w \in Asked(c) :
          LET got == Answer(call[c].key, w)
          IN  call' = IF got = Nothing THEN Ended(c, "failed", Nothing)
                      ELSE [call EXCEPT ![c].at = "fill", ![c].got = got]
    /\ UNCHANGED <<dbVars, cache, bounds, outrun>>

\* The answer is stored whatever happened since the query.  A Redis that does
\* not answer counts as a miss here and stores nothing: to the readers, an
\* entry that is gone (Expire).
Fill(c) ==
    LET k == call[c].key IN
    /\ call[c].at = "fill"
    /\ cache' = [cache EXCEPT ![k] = call[c].got]
    /\ outrun' = IF call[c].got \in Answers(k) THEN outrun \ {k} ELSE outrun \cup {k}
    /\ call' = Ended(c, "answered", call[c].got)
    /\ UNCHANGED <<dbVars, bounds>>

\* An entry's time is up, or Redis evicts it (allkeys-lru).
Expire(k) ==
    /\ cache[k] # Nothing
    /\ cache' = [cache EXCEPT ![k] = Nothing]
    /\ outrun' = outrun \ {k}
    /\ UNCHANGED <<dbVars, call, bounds>>

-----------------------------------------------------------------------------
(* Writes: what each service commits, and the keys it deletes afterwards.   *)

\* Mutant of PredictionKeys: the list of recent predictions is forgotten.
PredictionKeysOfBatch(b) == <<batch_key(b), predictions_batch_key(b)>>

\* The keys a change of a prediction of batch b outdates.
PredictionKeys(b) == <<PREDICTIONS_RECENT_KEY, batch_key(b), predictions_batch_key(b)>>
\* A new status, and a new batch.
BatchKeys(b)      == <<batch_key(b), BATCHES_LIST_KEY>>
NewBatchKeys      == <<BATCHES_LIST_KEY>>

Invalidating(c, keys) == [call EXCEPT ![c] = [NoCall EXCEPT !.at = "invalidate", !.keys = keys]]

\* relabel: the checks, the UPDATE by id and the audit row are one step, as no
\* row is ever deleted and the confidence checked never changes.
Permitted(c, p) ==
    /\ RoleOf[c] \in {"admin", "reviewer"}
    /\ label[p] # "no row"
    /\ RoleOf[c] = "reviewer" => p \in Doubtful

Relabel(c, p, class) ==
    /\ call[c].at = "idle"
    /\ Permitted(c, p)
    /\ label' = [label EXCEPT ![p] = class]
    /\ corrector' = [corrector EXCEPT ![p] = c]
    /\ call' = Invalidating(c, PredictionKeys(BatchOf[p]))
    /\ UNCHANGED <<status, cache, outrun>>

Refuse(c, p) ==
    /\ call[c].at = "idle"
    /\ ~Permitted(c, p)
    /\ call' = Ended(c, "failed", Nothing)
    /\ UNCHANGED <<dbVars, cache, outrun>>

\* A new row is the newest; mark_processing came before it.
SavePrediction(w, p) ==
    /\ call[w].at = "idle"
    /\ status[BatchOf[p]] \notin {"no row", "pending"}
    /\ label[p] = "no row"
    /\ \A q \in Row : q < p => label[q] # "no row"
    /\ label' = [label EXCEPT ![p] = "not corrected"]
    /\ call' = Invalidating(w, PredictionKeys(BatchOf[p]))
    /\ UNCHANGED <<status, corrector, cache, bounds, outrun>>

\* create_batch, for sftp-ingest or an upload: a new row is the newest.
CreateBatch(c, b) ==
    /\ call[c].at = "idle"
    /\ status[b] = "no row"
    /\ \A a \in BatchId : a < b => status[a] # "no row"
    /\ status' = [status EXCEPT ![b] = "pending"]
    /\ call' = Invalidating(c, NewBatchKeys)
    /\ UNCHANGED <<label, corrector, cache, bounds, outrun>>

\* mark_processing and mark_done.
MoveBatch(w, b) ==
    /\ call[w].at = "idle"
    /\ status[b] \in {"pending", "processing"}
    /\ status' = [status EXCEPT ![b] = IF @ = "pending" THEN "processing" ELSE "done"]
    /\ call' = Invalidating(w, BatchKeys(b))
    /\ UNCHANGED <<label, corrector, cache, bounds, outrun>>

\* Mutant of DeleteKey: only the first key is deleted.
DeleteKeyOnce(c) ==
    LET k == Head(call[c].keys) IN
    /\ call[c].at = "invalidate"
    /\ cache' = [cache EXCEPT ![k] = Nothing]
    /\ outrun' = outrun \ {k}
    /\ call' = Ended(c, "answered", Nothing)
    /\ UNCHANGED <<dbVars, bounds>>

\* One cache.delete; after the last one the call returns.
DeleteKey(c) ==
    LET k == Head(call[c].keys) IN
    /\ call[c].at = "invalidate"
    /\ cache' = [cache EXCEPT ![k] = Nothing]
    /\ outrun' = outrun \ {k}
    /\ call' = IF Len(call[c].keys) = 1 THEN Ended(c, "answered", Nothing)
               ELSE [call EXCEPT ![c].keys = Tail(@)]
    /\ UNCHANGED <<dbVars, bounds>>

\* Redis or Postgres raises, or the process dies, anywhere in the call: what is
\* committed stays, what was to be deleted is not.
FailCall(c) ==
    /\ call[c].at \in {"query", "fill", "invalidate"}
    /\ failures < MaxFailures
    /\ failures' = failures + 1
    /\ outrun' = outrun \cup {k \in Range(call[c].keys) : cache[k] # Nothing}
    /\ call' = Ended(c, "failed", Nothing)
    /\ UNCHANGED <<dbVars, cache, online, route, patches>>

CallStep(c) == Query(c) \/ Fill(c) \/ DeleteKey(c)

WorkerStep(w) ==
    \/ \E p \in Row : SavePrediction(w, p)
    \/ \E b \in BatchId : CreateBatch(w, b) \/ MoveBatch(w, b)

ClientStep(c) ==
    \/ Lookup(c, route[c])
    \/ /\ patches < MaxPatches
       /\ patches' = patches + 1
       /\ \E p \in Row, class \in Class : Relabel(c, p, class)
       /\ UNCHANGED <<online, route, failures>>
    \/ /\ RoleOf[c] \in {"admin", "reviewer"}
       /\ \E b \in BatchId : CreateBatch(c, b)

-----------------------------------------------------------------------------
(* What the cache promises.                                                *)

Stale(k) == cache[k] # Nothing /\ cache[k] \notin Answers(k)

\* An entry that answers no request from the rows does so for one of two reasons
\* only: the delete that follows the commit is still to come, or it has been
\* outrun, by a fill whose query is older than the commit or by an error after
\* it.  So each service deletes every key its write outdates, and does so after
\* the commit.
StaleHasAReason ==
    \A k \in Key : Stale(k) =>
        \/ k \in outrun
        \/ \E c \in Caller : call[c].at = "invalidate" /\ k \in Range(call[c].keys)

=============================================================================
