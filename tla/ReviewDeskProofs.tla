--------------------------- MODULE ReviewDeskProofs ---------------------------
(***************************************************************************)
(* Why the cache is never wrong without a reason, and why reviewers see    *)
(* their own corrections, for any number of sessions, clients, workers,    *)
(* batches and rows.                                                       *)
(***************************************************************************)
EXTENDS ReviewDesk, TLAPS, WellFoundedInduction

Pending(k) == \E c \in Caller : call[c].at = "invalidate" /\ k \in Range(call[c].keys)

TablesOK ==
    /\ DOMAIN label = Row /\ DOMAIN status = BatchId
    /\ DOMAIN cache = Key

CallOK(r) ==
    /\ DOMAIN r = DOMAIN NoCall
    /\ r.at \in Stage
    /\ r.at \in {"query", "fill"} => r.key \in Key
    /\ r.keys \in Seq(Key)
    /\ r.at = "invalidate" => r.keys # <<>>

CallsOK == DOMAIN call = Caller /\ \A c \in Caller : CallOK(call[c])

RoutesInv == TablesOK /\ CallsOK /\ StaleHasAReason

\* The dashboard sends its PATCH for a row it has drawn.
DeskOK(s) ==
    /\ "doc" \in DOMAIN page[s] /\ page[s].doc \in 0 .. MaxRows
    /\ at[s] = "patch" => page[s].doc # 0

DesksOK ==
    /\ DOMAIN at = Session /\ DOMAIN page = Session
    /\ \A s \in Session : DeskOK(s)

ClientsRead == \A c \in Client \cap online : route[c] \in Key

CacheInv == RoutesInv /\ DesksOK /\ ClientsRead

-----------------------------------------------------------------------------
(* Keys.                                                                   *)

LEMMA KeyShapes ==
  /\ PREDICTIONS_RECENT_KEY \in Key /\ BATCHES_LIST_KEY \in Key
  /\ \A b \in BatchId : batch_key(b) \in Key /\ predictions_batch_key(b) \in Key
  /\ \A k \in Key : \/ k = PREDICTIONS_RECENT_KEY
                    \/ k = BATCHES_LIST_KEY
                    \/ \E b \in BatchId : k = batch_key(b)
                    \/ \E b \in BatchId : k = predictions_batch_key(b)
BY DEF Key

\* The answers depend on the rows alone, and each on its own rows.
LEMMA StableAnswers ==
  ASSUME UNCHANGED dbVars PROVE \A k : Answers(k)' = Answers(k)
<1>1. \A k, w : Answer(k, w)' = Answer(k, w)
  BY DEF Answer, get_recent, list_batches, dbVars
<1> QED BY <1>1 DEF Answers

\* A list of predictions has some of the rows as they are.
LEMMA RecentAnswer ==
  ASSUME NEW w
  PROVE  \E rows : Answer(PREDICTIONS_RECENT_KEY, w) =
                      [p \in Row |-> IF p \in rows THEN label[p] ELSE "no row"]
<1>1. Answer(PREDICTIONS_RECENT_KEY, w) = get_recent(w.limit)
  BY DEF Answer, PREDICTIONS_RECENT_KEY, BATCHES_LIST_KEY
<1> DEFINE rows == Newest({p \in Row : label[p] # "no row"}, 0, w.limit)
<1>2. get_recent(w.limit) = [p \in Row |-> IF p \in rows THEN label[p] ELSE "no row"]
  BY DEF get_recent
<1> HIDE DEF rows
<1> QED BY <1>1, <1>2

LEMMA BatchAnswer ==
  ASSUME NEW b \in BatchId
  PROVE  \A w : Answer(batch_key(b), w) = IF status[b] = "no row" THEN Nothing ELSE status[b]
BY DEF Answer, PREDICTIONS_RECENT_KEY, BATCHES_LIST_KEY, batch_key

LEMMA SameAnswers ==
  /\ label' = label => Answers(PREDICTIONS_RECENT_KEY)' = Answers(PREDICTIONS_RECENT_KEY)
  /\ status' = status => Answers(BATCHES_LIST_KEY)' = Answers(BATCHES_LIST_KEY)
  /\ \A b \in BatchId : status'[b] = status[b] => Answers(batch_key(b))' = Answers(batch_key(b))
  /\ \A b \in BatchId : (\A p \in Row : BatchOf[p] = b => label'[p] = label[p]) =>
        Answers(predictions_batch_key(b))' = Answers(predictions_batch_key(b))
<1>1. ASSUME label' = label, NEW w
      PROVE  Answer(PREDICTIONS_RECENT_KEY, w)' = Answer(PREDICTIONS_RECENT_KEY, w)
  BY <1>1 DEF Answer, get_recent, PREDICTIONS_RECENT_KEY
<1>2. ASSUME status' = status, NEW w
      PROVE  Answer(BATCHES_LIST_KEY, w)' = Answer(BATCHES_LIST_KEY, w)
  BY <1>2 DEF Answer, list_batches, PREDICTIONS_RECENT_KEY, BATCHES_LIST_KEY
<1>3. ASSUME NEW b \in BatchId, status'[b] = status[b], NEW w
      PROVE  Answer(batch_key(b), w)' = Answer(batch_key(b), w)
  BY <1>3 DEF Answer, PREDICTIONS_RECENT_KEY, BATCHES_LIST_KEY, batch_key
<1>4. ASSUME NEW b \in BatchId, \A p \in Row : BatchOf[p] = b => label'[p] = label[p], NEW w
      PROVE  Answer(predictions_batch_key(b), w)' = Answer(predictions_batch_key(b), w)
  <2>1. Answer(predictions_batch_key(b), w) = [p \in {q \in Row : BatchOf[q] = b} |-> label[p]]
    BY DEF Answer, PREDICTIONS_RECENT_KEY, BATCHES_LIST_KEY, predictions_batch_key
  <2>2. Answer(predictions_batch_key(b), w)' = [p \in {q \in Row : BatchOf[q] = b} |-> label'[p]]
    BY DEF Answer, PREDICTIONS_RECENT_KEY, BATCHES_LIST_KEY, predictions_batch_key
  <2>3. [p \in {q \in Row : BatchOf[q] = b} |-> label'[p]]
          = [p \in {q \in Row : BatchOf[q] = b} |-> label[p]]
    BY <1>4
  <2> QED BY <2>1, <2>2, <2>3
<1> QED BY <1>1, <1>2, <1>3, <1>4 DEF Answers

LEMMA SeqOfKeys ==
  ASSUME NEW S, NEW keys \in Seq(S), keys # <<>>
  PROVE  /\ Head(keys) \in S /\ Tail(keys) \in Seq(S)
         /\ Range(keys) \subseteq S
         /\ Len(keys) = 1 => Range(keys) = {Head(keys)}
         /\ Len(keys) # 1 => Tail(keys) # <<>>
         /\ \A k \in Range(keys) : k = Head(keys) \/ k \in Range(Tail(keys))
<1>1. Len(keys) \in Nat /\ Len(keys) >= 1 /\ DOMAIN keys = 1 .. Len(keys)
  OBVIOUS
<1>2. ASSUME NEW k \in Range(keys), k # Head(keys) PROVE k \in Range(Tail(keys))
  <2>1. PICK i \in 1 .. Len(keys) : keys[i] = k
    BY <1>1 DEF Range
  <2>2. i # 1
    BY <1>2, <2>1
  <2>3. i - 1 \in DOMAIN Tail(keys) /\ Tail(keys)[i - 1] = k
    BY <1>1, <2>1, <2>2
  <2> QED BY <2>3 DEF Range
<1>3. ASSUME Len(keys) = 1 PROVE Range(keys) = {Head(keys)}
  BY <1>1, <1>3 DEF Range
<1>4. Range(keys) \subseteq S
  BY <1>1 DEF Range
<1>5. Head(keys) \in S /\ Tail(keys) \in Seq(S)
  BY <1>1
<1>6. ASSUME Len(keys) # 1 PROVE Tail(keys) # <<>>
  <2>1. Len(Tail(keys)) = Len(keys) - 1
    BY <1>1
  <2>2. Len(Tail(keys)) # 0
    BY <1>1, <1>6, <2>1
  <2>3. Len(<<>>) = 0
    OBVIOUS
  <2> QED BY <2>2, <2>3
<1> QED BY <1>2, <1>3, <1>4, <1>5, <1>6

LEMMA OneKey ==
  ASSUME NEW S, NEW a \in S, NEW keys, keys = <<a>>
  PROVE  keys \in Seq(S) /\ keys # <<>> /\ Range(keys) = {a}
<1>1. DOMAIN keys = {1} /\ keys[1] = a
  OBVIOUS
<1>2. Range(keys) = {a}
  BY <1>1 DEF Range
<1> QED BY <1>2

LEMMA TwoKeys ==
  ASSUME NEW S, NEW a \in S, NEW b \in S, NEW keys, keys = <<a, b>>
  PROVE  keys \in Seq(S) /\ keys # <<>> /\ Range(keys) = {a, b}
<1>1. DOMAIN keys = {1, 2} /\ keys[1] = a /\ keys[2] = b
  OBVIOUS
<1>2. Range(keys) = {a, b}
  BY <1>1 DEF Range
<1> QED BY <1>2

LEMMA ThreeKeys ==
  ASSUME NEW S, NEW a \in S, NEW b \in S, NEW c \in S, NEW keys, keys = <<a, b, c>>
  PROVE  keys \in Seq(S) /\ keys # <<>> /\ Range(keys) = {a, b, c}
<1>1. DOMAIN keys = {1, 2, 3} /\ keys[1] = a /\ keys[2] = b /\ keys[3] = c
  OBVIOUS
<1>2. Range(keys) = {a, b, c}
  BY <1>1 DEF Range
<1> QED BY <1>2

-----------------------------------------------------------------------------
(* One step of one call.                                                   *)

\* A step that touches neither rows nor entries, of a call that owes no delete.
LEMMA QuietStep ==
  ASSUME StaleHasAReason, CallsOK, NEW c \in Caller, call[c].at # "invalidate",
         UNCHANGED <<dbVars, cache, outrun>>,
         \A d \in Caller \ {c} : call'[d] = call[d]
  PROVE  StaleHasAReason'
<1>1. \A k : Answers(k)' = Answers(k)
  BY StableAnswers
<1>2. \A k : Pending(k) => Pending(k)'
  BY DEF Pending
<1> QED BY <1>1, <1>2 DEF StaleHasAReason, Stale, Pending

\* An entry goes; every delete but of that entry is still owed.
LEMMA EntryGoes ==
  ASSUME StaleHasAReason, TablesOK, NEW k \in Key,
         cache' = [cache EXCEPT ![k] = Nothing], outrun' = outrun \ {k}, UNCHANGED dbVars,
         \A j \in Key \ {k} : Pending(j) => Pending(j)'
  PROVE  StaleHasAReason'
<1>1. \A j : Answers(j)' = Answers(j)
  BY StableAnswers
<1>2. cache'[k] = Nothing /\ \A j \in Key \ {k} : cache'[j] = cache[j]
  BY DEF TablesOK
<1> QED BY <1>1, <1>2 DEF StaleHasAReason, Stale, Pending

\* A fill is right, or it is known to have been outrun.
LEMMA FillStep ==
  ASSUME StaleHasAReason, TablesOK, CallsOK, NEW c \in Caller, Fill(c)
  PROVE  StaleHasAReason'
<1> DEFINE k == call[c].key
<1>1. k \in Key /\ call[c].at = "fill"
  BY DEF Fill, CallsOK, CallOK
<1>2. \A j : Answers(j)' = Answers(j)
  BY StableAnswers DEF Fill
<1>3. cache'[k] = call[c].got /\ \A j \in Key \ {k} : cache'[j] = cache[j]
  BY <1>1 DEF TablesOK, Fill
<1>4. \A d \in Caller \ {c} : call'[d] = call[d]
  BY DEF CallsOK, Fill, Ended
<1>5. \A j : Pending(j) => Pending(j)'
  BY <1>1, <1>4 DEF Pending
<1>6. /\ call[c].got \in Answers(k) \/ k \in outrun'
      /\ \A j \in Key \ {k} : j \in outrun => j \in outrun'
  BY DEF Fill
<1> QED BY <1>1, <1>2, <1>3, <1>5, <1>6 DEF StaleHasAReason, Stale, Pending

LEMMA DeleteStep ==
  ASSUME StaleHasAReason, TablesOK, CallsOK, NEW c \in Caller, DeleteKey(c)
  PROVE  StaleHasAReason'
<1> DEFINE keys == call[c].keys
           k    == Head(keys)
<1>1. keys \in Seq(Key) /\ keys # <<>> /\ k \in Key
  BY SeqOfKeys DEF DeleteKey, CallsOK, CallOK
<1>2. \A d \in Caller \ {c} : call'[d] = call[d]
  BY DEF DeleteKey, CallsOK, Ended
<1>3. ASSUME NEW j \in Key \ {k}, Pending(j) PROVE Pending(j)'
  <2>1. PICK d \in Caller : call[d].at = "invalidate" /\ j \in Range(call[d].keys)
    BY <1>3 DEF Pending
  <2>2. CASE d # c
    BY <1>2, <2>1, <2>2 DEF Pending
  <2>3. CASE d = c
    <3>1. Len(keys) # 1 /\ j \in Range(Tail(keys))
      BY <1>1, <1>3, <2>1, <2>3, SeqOfKeys
    <3>2. call' = [call EXCEPT ![c].keys = Tail(@)]
      BY <3>1 DEF DeleteKey
    <3>3. call'[c].at = "invalidate" /\ call'[c].keys = Tail(keys)
      BY <2>1, <2>3, <3>2 DEF CallsOK, CallOK, NoCall
    <3> QED BY <3>1, <3>3 DEF Pending
  <2> QED BY <2>2, <2>3
<1> QED BY <1>1, <1>3, EntryGoes DEF DeleteKey

\* What a failed call will not delete is on record.
LEMMA FailStep ==
  ASSUME StaleHasAReason, CallsOK, NEW c \in Caller, FailCall(c)
  PROVE  StaleHasAReason'
<1>1. \A j : Answers(j)' = Answers(j)
  BY StableAnswers DEF FailCall
<1>2. \A d \in Caller \ {c} : call'[d] = call[d]
  BY DEF CallsOK, FailCall, Ended
<1>3. \A j \in Key : Pending(j) /\ cache[j] # Nothing => Pending(j)' \/ j \in outrun'
  BY <1>2 DEF Pending, FailCall
<1>4. outrun \subseteq outrun' /\ cache' = cache
  BY DEF FailCall
<1> QED BY <1>1, <1>3, <1>4 DEF StaleHasAReason, Stale, Pending

\* A commit owes a delete of every key whose answer it changes, but for answers
\* that were no answers: a 404 was never stored.
LEMMA CommitStep ==
  ASSUME StaleHasAReason, CallsOK, NEW c \in Caller, call[c].at = "idle", NEW keys,
         call' = Invalidating(c, keys), UNCHANGED <<cache, outrun>>,
         \A k \in Key \ Range(keys) : Answers(k)' = Answers(k) \/ Answers(k) \subseteq {Nothing}
  PROVE  StaleHasAReason'
<1>1. call'[c].at = "invalidate" /\ call'[c].keys = keys
  BY DEF Invalidating, CallsOK, NoCall
<1>2. \A d \in Caller \ {c} : call'[d] = call[d]
  BY DEF Invalidating, CallsOK
<1>3. \A k \in Range(keys) : Pending(k)'
  BY <1>1 DEF Pending
<1>4. \A k : Pending(k) => Pending(k)'
  BY <1>2 DEF Pending
<1>5. \A k \in Key \ Range(keys) : Stale(k)' => Stale(k)
  BY DEF Stale
<1> QED BY <1>3, <1>4, <1>5 DEF StaleHasAReason, Pending

-----------------------------------------------------------------------------
(* What each commit changes.                                               *)

LEMMA PredictionChange ==
  ASSUME TablesOK, NEW p \in Row, NEW value, label' = [label EXCEPT ![p] = value],
         status' = status
  PROVE  /\ PredictionKeys(BatchOf[p]) \in Seq(Key) /\ PredictionKeys(BatchOf[p]) # <<>>
         /\ \A k \in Key \ Range(PredictionKeys(BatchOf[p])) : Answers(k)' = Answers(k)
<1> DEFINE b == BatchOf[p]
<1>1. b \in BatchId
  BY RoutesAssumption
<1>2. /\ PREDICTIONS_RECENT_KEY \in Key /\ batch_key(b) \in Key /\ predictions_batch_key(b) \in Key
  BY <1>1, KeyShapes
<1>3. /\ PredictionKeys(b) \in Seq(Key) /\ PredictionKeys(b) # <<>>
      /\ Range(PredictionKeys(b)) = {PREDICTIONS_RECENT_KEY, batch_key(b), predictions_batch_key(b)}
  BY <1>2, ThreeKeys DEF PredictionKeys
<1>4. ASSUME NEW k \in Key, k \notin Range(PredictionKeys(b)) PROVE Answers(k)' = Answers(k)
  <2>1. CASE k = BATCHES_LIST_KEY
    BY <2>1, SameAnswers
  <2>2. ASSUME NEW d \in BatchId, k = batch_key(d) PROVE Answers(k)' = Answers(k)
    BY <2>2, SameAnswers
  <2>3. ASSUME NEW d \in BatchId, k = predictions_batch_key(d) PROVE Answers(k)' = Answers(k)
    <3>1. d # b
      BY <1>3, <1>4, <2>3
    <3>2. \A q \in Row : BatchOf[q] = d => label'[q] = label[q]
      BY <3>1 DEF TablesOK
    <3> QED BY <2>3, <3>2, SameAnswers
  <2>4. k # PREDICTIONS_RECENT_KEY
    BY <1>3, <1>4
  <2> QED BY <2>1, <2>2, <2>3, <2>4, KeyShapes
<1> QED BY <1>3, <1>4

LEMMA BatchChange ==
  ASSUME TablesOK, NEW b \in BatchId, NEW value, status' = [status EXCEPT ![b] = value],
         label' = label
  PROVE  /\ BatchKeys(b) \in Seq(Key) /\ BatchKeys(b) # <<>>
         /\ \A k \in Key \ Range(BatchKeys(b)) : Answers(k)' = Answers(k)
<1>1. batch_key(b) \in Key /\ BATCHES_LIST_KEY \in Key
  BY KeyShapes
<1>2. /\ BatchKeys(b) \in Seq(Key) /\ BatchKeys(b) # <<>>
      /\ Range(BatchKeys(b)) = {batch_key(b), BATCHES_LIST_KEY}
  BY <1>1, TwoKeys DEF BatchKeys
<1>3. ASSUME NEW k \in Key, k \notin Range(BatchKeys(b)) PROVE Answers(k)' = Answers(k)
  <2>1. CASE k = PREDICTIONS_RECENT_KEY
    BY <2>1, SameAnswers
  <2>2. ASSUME NEW d \in BatchId, k = batch_key(d) PROVE Answers(k)' = Answers(k)
    <3>1. d # b
      BY <1>2, <1>3, <2>2
    <3>2. status'[d] = status[d]
      BY <3>1 DEF TablesOK
    <3> QED BY <2>2, <3>2, SameAnswers
  <2>3. ASSUME NEW d \in BatchId, k = predictions_batch_key(d) PROVE Answers(k)' = Answers(k)
    BY <2>3, SameAnswers
  <2>4. k # BATCHES_LIST_KEY
    BY <1>2, <1>3
  <2> QED BY <2>1, <2>2, <2>3, <2>4, KeyShapes
<1> QED BY <1>2, <1>3

\* The one key of a new batch that is not deleted had no answer before.
LEMMA NewBatchChange ==
  ASSUME TablesOK, NEW b \in BatchId, status[b] = "no row",
         status' = [status EXCEPT ![b] = "pending"], label' = label
  PROVE  /\ NewBatchKeys \in Seq(Key) /\ NewBatchKeys # <<>>
         /\ \A k \in Key \ Range(NewBatchKeys) :
               Answers(k)' = Answers(k) \/ Answers(k) \subseteq {Nothing}
<1>1. /\ NewBatchKeys \in Seq(Key) /\ NewBatchKeys # <<>>
      /\ Range(NewBatchKeys) = {BATCHES_LIST_KEY}
  BY KeyShapes, OneKey DEF NewBatchKeys
<1>2. ASSUME NEW k \in Key, k \notin Range(NewBatchKeys)
      PROVE  Answers(k)' = Answers(k) \/ Answers(k) \subseteq {Nothing}
  <2>1. CASE k = PREDICTIONS_RECENT_KEY
    BY <2>1, SameAnswers
  <2>2. ASSUME NEW d \in BatchId, k = batch_key(d), d # b PROVE Answers(k)' = Answers(k)
    BY <2>2, SameAnswers DEF TablesOK
  <2>3. CASE k = batch_key(b)
    <3>1. \A w : Answer(k, w) = Nothing
      BY <2>3, BatchAnswer
    <3> QED BY <3>1 DEF Answers
  <2>4. ASSUME NEW d \in BatchId, k = predictions_batch_key(d) PROVE Answers(k)' = Answers(k)
    BY <2>4, SameAnswers
  <2>5. k # BATCHES_LIST_KEY
    BY <1>1, <1>2
  <2> QED BY <2>1, <2>2, <2>3, <2>4, <2>5, KeyShapes
<1> QED BY <1>1, <1>2

-----------------------------------------------------------------------------
(* Calls keep their shape.                                                 *)

LEMMA NoCallOK ==
  /\ CallOK(NoCall)
  /\ \A got : CallOK([NoCall EXCEPT !.at = "answered", !.got = got])
  /\ \A got : CallOK([NoCall EXCEPT !.at = "failed", !.got = got])
  /\ \A k \in Key : CallOK([NoCall EXCEPT !.at = "query", !.key = k])
  /\ \A keys \in Seq(Key) : keys # <<>> =>
        CallOK([NoCall EXCEPT !.at = "invalidate", !.keys = keys])
<1>1. <<>> \in Seq(Key)
  OBVIOUS
<1> QED BY <1>1 DEF CallOK, NoCall, Stage

LEMMA OneCall ==
  ASSUME CallsOK, NEW c \in Caller, NEW r, CallOK(r), call' = [call EXCEPT ![c] = r]
  PROVE  CallsOK'
BY DEF CallsOK

LEMMA EndedOK ==
  ASSUME CallsOK, NEW c \in Caller, NEW how \in {"answered", "failed"}, NEW got,
         call' = Ended(c, how, got)
  PROVE  CallsOK' /\ \A d \in Caller \ {c} : call'[d] = call[d]
<1>1. CallOK(IF c \in Session THEN [NoCall EXCEPT !.at = how, !.got = got] ELSE NoCall)
  BY NoCallOK
<1>2. CallsOK'
  BY <1>1, OneCall DEF Ended
<1> QED BY <1>2 DEF Ended, CallsOK

LEMMA InvalidatingOK ==
  ASSUME CallsOK, NEW c \in Caller, NEW keys \in Seq(Key), keys # <<>>,
         call' = Invalidating(c, keys)
  PROVE  CallsOK'
BY NoCallOK, OneCall DEF Invalidating

\* The steps of the service calls, whoever makes them.
LEMMA CallsStay ==
  ASSUME TablesOK, CallsOK, NEW c \in Caller,
         \/ \E k \in Key : Lookup(c, k)
         \/ Query(c) \/ Fill(c) \/ DeleteKey(c) \/ FailCall(c)
         \/ call' = [call EXCEPT ![c] = NoCall]
  PROVE  CallsOK'
<1>1. ASSUME NEW k \in Key, Hit(c, k) PROVE CallsOK'
  BY <1>1, EndedOK DEF Hit
<1>2. ASSUME NEW k \in Key, GoOnMiss(c, k) PROVE CallsOK'
  BY <1>2, NoCallOK, OneCall DEF GoOnMiss
<1>3. CASE Query(c)
  <2>1. CallOK(call[c]) /\ call[c].at = "query"
    BY <1>3 DEF Query, CallsOK
  <2>2. CASE call' = Ended(c, "failed", Nothing)
    BY <2>2, EndedOK
  <2>3. ASSUME NEW got, call' = [call EXCEPT ![c].at = "fill", ![c].got = got] PROVE CallsOK'
    <3> DEFINE r == [call[c] EXCEPT !.at = "fill", !.got = got]
    <3>1. CallOK(r)
      BY <2>1 DEF CallOK, Stage, NoCall
    <3>2. call' = [call EXCEPT ![c] = r]
      BY <2>1, <2>3 DEF CallsOK, CallOK, NoCall
    <3> QED BY <3>1, <3>2, OneCall
  <2> QED BY <1>3, <2>2, <2>3 DEF Query
<1>4. CASE Fill(c)
  BY <1>4, EndedOK DEF Fill
<1>5. CASE DeleteKey(c)
  <2>1. CASE call' = Ended(c, "answered", Nothing)
    BY <2>1, EndedOK
  <2>2. CASE Len(call[c].keys) # 1 /\ call' = [call EXCEPT ![c].keys = Tail(@)]
    <3> DEFINE r == [call[c] EXCEPT !.keys = Tail(call[c].keys)]
    <3>1. CallOK(call[c]) /\ call[c].at = "invalidate"
      BY <1>5 DEF DeleteKey, CallsOK
    <3>2. Tail(call[c].keys) \in Seq(Key) /\ Tail(call[c].keys) # <<>>
      BY <2>2, <3>1, SeqOfKeys DEF CallOK
    <3>3. CallOK(r)
      BY <3>1, <3>2 DEF CallOK, NoCall
    <3>4. call' = [call EXCEPT ![c] = r]
      BY <2>2 DEF CallsOK
    <3> QED BY <3>3, <3>4, OneCall
  <2> QED BY <1>5, <2>1, <2>2 DEF DeleteKey
<1>6. CASE FailCall(c)
  BY <1>6, EndedOK DEF FailCall
<1>7. CASE call' = [call EXCEPT ![c] = NoCall]
  BY <1>7, NoCallOK, OneCall
<1> QED BY <1>1, <1>2, <1>3, <1>4, <1>5, <1>6, <1>7 DEF Lookup

-----------------------------------------------------------------------------
(* The steps of the routes.                                                *)

LEMMA CallStepKeeps ==
  ASSUME RoutesInv, NEW c \in Caller,
         (\E k \in Key : Lookup(c, k)) \/ CallStep(c) \/ FailCall(c)
  PROVE  RoutesInv'
<1> USE DEF RoutesInv
<1>1. CallsOK'
  BY CallsStay DEF CallStep
<1>2. TablesOK'
  BY DEF TablesOK, Lookup, Hit, GoOnMiss, CallStep, Query, Fill, DeleteKey, FailCall, dbVars
<1>3. ASSUME NEW k \in Key, Hit(c, k) PROVE StaleHasAReason'
  <2>1. \A d \in Caller \ {c} : call'[d] = call[d]
    BY <1>3 DEF Hit, Ended, CallsOK
  <2> QED BY <1>3, <2>1, QuietStep DEF Hit, dbVars
<1>4. ASSUME NEW k \in Key, GoOnMiss(c, k) PROVE StaleHasAReason'
  <2>1. \A d \in Caller \ {c} : call'[d] = call[d]
    BY <1>4 DEF GoOnMiss, CallsOK
  <2> QED BY <1>4, <2>1, QuietStep DEF GoOnMiss, dbVars
<1>5. ASSUME Query(c) PROVE StaleHasAReason'
  <2>1. \A d \in Caller \ {c} : call'[d] = call[d]
    BY <1>5 DEF Query, Ended, CallsOK
  <2> QED BY <1>5, <2>1, QuietStep DEF Query, dbVars
<1>6. StaleHasAReason'
  BY <1>3, <1>4, <1>5, FillStep, DeleteStep, FailStep DEF Lookup, CallStep
<1> QED BY <1>1, <1>2, <1>6

LEMMA CommitKeeps ==
  ASSUME RoutesInv, NEW c \in Caller,
         \/ \E p \in Row : \E class : Relabel(c, p, class)
         \/ WorkerStep(c)
         \/ \E b \in BatchId : CreateBatch(c, b)
  PROVE  RoutesInv'
<1> USE DEF RoutesInv
<1>1. ASSUME NEW p \in Row, NEW value, call[c].at = "idle",
             label' = [label EXCEPT ![p] = value], UNCHANGED <<status, cache, outrun>>,
             call' = Invalidating(c, PredictionKeys(BatchOf[p]))
      PROVE  RoutesInv'
  <2>1. /\ PredictionKeys(BatchOf[p]) \in Seq(Key) /\ PredictionKeys(BatchOf[p]) # <<>>
        /\ \A k \in Key \ Range(PredictionKeys(BatchOf[p])) : Answers(k)' = Answers(k)
    BY <1>1, PredictionChange
  <2>2. CallsOK'
    BY <1>1, <2>1, InvalidatingOK
  <2>3. TablesOK'
    BY <1>1 DEF TablesOK
  <2>4. StaleHasAReason'
    BY <1>1, <2>1, CommitStep
  <2> QED BY <2>2, <2>3, <2>4
<1>2. ASSUME NEW b \in BatchId, NEW value, call[c].at = "idle",
             status' = [status EXCEPT ![b] = value], UNCHANGED <<label, cache, outrun>>,
             call' = Invalidating(c, BatchKeys(b))
      PROVE  RoutesInv'
  <2>1. /\ BatchKeys(b) \in Seq(Key) /\ BatchKeys(b) # <<>>
        /\ \A k \in Key \ Range(BatchKeys(b)) : Answers(k)' = Answers(k)
    BY <1>2, BatchChange
  <2>2. CallsOK'
    BY <1>2, <2>1, InvalidatingOK
  <2>3. TablesOK'
    BY <1>2 DEF TablesOK
  <2>4. StaleHasAReason'
    BY <1>2, <2>1, CommitStep
  <2> QED BY <2>2, <2>3, <2>4
<1>3. ASSUME NEW p \in Row, NEW class, Relabel(c, p, class) PROVE RoutesInv'
  BY <1>1, <1>3 DEF Relabel
<1>4. ASSUME NEW p \in Row, SavePrediction(c, p) PROVE RoutesInv'
  BY <1>1, <1>4 DEF SavePrediction
<1>5. ASSUME NEW b \in BatchId, MoveBatch(c, b) PROVE RoutesInv'
  BY <1>2, <1>5 DEF MoveBatch
<1>6. ASSUME NEW b \in BatchId, CreateBatch(c, b) PROVE RoutesInv'
  <2>1. /\ call[c].at = "idle" /\ status[b] = "no row"
        /\ status' = [status EXCEPT ![b] = "pending"] /\ UNCHANGED <<label, cache, outrun>>
        /\ call' = Invalidating(c, NewBatchKeys)
    BY <1>6 DEF CreateBatch
  <2>2. /\ NewBatchKeys \in Seq(Key) /\ NewBatchKeys # <<>>
        /\ \A k \in Key \ Range(NewBatchKeys) :
              Answers(k)' = Answers(k) \/ Answers(k) \subseteq {Nothing}
    BY <2>1, NewBatchChange
  <2>3. CallsOK'
    BY <2>1, <2>2, InvalidatingOK
  <2>4. TablesOK'
    BY <2>1 DEF TablesOK
  <2>5. StaleHasAReason'
    BY <2>1, <2>2, CommitStep
  <2> QED BY <2>3, <2>4, <2>5
<1> QED BY <1>3, <1>4, <1>5, <1>6 DEF WorkerStep

\* A call that returns, or is refused, owes nothing.
LEMMA ReturnKeeps ==
  ASSUME RoutesInv, NEW c \in Caller, call[c].at # "invalidate",
         UNCHANGED <<dbVars, cache, outrun>>,
         \/ call' = [call EXCEPT ![c] = NoCall]
         \/ call' = Ended(c, "failed", Nothing)
  PROVE  RoutesInv'
<1> USE DEF RoutesInv
<1>1. CallsOK' /\ \A d \in Caller \ {c} : call'[d] = call[d]
  BY CallsStay, EndedOK DEF CallsOK
<1>2. TablesOK'
  BY DEF TablesOK, dbVars
<1>3. StaleHasAReason'
  BY <1>1, QuietStep
<1> QED BY <1>1, <1>2, <1>3

LEMMA ExpireKeeps ==
  ASSUME RoutesInv, NEW k \in Key, Expire(k)
  PROVE  RoutesInv'
<1> USE DEF RoutesInv
<1>1. \A j : Pending(j) => Pending(j)'
  BY DEF Expire, Pending
<1>2. CallsOK' /\ TablesOK'
  BY DEF Expire, CallsOK, TablesOK, dbVars
<1>3. StaleHasAReason'
  BY <1>1, EntryGoes DEF Expire
<1> QED BY <1>2, <1>3

LEMMA OthersKeep ==
  ASSUME RoutesInv, UNCHANGED <<dbVars, cache, call, outrun>>
  PROVE  RoutesInv'
<1>1. \A k : Answers(k)' = Answers(k)
  BY StableAnswers
<1>2. StaleHasAReason'
  BY <1>1 DEF RoutesInv, StaleHasAReason, Stale
<1>3. CallsOK' /\ TablesOK'
  BY DEF RoutesInv, CallsOK, TablesOK, dbVars
<1> QED BY <1>2, <1>3 DEF RoutesInv

-----------------------------------------------------------------------------
(* The dashboards.                                                         *)

LEMMA RowNumbers ==
  MaxRows \in Nat /\ \A p : p \in Row <=> (p \in Nat /\ p >= 1 /\ p <= MaxRows)
<1>1. MaxRows \in Nat
  BY RoutesAssumption
<1> QED BY <1>1 DEF Row

LEMMA DocNumbers ==
  /\ 0 \in 0 .. MaxRows
  /\ \A p \in Row : p \in 0 .. MaxRows
  /\ \A p \in 0 .. MaxRows : p # 0 => p \in Row
BY RowNumbers

\* The newest of the options is one of them.
LEMMA NewestIsARow ==
  ASSUME NEW T, T \subseteq Row, T # {}
  PROVE  Max(T) \in T
<1> DEFINE Less == OpToRel(<, Nat)
           Ages == {MaxRows - p : p \in T}
<1>1. MaxRows \in Nat /\ \A p \in T : p \in Nat /\ MaxRows - p \in Nat
  BY RowNumbers
<1>2. Ages \subseteq Nat /\ Ages # {}
  BY <1>1
<1>3. PICK a \in Ages : \A d \in Ages : ~(<<d, a>> \in Less)
  <2> HIDE DEF Ages, Less
  <2>1. IsWellFoundedOn(Less, Nat)
    BY NatLessThanWellFounded DEF Less
  <2> QED BY <1>2, <2>1, WFMin
<1>4. \A d \in Ages : ~(d < a)
  BY <1>2, <1>3 DEF OpToRel
<1>5. PICK p \in T : a = MaxRows - p
  BY <1>3
<1>6. ASSUME NEW q \in T PROVE p >= q
  <2>1. ~(MaxRows - q < MaxRows - p)
    BY <1>4, <1>5
  <2> QED BY <1>1, <2>1
<1> QED BY <1>6 DEF Max

LEMMA RedrawnOK ==
  ASSUME DesksOK, NEW s \in Session, NEW list
  PROVE  Redrawn(s, list).doc \in 0 .. MaxRows /\ "doc" \in DOMAIN Redrawn(s, list)
<1>1. page[s].doc \in 0 .. MaxRows
  BY DEF DesksOK, DeskOK
<1>2. Pool(s, list) \subseteq Row
  BY DEF Pool
<1>3. Pool(s, list) # {} => Max(Pool(s, list)) \in 0 .. MaxRows
  <2>1. Pool(s, list) # {} => Max(Pool(s, list)) \in Row
    BY <1>2, NewestIsARow
  <2> QED BY <2>1, DocNumbers
<1> QED BY <1>1, <1>3, DocNumbers DEF Redrawn

LEMMA DesksStay ==
  ASSUME DesksOK, NEW s \in Session, NEW new, NEW stage,
         "doc" \in DOMAIN new, new.doc \in 0 .. MaxRows, stage = "patch" => new.doc # 0,
         page' = [page EXCEPT ![s] = new], at' = [at EXCEPT ![s] = stage]
  PROVE  DesksOK'
BY DEF DesksOK, DeskOK

\* A new click or a new run keeps the page, or changes the document chosen.
LEMMA ClickKeeps ==
  ASSUME CacheInv, NEW s \in Session,
         \/ Refresh(s)
         \/ \E p \in Row : Choose(s, p)
         \/ \E class \in Class : Save(s, class)
  PROVE  RoutesInv' /\ DesksOK'
<1>1. RoutesInv'
  BY OthersKeep DEF CacheInv, Refresh, Choose, Save, routeVars
<1>2. ASSUME page' = page, at' = [at EXCEPT ![s] = "load"] PROVE DesksOK'
  BY <1>2 DEF CacheInv, DesksOK, DeskOK
<1>3. CASE Refresh(s) \/ \E class \in Class : Save(s, class)
  BY <1>1, <1>2, <1>3 DEF Refresh, Save, Rerun, CacheInv
<1>4. ASSUME NEW p \in Row, Choose(s, p) PROVE DesksOK'
  <2> DEFINE new == [page[s] EXCEPT !.doc = p]
  <2>1. p \in 0 .. MaxRows
    BY DocNumbers
  <2>2. "doc" \in DOMAIN new /\ new.doc \in 0 .. MaxRows
    BY <2>1 DEF CacheInv, DesksOK, DeskOK
  <2>3. page' = [page EXCEPT ![s] = new] /\ at' = [at EXCEPT ![s] = "load"]
    BY <1>4 DEF Choose, Rerun, CacheInv, DesksOK
  <2> QED BY <2>2, <2>3, DesksStay DEF CacheInv
<1> QED BY <1>1, <1>3, <1>4 DEF CacheInv

LEMMA ScriptKeeps ==
  ASSUME CacheInv, NEW s \in Session, ScriptStep(s)
  PROVE  RoutesInv' /\ DesksOK'
<1> USE DEF CacheInv
<1>1. s \in Caller
  BY DEF Caller
<1>2. ASSUME UNCHANGED deskVars PROVE DesksOK'
  BY <1>2 DEF deskVars, DesksOK, DeskOK
<1>3. CASE SendGet(s)
  <2>1. RoutesInv'
    BY <1>1, <1>3, CallStepKeeps, KeyShapes DEF SendGet
  <2> QED BY <1>2, <1>3, <2>1 DEF SendGet
<1>4. CASE CallStep(s) /\ UNCHANGED deskVars
  BY <1>1, <1>2, <1>4, CallStepKeeps
<1>5. ASSUME NEW how \in {"answered", "failed"}, Returned(s, how), UNCHANGED <<dbVars, cache, outrun>>
      PROVE  RoutesInv'
  BY <1>1, <1>5, ReturnKeeps DEF Returned
<1>6. CASE Loaded(s)
  <2> DEFINE new == Redrawn(s, call[s].got)
  <2>1. RoutesInv'
    BY <1>5, <1>6 DEF Loaded
  <2>2. new.doc \in 0 .. MaxRows /\ "doc" \in DOMAIN new
    BY RedrawnOK
  <2>3. page' = [page EXCEPT ![s] = new]
    BY <1>6 DEF Loaded
  <2>4. PICK stage : at' = [at EXCEPT ![s] = stage] /\ (stage = "patch" => new.doc # 0)
    BY <1>6 DEF Loaded, Submits
  <2> HIDE DEF new
  <2>5. DesksOK'
    BY <2>2, <2>3, <2>4, DesksStay
  <2> QED BY <2>1, <2>5
<1>7. CASE FellBack(s)
  <2>1. RoutesInv'
    BY <1>5, <1>7 DEF FellBack
  <2>2. "doc" \in DOMAIN Demo /\ Demo.doc \in 0 .. MaxRows
    BY DocNumbers DEF Demo
  <2>3. PICK stage \in {"load", "shown"} : at' = [at EXCEPT ![s] = stage]
    BY <1>7 DEF FellBack
  <2>4. DesksOK'
    BY <1>7, <2>2, <2>3, DesksStay DEF FellBack
  <2> QED BY <2>1, <2>4
<1>8. CASE SendPatch(s)
  <2>1. page[s].doc \in Row
    BY <1>8, DocNumbers DEF SendPatch, DesksOK, DeskOK
  <2>2. ASSUME Relabel(s, page[s].doc, click[s].class) PROVE RoutesInv'
    BY <1>1, <2>1, <2>2, CommitKeeps
  <2>3. ASSUME Refuse(s, page[s].doc) PROVE RoutesInv'
    BY <1>1, <2>3, ReturnKeeps DEF Refuse
  <2> QED BY <1>2, <1>8, <2>2, <2>3 DEF SendPatch
<1>9. CASE PatchSaved(s) \/ PatchRefused(s)
  <2>1. RoutesInv'
    BY <1>5, <1>9 DEF PatchSaved, PatchRefused
  <2>2. PICK stage : at' = [at EXCEPT ![s] = stage] /\ stage # "patch"
    BY <1>9 DEF PatchSaved, PatchRefused, Rerun
  <2>3. page' = page
    BY <1>9 DEF PatchSaved, PatchRefused
  <2>4. DesksOK'
    BY <2>2, <2>3 DEF DesksOK, DeskOK
  <2> QED BY <2>1, <2>4
<1> QED BY <1>3, <1>4, <1>6, <1>7, <1>8, <1>9 DEF ScriptStep

-----------------------------------------------------------------------------
(* The theorem.                                                            *)

LEMMA CallersStay == [Next]_vars => UNCHANGED <<online, route>>
<1>1. ASSUME NEW s, \/ Refresh(s) \/ ScriptStep(s)
                    \/ \E p \in Row : Choose(s, p)
                    \/ \E class \in Class : Save(s, class)
      PROVE  UNCHANGED <<online, route>>
  BY <1>1 DEF Refresh, ScriptStep, Choose, Save, SendGet, Loaded, FellBack, SendPatch, PatchSaved,
              PatchRefused, CallStep, Lookup, Hit, GoOnMiss, Query, Fill, DeleteKey, bounds, routeVars
<1>2. ASSUME NEW c, WorkerStep(c) \/ ClientStep(c) \/ CallStep(c) \/ FailCall(c)
      PROVE  UNCHANGED <<online, route>>
  BY <1>2 DEF WorkerStep, SavePrediction, CreateBatch, MoveBatch, ClientStep, CallStep, Lookup, Hit,
              GoOnMiss, Query, Fill, DeleteKey, FailCall, bounds
<1>3. ASSUME NEW k, Expire(k) PROVE UNCHANGED <<online, route>>
  BY <1>3 DEF Expire, bounds
<1> QED BY <1>1, <1>2, <1>3 DEF Next, vars, routeVars, bounds

LEMMA CacheInvInit == Init => CacheInv
<1> SUFFICES ASSUME Init PROVE CacheInv
  OBVIOUS
<1>1. TablesOK /\ CallsOK
  BY NoCallOK DEF Init, RoutesInit, TablesOK, CallsOK
<1>2. StaleHasAReason
  BY DEF Init, RoutesInit, StaleHasAReason, Stale
<1>3. DesksOK
  BY DocNumbers DEF Init, DesksOK, DeskOK, Demo
<1>4. ClientsRead
  BY DEF Init, RoutesInit, ClientsRead
<1> QED BY <1>1, <1>2, <1>3, <1>4 DEF CacheInv, RoutesInv

LEMMA CacheInvNext == CacheInv /\ [Next]_vars => CacheInv'
<1> SUFFICES ASSUME CacheInv, [Next]_vars PROVE CacheInv'
  OBVIOUS
<1>0. ClientsRead'
  BY CallersStay DEF CacheInv, ClientsRead
<1>1. ASSUME UNCHANGED deskVars, RoutesInv' PROVE CacheInv'
  BY <1>0, <1>1 DEF CacheInv, deskVars, DesksOK, DeskOK
<1>2. ASSUME NEW s \in Session,
             \/ Refresh(s) \/ ScriptStep(s)
             \/ \E p \in Row : Choose(s, p)
             \/ \E class \in Class : Save(s, class)
      PROVE  CacheInv'
  BY <1>0, <1>2, ClickKeeps, ScriptKeeps DEF CacheInv
<1>3. ASSUME NEW w \in Worker, WorkerStep(w) \/ CallStep(w), UNCHANGED deskVars
      PROVE  CacheInv'
  BY <1>1, <1>3, CallStepKeeps, CommitKeeps DEF CacheInv, Caller
<1>4. ASSUME NEW c \in Client, c \in online, ClientStep(c) \/ CallStep(c), UNCHANGED deskVars
      PROVE  CacheInv'
  <2>1. c \in Caller
    BY DEF Caller
  <2>2. ASSUME Lookup(c, route[c]) PROVE RoutesInv'
    BY <1>4, <2>1, <2>2, CallStepKeeps DEF CacheInv, ClientsRead
  <2>3. ASSUME NEW p \in Row, NEW class, Relabel(c, p, class) PROVE RoutesInv'
    BY <2>1, <2>3, CommitKeeps DEF CacheInv
  <2>4. ASSUME NEW b \in BatchId, CreateBatch(c, b) PROVE RoutesInv'
    BY <2>1, <2>4, CommitKeeps DEF CacheInv
  <2> QED BY <1>1, <1>4, <2>1, <2>2, <2>3, <2>4, CallStepKeeps DEF ClientStep, CacheInv
<1>5. ASSUME NEW c \in Caller, FailCall(c), UNCHANGED deskVars PROVE CacheInv'
  BY <1>1, <1>5, CallStepKeeps DEF CacheInv
<1>6. ASSUME NEW k \in Key, Expire(k), UNCHANGED deskVars PROVE CacheInv'
  BY <1>1, <1>6, ExpireKeeps DEF CacheInv
<1>7. CASE UNCHANGED vars
  BY <1>1, <1>7, OthersKeep DEF vars, routeVars, CacheInv
<1> QED BY <1>2, <1>3, <1>4, <1>5, <1>6, <1>7 DEF Next

\* Whatever the interleaving, an entry of the cache that differs from the rows
\* waits for a delete that is owed, or was outrun by a fill or an error: no
\* service forgets a key that its commit outdates.
THEOREM CacheTheorem == Spec => []StaleHasAReason
<1>1. CacheInv => StaleHasAReason
  BY DEF CacheInv, RoutesInv
<1> QED BY <1>1, CacheInvInit, CacheInvNext, PTL DEF Spec

-----------------------------------------------------------------------------
(* Types: what the answers of the recent predictions hold, and where a     *)
(* script is when its call is where it is.                                 *)

Lists == [Row -> Label]

TablesTyped ==
    /\ label \in Lists
    /\ status \in [BatchId -> Status]
    /\ corrector \in [Row -> Caller \cup {Nothing}]

BoundsTyped ==
    /\ online \in Overlaps /\ route \in [Client \cap online -> Key]
    /\ patches \in 0 .. MaxPatches /\ failures \in 0 .. MaxFailures
    /\ outrun \subseteq Key

\* What is stored or about to be stored under the key of the dashboards.
RecentTyped ==
    /\ cache[PREDICTIONS_RECENT_KEY] \in Lists \cup {Nothing}
    /\ \A c \in Caller :
          call[c].at = "fill" /\ call[c].key = PREDICTIONS_RECENT_KEY => call[c].got \in Lists

CallFits(s) ==
    /\ at[s] = "shown" => call[s].at = "idle"
    /\ at[s] = "load" =>
          /\ call[s].at # "invalidate"
          /\ call[s].at \in {"query", "fill"} => call[s].key = PREDICTIONS_RECENT_KEY
          /\ call[s].at = "answered" => call[s].got \in Lists
    /\ at[s] = "patch" => call[s].at \notin {"query", "fill"}

Page  == [mode : {"live", "demo"}, list : Lists, doc : 0 .. MaxRows]
Click == [mode : {"none", "live", "demo"}, class : Label]
Told  == [row : 0 .. MaxRows, class : Label]

PageFits(s) ==
    /\ page[s].doc # 0 => page[s].doc \in Pool(s, page[s].list)
    /\ click[s].mode # "none" => click[s].class \in Class
    /\ at[s] = "patch" => click[s].mode = "live" /\ page[s].doc # 0

ScriptsTyped ==
    /\ at \in [Session -> {"shown", "load", "patch"}]
    /\ page \in [Session -> Page]
    /\ click \in [Session -> Click]
    /\ saved \in [Session -> Told]
    /\ \A s \in Session : CallFits(s) /\ PageFits(s)

TypeInv == TablesTyped /\ BoundsTyped /\ RecentTyped /\ ScriptsTyped

LEMMA TypeInvMeansTypes == CacheInv /\ TypeInv => DeskTypeOK
<1> SUFFICES ASSUME CacheInv, TypeInv PROVE DeskTypeOK
  OBVIOUS
<1>1. RoutesTypeOK
  BY DEF CacheInv, RoutesInv, TablesOK, CallsOK, CallOK, TypeInv, TablesTyped, BoundsTyped,
         RoutesTypeOK, Lists
<1> QED BY <1>1 DEF TypeInv, ScriptsTyped, PageFits, Page, Click, Told, DeskTypeOK, Lists

\* A step of a call, by whoever it is, and an entry that expires.
CallMoves(c) ==
    \/ \E k \in Key : Lookup(c, k)
    \/ CallStep(c) \/ FailCall(c)

LEMMA CallsKeepTables ==
  ASSUME TypeInv, CacheInv, NEW c \in Caller, CallMoves(c)
  PROVE  TablesTyped' /\ BoundsTyped' /\ RecentTyped'
<1> USE DEF TypeInv, CacheInv, RoutesInv
<1>1. UNCHANGED <<label, status, corrector, online, route, patches>>
  BY DEF CallMoves, Lookup, Hit, GoOnMiss, CallStep, Query, Fill, DeleteKey, FailCall, dbVars, bounds
<1>2. TablesTyped'
  BY <1>1 DEF TablesTyped
<1>3. call[c] \in {call[d] : d \in Caller} /\ CallOK(call[c])
  BY DEF CallsOK
<1>4. CASE Fill(c)
  <2>1. call[c].key \in Key /\ UNCHANGED failures
    BY <1>3, <1>4 DEF Fill, CallOK, bounds
  <2>2. BoundsTyped'
    BY <1>1, <1>4, <2>1 DEF Fill, BoundsTyped
  <2>3. /\ cache'[PREDICTIONS_RECENT_KEY] \in {cache[PREDICTIONS_RECENT_KEY], call[c].got}
        /\ cache'[PREDICTIONS_RECENT_KEY] = call[c].got =>
              call[c].key = PREDICTIONS_RECENT_KEY \/ call[c].got = cache[PREDICTIONS_RECENT_KEY]
    BY <1>4, <2>1, KeyShapes DEF Fill, TablesOK
  <2>4. \A d \in Caller : call'[d].at = "fill" => call'[d] = call[d]
    BY <1>4 DEF Fill, Ended, NoCall, CallsOK
  <2> QED BY <1>2, <1>4, <2>2, <2>3, <2>4 DEF Fill, RecentTyped
<1>5. CASE Query(c)
  <2>1. UNCHANGED <<cache, outrun, failures>>
    BY <1>5 DEF Query, bounds
  <2>2. \A d \in Caller \ {c} : call'[d] = call[d]
    BY <1>5 DEF Query, Ended, CallsOK
  <2>3. \/ call'[c].at # "fill"
        \/ call'[c].key = call[c].key /\ \E w : call'[c].got = Answer(call[c].key, w)
    BY <1>3, <1>5 DEF Query, Ended, CallsOK, CallOK, NoCall
  <2>4. \A w : Answer(PREDICTIONS_RECENT_KEY, w) \in Lists
    <3>1. ASSUME NEW w PROVE Answer(PREDICTIONS_RECENT_KEY, w) \in Lists
      BY RecentAnswer DEF TablesTyped, Lists, Label
    <3> QED BY <3>1
  <2>5. RecentTyped'
    BY <2>1, <2>2, <2>3, <2>4 DEF RecentTyped
  <2> QED BY <1>1, <1>2, <2>1, <2>5 DEF BoundsTyped
<1>6. CASE DeleteKey(c)
  <2> DEFINE k == Head(call[c].keys)
  <2>1. k \in Key
    BY <1>3, <1>6, SeqOfKeys DEF DeleteKey, CallOK
  <2>2. /\ cache' = [cache EXCEPT ![k] = Nothing] /\ outrun' = outrun \ {k} /\ UNCHANGED failures
        /\ call' = Ended(c, "answered", Nothing) \/ call' = [call EXCEPT ![c].keys = Tail(@)]
    BY <1>6 DEF DeleteKey, bounds
  <2>3. \A d \in Caller : call'[d].at = "fill" => call'[d] = call[d]
    <3>1. \A d \in Caller \ {c} : call'[d] = call[d]
      BY <2>2 DEF Ended, CallsOK
    <3>2. call'[c].at # "fill"
      BY <1>3, <1>6, <2>2 DEF DeleteKey, Ended, CallsOK, CallOK, NoCall
    <3> QED BY <3>1, <3>2
  <2>4. RecentTyped'
    BY <2>1, <2>2, <2>3, KeyShapes DEF RecentTyped, TablesOK
  <2> QED BY <1>1, <1>2, <2>2, <2>4 DEF BoundsTyped
<1>7. ASSUME NEW k \in Key, Lookup(c, k) PROVE BoundsTyped' /\ RecentTyped'
  <2>1. UNCHANGED <<cache, outrun, failures>>
    BY <1>7 DEF Lookup, Hit, GoOnMiss, bounds
  <2>2. \A d \in Caller : call'[d].at = "fill" => call'[d] = call[d]
    <3>1. CASE Hit(c, k)
      BY <3>1 DEF Hit, Ended, NoCall, CallsOK
    <3>2. CASE GoOnMiss(c, k)
      BY <3>2 DEF GoOnMiss, NoCall, CallsOK
    <3> QED BY <1>7, <3>1, <3>2 DEF Lookup
  <2> QED BY <1>1, <2>1, <2>2 DEF BoundsTyped, RecentTyped
<1>8. CASE FailCall(c)
  <2>1. Range(call[c].keys) \subseteq Key
    <3>1. call[c].keys \in Seq(Key)
      BY <1>3 DEF CallOK
    <3> QED BY <3>1 DEF Range
  <2>2. outrun' \subseteq Key /\ UNCHANGED cache /\ failures' = failures + 1 /\ failures < MaxFailures
    BY <1>8, <2>1 DEF FailCall, BoundsTyped
  <2>3. failures' \in 0 .. MaxFailures
    <3>1. failures \in 0 .. MaxFailures /\ MaxFailures \in Nat
      BY RoutesAssumption DEF BoundsTyped
    <3> QED BY ONLY <2>2, <3>1
  <2>4. \A d \in Caller : call'[d].at = "fill" => call'[d] = call[d]
    BY <1>8 DEF FailCall, Ended, NoCall, CallsOK
  <2> QED BY <1>1, <1>2, <2>2, <2>3, <2>4 DEF BoundsTyped, RecentTyped
<1> QED BY <1>2, <1>4, <1>5, <1>6, <1>7, <1>8 DEF CallMoves, CallStep

LEMMA CommitsKeepTables ==
  ASSUME TypeInv, CacheInv, NEW c \in Caller,
         \/ \E p \in Row, class \in Class : Relabel(c, p, class)
         \/ WorkerStep(c)
         \/ \E b \in BatchId : CreateBatch(c, b)
  PROVE  TablesTyped' /\ RecentTyped'
<1> USE DEF TypeInv, CacheInv, RoutesInv
<1>1. TablesTyped'
  <2>1. CASE \E p \in Row, class \in Class : Relabel(c, p, class)
    <3>1. PICK p \in Row, class \in Class :
             /\ label' = [label EXCEPT ![p] = class]
             /\ corrector' = [corrector EXCEPT ![p] = c]
             /\ UNCHANGED status
      BY <2>1 DEF Relabel
    <3>2. label' \in Lists
      BY <3>1 DEF TablesTyped, Lists, Label
    <3>3. corrector' \in [Row -> Caller \cup {Nothing}]
      BY <3>1 DEF TablesTyped
    <3> QED BY <3>1, <3>2, <3>3 DEF TablesTyped
  <2>2. CASE \E p \in Row : SavePrediction(c, p)
    BY <2>2 DEF SavePrediction, TablesTyped, Lists, Label
  <2>3. CASE \E b \in BatchId : MoveBatch(c, b)
    BY <2>3 DEF MoveBatch, TablesTyped, Status
  <2>4. CASE \E b \in BatchId : CreateBatch(c, b)
    BY <2>4 DEF CreateBatch, TablesTyped, Status
  <2> QED BY <2>1, <2>2, <2>3, <2>4 DEF WorkerStep
<1>2. cache' = cache /\ \E keys : call' = Invalidating(c, keys)
  BY DEF WorkerStep, Relabel, SavePrediction, CreateBatch, MoveBatch
<1>3. \A d \in Caller : call'[d].at = "fill" => call'[d] = call[d]
  BY <1>2 DEF Invalidating, NoCall, CallsOK
<1> QED BY <1>1, <1>2, <1>3 DEF RecentTyped

\* A step that is none of a script's leaves every script where it was.
LEMMA ScriptsStay ==
  ASSUME TypeInv, UNCHANGED deskVars, \A s \in Session : CallFits(s) => CallFits(s)'
  PROVE  ScriptsTyped'
BY DEF TypeInv, ScriptsTyped, PageFits, deskVars, Pool

LEMMA CallsKeepScripts ==
  ASSUME TypeInv, CacheInv, NEW c \in Caller, UNCHANGED deskVars,
         \/ \E k \in Key : /\ Lookup(c, k)
                           /\ c \in Session => at[c] = "load" /\ k = PREDICTIONS_RECENT_KEY
         \/ CallStep(c) \/ FailCall(c)
  PROVE  ScriptsTyped'
<1> USE DEF TypeInv, CacheInv, RoutesInv
<1>1. \A d \in Caller \ {c} : call'[d] = call[d]
  BY DEF Lookup, Hit, GoOnMiss, CallStep, Query, Fill, DeleteKey, FailCall, Ended, CallsOK
<1>2. \A s \in Session : s \in Caller
  BY DEF Caller
<1>3. ASSUME NEW s \in Session, s # c, CallFits(s) PROVE CallFits(s)'
  BY <1>1, <1>2, <1>3 DEF CallFits, deskVars
<1>4. ASSUME c \in Session, CallFits(c) PROVE CallFits(c)'
  <2>1. /\ at' = at /\ at[c] \in {"shown", "load", "patch"}
        /\ DOMAIN call = Caller /\ CallOK(call[c])
    BY <1>4 DEF ScriptsTyped, deskVars, CallsOK
  <2>2. CASE Query(c)
    <3>1. at[c] = "load" /\ call[c].key = PREDICTIONS_RECENT_KEY
      BY <1>4, <2>1, <2>2 DEF Query, CallFits
    <3>2. call'[c].at = "failed" \/ (call'[c].at = "fill" /\ call'[c].key = call[c].key)
      BY <1>4, <2>1, <2>2 DEF Query, Ended, CallOK, NoCall
    <3> QED BY <2>1, <3>1, <3>2 DEF CallFits
  <2>3. CASE Fill(c)
    <3>1. at[c] = "load" /\ call[c].got \in Lists
      BY <1>4, <2>1, <2>3 DEF Fill, CallFits, RecentTyped
    <3>2. call'[c].at = "answered" /\ call'[c].got = call[c].got
      BY <1>4, <2>1, <2>3 DEF Fill, Ended, NoCall
    <3> QED BY <2>1, <3>1, <3>2 DEF CallFits
  <2>4. CASE DeleteKey(c)
    <3>1. at[c] = "patch"
      BY <1>4, <2>1, <2>4 DEF DeleteKey, CallFits
    <3>2. call'[c].at \in {"answered", "invalidate"}
      BY <1>4, <2>1, <2>4 DEF DeleteKey, Ended, NoCall, CallOK
    <3> QED BY <2>1, <3>1, <3>2 DEF CallFits
  <2>5. CASE FailCall(c)
    <3>1. at[c] # "shown" /\ call'[c].at = "failed"
      BY <1>4, <2>1, <2>5 DEF FailCall, CallFits, Ended, NoCall
    <3> QED BY <2>1, <3>1 DEF CallFits
  <2>6. CASE Lookup(c, PREDICTIONS_RECENT_KEY) /\ at[c] = "load"
    <3>1. CASE Hit(c, PREDICTIONS_RECENT_KEY)
      <4>1. call'[c].at = "answered" /\ call'[c].got = cache[PREDICTIONS_RECENT_KEY]
        BY <1>4, <2>1, <3>1 DEF Hit, Ended, NoCall
      <4>2. cache[PREDICTIONS_RECENT_KEY] \in Lists
        BY <3>1 DEF Hit, RecentTyped
      <4> QED BY <2>1, <2>6, <4>1, <4>2 DEF CallFits
    <3>2. CASE GoOnMiss(c, PREDICTIONS_RECENT_KEY)
      <4>1. call'[c].at = "query" /\ call'[c].key = PREDICTIONS_RECENT_KEY
        BY <2>1, <3>2 DEF GoOnMiss, NoCall
      <4> QED BY <2>1, <2>6, <4>1 DEF CallFits
    <3> QED BY <2>6, <3>1, <3>2 DEF Lookup
  <2> QED BY <1>4, <2>2, <2>3, <2>4, <2>5, <2>6 DEF CallStep
<1> QED BY <1>3, <1>4, ScriptsStay

\* A step of one script: the others stay where they are.
LEMMA OneScript ==
  ASSUME TypeInv, CacheInv, NEW s \in Session, NEW stage \in {"shown", "load", "patch"},
         NEW pg \in Page, NEW cl \in Click, NEW sv \in Told,
         at' = [at EXCEPT ![s] = stage], page' = [page EXCEPT ![s] = pg],
         click' = [click EXCEPT ![s] = cl], saved' = [saved EXCEPT ![s] = sv],
         \A d \in Caller \ {s} : call'[d] = call[d],
         at'[s] = stage => CallFits(s)',
         pg.doc # 0 => pg.doc \in Pool(s, pg.list),
         cl.mode # "none" => cl.class \in Class,
         stage = "patch" => cl.mode = "live" /\ pg.doc # 0
  PROVE  ScriptsTyped'
<1> USE DEF TypeInv, ScriptsTyped
<1>1. at'[s] = stage /\ page'[s] = pg /\ click'[s] = cl /\ saved'[s] = sv
  OBVIOUS
<1>2. CallFits(s)' /\ PageFits(s)'
  BY <1>1 DEF PageFits, Pool
<1>3. ASSUME NEW t \in Session \ {s} PROVE CallFits(t)' /\ PageFits(t)'
  <2>1. at'[t] = at[t] /\ page'[t] = page[t] /\ click'[t] = click[t] /\ saved'[t] = saved[t]
    OBVIOUS
  <2>2. call'[t] = call[t]
    <3>1. t \in Caller /\ t # s
      BY DEF Caller
    <3> QED BY <3>1
  <2>3. CallFits(t) /\ PageFits(t)
    OBVIOUS
  <2>4. CallFits(t)'
    BY <2>1, <2>2, <2>3 DEF CallFits
  <2>5. PageFits(t)'
    BY <2>1, <2>3 DEF PageFits, Pool
  <2> QED BY <2>4, <2>5
<1>4. /\ at' \in [Session -> {"shown", "load", "patch"}] /\ page' \in [Session -> Page]
      /\ click' \in [Session -> Click] /\ saved' \in [Session -> Told]
  OBVIOUS
<1> QED BY <1>2, <1>3, <1>4

LEMMA PageValues ==
  /\ NoRows \in Lists /\ Demo \in Page /\ NoClick \in Click /\ NoSave \in Told
  /\ Class \subseteq Label
<1>1. 0 \in 0 .. MaxRows
  BY DocNumbers
<1> QED BY <1>1 DEF NoRows, Demo, NoClick, NoSave, Lists, Page, Click, Told, Label

LEMMA ClickTypes ==
  ASSUME TypeInv, CacheInv, NEW s \in Session,
         \/ Refresh(s)
         \/ \E p \in Row : Choose(s, p)
         \/ \E class \in Class : Save(s, class)
  PROVE  TypeInv'
<1> USE DEF TypeInv, ScriptsTyped
<1>1. /\ at[s] = "shown" /\ at' = [at EXCEPT ![s] = "load"] /\ saved' = saved
      /\ UNCHANGED <<label, status, corrector, cache, call, online, route, failures, outrun>>
  BY DEF Refresh, Choose, Save, Rerun, routeVars, dbVars, bounds
<1>2. at'[s] = "load" => CallFits(s)'
  BY <1>1 DEF CallFits
<1>3. saved[s] \in Told /\ saved' = [saved EXCEPT ![s] = saved[s]]
  BY <1>1
<1>4. page[s] \in Page /\ (page[s].doc # 0 => page[s].doc \in Pool(s, page[s].list))
  BY DEF PageFits
<1>5. TablesTyped' /\ RecentTyped'
  BY <1>1 DEF TablesTyped, RecentTyped
<1>6. CASE Refresh(s)
  <2>1. page' = [page EXCEPT ![s] = page[s]] /\ click' = [click EXCEPT ![s] = NoClick]
        /\ UNCHANGED patches
    BY <1>6 DEF Refresh, Rerun, routeVars, bounds
  <2>2. NoClick.mode = "none"
    BY DEF NoClick
  <2>3. ScriptsTyped'
    BY <1>1, <1>2, <1>3, <1>4, <2>1, <2>2, PageValues, OneScript
  <2> QED BY <1>1, <1>5, <2>1, <2>3 DEF BoundsTyped
<1>7. ASSUME NEW p \in Row, Choose(s, p) PROVE TypeInv'
  <2> DEFINE pg == [page[s] EXCEPT !.doc = p]
  <2>1. page' = [page EXCEPT ![s] = pg] /\ click' = [click EXCEPT ![s] = NoClick]
        /\ UNCHANGED patches /\ p \in Pool(s, page[s].list)
    BY <1>7 DEF Choose, Rerun, routeVars, bounds
  <2>2. pg \in Page /\ pg.doc = p /\ pg.list = page[s].list
    BY <1>4, DocNumbers DEF Page
  <2> HIDE DEF pg
  <2>3. NoClick.mode = "none"
    BY DEF NoClick
  <2>4. ScriptsTyped'
    BY <1>1, <1>2, <1>3, <2>1, <2>2, <2>3, PageValues, OneScript
  <2> QED BY <1>1, <1>5, <2>1, <2>4 DEF BoundsTyped
<1>8. ASSUME NEW class \in Class, Save(s, class) PROVE TypeInv'
  <2> DEFINE cl == [mode |-> page[s].mode, class |-> class]
  <2>1. page' = [page EXCEPT ![s] = page[s]] /\ click' = [click EXCEPT ![s] = cl]
        /\ patches < MaxPatches /\ patches' = patches + 1
    BY <1>8 DEF Save, Rerun
  <2>2. cl \in Click /\ cl.class \in Class
    BY <1>4, PageValues DEF Page, Click
  <2> HIDE DEF cl
  <2>3. ScriptsTyped'
    BY <1>1, <1>2, <1>3, <1>4, <2>1, <2>2, OneScript
  <2>4. patches' \in 0 .. MaxPatches
    <3>1. patches \in 0 .. MaxPatches /\ MaxPatches \in Nat
      BY RoutesAssumption DEF BoundsTyped
    <3> QED BY ONLY <2>1, <3>1
  <2> QED BY <1>1, <1>5, <2>3, <2>4 DEF BoundsTyped
<1> QED BY <1>6, <1>7, <1>8

\* The page for a list of rows shows one of the documents it offers, and the
\* class kept for it is one a document can have.
LEMMA RedrawnTypes ==
  ASSUME TypeInv, NEW s \in Session, NEW list \in Lists
  PROVE  /\ Redrawn(s, list) \in Page
         /\ Redrawn(s, list).doc # 0 =>
               Redrawn(s, list).doc \in Pool(s, Redrawn(s, list).list)
<1> DEFINE options == Pool(s, list)
           same    == page[s].doc # 0 /\ options = Pool(s, page[s].list)
           doc     == IF same THEN page[s].doc ELSE IF options = {} THEN 0 ELSE Max(options)
<1>1. Redrawn(s, list) = [mode |-> "live", list |-> list, doc |-> doc]
  BY DEF Redrawn
<1>2. options \subseteq Row
  BY DEF Pool
<1>3. options # {} => Max(options) \in options
  BY <1>2, NewestIsARow
<1>4. same => page[s].doc \in options
  BY DEF TypeInv, ScriptsTyped, PageFits
<1> HIDE DEF options, same
<1>5. doc \in options \/ doc = 0
  BY <1>3, <1>4
<1>6. doc \in 0 .. MaxRows
  BY <1>2, <1>5, DocNumbers
<1> HIDE DEF doc
<1> QED BY <1>1, <1>5, <1>6 DEF Page, options

LEMMA KeptTypes ==
  ASSUME TypeInv, NEW s \in Session, click[s].class \in Class, NEW new \in Page,
         new.doc \in Pool(s, new.list)
  PROVE  Kept(s, new) \in Class
<1>1. new.list \in Lists /\ new.list[new.doc] # "no row" /\ new.doc \in Row
  BY DEF Pool, Page
<1>2. new.list[new.doc] \in Class \cup {"not corrected"}
  BY <1>1 DEF Lists, Label
<1>3. CurrentClass(new.list, new.doc) \in Class
  BY <1>1, <1>2, DeskAssumption DEF CurrentClass
<1> QED BY <1>3 DEF Kept

LEMMA LoadedTypes ==
  ASSUME TypeInv, CacheInv, NEW s \in Session, Loaded(s) PROVE TypeInv'
<1> DEFINE new == Redrawn(s, call[s].got)
           cl  == IF Submits(s, new) THEN [click[s] EXCEPT !.class = Kept(s, new)] ELSE NoClick
           stage == IF Submits(s, new) THEN "patch" ELSE "shown"
<1>1. /\ at[s] = "load" /\ call[s].at = "answered" /\ call' = [call EXCEPT ![s] = NoCall]
      /\ page' = [page EXCEPT ![s] = new] /\ saved' = [saved EXCEPT ![s] = NoSave]
      /\ UNCHANGED <<label, status, corrector, cache, online, route, patches, failures, outrun>>
  BY DEF Loaded, Returned, dbVars, bounds
<1>2. call[s].got \in Lists
  BY <1>1 DEF TypeInv, ScriptsTyped, CallFits
<1>3. new \in Page /\ (new.doc # 0 => new.doc \in Pool(s, new.list))
  BY <1>2, RedrawnTypes
<1>4. click[s] \in Click /\ (click[s].mode # "none" => click[s].class \in Class)
  BY DEF TypeInv, ScriptsTyped, PageFits
<1>5. /\ at' = [at EXCEPT ![s] = stage] /\ click' = [click EXCEPT ![s] = cl]
  <2>1. click \in [Session -> Click]
    BY DEF TypeInv, ScriptsTyped
  <2>2. CASE Submits(s, new)
    BY <2>1, <2>2 DEF Loaded
  <2>3. CASE ~Submits(s, new)
    BY <2>3 DEF Loaded
  <2> QED BY <2>2, <2>3
<1>6. Submits(s, new) <=> click[s].mode = "live" /\ new.doc # 0
  BY DEF Submits
<1> HIDE DEF new
<1>7. /\ cl \in Click /\ (cl.mode # "none" => cl.class \in Class)
      /\ stage = "patch" => cl.mode = "live" /\ new.doc # 0
  <2>1. CASE Submits(s, new)
    <3>1. Kept(s, new) \in Class
      BY <1>3, <1>4, <1>6, <2>1, KeptTypes
    <3> QED BY <1>4, <1>6, <2>1, <3>1, PageValues DEF Click
  <2>2. CASE ~Submits(s, new)
    BY <2>2, PageValues DEF NoClick
  <2> QED BY <2>1, <2>2
<1>8. stage \in {"shown", "load", "patch"} /\ stage # "load"
  OBVIOUS
<1> HIDE DEF cl, stage
<1>9. \A d \in Caller \ {s} : call'[d] = call[d]
  BY <1>1 DEF CacheInv, RoutesInv, CallsOK
<1>10. call'[s].at = "idle"
  BY <1>1 DEF CacheInv, RoutesInv, CallsOK, Caller, NoCall
<1>11. at'[s] = stage => CallFits(s)'
  BY <1>8, <1>10 DEF CallFits
<1>12. ScriptsTyped'
  BY <1>1, <1>3, <1>5, <1>7, <1>8, <1>9, <1>11, PageValues, OneScript
<1>13. TablesTyped' /\ BoundsTyped'
  BY <1>1 DEF TypeInv, TablesTyped, BoundsTyped
<1>14. RecentTyped'
  <2>1. \A d \in Caller : call'[d].at = "fill" => call'[d] = call[d]
    BY <1>9, <1>10
  <2> QED BY <1>1, <2>1 DEF TypeInv, RecentTyped
<1> QED BY <1>12, <1>13, <1>14 DEF TypeInv

\* The other ends of a script's calls.
LEMMA ReturnTypes ==
  ASSUME TypeInv, CacheInv, NEW s \in Session, FellBack(s) \/ PatchSaved(s) \/ PatchRefused(s)
  PROVE  TypeInv'
<1>1. /\ call' = [call EXCEPT ![s] = NoCall]
      /\ UNCHANGED <<label, status, corrector, cache, online, route, patches, failures, outrun>>
  BY DEF FellBack, PatchSaved, PatchRefused, Returned, dbVars, bounds
<1>2. \A d \in Caller \ {s} : call'[d] = call[d]
  BY <1>1 DEF CacheInv, RoutesInv, CallsOK
<1>3. call'[s].at = "idle"
  BY <1>1 DEF CacheInv, RoutesInv, CallsOK, Caller, NoCall
<1>4. CallFits(s)'
  BY <1>3 DEF CallFits
<1>5. TablesTyped' /\ BoundsTyped'
  BY <1>1 DEF TypeInv, TablesTyped, BoundsTyped
<1>6. RecentTyped'
  <2>1. \A d \in Caller : call'[d].at = "fill" => call'[d] = call[d]
    BY <1>2, <1>3
  <2> QED BY <1>1, <2>1 DEF TypeInv, RecentTyped
<1>7. /\ page[s] \in Page /\ click[s] \in Click /\ saved[s] \in Told
      /\ page[s].doc # 0 => page[s].doc \in Pool(s, page[s].list)
      /\ at[s] = "patch" => click[s].class \in Class /\ page[s].doc # 0
      /\ page \in [Session -> Page] /\ saved \in [Session -> Told]
  BY DEF TypeInv, ScriptsTyped, PageFits
<1>8. NoClick.mode = "none" /\ Demo.doc = 0
  BY DEF NoClick, Demo
<1>9. CASE FellBack(s)
  <2>1. PICK stage \in {"shown", "load"} : at' = [at EXCEPT ![s] = stage]
    BY <1>9 DEF FellBack
  <2>2. page' = [page EXCEPT ![s] = Demo] /\ click' = [click EXCEPT ![s] = NoClick]
        /\ saved' = [saved EXCEPT ![s] = NoSave]
    BY <1>9 DEF FellBack
  <2>3. ScriptsTyped'
    BY <1>2, <1>4, <1>8, <2>1, <2>2, PageValues, OneScript
  <2> QED BY <1>5, <1>6, <2>3 DEF TypeInv
<1>10. CASE PatchSaved(s)
  <2> DEFINE sv == [row |-> page[s].doc, class |-> click[s].class]
  <2>1. at[s] = "patch" /\ at' = [at EXCEPT ![s] = "load"] /\ page' = [page EXCEPT ![s] = page[s]]
        /\ click' = [click EXCEPT ![s] = NoClick] /\ saved' = [saved EXCEPT ![s] = sv]
    BY <1>7, <1>10 DEF PatchSaved, Rerun
  <2>2. sv \in Told
    BY <1>7, <2>1, PageValues DEF Told, Page
  <2> HIDE DEF sv
  <2>3. ScriptsTyped'
    BY <1>2, <1>4, <1>7, <1>8, <2>1, <2>2, PageValues, OneScript
  <2> QED BY <1>5, <1>6, <2>3 DEF TypeInv
<1>11. CASE PatchRefused(s)
  <2>1. at' = [at EXCEPT ![s] = "shown"] /\ page' = [page EXCEPT ![s] = page[s]]
        /\ click' = [click EXCEPT ![s] = NoClick] /\ saved' = [saved EXCEPT ![s] = saved[s]]
    BY <1>7, <1>11 DEF PatchRefused
  <2>2. ScriptsTyped'
    BY <1>2, <1>4, <1>7, <1>8, <2>1, PageValues, OneScript
  <2> QED BY <1>5, <1>6, <2>2 DEF TypeInv
<1> QED BY <1>9, <1>10, <1>11

LEMMA SendPatchTypes ==
  ASSUME TypeInv, CacheInv, NEW s \in Session, SendPatch(s) PROVE TypeInv'
<1>1. s \in Caller /\ at[s] = "patch" /\ UNCHANGED <<bounds, deskVars>>
  BY DEF Caller, SendPatch
<1>2. page[s].doc \in Row /\ click[s].class \in Class
  BY <1>1, DocNumbers DEF TypeInv, ScriptsTyped, PageFits, Page
<1>3. outrun' = outrun
  BY DEF SendPatch, Relabel, Refuse
<1>4. BoundsTyped'
  BY <1>1, <1>3 DEF TypeInv, BoundsTyped, bounds
<1>5. /\ \A d \in Caller \ {s} : call'[d] = call[d]
      /\ call'[s].at \in {"invalidate", "failed"}
  BY <1>1 DEF SendPatch, Relabel, Refuse, Invalidating, Ended, NoCall, CacheInv, RoutesInv, CallsOK
<1>6. ASSUME NEW t \in Session, CallFits(t) PROVE CallFits(t)'
  <2>1. CASE t = s
    BY <1>1, <1>5, <2>1 DEF CallFits, deskVars
  <2>2. CASE t # s
    <3>1. call'[t] = call[t]
      BY <1>5, <2>2 DEF Caller
    <3> QED BY <1>1, <1>6, <3>1 DEF CallFits, deskVars
  <2> QED BY <2>1, <2>2
<1>7. ScriptsTyped'
  BY <1>1, <1>6, ScriptsStay
<1>8. CASE Relabel(s, page[s].doc, click[s].class)
  BY <1>1, <1>2, <1>4, <1>7, <1>8, CommitsKeepTables DEF TypeInv
<1>9. CASE Refuse(s, page[s].doc)
  <2>1. UNCHANGED <<label, status, corrector, cache>>
    BY <1>9 DEF Refuse, dbVars
  <2>2. \A d \in Caller : call'[d].at = "fill" => call'[d] = call[d]
    BY <1>5
  <2> QED BY <1>4, <1>7, <2>1, <2>2 DEF TypeInv, TablesTyped, RecentTyped
<1> QED BY <1>8, <1>9 DEF SendPatch

\* The steps of everyone else.
LEMMA OthersTypes ==
  ASSUME TypeInv, CacheInv, UNCHANGED deskVars,
         \/ \E w \in Worker \cap online : WorkerStep(w) \/ CallStep(w)
         \/ \E c \in Client \cap online : ClientStep(c) \/ CallStep(c)
         \/ \E c \in Caller : FailCall(c)
         \/ \E k \in Key : Expire(k)
  PROVE  TypeInv'
<1> USE DEF TypeInv
<1>1. ASSUME NEW c \in Caller,
             \/ CallStep(c) \/ FailCall(c)
             \/ c \notin Session /\ \E k \in Key : Lookup(c, k)
      PROVE  TypeInv'
  BY <1>1, CallsKeepTables, CallsKeepScripts DEF CallMoves
<1>2. ASSUME NEW c \in Caller \ Session, BoundsTyped',
             \/ WorkerStep(c)
             \/ \E p \in Row, class \in Class : Relabel(c, p, class)
             \/ \E b \in BatchId : CreateBatch(c, b)
      PROVE  TypeInv'
  <2>1. \A d \in Caller \ {c} : call'[d] = call[d]
    BY <1>2 DEF WorkerStep, Relabel, SavePrediction, CreateBatch, MoveBatch, Invalidating, CacheInv,
           RoutesInv, CallsOK
  <2>2. \A s \in Session : CallFits(s) => CallFits(s)'
    BY <2>1 DEF CallFits, deskVars, Caller
  <2> QED BY <1>2, <2>2, CommitsKeepTables, ScriptsStay
<1>3. ASSUME NEW k \in Key, Expire(k) PROVE TypeInv'
  <2>1. UNCHANGED <<label, status, corrector, call, online, route, patches, failures>>
        /\ outrun' \subseteq outrun
    BY <1>3 DEF Expire, dbVars, bounds
  <2>2. TablesTyped' /\ BoundsTyped'
    BY <2>1 DEF TablesTyped, BoundsTyped
  <2>3. cache'[PREDICTIONS_RECENT_KEY] \in {Nothing, cache[PREDICTIONS_RECENT_KEY]}
    BY <1>3, KeyShapes DEF Expire, CacheInv, RoutesInv, TablesOK
  <2>4. RecentTyped'
    BY <2>1, <2>3 DEF RecentTyped
  <2>5. \A s \in Session : CallFits(s) => CallFits(s)'
    BY <2>1 DEF CallFits, deskVars
  <2> QED BY <2>2, <2>4, <2>5, ScriptsStay
<1>4. ASSUME NEW w \in Worker, WorkerStep(w) PROVE TypeInv'
  <2>1. w \in Caller \ Session
    BY RoutesAssumption DEF Caller
  <2>2. UNCHANGED <<bounds, outrun>>
    BY <1>4 DEF WorkerStep, SavePrediction, CreateBatch, MoveBatch
  <2> QED BY <1>2, <1>4, <2>1, <2>2 DEF BoundsTyped, bounds
<1>5. ASSUME NEW c \in Client \cap online, ClientStep(c) PROVE TypeInv'
  <2>1. c \in Caller \ Session /\ route[c] \in Key
    BY RoutesAssumption DEF Caller, CacheInv, ClientsRead
  <2>2. CASE Lookup(c, route[c])
    BY <1>1, <2>1, <2>2
  <2>3. CASE /\ patches < MaxPatches /\ patches' = patches + 1
             /\ \E p \in Row, class \in Class : Relabel(c, p, class)
             /\ UNCHANGED <<online, route, failures>>
    <3>1. patches' \in 0 .. MaxPatches
      <4>1. patches \in 0 .. MaxPatches /\ MaxPatches \in Nat
        BY RoutesAssumption DEF BoundsTyped
      <4> QED BY ONLY <2>3, <4>1
    <3>2. BoundsTyped'
      BY <2>3, <3>1 DEF BoundsTyped, Relabel
    <3> QED BY <1>2, <2>1, <2>3, <3>2
  <2>4. ASSUME NEW b \in BatchId, CreateBatch(c, b) PROVE TypeInv'
    <3>1. BoundsTyped'
      BY <2>4 DEF CreateBatch, BoundsTyped, bounds
    <3> QED BY <1>2, <2>1, <2>4, <3>1
  <2> QED BY <1>5, <2>2, <2>3, <2>4 DEF ClientStep
<1>6. \A c \in Client \cup Worker : c \in Caller
  BY DEF Caller
<1> QED BY <1>1, <1>3, <1>4, <1>5, <1>6

LEMMA TypeInvInit == Init => TypeInv
<1> SUFFICES ASSUME Init PROVE TypeInv
  OBVIOUS
<1> USE DEF Init, RoutesInit
<1>1. TablesTyped
  <2>1. PICK n \in 0 .. MaxRows, m \in 0 .. MaxBatches :
           /\ label = [p \in Row |-> IF p <= n THEN "not corrected" ELSE "no row"]
           /\ status = [b \in BatchId |-> IF b > m THEN "no row"
                                         ELSE IF \E p \in 1 .. n : BatchOf[p] = b
                                              THEN "processing" ELSE "pending"]
    OBVIOUS
  <2>2. label \in Lists
    BY <2>1 DEF Lists, Label
  <2>3. status \in [BatchId -> Status]
    BY <2>1 DEF Status
  <2>4. corrector \in [Row -> Caller \cup {Nothing}]
    OBVIOUS
  <2> QED BY <2>2, <2>3, <2>4 DEF TablesTyped
<1>2. BoundsTyped
  <2>1. MaxPatches \in Nat /\ MaxFailures \in Nat
    BY RoutesAssumption
  <2>2. 0 \in 0 .. MaxPatches /\ 0 \in 0 .. MaxFailures
    BY ONLY <2>1
  <2> QED BY <2>2 DEF BoundsTyped
<1>3. \A d \in Caller : call[d].at = "idle"
  BY DEF NoCall
<1>4. RecentTyped
  BY <1>3, KeyShapes DEF RecentTyped
<1>5. ScriptsTyped
  BY <1>3, PageValues DEF ScriptsTyped, CallFits, PageFits, Caller, Demo, NoClick
<1> QED BY <1>1, <1>2, <1>4, <1>5 DEF TypeInv

LEMMA TypeInvNext ==
  ASSUME TypeInv, CacheInv, [Next]_vars PROVE TypeInv'
<1>1. ASSUME NEW s \in Session, ScriptStep(s) PROVE TypeInv'
  <2>1. s \in Caller
    BY DEF Caller
  <2>2. CASE SendGet(s)
    <3>1. at[s] = "load" /\ Lookup(s, PREDICTIONS_RECENT_KEY) /\ UNCHANGED deskVars
      BY <2>2 DEF SendGet
    <3> QED BY <2>1, <3>1, KeyShapes, CallsKeepTables, CallsKeepScripts DEF TypeInv, CallMoves
  <2>3. CASE CallStep(s) /\ UNCHANGED deskVars
    BY <2>1, <2>3, CallsKeepTables, CallsKeepScripts DEF TypeInv, CallMoves
  <2> QED BY <1>1, <2>2, <2>3, LoadedTypes, ReturnTypes, SendPatchTypes DEF ScriptStep
<1>2. CASE UNCHANGED vars
  BY <1>2 DEF vars, routeVars, dbVars, bounds, deskVars, TypeInv, TablesTyped, BoundsTyped,
         RecentTyped, ScriptsTyped, CallFits, PageFits, Pool
<1> QED BY <1>1, <1>2, ClickTypes, OthersTypes DEF Next

LEMMA TypeInvTheorem == Spec => [](CacheInv /\ TypeInv)
<1>1. CacheInv /\ TypeInv /\ [Next]_vars => TypeInv'
  BY TypeInvNext
<1> QED BY <1>1, CacheInvInit, CacheInvNext, TypeInvInit, PTL DEF Spec

\* The rows, the cache and the dashboards keep their types, and the document a
\* page has chosen is always one its picker offers: the choice is given up
\* whenever the options change.
THEOREM DeskTypeTheorem == Spec => []DeskTypeOK
BY TypeInvTheorem, TypeInvMeansTypes, PTL

-----------------------------------------------------------------------------
(* Reading one's own correction.                                           *)

R == PREDICTIONS_RECENT_KEY

\* The row has this label, and who finds it in the cached list sees it there.
Served(p, class) ==
    /\ label[p] = class
    /\ cache[R] = Nothing \/ cache[R][p] \in {class, "no row"} \/ R \in outrun

Owes(s) == call[s].at = "invalidate" /\ R \in Range(call[s].keys)

\* From the commit on the row has the class of the click, and from the delete
\* of the list on it is served.
OwnOK(s) ==
    /\ at[s] # "load" => saved[s] = NoSave
    /\ saved[s] # NoSave =>
          /\ saved[s].row \in Row /\ saved[s].class \in Class
          /\ corrector[saved[s].row] = s => Served(saved[s].row, saved[s].class)
    /\ (at[s] = "patch" /\ call[s].at \in {"invalidate", "answered"}
            /\ corrector[page[s].doc] = s) =>
          /\ label[page[s].doc] = click[s].class
          /\ Owes(s) \/ Served(page[s].doc, click[s].class)

OwnInv == \A s \in Session : OwnOK(s)

\* What a step may do to the cached list: keep it, drop it, fill it with some of
\* the rows as they are, or know that it was outrun.
EntryMoves ==
    \/ cache'[R] = cache[R] /\ (R \in outrun => R \in outrun')
    \/ cache'[R] = Nothing \/ \A p \in Row : cache'[R][p] \in {label[p], "no row"}
    \/ R \in outrun'

\* And to the rows that s was the last to correct.
RowsOfKept(s) ==
    \A p \in Row : corrector'[p] = s =>
        corrector[p] = s /\ (label[p] \in Class => label'[p] = label[p])

LEMMA CallsMoveEntry ==
  ASSUME TypeInv, CacheInv, NEW c \in Caller, CallMoves(c)
  PROVE  EntryMoves /\ UNCHANGED dbVars /\ \A d \in Caller \ {c} : call'[d] = call[d]
<1> USE DEF CacheInv, RoutesInv
<1>1. UNCHANGED dbVars /\ \A d \in Caller \ {c} : call'[d] = call[d]
  BY DEF CallMoves, Lookup, Hit, GoOnMiss, CallStep, Query, Fill, DeleteKey, FailCall, Ended, CallsOK
<1>2. R \in Key /\ DOMAIN cache = Key
  BY KeyShapes DEF R, TablesOK
<1>9. \A got \in Answers(R) : \A p \in Row : got[p] \in {label[p], "no row"}
  <2>1. ASSUME NEW w, NEW p \in Row
        PROVE  Answer(R, w)[p] \in {label[p], "no row"}
    <3>1. PICK rows : Answer(R, w) = [q \in Row |-> IF q \in rows THEN label[q] ELSE "no row"]
      BY RecentAnswer DEF R
    <3> QED BY <3>1
  <2> QED BY <2>1 DEF Answers
<1>3. CASE Fill(c)
  <2>1. /\ cache' = [cache EXCEPT ![call[c].key] = call[c].got]
        /\ outrun' = IF call[c].got \in Answers(call[c].key) THEN outrun \ {call[c].key}
                     ELSE outrun \cup {call[c].key}
    BY <1>3 DEF Fill
  <2>2. CASE call[c].key = R
    BY <1>1, <1>2, <1>9, <2>1, <2>2 DEF EntryMoves
  <2>3. CASE call[c].key # R
    BY <1>1, <1>2, <2>1, <2>3 DEF EntryMoves
  <2> QED BY <2>2, <2>3
<1>4. CASE DeleteKey(c)
  <2>1. /\ cache' = [cache EXCEPT ![Head(call[c].keys)] = Nothing]
        /\ outrun' = outrun \ {Head(call[c].keys)}
    BY <1>4 DEF DeleteKey
  <2>2. CASE Head(call[c].keys) = R
    BY <1>1, <1>2, <2>1, <2>2 DEF EntryMoves
  <2>3. CASE Head(call[c].keys) # R
    BY <1>1, <1>2, <2>1, <2>3 DEF EntryMoves
  <2> QED BY <2>2, <2>3
<1>5. CASE Query(c) \/ FailCall(c) \/ \E k \in Key : Lookup(c, k)
  <2>1. cache' = cache /\ outrun \subseteq outrun'
    BY <1>5 DEF Query, FailCall, Lookup, Hit, GoOnMiss
  <2> QED BY <1>1, <2>1 DEF EntryMoves
<1> QED BY <1>1, <1>3, <1>4, <1>5 DEF CallMoves, CallStep

LEMMA RowsUnchanged ==
  ASSUME UNCHANGED dbVars, NEW s PROVE RowsOfKept(s)
BY DEF dbVars, RowsOfKept

LEMMA CommitsKeepRows ==
  ASSUME TypeInv, CacheInv, NEW c \in Caller, NEW s, s # c,
         \/ \E p \in Row, class \in Class : Relabel(c, p, class)
         \/ WorkerStep(c)
         \/ \E b \in BatchId : CreateBatch(c, b)
  PROVE  EntryMoves /\ RowsOfKept(s) /\ \A d \in Caller \ {c} : call'[d] = call[d]
<1>1. label \in Lists /\ corrector \in [Row -> Caller \cup {Nothing}]
  BY DEF TypeInv, TablesTyped
<1>2. UNCHANGED <<cache, outrun>>
  BY DEF WorkerStep, Relabel, SavePrediction, CreateBatch, MoveBatch
<1>3. \A d \in Caller \ {c} : call'[d] = call[d]
  BY DEF WorkerStep, Relabel, SavePrediction, CreateBatch, MoveBatch, Invalidating, CacheInv,
         RoutesInv, CallsOK
<1>4. CASE \E p \in Row, class \in Class : Relabel(c, p, class)
  BY <1>1, <1>2, <1>3, <1>4 DEF Relabel, EntryMoves, RowsOfKept, Lists
<1>5. CASE \E p \in Row : SavePrediction(c, p)
  BY <1>1, <1>2, <1>3, <1>5, RoutesAssumption DEF SavePrediction, EntryMoves, RowsOfKept, Lists
<1>6. CASE \E b \in BatchId : CreateBatch(c, b) \/ MoveBatch(c, b)
  BY <1>2, <1>3, <1>6 DEF CreateBatch, MoveBatch, EntryMoves, RowsOfKept
<1> QED BY <1>4, <1>5, <1>6 DEF WorkerStep

LEMMA ServedStays ==
  ASSUME NEW s, EntryMoves, RowsOfKept(s), NEW p \in Row, NEW class \in Class,
         corrector[p] = s => Served(p, class), corrector'[p] = s
  PROVE  Served(p, class)'
BY DEF EntryMoves, RowsOfKept, Served

\* A session whose script and call do not move.
LEMMA OwnStays ==
  ASSUME TypeInv, NEW s \in Session, OwnOK(s), EntryMoves, RowsOfKept(s),
         at'[s] = at[s], saved'[s] = saved[s],
         \/ at[s] = "patch" => call'[s].at \notin {"invalidate", "answered"}
         \/ UNCHANGED <<page[s], click[s], call[s]>>
  PROVE  OwnOK(s)'
<1>1. saved'[s] # NoSave =>
         /\ saved'[s].row \in Row /\ saved'[s].class \in Class
         /\ corrector'[saved'[s].row] = s => Served(saved[s].row, saved[s].class)'
  BY DEF OwnOK, EntryMoves, RowsOfKept, Served
<1>2. ASSUME at[s] = "patch", UNCHANGED <<page[s], click[s], call[s]>>,
             call[s].at \in {"invalidate", "answered"}, corrector'[page[s].doc] = s
      PROVE  /\ label'[page[s].doc] = click[s].class
             /\ Owes(s)' \/ Served(page[s].doc, click[s].class)'
  <2>1. page[s].doc \in Row /\ click[s].class \in Class
    BY <1>2, DocNumbers DEF TypeInv, ScriptsTyped, PageFits, Page
  <2>2. corrector[page[s].doc] = s /\ label[page[s].doc] = click[s].class
    BY <1>2, <2>1 DEF OwnOK, RowsOfKept
  <2>3. label'[page[s].doc] = click[s].class
    BY <1>2, <2>1, <2>2 DEF RowsOfKept
  <2>4. CASE Owes(s)
    BY <1>2, <2>3, <2>4 DEF Owes
  <2>5. CASE Served(page[s].doc, click[s].class)
    <3>1. cache'[R] = Nothing \/ cache'[R][page[s].doc] \in {click[s].class, "no row"} \/ R \in outrun'
      BY <2>1, <2>2, <2>5 DEF Served, EntryMoves
    <3>2. page'[s].doc = page[s].doc /\ click'[s].class = click[s].class
      BY <1>2
    <3> QED BY <2>3, <3>1, <3>2 DEF Served
  <2> QED BY <1>2, <2>2, <2>3, <2>4, <2>5 DEF OwnOK
<1> QED BY <1>1, <1>2 DEF OwnOK

LEMMA OwnCallStep ==
  ASSUME TypeInv, CacheInv, NEW s \in Session, OwnOK(s), UNCHANGED deskVars,
         CallStep(s) \/ FailCall(s)
  PROVE  OwnOK(s)'
<1>1. s \in Caller /\ DOMAIN call = Caller /\ CallOK(call[s])
  BY DEF Caller, CacheInv, RoutesInv, CallsOK
<1>2. EntryMoves /\ RowsOfKept(s) /\ label' = label
  <2>1. CallMoves(s)
    BY DEF CallMoves
  <2> QED BY <1>1, <2>1, CallsMoveEntry, RowsUnchanged DEF dbVars
<1>3. at' = at /\ saved' = saved /\ page' = page /\ click' = click
  BY DEF deskVars
<1>4. CASE at[s] # "patch" \/ FailCall(s)
  <2>1. at[s] = "patch" => call'[s].at \notin {"invalidate", "answered"}
    BY <1>1, <1>4 DEF FailCall, Ended, NoCall
  <2> QED BY <1>2, <1>3, <2>1, OwnStays
<1>5. CASE at[s] = "patch" /\ CallStep(s)
  <2>1. DeleteKey(s)
    BY <1>5 DEF TypeInv, ScriptsTyped, CallFits, CallStep, Query, Fill
  <2>2. saved[s] = NoSave
    BY <1>5 DEF OwnOK
  <2> DEFINE k == Head(call[s].keys)
             p == page[s].doc
  <2>3. /\ call[s].at = "invalidate" /\ cache' = [cache EXCEPT ![k] = Nothing]
        /\ call' = IF Len(call[s].keys) = 1 THEN Ended(s, "answered", Nothing)
                   ELSE [call EXCEPT ![s].keys = Tail(@)]
    BY <2>1 DEF DeleteKey
  <2>4. /\ k \in Key
        /\ Len(call[s].keys) = 1 => Range(call[s].keys) = {k}
        /\ \A j \in Range(call[s].keys) : j = k \/ j \in Range(Tail(call[s].keys))
    BY <1>1, <2>3, SeqOfKeys DEF CallOK
  <2>5. ASSUME corrector'[p] = s
        PROVE  label'[p] = click[s].class /\ (Owes(s)' \/ Served(p, click[s].class)')
    <3>1. p \in Row /\ click[s].class \in Class
      BY <1>5, DocNumbers DEF TypeInv, ScriptsTyped, PageFits, Page
    <3>2. corrector[p] = s /\ label[p] = click[s].class
      BY <1>2, <1>5, <2>3, <2>5, <3>1 DEF OwnOK, RowsOfKept
    <3>3. label'[p] = click[s].class
      BY <1>2, <3>2
    <3>4. CASE k = R
      <4>1. cache'[R] = Nothing
        BY <2>3, <2>4, <3>4 DEF CacheInv, RoutesInv, TablesOK
      <4> QED BY <1>3, <3>3, <4>1 DEF Served
    <3>5. CASE k # R /\ Owes(s)
      <4>1. Len(call[s].keys) # 1 /\ R \in Range(Tail(call[s].keys))
        BY <2>4, <3>5 DEF Owes
      <4>2. call'[s].at = "invalidate" /\ call'[s].keys = Tail(call[s].keys)
        BY <1>1, <2>3, <4>1 DEF CallOK, NoCall
      <4> QED BY <3>3, <4>1, <4>2 DEF Owes
    <3>6. CASE Served(p, click[s].class)
      <4>1. cache'[R] = Nothing \/ cache'[R][p] \in {click[s].class, "no row"} \/ R \in outrun'
        BY <1>2, <3>1, <3>2, <3>6 DEF Served, EntryMoves
      <4> QED BY <1>3, <3>3, <4>1 DEF Served
    <3> QED BY <1>5, <2>3, <3>2, <3>3, <3>4, <3>5, <3>6 DEF OwnOK
  <2> QED BY <1>3, <1>5, <2>2, <2>5 DEF OwnOK
<1> QED BY <1>4, <1>5

LEMMA OwnScriptStep ==
  ASSUME TypeInv, CacheInv, OwnInv, NEW s \in Session, ScriptStep(s)
  PROVE  OwnInv'
<1>1. s \in Caller /\ DOMAIN call = Caller /\ DOMAIN at = Session /\ OwnOK(s)
  BY DEF Caller, CacheInv, RoutesInv, CallsOK, DesksOK, OwnInv
<1>2. /\ saved \in [Session -> Told] /\ page \in [Session -> Page] /\ click \in [Session -> Click]
  BY DEF TypeInv, ScriptsTyped
<1>3. ASSUME NEW t \in Session \ {s} PROVE OwnOK(t)'
  <2>1. t \in Caller \ {s} /\ OwnOK(t)
    BY DEF Caller, OwnInv
  <2>2. UNCHANGED <<at[t], saved[t], page[t], click[t]>>
    BY <1>1, <1>2 DEF ScriptStep, SendGet, Loaded, FellBack, SendPatch, PatchSaved, PatchRefused,
           Rerun, deskVars
  <2>3. EntryMoves /\ RowsOfKept(t) /\ call'[t] = call[t]
    <3>1. CASE SendGet(s) \/ CallStep(s)
      <4>1. CallMoves(s)
        BY <3>1, KeyShapes DEF SendGet, CallMoves
      <4> QED BY <1>1, <2>1, <4>1, CallsMoveEntry, RowsUnchanged
    <3>2. CASE SendPatch(s)
      <4>1. CASE Relabel(s, page[s].doc, click[s].class)
        <5>1. page[s].doc \in Row /\ click[s].class \in Class
          BY <3>2, DocNumbers DEF SendPatch, TypeInv, ScriptsTyped, PageFits, Page
        <5> QED BY <1>1, <2>1, <4>1, <5>1, CommitsKeepRows
      <4>2. CASE Refuse(s, page[s].doc)
        <5>1. UNCHANGED <<dbVars, cache, outrun>> /\ call'[t] = call[t]
          BY <2>1, <4>2 DEF Refuse, Ended, CacheInv, RoutesInv, CallsOK
        <5> QED BY <5>1, RowsUnchanged DEF EntryMoves
      <4> QED BY <3>2, <4>1, <4>2 DEF SendPatch
    <3>3. CASE Loaded(s) \/ FellBack(s) \/ PatchSaved(s) \/ PatchRefused(s)
      <4>1. UNCHANGED <<dbVars, cache, outrun>> /\ call'[t] = call[t]
        BY <1>1, <2>1, <3>3 DEF Loaded, FellBack, PatchSaved, PatchRefused, Returned
      <4> QED BY <4>1, RowsUnchanged DEF EntryMoves
    <3> QED BY <3>1, <3>2, <3>3 DEF ScriptStep
  <2> QED BY <2>1, <2>2, <2>3, OwnStays
<1>4. OwnOK(s)'
  <2>1. CASE SendGet(s)
    <3>1. EntryMoves /\ RowsOfKept(s)
      <4>1. CallMoves(s)
        BY <2>1, KeyShapes DEF SendGet, CallMoves
      <4> QED BY <1>1, <4>1, CallsMoveEntry, RowsUnchanged
    <3>2. at[s] = "load" /\ at' = at /\ saved' = saved
      BY <2>1 DEF SendGet, deskVars
    <3> QED BY <1>1, <3>1, <3>2, OwnStays
  <2>2. CASE CallStep(s) /\ UNCHANGED deskVars
    BY <1>1, <2>2, OwnCallStep
  <2>3. CASE Loaded(s) \/ FellBack(s) \/ PatchRefused(s)
    <3>1. saved'[s] = NoSave /\ call'[s].at = "idle"
      BY <1>1, <1>2, <2>3 DEF Loaded, FellBack, PatchRefused, Returned, NoCall, OwnOK
    <3> QED BY <3>1 DEF OwnOK
  <2>4. CASE SendPatch(s)
    <3>1. at[s] = "patch" /\ at' = at /\ saved' = saved /\ page' = page /\ click' = click
          /\ saved[s] = NoSave
      BY <1>1, <2>4 DEF SendPatch, deskVars, OwnOK
    <3>2. page[s].doc \in Row
      BY <3>1, DocNumbers DEF TypeInv, ScriptsTyped, PageFits, Page
    <3>3. CASE Refuse(s, page[s].doc)
      <4>1. call'[s].at = "failed"
        BY <1>1, <3>3 DEF Refuse, Ended, NoCall
      <4> QED BY <3>1, <4>1 DEF OwnOK
    <3>4. CASE Relabel(s, page[s].doc, click[s].class)
      <4>1. label'[page[s].doc] = click[s].class
        BY <3>2, <3>4 DEF Relabel, TypeInv, TablesTyped, Lists
      <4>2. Owes(s)'
        <5> DEFINE b == BatchOf[page[s].doc]
        <5>1. call'[s].at = "invalidate" /\ call'[s].keys = PredictionKeys(b)
          BY <1>1, <3>4 DEF Relabel, Invalidating, NoCall
        <5>2. b \in BatchId
          BY <3>2, RoutesAssumption
        <5> HIDE DEF b
        <5>3. Range(PredictionKeys(b)) = {R, batch_key(b), predictions_batch_key(b)}
          BY <5>2, KeyShapes, ThreeKeys DEF PredictionKeys, R
        <5> QED BY <5>1, <5>3 DEF Owes
      <4> QED BY <3>1, <4>1, <4>2 DEF OwnOK
    <3> QED BY <2>4, <3>3, <3>4 DEF SendPatch
  <2>5. CASE PatchSaved(s)
    <3>1. /\ at[s] = "patch" /\ call[s].at = "answered" /\ at'[s] = "load"
          /\ saved'[s] = [row |-> page[s].doc, class |-> click[s].class]
          /\ UNCHANGED <<label, corrector, cache, outrun>>
      BY <1>1, <1>2, <2>5 DEF PatchSaved, Returned, Rerun, dbVars
    <3>2. page[s].doc \in Row /\ click[s].class \in Class
      BY <3>1, DocNumbers DEF TypeInv, ScriptsTyped, PageFits, Page
    <3>3. corrector[page[s].doc] = s => Served(page[s].doc, click[s].class)
      BY <1>1, <3>1 DEF OwnOK, Owes
    <3>4. /\ saved'[s] # NoSave => saved'[s].row = page[s].doc /\ saved'[s].class = click[s].class
          /\ at'[s] = "load"
      BY <3>1
    <3>5. \A p, class : Served(p, class) => Served(p, class)'
      BY <3>1 DEF Served
    <3>6. saved'[s] # NoSave =>
             /\ saved'[s].row \in Row /\ saved'[s].class \in Class
             /\ corrector'[saved'[s].row] = s => Served(saved[s].row, saved[s].class)'
      BY <3>1, <3>2, <3>3, <3>4, <3>5 DEF Served
    <3> QED BY <3>4, <3>6 DEF OwnOK
  <2> QED BY <2>1, <2>2, <2>3, <2>4, <2>5 DEF ScriptStep
<1> QED BY <1>3, <1>4 DEF OwnInv

LEMMA OwnClicks ==
  ASSUME TypeInv, CacheInv, OwnInv, NEW s \in Session,
         \/ Refresh(s)
         \/ \E p \in Row : Choose(s, p)
         \/ \E class \in Class : Save(s, class)
  PROVE  OwnInv'
<1>1. /\ at[s] = "shown" /\ at' = [at EXCEPT ![s] = "load"] /\ saved' = saved
      /\ UNCHANGED <<label, status, corrector, cache, call, outrun>>
      /\ \A t \in Session \ {s} : UNCHANGED <<page[t], click[t]>>
  BY DEF Refresh, Choose, Save, Rerun, routeVars, dbVars, bounds, TypeInv, ScriptsTyped
<1>2. EntryMoves /\ \A t : RowsOfKept(t)
  BY <1>1 DEF EntryMoves, RowsOfKept
<1>3. ASSUME NEW t \in Session \ {s} PROVE OwnOK(t)'
  <2>1. UNCHANGED <<at[t], saved[t], page[t], click[t], call[t]>> /\ OwnOK(t)
    BY <1>1 DEF OwnInv
  <2> QED BY <1>2, <2>1, OwnStays
<1>4. OwnOK(s)'
  <2>1. saved'[s] = NoSave /\ at'[s] = "load"
    BY <1>1 DEF OwnInv, OwnOK, CacheInv, DesksOK
  <2> QED BY <2>1 DEF OwnOK
<1> QED BY <1>3, <1>4 DEF OwnInv

\* The steps of everyone else.
LEMMA OwnOthers ==
  ASSUME TypeInv, CacheInv, OwnInv, UNCHANGED deskVars,
         \/ \E w \in Worker \cap online : WorkerStep(w) \/ CallStep(w)
         \/ \E c \in Client \cap online : ClientStep(c) \/ CallStep(c)
         \/ \E c \in Caller : FailCall(c)
         \/ \E k \in Key : Expire(k)
  PROVE  OwnInv'
<1>1. \A s \in Session : /\ UNCHANGED <<at[s], saved[s], page[s], click[s]>>
                         /\ OwnOK(s) /\ s \in Caller
  BY DEF deskVars, OwnInv, Caller
<1>2. ASSUME NEW c \in Caller, CallMoves(c), FailCall(c) \/ c \notin Session PROVE OwnInv'
  <2>1. EntryMoves /\ (\A s : RowsOfKept(s)) /\ \A d \in Caller \ {c} : call'[d] = call[d]
    BY <1>2, CallsMoveEntry, RowsUnchanged
  <2>2. ASSUME NEW s \in Session, s # c PROVE OwnOK(s)'
    BY <1>1, <2>1, <2>2, OwnStays
  <2>3. ASSUME c \in Session PROVE OwnOK(c)'
    BY <1>1, <1>2, <2>3, OwnCallStep
  <2> QED BY <2>2, <2>3 DEF OwnInv
<1>3. ASSUME NEW c \in Caller \ Session,
             \/ WorkerStep(c)
             \/ \E p \in Row, class \in Class : Relabel(c, p, class)
             \/ \E b \in BatchId : CreateBatch(c, b)
      PROVE  OwnInv'
  <2>1. ASSUME NEW s \in Session PROVE OwnOK(s)'
    <3>1. s # c /\ s \in Caller \ {c}
      BY <1>1
    <3>2. EntryMoves /\ RowsOfKept(s) /\ call'[s] = call[s]
      BY <1>3, <3>1, CommitsKeepRows
    <3> QED BY <1>1, <3>2, OwnStays
  <2> QED BY <2>1 DEF OwnInv
<1>4. ASSUME NEW k \in Key, Expire(k) PROVE OwnInv'
  <2>1. UNCHANGED <<label, status, corrector, call>>
        /\ (cache'[R] = Nothing \/ (cache'[R] = cache[R] /\ (R \in outrun => R \in outrun')))
    BY <1>4, KeyShapes DEF R, Expire, dbVars, CacheInv, RoutesInv, TablesOK
  <2>2. EntryMoves /\ \A s : RowsOfKept(s)
    BY <2>1 DEF EntryMoves, RowsOfKept
  <2>3. ASSUME NEW s \in Session PROVE OwnOK(s)'
    BY <1>1, <2>1, <2>2, OwnStays
  <2> QED BY <2>3 DEF OwnInv
<1>5. \A c \in Client \cup Worker : c \in Caller \ Session
  BY RoutesAssumption DEF Caller
<1>6. ASSUME NEW c \in Client \cap online, ClientStep(c) PROVE OwnInv'
  <2>1. route[c] \in Key
    BY DEF CacheInv, ClientsRead
  <2>2. CASE Lookup(c, route[c])
    BY <1>2, <1>5, <2>1, <2>2 DEF CallMoves
  <2>3. CASE \E p \in Row, class \in Class : Relabel(c, p, class)
    BY <1>3, <1>5, <2>3
  <2>4. CASE \E b \in BatchId : CreateBatch(c, b)
    BY <1>3, <1>5, <2>4
  <2> QED BY <1>6, <2>2, <2>3, <2>4 DEF ClientStep
<1> QED BY <1>2, <1>3, <1>4, <1>5, <1>6 DEF CallMoves

LEMMA OwnInvInit == Init => OwnInv
<1> SUFFICES ASSUME Init, NEW s \in Session PROVE OwnOK(s)
  BY DEF OwnInv
<1> QED BY DEF Init, OwnOK

LEMMA OwnInvNext ==
  ASSUME TypeInv, CacheInv, OwnInv, [Next]_vars PROVE OwnInv'
<1>1. CASE UNCHANGED vars
  BY <1>1 DEF vars, routeVars, dbVars, bounds, deskVars, OwnInv, OwnOK, Owes, Served
<1> QED BY <1>1, OwnScriptStep, OwnClicks, OwnOthers DEF Next

LEMMA OwnInvTheorem == Spec => [](CacheInv /\ TypeInv /\ OwnInv)
<1>1. CacheInv /\ TypeInv /\ OwnInv /\ [Next]_vars => OwnInv'
  BY OwnInvNext
<1> QED BY <1>1, TypeInvTheorem, OwnInvInit, PTL DEF Spec

\* However the requests of the others come between commit, delete and reload,
\* the first list from the cache after "Saved" never shows the label the document
\* had before, but in two cases: someone else wrote the row, or an older query
\* was stored after the delete.  The list may leave the document out, as the
\* answers of every limit share one key.
THEOREM OwnCorrectionTheorem == Spec => OwnCorrectionIsServed
<1> DEFINE Shown(s) ==
             (at[s] = "load" /\ saved[s] # NoSave /\ Hit(s, PREDICTIONS_RECENT_KEY)) =>
                 LET p == saved[s].row IN
                 \/ call'[s].got[p] \in {saved[s].class, "no row"}
                 \/ corrector[p] # s
                 \/ PREDICTIONS_RECENT_KEY \in outrun
           A == \A s \in Session : Shown(s)
<1>1. ASSUME CacheInv, OwnInv, NEW s \in Session PROVE Shown(s)
  <2>1. ASSUME saved[s] # NoSave, Hit(s, R), corrector[saved[s].row] = s, R \notin outrun
        PROVE  call'[s].got[saved[s].row] \in {saved[s].class, "no row"}
    <3>1. call'[s].got = cache[R] /\ cache[R] # Nothing
      BY <1>1, <2>1 DEF Hit, Ended, NoCall, CacheInv, RoutesInv, CallsOK, Caller
    <3>2. Served(saved[s].row, saved[s].class)
      BY <1>1, <2>1 DEF OwnInv, OwnOK
    <3> QED BY <2>1, <3>1, <3>2 DEF Served
  <2> QED BY <2>1 DEF R
<1>2. CacheInv /\ TypeInv /\ OwnInv /\ [Next]_vars => [A]_vars
  BY <1>1
<1> HIDE DEF A
<1>3. Spec => [][A]_vars
  BY <1>2, OwnInvTheorem, PTL DEF Spec
<1> QED BY <1>3 DEF OwnCorrectionIsServed, A
=============================================================================
