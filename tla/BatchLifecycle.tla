--------------------------- MODULE BatchLifecycle ---------------------------
(***************************************************************************)
(* What a reader of GET /batches may rely on: the status machine of ARCH.md *)
(* and of the allowed sets in app/services/batch_service.py, each batch     *)
(* for itself, with its audit rows written in the same transaction.         *)
(***************************************************************************)
EXTENDS Sequences

CONSTANT BatchId

VARIABLES status, trail

Init ==
    /\ status = [b \in BatchId |-> "none"]
    /\ trail = [b \in BatchId |-> <<>>]

Edges == {<<"none", "pending">>, <<"pending", "processing">>, <<"processing", "done">>,
          <<"pending", "failed">>, <<"processing", "failed">>}

Move(b, to) ==
    /\ <<status[b], to>> \in Edges
    /\ status' = [status EXCEPT ![b] = to]
    /\ trail' = [trail EXCEPT ![b] = Append(@, <<status[b], to>>)]

Next == \E b \in BatchId, to \in {"pending", "processing", "done", "failed"} : Move(b, to)

Spec == Init /\ [][Next]_<<status, trail>>
=============================================================================
