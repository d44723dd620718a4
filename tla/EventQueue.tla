----------------------------- MODULE EventQueue -----------------------------
(***************************************************************************)
(* The web client's queue of events                                        *)
(* (web/src/features/feed/event-queue.ts) against the API of EventIngest,  *)
(* over a network that may lose a request or its answer.                   *)
(*                                                                         *)
(* A call marks its records `sending' and its outcome is applied to them   *)
(* when its promise settles; other calls are made meanwhile.  A call that  *)
(* failed in the browser may still run in the API, as may several, while   *)
(* its events are sent again.  A record is `queued' only within            *)
(* enqueueAndSend, so it is not a state of the model.                      *)
(***************************************************************************)
EXTENDS EventIngest

CONSTANTS
    Capacity,      \* of the queue and of its map of batch ids
    MaxBatchSize

ASSUME QueueConstants == Capacity \in Nat \ {0} /\ MaxBatchSize \in Nat \ {0}

VARIABLES
    record,    \* records of the queue, by event
    batchIds,  \* the map from the events of a failed batch to its id
    usedIds,   \* batch ids made so far
    call       \* what the client awaits from each slot

queueVars == <<record, batchIds, usedIds, call>>

vars == <<ingestVars, queueVars>>

-----------------------------------------------------------------------------

Settled == {"accepted", "duplicate", "rejected"}

Record == [status : {"absent", "sending", "failed", "evicted"} \cup Settled, retryable : BOOLEAN]

NoCall == [events |-> {}, batch |-> NoBatch]

TypeOK ==
    /\ IngestTypeOK
    /\ record \in [Events -> Record]
    /\ batchIds \subseteq [events : SUBSET Events, id : Batches]
    /\ Cardinality(batchIds) <= Capacity
    /\ usedIds \subseteq Batches
    /\ call \in [Slots -> [events : SUBSET Events, batch : Batches \cup {NoBatch}]]
    /\ Cardinality({e \in Events : record[e].status \notin {"absent", "evicted"}}) <= Capacity

Init ==
    /\ IngestInit
    /\ record = [e \in Events |-> [status |-> "absent", retryable |-> TRUE]]
    /\ batchIds = {}
    /\ usedIds = {}
    /\ call = [s \in Slots |-> NoCall]

Held == {e \in Events : record[e].status \notin {"absent", "evicted"}}

\* (variant) Every failed record may go.
EvictableAnyFailed == {e \in Held : record[e].status \in Settled \cup {"failed"}}

\* isEvictable
Evictable ==
    {e \in Held : \/ record[e].status \in Settled
                  \/ record[e].status = "failed" /\ ~ record[e].retryable}

Retryable == {e \in Events : record[e].status = "failed" /\ record[e].retryable}

Marked(rows, S, status, retryable) ==
    [e \in Events |-> IF e \in S THEN [status |-> status, retryable |-> retryable] ELSE rows[e]]

\* The records when there is room for one more.
Room ==
    IF Cardinality(Held) < Capacity THEN record
    ELSE Marked(record, {Oldest(Evictable)}, "evicted", FALSE)

Request(s, batch, todo) ==
    /\ tx[s].phase = "idle"
    /\ tx' = [tx EXCEPT ![s] = Arrived(batch, todo)]
    /\ call' = [call EXCEPT ![s] = [events |-> todo, batch |-> batch]]
    /\ UNCHANGED <<stored, profile, receipt, faults, dismissed>>

-----------------------------------------------------------------------------
(* The user *)

\* enqueue, then send.  A queue full of records that may not go raises.
EnqueueAndSend(s, e) ==
    /\ record[e].status = "absent"
    /\ \A f \in Events : f < e => record[f].status # "absent"
    /\ Cardinality(Held) < Capacity \/ Evictable # {}
    /\ record' = Marked(Room, {e}, "sending", TRUE)
    /\ Request(s, NoBatch, {e})
    /\ UNCHANGED <<batchIds, usedIds>>

\* retry: send
Retry(s, e) ==
    /\ e \in Retryable
    /\ record' = Marked(record, {e}, "sending", TRUE)
    /\ Request(s, NoBatch, {e})
    /\ UNCHANGED <<batchIds, usedIds>>

\* selectBatch
Selected == {e \in Retryable : Cardinality({f \in Retryable : f < e}) < MaxBatchSize}

\* The entry remembered for a batch of these events: one, or none
Remembered(todo) == {entry \in batchIds : entry.events = todo}

\* The entries when there is room for one more.  Ids are made in the order of the entries.
Kept ==
    IF Cardinality(batchIds) < Capacity THEN batchIds
    ELSE {entry \in batchIds : \E older \in batchIds : older.id < entry.id}

\* retryFailedBatch: sendBatch.  A batch sent before keeps its id.
RetryFailedBatch(s) ==
    /\ Retryable # {}
    /\ \/ /\ \E entry \in Remembered(Selected) : Request(s, entry.id, Selected)
          /\ UNCHANGED <<batchIds, usedIds>>
       \/ /\ Remembered(Selected) = {}
          /\ Batches \ usedIds # {}
          /\ LET id == Oldest(Batches \ usedIds)
             IN /\ Request(s, id, Selected)
                /\ usedIds' = usedIds \cup {id}
                /\ batchIds' = Kept \cup {[events |-> Selected, id |-> id]}
    /\ record' = Marked(record, Selected, "sending", TRUE)

-----------------------------------------------------------------------------
(* What becomes of a call *)

\* The slot and the call are done with.
Close(s) ==
    /\ tx' = [tx EXCEPT ![s] = NoTx]
    /\ call' = [call EXCEPT ![s] = NoCall]
    /\ UNCHANGED <<stored, profile, receipt, faults, dismissed, usedIds>>

Awaited(s) == call[s] # NoCall

\* applyResult for each result; a batch that is answered forgets its id.
ApplyResults(s) ==
    /\ Awaited(s)
    /\ tx[s].phase = "answered"
    /\ LET results == tx[s].results
       IN record' = [e \in Events |->
                        IF results[e] = "none" THEN record[e]
                        ELSE [status |-> results[e], retryable |-> FALSE]]
    /\ batchIds' = IF call[s].batch = NoBatch THEN batchIds
                   ELSE batchIds \ Remembered(call[s].events)
    /\ Close(s)

\* (variant) Only one record of a batch that fails is patched.
FailedFirst(s, retryable) ==
    record' = Marked(record, {Oldest(call[s].events)}, "failed", retryable)

\* The catch of send and of sendBatch.
Failed(s, retryable) ==
    record' = Marked(record, call[s].events, "failed", retryable)

\* 401, 409, 422
Refused(s) ==
    /\ Awaited(s)
    /\ tx[s].phase = "refused"
    /\ Failed(s, FALSE)
    /\ Close(s)
    /\ UNCHANGED batchIds

\* 500
ServerError(s) ==
    /\ Awaited(s)
    /\ tx[s].phase = "failed"
    /\ Failed(s, TRUE)
    /\ Close(s)
    /\ UNCHANGED batchIds

\* The request is lost on its way, or its CSRF token is missing.
Lost(s) ==
    /\ Awaited(s)
    /\ tx[s].phase = "arrived"
    /\ Failed(s, TRUE)
    /\ Close(s)
    /\ UNCHANGED batchIds

\* The connection is lost and the request goes on in the API.
Disconnected(s) ==
    /\ Awaited(s)
    /\ Failed(s, TRUE)
    /\ call' = [call EXCEPT ![s] = NoCall]
    /\ UNCHANGED <<ingestVars, batchIds, usedIds>>

Unheard(s) ==
    /\ ~ Awaited(s)
    /\ tx[s].phase \in {"answered", "refused", "failed"}
    /\ Close(s)
    /\ UNCHANGED <<record, batchIds>>

Conclude(s) == ApplyResults(s) \/ Refused(s) \/ ServerError(s) \/ Unheard(s)

-----------------------------------------------------------------------------

Next ==
    \E s \in Slots :
        \/ \E e \in Events : EnqueueAndSend(s, e) \/ Retry(s, e)
        \/ RetryFailedBatch(s)
        \/ IngestStep(s) /\ UNCHANGED queueVars
        \/ Conclude(s)
        \/ Lost(s)
        \/ Disconnected(s)

Spec == Init /\ [][Next]_vars

\* The API runs every request and PostgreSQL serves those that wait for a row in turn,
\* so that retries cannot pass a waiting request for ever; whether the user retries,
\* and what fails, is not assumed.
FairSpec ==
    /\ Spec
    /\ \A s \in Slots : SF_vars(Serve(s) /\ UNCHANGED queueVars) /\ WF_vars(Conclude(s))

-----------------------------------------------------------------------------
(* Properties *)

\* What the queue holds for good is true of the database: an event shown as accepted
\* or duplicate is stored, however its answers and retries crossed; one shown as
\* rejected or failed for good was mismatched, or the API dismissed it (rolled it back to
\* its savepoint, or denied its request); and a record leaves the queue only for one of
\* these reasons, so no event that could still be delivered is dropped.
SettledIsTrue ==
    \A e \in Events :
        /\ record[e].status \in {"accepted", "duplicate"} => e \in stored
        /\ record[e].status = "rejected" \/ (record[e].status = "failed" /\ ~ record[e].retryable)
              => e \in Mismatched \cup dismissed
        /\ record[e].status = "evicted" => e \in stored \cup Mismatched \cup dismissed

\* No record stays `sending': requests that wait for each other's rows are told apart
\* and every call ends in a result or in a failure of all its records.
CallsSettle == \A e \in Events : record[e].status = "sending" ~> record[e].status # "sending"
=============================================================================
