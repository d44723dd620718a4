----------------------------- MODULE EventIngest -----------------------------
(***************************************************************************)
(* The event endpoints of the API (events/service.py and router.py), for   *)
(* the events of one user: submit and submit_batch, each one PostgreSQL    *)
(* transaction that several requests run at once.                          *)
(*                                                                         *)
(* A transaction meets the others at three rows: the batch it inserts, the *)
(* events it inserts and the profile it rewrites.  On each it waits while  *)
(* another transaction that is still open has it.  An item of a batch is a *)
(* savepoint; what raises in it is undone and answered as rejected.        *)
(*                                                                         *)
(* submit looks for the event before it inserts it and again when the      *)
(* insert fails; as both find the same committed row, InsertEvent is the   *)
(* two together.                                                           *)
(***************************************************************************)
EXTENDS Naturals, FiniteSets

CONSTANTS
    Events,       \* event ids of the user, numbers in the order of their making
    Mismatched,   \* those that match no exposure of the user
    Batches,      \* batch ids, numbers
    Slots,        \* requests the API can have at hand
    NoBatch,
    MaxFaults     \* bound on failing statements, dying processes and denied requests

ASSUME IngestConstants ==
    /\ Events \subseteq Nat /\ Mismatched \subseteq Events
    /\ Batches \subseteq Nat /\ NoBatch \notin Batches
    /\ MaxFaults \in Nat

VARIABLES
    stored,     \* events, as committed
    profile,    \* user_profiles row, as committed: how often it counts each event
    receipt,    \* event_batches rows: the recorded results of each batch
    tx,         \* the request in each slot
    faults,
    dismissed   \* history: events of a failed savepoint or of a denied request

ingestVars == <<stored, profile, receipt, tx, faults, dismissed>>

-----------------------------------------------------------------------------

Outcomes == {"accepted", "duplicate", "rejected"}

\* The results of a request, event by event
Results == [Events -> Outcomes \cup {"none"}]

NoResults == [e \in Events |-> "none"]

Tx ==
    [phase    : {"idle", "arrived", "item", "profile", "closing", "answered", "refused", "failed"},
     batch    : Batches \cup {NoBatch},
     todo     : SUBSET Events,           \* events to submit, in the order of their making
     inserted : SUBSET Events,
     locked   : BOOLEAN,                 \* it has the profile's row
     profile  : [Events -> Nat],         \* as it has read and changed it
     results  : Results]

NoTx ==
    [phase |-> "idle", batch |-> NoBatch, todo |-> {}, inserted |-> {}, locked |-> FALSE,
     profile |-> [e \in Events |-> 0], results |-> NoResults]

Arrived(batch, todo) ==
    [NoTx EXCEPT !.phase = "arrived", !.batch = batch, !.todo = todo]

IngestTypeOK ==
    /\ stored \subseteq Events
    /\ profile \in [Events -> Nat]
    /\ receipt \in [Batches -> Results]
    /\ tx \in [Slots -> Tx]
    /\ faults \in 0 .. MaxFaults
    /\ dismissed \subseteq Events

IngestInit ==
    /\ stored = {}
    /\ profile = [e \in Events |-> 0]
    /\ receipt = [b \in Batches |-> NoResults]
    /\ tx = [s \in Slots |-> NoTx]
    /\ faults = 0
    /\ dismissed = {}

Oldest(S) == CHOOSE e \in S : \A f \in S : e <= f

AtHand(s) == Oldest(tx[s].todo)

Turn(s, next) == tx' = [tx EXCEPT ![s] = next]

GoesOn(s, phase) == Turn(s, [tx[s] EXCEPT !.phase = phase])

Open(s) == tx[s].phase \in {"item", "profile", "closing"}

\* The open transaction, other than s, that has inserted event e.
Inserting(s, e) == {r \in Slots \ {s} : Open(r) /\ e \in tx[r].inserted}

Batching(s, b) == {r \in Slots \ {s} : Open(r) /\ tx[r].batch = b}

\* (variant) The profile is read without FOR UPDATE.
LockingNobody(s) == {}

Locking(s) == {r \in Slots \ {s} : Open(r) /\ tx[r].locked}

\* A request whose item e ends with a result
Ended(r, e, outcome) ==
    LET rest == r.todo \ {e}
    IN [r EXCEPT !.results = [r.results EXCEPT ![e] = outcome],
                 !.todo = rest,
                 !.phase = IF rest = {} THEN "closing" ELSE "item"]

Answer(s, outcome) == Turn(s, Ended(tx[s], AtHand(s), outcome))

-----------------------------------------------------------------------------
(* The steps of a request *)

\* submit_batch: a batch id seen before is answered from its receipt.
BeginBatch(s) ==
    /\ tx[s].phase = "arrived"
    /\ tx[s].batch # NoBatch
    /\ Batching(s, tx[s].batch) = {}
    /\ IF receipt[tx[s].batch] # NoResults
       THEN Turn(s, [tx[s] EXCEPT !.results = receipt[tx[s].batch], !.phase = "answered"])
       ELSE GoesOn(s, "item")
    /\ UNCHANGED <<stored, profile, receipt, faults, dismissed>>

BeginSingle(s) ==
    /\ tx[s].phase = "arrived"
    /\ tx[s].batch = NoBatch
    /\ GoesOn(s, "item")
    /\ UNCHANGED <<stored, profile, receipt, faults, dismissed>>

\* The session has expired: csrf_roles answers 401 before the handler runs.
Deny(s) ==
    /\ tx[s].phase = "arrived"
    /\ faults < MaxFaults
    /\ faults' = faults + 1
    /\ Turn(s, [NoTx EXCEPT !.phase = "refused"])
    /\ dismissed' = dismissed \cup tx[s].todo
    /\ UNCHANGED <<stored, profile, receipt>>

\* create_event rolls back and answers 422.
Reject(s) ==
    /\ tx[s].phase = "item"
    /\ AtHand(s) \in Mismatched
    /\ IF tx[s].batch = NoBatch
       THEN Turn(s, [NoTx EXCEPT !.phase = "refused"])
       ELSE Answer(s, "rejected")
    /\ UNCHANGED <<stored, profile, receipt, faults, dismissed>>

InsertEvent(s) ==
    /\ tx[s].phase = "item"
    /\ AtHand(s) \notin Mismatched
    /\ Inserting(s, AtHand(s)) = {}
    /\ IF AtHand(s) \in stored
       THEN Answer(s, "duplicate")
       ELSE Turn(s, [tx[s] EXCEPT !.inserted = tx[s].inserted \cup {AtHand(s)}, !.phase = "profile"])
    /\ UNCHANGED <<stored, profile, receipt, faults, dismissed>>

\* _update_profile: the row is read under its lock, changed as a whole, and kept
\* until the transaction ends.
UpdateProfile(s) ==
    /\ tx[s].phase = "profile"
    /\ Locking(s) = {}
    /\ LET read == IF tx[s].locked THEN tx[s].profile ELSE profile
           counted == [read EXCEPT ![AtHand(s)] = @ + 1]
       IN Turn(s, [Ended(tx[s], AtHand(s), "accepted") EXCEPT !.locked = TRUE, !.profile = counted])
    /\ UNCHANGED <<stored, profile, receipt, faults, dismissed>>

Commit(s) ==
    /\ tx[s].phase = "closing"
    /\ stored' = stored \cup tx[s].inserted
    /\ profile' = IF tx[s].locked THEN tx[s].profile ELSE profile
    /\ receipt' = IF tx[s].batch = NoBatch THEN receipt
                  ELSE [receipt EXCEPT ![tx[s].batch] = tx[s].results]
    /\ Turn(s, [NoTx EXCEPT !.phase = "answered", !.results = tx[s].results])
    /\ UNCHANGED <<faults, dismissed>>

-----------------------------------------------------------------------------
(* Failures *)

\* The transaction is undone and the request answered with an error, if at all.
Undo(s) ==
    /\ Turn(s, [NoTx EXCEPT !.phase = "failed"])
    /\ UNCHANGED dismissed

\* The savepoint of a batch's item: item_transaction_failed.
UndoItem(s) ==
    /\ Turn(s, [Ended(tx[s], AtHand(s), "rejected") EXCEPT !.inserted = tx[s].inserted \ {AtHand(s)}])
    /\ dismissed' = dismissed \cup {AtHand(s)}

\* A statement of an item raises.
Raises(s) ==
    /\ tx[s].phase \in {"item", "profile"}
    /\ IF tx[s].batch = NoBatch THEN Undo(s) ELSE UndoItem(s)
    /\ UNCHANGED <<stored, profile, receipt>>

ItemRaises(s) ==
    /\ faults < MaxFaults
    /\ faults' = faults + 1
    /\ Raises(s)

\* Whom an item waits for.
WaitsFor(s) ==
    IF tx[s].phase = "item" /\ AtHand(s) \notin Mismatched THEN Inserting(s, AtHand(s))
    ELSE IF tx[s].phase = "profile" THEN Locking(s) ELSE {}

\* PostgreSQL fails one of the transactions that wait for each other.
DeadlockVictim(s) ==
    /\ \E S \in SUBSET Slots : s \in S /\ \A r \in S : WaitsFor(r) \cap S # {}
    /\ Raises(s)
    /\ UNCHANGED faults

\* The process dies, or the statement that fails is the commit.
Crash(s) ==
    /\ Open(s)
    /\ faults < MaxFaults
    /\ faults' = faults + 1
    /\ Undo(s)
    /\ UNCHANGED <<stored, profile, receipt>>

\* What a request does when nothing fails.
Serve(s) ==
    \/ BeginBatch(s)
    \/ BeginSingle(s)
    \/ Reject(s)
    \/ InsertEvent(s)
    \/ UpdateProfile(s)
    \/ Commit(s)
    \/ DeadlockVictim(s)

IngestStep(s) == Serve(s) \/ Deny(s) \/ ItemRaises(s) \/ Crash(s)

-----------------------------------------------------------------------------
(* Properties *)

\* Every event counts once in the profile, however often, in whatever batches and
\* however much at once it is sent: no increment is lost and none made twice.
CountedOnce == \A e \in Events : profile[e] = IF e \in stored THEN 1 ELSE 0
=============================================================================
