-------------------------- MODULE OperationBatches --------------------------
(***************************************************************************)
(* Operation batches (operations/service.py): an operator takes items off  *)
(* line, restores or promotes them, at once or at a stated time.  Requests *)
(* (create_batch) and scheduled runners (apply_due_batches, then           *)
(* _reconcile_promotions) are PostgreSQL transactions that lock the rows   *)
(* of the items one by one in id order and keep them until they end.       *)
(*                                                                         *)
(* A transaction writes audit entries (operations rows); everything it     *)
(* changes is derived from its entries and published by its commit.  One   *)
(* batch is one savepoint: what raises in it undoes the batch, which is    *)
(* then recorded as failed.  A runner applies every due batch in one       *)
(* transaction, so it holds the locks of the earlier batches while it asks *)
(* for those of the next: two transactions can wait for each other, and    *)
(* the database fails one of them.                                         *)
(*                                                                         *)
(* It also applies them in one SQLAlchemy Session.  The Item objects of a  *)
(* batch stay referenced (the local `items') until the next batch has      *)
(* loaded its own, and a row that is selected again while its object is    *)
(* referenced does not refresh it.  A rollback to the savepoint expires    *)
(* the objects the batch has modified, not the others, and frees the locks *)
(* of their rows: such an object can be older than its row.                *)
(***************************************************************************)
EXTENDS Naturals, FiniteSets

CONSTANTS
    Items, Batches,        \* ids; numbers, for their order
    Runners, Requests,     \* the transactions: scheduled runners, create_batch
    NoOwner, NoObject,
    Kind, Targets, Window, \* of each batch; Window: ends_at - starts_at, 0 = no end
    MaxStart,              \* bound: starts_at is at most this
    MaxClock,                \* bound: the clock stops here
    MaxFaults              \* bound on errors and crashes

Procs == Runners \cup Requests

ItemRow == [online : BOOLEAN, version : Nat]

ASSUME BatchConstants ==
    /\ Items \subseteq Nat /\ Batches \subseteq Nat
    /\ NoOwner \notin Procs /\ NoObject \notin ItemRow /\ Runners \cap Requests = {}
    /\ Kind \in [Batches -> {"offline", "restore", "promote"}]
    /\ Targets \in [Batches -> (SUBSET Items) \ {{}}]
    /\ \A b \in Batches : IsFiniteSet(Targets[b])
    /\ Window \in [Batches -> Nat]
    /\ MaxStart \in Nat /\ MaxClock \in Nat /\ MaxFaults \in Nat

VARIABLES
    item,     \* items, as committed
    batch,    \* operation_batches, as committed
    audit,    \* operations, as committed
    rule,     \* promotion_rules of each promotion, as committed
    lock,     \* who has the row of an item
    holder,   \* who has the row (or the key) of a batch
    tx,       \* the transaction of each process
    clock,
    faults

batchVars == <<item, batch, audit, rule, lock, holder, tx, clock, faults>>

-----------------------------------------------------------------------------

BatchRow ==
    [status   : {"absent", "scheduled", "succeeded", "failed"},
     start    : 0 .. MaxStart,
     expected : [Items -> Nat]]

\* before and after are state versions; failed entries have none.
Entry == [batch : Batches, item : Items, result : {"succeeded", "failed"},
          before : Nat, after : Nat,
          online : BOOLEAN,   \* online_status of the row once the entry is written
          stale  : BOOLEAN]   \* history: the object was older than the row

TxRow ==
    [phase   : {"idle", "working", "reconciling", "closing"},
     todo    : SUBSET Batches,   \* batches to apply
     time    : Nat,              \* event_time
     start   : 0 .. MaxStart,    \* starts_at of the request's batch
     log     : SUBSET Entry,     \* what the transaction has written
     objects : [Items -> ItemRow \cup {NoObject}],  \* Items the Session still has
     rules   : SUBSET Batches]   \* promotion_rules it has locked

\* A transaction as it begins.
Opening(phase, todo, time, start) ==
    [phase |-> phase, todo |-> todo, time |-> time, start |-> start, log |-> {},
     objects |-> [i \in Items |-> NoObject], rules |-> {}]

NoTx == Opening("idle", {}, 0, 0)

BatchesTypeOK ==
    /\ item \in [Items -> ItemRow]
    /\ batch \in [Batches -> BatchRow]
    /\ audit \subseteq Entry
    /\ rule \in [Batches -> {"none", "active", "expired"}]
    /\ lock \in [Items -> Procs \cup {NoOwner}]
    /\ holder \in [Batches -> Procs \cup {NoOwner}]
    /\ tx \in [Procs -> TxRow]
    /\ clock \in 0 .. MaxClock
    /\ faults \in 0 .. MaxFaults

BatchesInit ==
    /\ item = [i \in Items |-> [online |-> TRUE, version |-> 0]]
    /\ batch = [b \in Batches |-> [status |-> "absent", start |-> 0,
                                   expected |-> [i \in Items |-> 0]]]
    /\ audit = {}
    /\ rule = [b \in Batches |-> "none"]
    /\ lock = [i \in Items |-> NoOwner]
    /\ holder = [b \in Batches |-> NoOwner]
    /\ tx = [p \in Procs |-> NoTx]
    /\ clock = 0
    /\ faults = 0

-----------------------------------------------------------------------------
(* What a transaction sees and does *)

Succeeded(log) == {e \in log : e.result = "succeeded"}

Touched(log) == {e.item : e \in Succeeded(log)}

\* Entries that change an item.
Changes(log) == {e \in Succeeded(log) : Kind[e.batch] # "promote"}

Own(p, i) == {e \in Changes(tx[p].log) : e.item = i}

LastOf(own) == CHOOSE e \in own : \A f \in own : f.after <= e.after

\* A row as a SELECT of the transaction returns it: as committed, or as it has written it.
Row(p, i) ==
    IF Own(p, i) = {} THEN item[i]
    ELSE [online |-> LastOf(Own(p, i)).online, version |-> LastOf(Own(p, i)).after]

\* The Item the transaction gets from a SELECT: an object it still has keeps its attributes.
Object(p, i) == IF tx[p].objects[i] = NoObject THEN Row(p, i) ELSE tx[p].objects[i]

Earlier(b, c) ==
    batch[b].start < batch[c].start \/ (batch[b].start = batch[c].start /\ b < c)

\* A runner applies its batches in the order of starts_at and id.
AtHand(p) == CHOOSE b \in tx[p].todo : \A c \in tx[p].todo \ {b} : Earlier(b, c)

Wants(p) == IF tx[p].phase = "working" THEN Targets[AtHand(p)] ELSE {}

ToLock(p) == {i \in Wants(p) : lock[i] # p}

ToApply(p) ==
    {i \in Wants(p) : \A e \in tx[p].log : ~ (e.batch = AtHand(p) /\ e.item = i)}

First(S) == CHOOSE i \in S : \A k \in S : i <= k

\* A batch of a request is looked at when it starts; it is scheduled if it starts later.
Scheduled(p) == p \in Requests /\ tx[p].start > tx[p].time

Working(p, todo) ==
    IF todo # {} THEN "working" ELSE IF p \in Runners THEN "reconciling" ELSE "closing"

Writes(p, log, todo, objects) ==
    tx' = [tx EXCEPT ![p] = [phase |-> Working(p, todo), todo |-> todo, time |-> tx[p].time,
                             start |-> tx[p].start, log |-> log, objects |-> objects,
                             rules |-> tx[p].rules]]

Rest(p) == tx[p].todo \ {AtHand(p)}

\* On to the next batch.
Continue(p, log, objects) == Writes(p, log, Rest(p), objects)

\* The rows of p that a rollback to the savepoint leaves locked.
KeptLocks(p, log) ==
    lock' = [i \in Items |-> IF lock[i] = p /\ i \notin Touched(log) THEN NoOwner ELSE lock[i]]

\* (variant) What the batch wrote before it raised stays.
UndoneNever(p) == tx[p].log

\* Rollback to the savepoint.
Undone(p) == {e \in tx[p].log : e.batch # AtHand(p)}

FailedEntries(b) ==
    {[batch |-> b, item |-> i, result |-> "failed", before |-> 0, after |-> 0,
      online |-> FALSE, stale |-> FALSE] : i \in Targets[b]}

\* The objects a batch leaves that raises once it has them: those it has not modified yet.
Unmodified(p) == [i \in Items |-> IF i \in ToApply(p) THEN Object(p, i) ELSE NoObject]

\* The except branches: undo the batch and record it as failed.
Fails(p, objects) ==
    /\ KeptLocks(p, Undone(p))
    /\ Continue(p, Undone(p) \cup FailedEntries(AtHand(p)), objects)
    /\ UNCHANGED <<item, batch, audit, rule, holder, clock>>

-----------------------------------------------------------------------------
(* The steps of a transaction *)

\* A batch id in the table is answered with the recorded outcome, and one that
\* another transaction is inserting is waited for.
Insertable(b) == batch[b].status = "absent" /\ holder[b] = NoOwner

BeginRequest(q, b, start) ==
    /\ tx[q].phase = "idle"
    /\ Insertable(b)
    /\ holder' = [holder EXCEPT ![b] = q]
    /\ tx' = [tx EXCEPT ![q] = Opening("working", {b}, clock, start)]
    /\ UNCHANGED <<item, batch, audit, rule, lock, clock, faults>>

\* SELECT ... FOR UPDATE SKIP LOCKED
Due ==
    {b \in Batches : batch[b].status = "scheduled" /\ batch[b].start <= clock /\ holder[b] = NoOwner}

\* A pass that would find neither a due batch nor a rule has no action.
BeginRun(r) ==
    /\ tx[r].phase = "idle"
    /\ Due # {} \/ \E b \in Batches : rule[b] = "active"
    /\ holder' = [b \in Batches |-> IF b \in Due THEN r ELSE holder[b]]
    /\ tx' = [tx EXCEPT ![r] = Opening(Working(r, Due), Due, clock, 0)]
    /\ UNCHANGED <<item, batch, audit, rule, lock, clock, faults>>

\* (variant) SELECT without FOR UPDATE.
FreeAlways(i) == TRUE

Free(i) == lock[i] = NoOwner

LockItem(p) ==
    /\ ToLock(p) # {}
    /\ Free(First(ToLock(p)))
    /\ lock' = [lock EXCEPT ![First(ToLock(p))] = p]
    /\ UNCHANGED <<item, batch, audit, rule, holder, tx, clock, faults>>

UnchangedSince(r) ==
    \A i \in Wants(r) : Object(r, i).version = batch[AtHand(r)].expected[i]

Ready(p) == tx[p].phase = "working" /\ ToLock(p) = {}

Untouched(p) == ToApply(p) = Wants(p)

Conflict(r) ==
    /\ r \in Runners
    /\ Ready(r)
    /\ Untouched(r)
    /\ ~ UnchangedSince(r)
    /\ Fails(r, Unmodified(r))
    /\ UNCHANGED faults

\* create_batch leaves a batch that starts later to the runners.
Postpone(q) ==
    /\ Ready(q)
    /\ Scheduled(q)
    /\ Continue(q, {}, tx[q].objects)
    /\ UNCHANGED <<item, batch, audit, rule, lock, holder, clock, faults>>

\* What _apply makes of an Item.
Changed(b, object) ==
    IF Kind[b] = "promote" THEN object
    ELSE [online |-> Kind[b] = "restore", version |-> object.version + 1]

\* Its audit entry.  The UPDATE names the attributes that changed in the object, so the
\* row keeps its online_status if the object had the new one already.
Applied(p, i) ==
    LET old == Object(p, i)
        new == Changed(AtHand(p), old)
    IN [batch |-> AtHand(p), item |-> i, result |-> "succeeded",
        before |-> old.version, after |-> new.version,
        online |-> IF new.online = old.online THEN Row(p, i).online ELSE new.online,
        stale |-> old # Row(p, i)]

\* The objects of a batch that succeeds
Modified(p) ==
    [i \in Items |-> IF i \in Wants(p) THEN Changed(AtHand(p), Object(p, i)) ELSE NoObject]

\* _apply, one item.
ApplyItem(p) ==
    /\ Ready(p)
    /\ ~ Scheduled(p)
    /\ p \in Runners /\ Untouched(p) => UnchangedSince(p)
    /\ LET i == First(ToApply(p))
           log == tx[p].log \cup {Applied(p, i)}
       IN IF ToApply(p) = {i} THEN Continue(p, log, Modified(p))
          ELSE Writes(p, log, tx[p].todo, tx[p].objects)
    /\ UNCHANGED <<item, batch, audit, rule, lock, holder, clock, faults>>

\* A statement raises in the savepoint, or preflight refuses the request; either before
\* the items are loaded or after.
Raises(p) ==
    /\ tx[p].phase = "working"
    /\ faults < MaxFaults
    /\ faults' = faults + 1
    /\ \/ Untouched(p) /\ Fails(p, tx[p].objects)
       \/ Ready(p) /\ Fails(p, Unmodified(p))

Waits(p) == ToLock(p) # {} /\ ~ Free(First(ToLock(p)))

\* p is on a cycle of transactions that wait for each other.
Deadlocked(p) ==
    \E S \in SUBSET Procs :
        /\ p \in S
        /\ \A q \in S : Waits(q)
        /\ S = {lock[First(ToLock(q))] : q \in S}

\* PostgreSQL raises deadlock_detected in one of them.
DeadlockVictim(p) ==
    /\ Deadlocked(p)
    /\ Fails(p, tx[p].objects)
    /\ UNCHANGED faults

-----------------------------------------------------------------------------
(* The end of a transaction *)

\* _reconcile_promotions: SELECT ... FOR UPDATE SKIP LOCKED passes over the rules that
\* another pass has locked.
LockRules(r) ==
    /\ tx[r].phase = "reconciling"
    /\ LET free == {b \in Batches : rule[b] = "active" /\ \A q \in Runners : b \notin tx[q].rules}
       IN tx' = [tx EXCEPT ![r].phase = "closing", ![r].rules = free]
    /\ UNCHANGED <<item, batch, audit, rule, lock, holder, clock, faults>>

Release(p) ==
    /\ lock' = [i \in Items |-> IF lock[i] = p THEN NoOwner ELSE lock[i]]
    /\ holder' = [b \in Batches |-> IF holder[b] = p THEN NoOwner ELSE holder[b]]
    /\ tx' = [tx EXCEPT ![p] = NoTx]

Outcome(p, b) ==
    LET results == {e.result : e \in {f \in tx[p].log : f.batch = b}}
    IN IF "failed" \in results THEN "failed"
       ELSE IF "succeeded" \in results THEN "succeeded" ELSE "scheduled"

Ended(b, start, t) == Window[b] # 0 /\ start + Window[b] <= t

\* (variant) Only the rules the transaction has made itself are looked at.
RuleOfOwn(p, b) ==
    IF Kind[b] = "promote" /\ holder[b] = p /\ Outcome(p, b) = "succeeded"
    THEN IF Ended(b, IF p \in Requests THEN tx[p].start ELSE batch[b].start, tx[p].time)
         THEN "expired" ELSE "active"
    ELSE rule[b]

\* A rule is made by _apply, active or expired, and expired by _reconcile_promotions.
RuleAfter(p, b) ==
    IF Kind[b] = "promote" /\ holder[b] = p /\ Outcome(p, b) = "succeeded"
    THEN IF Ended(b, IF p \in Requests THEN tx[p].start ELSE batch[b].start, tx[p].time)
         THEN "expired" ELSE "active"
    ELSE IF b \in tx[p].rules /\ Ended(b, batch[b].start, tx[p].time)
         THEN "expired" ELSE rule[b]

RowAfter(p, b) ==
    IF p \in Requests
    THEN [status |-> Outcome(p, b), start |-> tx[p].start,
          expected |-> [i \in Items |-> item[i].version]]
    ELSE [batch[b] EXCEPT !.status = Outcome(p, b)]

Commit(p) ==
    /\ tx[p].phase = "closing"
    /\ item' = [i \in Items |-> Row(p, i)]
    /\ batch' = [b \in Batches |-> IF holder[b] = p THEN RowAfter(p, b) ELSE batch[b]]
    /\ audit' = audit \cup tx[p].log
    /\ rule' = [b \in Batches |-> RuleAfter(p, b)]
    /\ Release(p)
    /\ UNCHANGED <<clock, faults>>

\* The process or its connection dies: nothing happened.
Abort(p) ==
    /\ tx[p].phase # "idle"
    /\ faults < MaxFaults
    /\ faults' = faults + 1
    /\ Release(p)
    /\ UNCHANGED <<item, batch, audit, rule, clock>>

ClockTicks ==
    /\ clock < MaxClock
    /\ clock' = clock + 1
    /\ UNCHANGED <<item, batch, audit, rule, lock, holder, tx, faults>>

-----------------------------------------------------------------------------

Request(q) == \E b \in Batches, start \in 0 .. MaxStart : BeginRequest(q, b, start)

Step(p) ==
    \/ LockItem(p)
    \/ Conflict(p)
    \/ Postpone(p)
    \/ ApplyItem(p)
    \/ DeadlockVictim(p)
    \/ LockRules(p)
    \/ Commit(p)

BatchesNext ==
    \/ \E q \in Requests : Request(q)
    \/ \E r \in Runners : BeginRun(r)
    \/ \E p \in Procs : Step(p) \/ Raises(p) \/ Abort(p)
    \/ ClockTicks

BatchesSpec == BatchesInit /\ [][BatchesNext]_batchVars

-----------------------------------------------------------------------------
(* Properties *)

\* A batch takes effect on all of its targets or on none, and the audit has one
\* row for each target that says so, whatever raised in the middle
\* ("preflight_then_all_or_nothing_transaction").
AllOrNone ==
    \A b \in Batches :
        LET entries == {e \in audit : e.batch = b}
        IN /\ batch[b].status \in {"succeeded", "failed"} =>
                 /\ \A e \in entries : e.result = batch[b].status
                 /\ {e.item : e \in entries} = Targets[b]
                 /\ Cardinality(entries) = Cardinality(Targets[b])
           /\ batch[b].status \in {"absent", "scheduled"} => entries = {}

\* Some batch has changed i starting from an object older than the row.
Overtaken(i) == \E e \in Changes(audit) : e.item = i /\ e.stale

\* The audited changes of an item form one chain from version 0 to the current
\* version, and the last of them decides whether it is on line: no update is
\* lost between two transactions, unless a runner has applied a batch to an
\* object that a batch which failed earlier in the same pass had left behind.
VersionChain ==
    \A i \in Items :
        LET own == {e \in Changes(audit) : e.item = i}
        IN \/ Overtaken(i)
           \/ /\ {e.after : e \in own} = 1 .. item[i].version
              /\ Cardinality(own) = item[i].version
              /\ \A e \in own : e.before + 1 = e.after
              /\ \A e \in own : e.after = item[i].version =>
                    (item[i].online <=> Kind[e.batch] = "restore")

\* The test of state_version ("A target changed after the batch was scheduled") lets no
\* batch take the place of a change made since: two changes of an item never lead to the
\* same version.
NoChangeReplaced ==
    \A e, f \in Changes(audit) : e.item = f.item /\ e.after = f.after => e = f

\* A batch that is still to be applied, or a promotion that has outlived its end
Unfinished(b) == batch[b].status = "scheduled" \/ (rule[b] = "active" /\ Ended(b, batch[b].start, clock))

\* Though runners die and deadlock: every scheduled batch is applied or fails, and no
\* promotion outlives its end, for some runner finds its rule and expires it, though a pass
\* skips the rules another one has locked.
BatchesRunTheirCourse == <>[](\A b \in Batches : ~ Unfinished(b))
=============================================================================
