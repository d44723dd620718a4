---------------------------- MODULE DurableJobs ----------------------------
(***************************************************************************)
(* The durable job queue of apps/api/app/async_runtime: the three tables   *)
(* async_jobs, async_job_attempts and async_outbox, and every transaction  *)
(* SqlAlchemyAsyncRepository runs on the first two (delivery of the outbox *)
(* rows is AsyncOutbox.tla).                                               *)
(*                                                                         *)
(* Every repository method is one PostgreSQL transaction that locks the    *)
(* rows it changes, so each is one action.  A method that raises rolls     *)
(* back: it is a step that changes nothing, and has no action.             *)
(*                                                                         *)
(* The clients are the most general ones.  A claim, once handed out, may   *)
(* be presented to heartbeat, succeed and fail at any later time, any      *)
(* number of times, by a worker that was believed dead; calls carry the    *)
(* caller's own reading of the clock, which ClockSkew bounds.              *)
(***************************************************************************)
EXTENDS Naturals, FiniteSets

CONSTANTS
    Jobs,          \* the idempotency keys in use; one job each (unique column)
    MaxAttempts,   \* upper end of the max_attempts CHECK (100 in the code)
    LeaseSeconds,  \* lease granted by a claim or a heartbeat
    ClockSkew,     \* how far a caller's clock may be behind `now' or ahead of it
    MaxDelay,      \* bound: how far ahead due_at is set
    MaxNow         \* bound: the clock stops here

ASSUME PositiveConstants ==
    /\ MaxAttempts \in Nat \ {0}
    /\ LeaseSeconds \in Nat \ {0}
    /\ ClockSkew \in Nat
    /\ MaxDelay \in Nat
    /\ MaxNow \in Nat

VARIABLES
    job,      \* async_jobs row of each key
    attempt,  \* async_job_attempts rows, by job and attempt number
    outbox,   \* async_outbox idempotency keys <<state, attempt_count>> per job
    now       \* the true time

vars == <<job, attempt, outbox, now>>

-----------------------------------------------------------------------------
(* Rows *)

Numbers == 1 .. MaxAttempts

NoLease == 0   \* lease_expires_at IS NULL; a granted lease is always positive

Terminal == {"succeeded", "failed", "cancelled"}

JobRow ==
    [status : {"absent", "queued", "running"} \cup Terminal,
     due    : Nat,
     count  : 0 .. MaxAttempts,
     max    : 0 .. MaxAttempts]

AttemptRow ==
    [status : {"none", "running", "lease_expired"} \cup Terminal,
     lease  : Nat]

Message == {"queued", "succeeded", "failed", "cancelled"} \X (0 .. MaxAttempts)

Closed(status) == [status |-> status, lease |-> NoLease]

Leased(t) == [status |-> "running", lease |-> t + LeaseSeconds]

\* A job (back) in the queue.
Queued(row, due) == [status |-> "queued", due |-> due, count |-> row.count, max |-> row.max]

\* What a caller's clock may show, slow or fast.
Readings == {t \in 0 .. now + ClockSkew : now <= t + ClockSkew}

\* due_at values a caller may ask for: any time from "now" on.
DueTimes(t) == t .. t + MaxDelay

TypeOK ==
    /\ job \in [Jobs -> JobRow]
    /\ attempt \in [Jobs -> [Numbers -> AttemptRow]]
    /\ outbox \in [Jobs -> SUBSET Message]
    /\ now \in Nat

Init ==
    /\ job = [j \in Jobs |-> [status |-> "absent", due |-> 0, count |-> 0, max |-> 0]]
    /\ attempt = [j \in Jobs |-> [n \in Numbers |-> Closed("none")]]
    /\ outbox = [j \in Jobs |-> {}]
    /\ now = 0

-----------------------------------------------------------------------------
(* Calls on one job *)

\* The unique column async_outbox.idempotency_key: a second row with the key
\* raises IntegrityError and rolls the transaction back.
KeyFree(j, state) == <<state, job[j].count>> \notin outbox[j]

AddStateOutbox(j, state) ==
    outbox' = [outbox EXCEPT ![j] = @ \cup {<<state, job[j].count>>}]

\* A key seen before returns the existing job or a conflict and writes nothing.
Enqueue(j, t, due, max) ==
    /\ job[j].status = "absent"
    /\ job' = [job EXCEPT ![j] = Queued([count |-> 0, max |-> max], due)]
    /\ outbox' = [outbox EXCEPT ![j] = @ \cup {<<"queued", 0>>}]
    /\ UNCHANGED <<attempt, now>>

\* _owned_attempt_rows; (j, n) stands for the attempt_id and the fence_token of
\* the claim, both fresh for every attempt row.
Owned(j, n, t) ==
    /\ job[j].status = "running"
    /\ attempt[j][n].status = "running"
    /\ attempt[j][n].lease # NoLease
    /\ attempt[j][n].lease > t

Heartbeat(j, n, t) ==
    /\ Owned(j, n, t)
    /\ attempt' = [attempt EXCEPT ![j][n] = Leased(t)]
    /\ UNCHANGED <<job, outbox, now>>

\* The duplicate branches of succeed and fail change nothing.
Succeed(j, n, t) ==
    /\ Owned(j, n, t)
    /\ KeyFree(j, "succeeded")
    /\ attempt' = [attempt EXCEPT ![j][n] = Closed("succeeded")]
    /\ job' = [job EXCEPT ![j].status = "succeeded"]
    /\ AddStateOutbox(j, "succeeded")
    /\ UNCHANGED now

FailAndRequeue(j, n, t, delay) ==
    /\ Owned(j, n, t)
    /\ n < job[j].max
    /\ KeyFree(j, "queued")
    /\ attempt' = [attempt EXCEPT ![j][n] = Closed("failed")]
    /\ job' = [job EXCEPT ![j] = Queued(@, t + delay)]
    /\ AddStateOutbox(j, "queued")
    /\ UNCHANGED now

FailForGood(j, n, t, retryable) ==
    /\ Owned(j, n, t)
    /\ ~ (retryable /\ n < job[j].max)
    /\ KeyFree(j, "failed")
    /\ attempt' = [attempt EXCEPT ![j][n] = Closed("failed")]
    /\ job' = [job EXCEPT ![j].status = "failed"]
    /\ AddStateOutbox(j, "failed")
    /\ UNCHANGED now

\* (variant) The running attempt is forgotten.
CancelJobOnly(j) ==
    /\ job[j].status \in {"queued", "running"}
    /\ KeyFree(j, "cancelled")
    /\ job' = [job EXCEPT ![j].status = "cancelled"]
    /\ AddStateOutbox(j, "cancelled")
    /\ UNCHANGED <<attempt, now>>

Cancel(j) ==
    /\ job[j].status \in {"queued", "running"}
    /\ KeyFree(j, "cancelled")
    /\ attempt' = [attempt EXCEPT ![j] =
                      [n \in Numbers |-> IF @[n].status = "running"
                                         THEN Closed("cancelled") ELSE @[n]]]
    /\ job' = [job EXCEPT ![j].status = "cancelled"]
    /\ AddStateOutbox(j, "cancelled")
    /\ UNCHANGED now

\* (variant) No look at the budget.
RetryUnbudgeted(j, due) ==
    /\ job[j].status = "failed"
    /\ KeyFree(j, "queued")
    /\ job' = [job EXCEPT ![j] = Queued(@, due)]
    /\ AddStateOutbox(j, "queued")
    /\ UNCHANGED <<attempt, now>>

Retry(j, due) ==
    /\ job[j].status = "failed"
    /\ job[j].count < job[j].max
    /\ KeyFree(j, "queued")
    /\ job' = [job EXCEPT ![j] = Queued(@, due)]
    /\ AddStateOutbox(j, "queued")
    /\ UNCHANGED <<attempt, now>>

-----------------------------------------------------------------------------
(* claim_next: recover expired leases, then claim the first due job, in one  *)
(* transaction.                                                              *)

\* (variant) A lease ends an instant early.
LapsedEarly(j, t) ==
    {n \in Numbers : /\ job[j].status = "running"
                     /\ attempt[j][n].status = "running"
                     /\ attempt[j][n].lease <= t + 1}

\* (variant) No lease ever lapses.
LapsedNever(j, t) == {}

\* Attempts of j that _recover_expired closes at time t.
Lapsed(j, t) ==
    {n \in Numbers : /\ job[j].status = "running"
                     /\ attempt[j][n].status = "running"
                     /\ attempt[j][n].lease # NoLease
                     /\ attempt[j][n].lease <= t}

\* SKIP LOCKED passes over rows another transaction holds, so any part of the
\* lapsed attempts is recovered; 0 = none of this job.  The second attempt of
\* a job would find it no longer RUNNING, so at most one is closed.
Recoveries(t) ==
    {r \in [Jobs -> Numbers \cup {0}] : \A j \in Jobs : r[j] \in Lapsed(j, t) \cup {0}}

Exhausts(j, n) == n # 0 /\ n >= job[j].max

RecoveredJob(j, n, t) ==
    IF n = 0 THEN job[j]
    ELSE IF Exhausts(j, n) THEN [job[j] EXCEPT !.status = "failed"]
    ELSE Queued(job[j], t)

RecoveredAttempts(j, r) ==
    [n \in Numbers |-> IF n = r THEN Closed("lease_expired") ELSE attempt[j][n]]

\* (variant) A job failed by recovery is not announced.
RecoveredOutboxSilent(j, n) == outbox[j]

\* A job put back in the queue by recovery gets no outbox row, unlike one put
\* back by fail or retry.
RecoveredOutbox(j, n) ==
    IF Exhausts(j, n) THEN outbox[j] \cup {<<"failed", job[j].count>>} ELSE outbox[j]

RecoveryKeysFree(r) == \A j \in Jobs : Exhausts(j, r[j]) => KeyFree(j, "failed")

DueAfter(r, t, eligible) ==
    {j \in eligible : /\ RecoveredJob(j, r[j], t).status = "queued"
                      /\ RecoveredJob(j, r[j], t).due <= t}

\* claim_next when it returns None: it still commits the recovery.  `eligible'
\* is the jobs whose task the worker handles and whose row nobody has locked.
Reconcile(t, r, eligible) ==
    /\ RecoveryKeysFree(r)
    /\ DueAfter(r, t, eligible) = {}
    /\ job' = [j \in Jobs |-> RecoveredJob(j, r[j], t)]
    /\ attempt' = [j \in Jobs |-> RecoveredAttempts(j, r[j])]
    /\ outbox' = [j \in Jobs |-> RecoveredOutbox(j, r[j])]
    /\ UNCHANGED now

\* claim_next when it picks job c, the earliest due of the eligible jobs.
ClaimRow(row) ==
    IF row.count + 1 > row.max
    THEN [row EXCEPT !.status = "failed"]                       \* _mark_exhausted
    ELSE [status |-> "running", due |-> row.due, count |-> row.count + 1, max |-> row.max]

ClaimAttempts(row, rows, t) ==
    IF row.count + 1 > row.max THEN rows ELSE [rows EXCEPT ![row.count + 1] = Leased(t)]

ClaimOutbox(row, keys) ==
    IF row.count + 1 > row.max THEN keys \cup {<<"failed", row.count>>} ELSE keys

ClaimNext(c, t, r, eligible) ==
    /\ RecoveryKeysFree(r)
    /\ c \in DueAfter(r, t, eligible)
    /\ \A d \in DueAfter(r, t, eligible) :
          RecoveredJob(c, r[c], t).due <= RecoveredJob(d, r[d], t).due
    /\ job' = [j \in Jobs |->
                  IF j = c THEN ClaimRow(RecoveredJob(j, r[j], t))
                  ELSE RecoveredJob(j, r[j], t)]
    /\ attempt' = [j \in Jobs |->
                  IF j = c THEN ClaimAttempts(RecoveredJob(j, r[j], t),
                                              RecoveredAttempts(j, r[j]), t)
                  ELSE RecoveredAttempts(j, r[j])]
    /\ outbox' = [j \in Jobs |->
                  IF j = c THEN ClaimOutbox(RecoveredJob(j, r[j], t), RecoveredOutbox(j, r[j]))
                  ELSE RecoveredOutbox(j, r[j])]
    /\ UNCHANGED now

Tick ==
    /\ now < MaxNow
    /\ now' = now + 1
    /\ UNCHANGED <<job, attempt, outbox>>

-----------------------------------------------------------------------------

ClaimHolderStep ==
    \E j \in Jobs, n \in Numbers, t \in Readings :
        \/ Heartbeat(j, n, t)
        \/ Succeed(j, n, t)
        \/ \E delay \in 0 .. MaxDelay : FailAndRequeue(j, n, t, delay)
        \/ \E retryable \in BOOLEAN : FailForGood(j, n, t, retryable)

ApiStep ==
    \E j \in Jobs, t \in Readings :
        \/ \E due \in DueTimes(t), max \in Numbers : Enqueue(j, t, due, max)
        \/ Cancel(j)
        \/ \E due \in DueTimes(t) : Retry(j, due)

PollStep ==
    \E t \in Readings, eligible \in SUBSET Jobs :
        \E r \in Recoveries(t) :
            \/ Reconcile(t, r, eligible)
            \/ \E c \in Jobs : ClaimNext(c, t, r, eligible)

Next == ClaimHolderStep \/ ApiStep \/ PollStep \/ Tick

Spec == Init /\ [][Next]_vars

-----------------------------------------------------------------------------
(* Properties *)

Holders(j) == {n \in Numbers : attempt[j][n].status = "running"}

\* At most one claim on a job is good at any time, it is the newest attempt,
\* and it exists exactly while the job is RUNNING: however late, duplicated or
\* skewed the calls of workers believed dead are, recovery, cancellation and
\* completion leave no attempt RUNNING behind the job's back.
SingleHolder ==
    \A j \in Jobs :
        Holders(j) = IF job[j].status = "running" THEN {job[j].count} ELSE {}

\* The ledger agrees with the job: attempts are numbered 1..attempt_count with
\* no gap, and only the last one can have succeeded or been cancelled, which it
\* has only if the job says so.
LedgerAgrees ==
    \A j \in Jobs, n \in Numbers :
        /\ attempt[j][n].status = "none" <=> n > job[j].count
        /\ attempt[j][n].status = "succeeded" <=>
              n = job[j].count /\ job[j].status = "succeeded"
        /\ attempt[j][n].status = "cancelled" =>
              n = job[j].count /\ job[j].status = "cancelled"

\* The attempt budget is never overdrawn, and a queued job always has an
\* attempt left: the "attempt_number > max_attempts" branch of claim_next is
\* never needed, and no job waits in the queue only to be failed.
BudgetLeft ==
    \A j \in Jobs :
        /\ job[j].count <= job[j].max
        /\ job[j].status = "queued" => job[j].count < job[j].max

\* Every running attempt has a lease, so none can escape recovery.
EveryHolderExpires ==
    \A j \in Jobs, n \in Numbers :
        attempt[j][n].lease # NoLease <=> attempt[j][n].status = "running"

\* Outbox rows tell the truth: a terminal state is announced in the same
\* transaction that enters it, and "succeeded" or "cancelled" is announced only
\* of a job that is and stays so.
OutboxTruthful ==
    \A j \in Jobs :
        /\ job[j].status \in Terminal => <<job[j].status, job[j].count>> \in outbox[j]
        /\ \A n \in 0 .. MaxAttempts, s \in {"succeeded", "cancelled"} :
              <<s, n>> \in outbox[j] => job[j].status = s /\ job[j].count = n

\* The outbox key "job:{id}:{state}:{attempt_count}" of every transition the
\* job can make next is still unused, so no transaction is rolled back for ever
\* by the unique column (a retry after a failure reuses the attempt_count).
OutboxKeysFree ==
    \A j \in Jobs :
        /\ job[j].status = "running" =>
              \A s \in {"queued", "succeeded", "failed", "cancelled"} : KeyFree(j, s)
        /\ job[j].status = "queued" => KeyFree(j, "cancelled")
        /\ job[j].status = "failed" => KeyFree(j, "queued")

\* Fencing: once an attempt is closed, by whomever, no late call of its holder
\* changes it.
ClosedStaysClosed ==
    [][\A j \in Jobs, n \in Numbers :
          attempt[j][n].status \notin {"none", "running"} =>
              attempt'[j][n] = attempt[j][n]]_vars

-----------------------------------------------------------------------------
(* Refinement *)

LifeOf(row) == [phase |-> row.status, left |-> row.max - row.count]

Lifecycle == INSTANCE JobLifecycle WITH life <- [j \in Jobs |-> LifeOf(job[j])]

\* The repository keeps the promise of JobLifecycle: turns are exclusive and
\* bounded by max_attempts, results are final, only a failed job with budget left
\* is reopened, whatever the interleaving of workers, callers and clocks.
KeepsLifecycle == Lifecycle!Spec

-----------------------------------------------------------------------------
(* Inductive invariant (used by DurableJobs_proofs) *)

\* A job in state `status' may have announced s under its current attempt_count.
MayHaveAnnounced(s, status) ==
    \/ s = "queued" /\ status \in {"queued", "cancelled"}
    \/ s = "failed" /\ status \in {"failed", "queued", "cancelled"}
    \/ s \in {"succeeded", "cancelled"} /\ status = s

CountInv(row) ==
    /\ row.count <= row.max
    /\ row.status = "absent" => row.count = 0
    /\ row.status = "queued" => row.count < row.max
    /\ row.status \in {"running", "succeeded", "failed"} => row.count > 0

LedgerInv(row, rows) ==
    \A n \in Numbers :
        /\ rows[n].status = "none" <=> n > row.count
        /\ rows[n].status = "running" <=> n = row.count /\ row.status = "running"
        /\ rows[n].status = "succeeded" <=> n = row.count /\ row.status = "succeeded"
        /\ rows[n].status = "cancelled" => n = row.count /\ row.status = "cancelled"
        /\ rows[n].lease # NoLease <=> rows[n].status = "running"

KeysInv(row, keys) ==
    /\ row.status \in Terminal => <<row.status, row.count>> \in keys
    /\ \A s \in {"queued", "succeeded", "failed", "cancelled"}, n \in 0 .. MaxAttempts :
          <<s, n>> \in keys =>
              /\ n <= row.count
              /\ n = row.count => MayHaveAnnounced(s, row.status)
              /\ s \in {"succeeded", "cancelled"} => n = row.count

IInv ==
    /\ TypeOK
    /\ \A j \in Jobs :
          /\ CountInv(job[j])
          /\ LedgerInv(job[j], attempt[j])
          /\ KeysInv(job[j], outbox[j])
=============================================================================
