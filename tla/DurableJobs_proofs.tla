------------------------- MODULE DurableJobs_proofs -------------------------
(* Theorems about DurableJobs and the jobs of operations.  The invariant of  *)
(* the queue is local to one job: the lemmas of the first part say what each *)
(* kind of row change preserves, the second part shows that every action     *)
(* makes, on every job, one such change or none, whatever delay a failure is *)
(* put off by.  The last part adds the workers and handlers of OperationJobs *)
(* and the receipts they commit.                                             *)
EXTENDS OperationJobs, DurableLeases, FiniteSetTheorems, TLAPS

RowType(row, rows, keys) ==
    /\ row \in JobRow
    /\ rows \in [Numbers -> AttemptRow]
    /\ keys \in SUBSET Message

RowInv(row, rows, keys) ==
    /\ RowType(row, rows, keys)
    /\ CountInv(row)
    /\ LedgerInv(row, rows)
    /\ KeysInv(row, keys)

-----------------------------------------------------------------------------
(* What one row change preserves *)

\* Closing the running attempt and moving the job, with the announcement of the
\* new state: succeed, fail, cancel, and recovery of the last attempt.
LEMMA CloseRow ==
    ASSUME NEW row, NEW rows, NEW keys, RowInv(row, rows, keys),
           NEW n \in Numbers, rows[n].status = "running",
           NEW s, NEW a,
           \/ s = "succeeded" /\ a = "succeeded"
           \/ s = "failed" /\ a \in {"failed", "lease_expired"}
           \/ s = "queued" /\ a = "failed" /\ n < row.max
           \/ s = "cancelled" /\ a = "cancelled",
           NEW nrow \in JobRow,
           nrow.status = s, nrow.count = row.count, nrow.max = row.max
    PROVE  RowInv(nrow, [rows EXCEPT ![n] = Closed(a)], keys \cup {<<s, row.count>>})
<1> DEFINE nrows == [rows EXCEPT ![n] = Closed(a)]
           nkeys == keys \cup {<<s, row.count>>}
<1>1. /\ row \in JobRow
      /\ rows \in [Numbers -> AttemptRow]
      /\ keys \in SUBSET Message
      /\ CountInv(row)
      /\ LedgerInv(row, rows)
      /\ KeysInv(row, keys)
  BY DEF RowInv, RowType
<1>2. n = row.count /\ row.status = "running"
  BY <1>1 DEF LedgerInv
<1>3. nrows \in [Numbers -> AttemptRow]
  BY <1>1 DEF AttemptRow, Closed, NoLease, Terminal
<1>4. nkeys \in SUBSET Message
  BY <1>1 DEF Message, JobRow
<1>5. CountInv(nrow)
  BY <1>1, <1>2 DEF CountInv, JobRow, Numbers
<1>6. LedgerInv(nrow, nrows)
  <2> SUFFICES ASSUME NEW m \in Numbers
               PROVE  /\ nrows[m].status = "none" <=> m > nrow.count
                      /\ nrows[m].status = "running" <=> m = nrow.count /\ nrow.status = "running"
                      /\ nrows[m].status = "succeeded" <=>
                            m = nrow.count /\ nrow.status = "succeeded"
                      /\ nrows[m].status = "cancelled" =>
                            m = nrow.count /\ nrow.status = "cancelled"
                      /\ nrows[m].lease # NoLease <=> nrows[m].status = "running"
    BY DEF LedgerInv
  <2>1. CASE m = n
    BY <1>1, <1>2, <2>1 DEF LedgerInv, Closed, NoLease, JobRow, Numbers
  <2>2. CASE m # n
    BY <1>1, <1>2, <2>2 DEF LedgerInv
  <2> QED BY <2>1, <2>2
<1>7. KeysInv(nrow, nkeys)
  BY <1>1, <1>2 DEF KeysInv, MayHaveAnnounced, Terminal, JobRow
<1> QED BY <1>3, <1>4, <1>5, <1>6, <1>7 DEF RowInv, RowType

\* Recovery that puts the job back in the queue announces nothing.
LEMMA RequeueRow ==
    ASSUME NEW row, NEW rows, NEW keys, RowInv(row, rows, keys),
           NEW n \in Numbers, rows[n].status = "running", n < row.max,
           NEW t \in Nat
    PROVE  RowInv(Queued(row, t), [rows EXCEPT ![n] = Closed("lease_expired")], keys)
<1> DEFINE nrow  == Queued(row, t)
           nrows == [rows EXCEPT ![n] = Closed("lease_expired")]
<1>1. /\ row \in JobRow
      /\ rows \in [Numbers -> AttemptRow]
      /\ keys \in SUBSET Message
      /\ CountInv(row)
      /\ LedgerInv(row, rows)
      /\ KeysInv(row, keys)
  BY DEF RowInv, RowType
<1>2. n = row.count /\ row.status = "running"
  BY <1>1 DEF LedgerInv
<1>3. /\ nrow \in JobRow
      /\ nrow.status = "queued" /\ nrow.count = row.count /\ nrow.max = row.max
  BY <1>1 DEF JobRow, Queued
<1>4. nrows \in [Numbers -> AttemptRow]
  BY <1>1 DEF AttemptRow, Closed, NoLease
<1>5. CountInv(nrow)
  BY <1>1, <1>2, <1>3 DEF CountInv, JobRow, Numbers
<1>6. LedgerInv(nrow, nrows)
  <2> SUFFICES ASSUME NEW m \in Numbers
               PROVE  /\ nrows[m].status = "none" <=> m > nrow.count
                      /\ nrows[m].status = "running" <=> m = nrow.count /\ nrow.status = "running"
                      /\ nrows[m].status = "succeeded" <=>
                            m = nrow.count /\ nrow.status = "succeeded"
                      /\ nrows[m].status = "cancelled" =>
                            m = nrow.count /\ nrow.status = "cancelled"
                      /\ nrows[m].lease # NoLease <=> nrows[m].status = "running"
    BY DEF LedgerInv
  <2>1. CASE m = n
    BY <1>1, <1>2, <1>3, <2>1 DEF LedgerInv, Closed, NoLease, JobRow, Numbers
  <2>2. CASE m # n
    BY <1>1, <1>2, <1>3, <2>2 DEF LedgerInv
  <2> QED BY <2>1, <2>2
<1>7. KeysInv(nrow, keys)
  BY <1>1, <1>2, <1>3 DEF KeysInv, MayHaveAnnounced, Terminal, JobRow
<1> QED BY <1>1, <1>3, <1>4, <1>5, <1>6, <1>7 DEF RowInv, RowType

\* A claim opens the next attempt, never the exhausted branch.
LEMMA ClaimRowInv ==
    ASSUME NEW row, NEW rows, NEW keys, RowInv(row, rows, keys),
           row.status = "queued", NEW t \in Nat
    PROVE  RowInv(ClaimRow(row), ClaimAttempts(row, rows, t), ClaimOutbox(row, keys))
<1> DEFINE n == row.count + 1
           nrow  == [status |-> "running", due |-> row.due, count |-> n, max |-> row.max]
           nrows == [rows EXCEPT ![n] = Leased(t)]
<1>1. /\ row \in JobRow
      /\ rows \in [Numbers -> AttemptRow]
      /\ keys \in SUBSET Message
      /\ CountInv(row)
      /\ LedgerInv(row, rows)
      /\ KeysInv(row, keys)
  BY DEF RowInv, RowType
<1>2. n \in Numbers /\ ~ (n > row.max)
  BY <1>1, PositiveConstants DEF CountInv, JobRow, Numbers
<1>3. /\ ClaimRow(row) = nrow
      /\ ClaimAttempts(row, rows, t) = nrows
      /\ ClaimOutbox(row, keys) = keys
  BY <1>2 DEF ClaimRow, ClaimAttempts, ClaimOutbox
<1>4. nrow \in JobRow
  BY <1>1, <1>2, PositiveConstants DEF JobRow, Numbers
<1>5. nrows \in [Numbers -> AttemptRow]
  BY <1>1, <1>2, PositiveConstants DEF AttemptRow, Leased
<1>6. CountInv(nrow)
  BY <1>1, <1>2 DEF CountInv, JobRow, Numbers
<1>7. LedgerInv(nrow, nrows)
  <2> SUFFICES ASSUME NEW m \in Numbers
               PROVE  /\ nrows[m].status = "none" <=> m > nrow.count
                      /\ nrows[m].status = "running" <=> m = nrow.count /\ nrow.status = "running"
                      /\ nrows[m].status = "succeeded" <=>
                            m = nrow.count /\ nrow.status = "succeeded"
                      /\ nrows[m].status = "cancelled" =>
                            m = nrow.count /\ nrow.status = "cancelled"
                      /\ nrows[m].lease # NoLease <=> nrows[m].status = "running"
    BY DEF LedgerInv
  <2>1. CASE m = n
    BY <1>1, <1>2, <2>1, PositiveConstants DEF Leased, NoLease, JobRow, Numbers
  <2>2. CASE m # n
    BY <1>1, <1>2, <2>2 DEF LedgerInv, JobRow, Numbers
  <2> QED BY <2>1, <2>2
<1>8. KeysInv(nrow, keys)
  BY <1>1, <1>2 DEF KeysInv, MayHaveAnnounced, Terminal, JobRow
<1> QED BY <1>1, <1>3, <1>4, <1>5, <1>6, <1>7, <1>8 DEF RowInv, RowType

\* A queued job cancelled, or a failed one queued again: no attempt is open.
LEMMA IdleRow ==
    ASSUME NEW row, NEW rows, NEW keys, RowInv(row, rows, keys),
           NEW s,
           \/ s = "cancelled" /\ row.status = "queued"
           \/ s = "queued" /\ row.status = "failed" /\ row.count < row.max,
           NEW nrow \in JobRow,
           nrow.status = s, nrow.count = row.count, nrow.max = row.max
    PROVE  RowInv(nrow, rows, keys \cup {<<s, row.count>>})
<1>1. /\ row \in JobRow
      /\ rows \in [Numbers -> AttemptRow]
      /\ keys \in SUBSET Message
      /\ CountInv(row)
      /\ LedgerInv(row, rows)
      /\ KeysInv(row, keys)
  BY DEF RowInv, RowType
<1>2. keys \cup {<<s, row.count>>} \in SUBSET Message
  BY <1>1 DEF Message, JobRow
<1>3. CountInv(nrow)
  BY <1>1 DEF CountInv
<1>4. LedgerInv(nrow, rows)
  BY <1>1 DEF LedgerInv
<1>5. KeysInv(nrow, keys \cup {<<s, row.count>>})
  BY <1>1 DEF KeysInv, MayHaveAnnounced, Terminal, JobRow
<1> QED BY <1>1, <1>2, <1>3, <1>4, <1>5 DEF RowInv, RowType

LEMMA EnqueueRow ==
    ASSUME NEW row, NEW rows, NEW keys, RowInv(row, rows, keys),
           row.status = "absent", NEW due \in Nat, NEW max \in Numbers
    PROVE  RowInv(Queued([count |-> 0, max |-> max], due), rows, keys \cup {<<"queued", 0>>})
<1> DEFINE nrow == Queued([count |-> 0, max |-> max], due)
<1>1. /\ row \in JobRow
      /\ rows \in [Numbers -> AttemptRow]
      /\ keys \in SUBSET Message
      /\ CountInv(row)
      /\ LedgerInv(row, rows)
      /\ KeysInv(row, keys)
  BY DEF RowInv, RowType
<1>2. /\ nrow \in JobRow
      /\ nrow.status = "queued" /\ nrow.count = 0 /\ nrow.max = max /\ row.count = 0
  BY <1>1, PositiveConstants DEF JobRow, Queued, Numbers, CountInv
<1>3. keys \cup {<<"queued", 0>>} \in SUBSET Message
  BY <1>1, PositiveConstants DEF Message
<1>4. CountInv(nrow)
  BY <1>2 DEF CountInv, Numbers
<1>5. LedgerInv(nrow, rows)
  BY <1>1, <1>2 DEF LedgerInv
<1>6. KeysInv(nrow, keys \cup {<<"queued", 0>>})
  BY <1>1, <1>2 DEF KeysInv, MayHaveAnnounced, Terminal
<1> QED BY <1>1, <1>2, <1>3, <1>4, <1>5, <1>6 DEF RowInv, RowType

LEMMA HeartbeatRow ==
    ASSUME NEW row, NEW rows, NEW keys, RowInv(row, rows, keys),
           NEW n \in Numbers, rows[n].status = "running", NEW t \in Nat
    PROVE  RowInv(row, [rows EXCEPT ![n] = Leased(t)], keys)
<1> DEFINE nrows == [rows EXCEPT ![n] = Leased(t)]
<1>1. /\ row \in JobRow
      /\ rows \in [Numbers -> AttemptRow]
      /\ keys \in SUBSET Message
      /\ CountInv(row)
      /\ LedgerInv(row, rows)
      /\ KeysInv(row, keys)
  BY DEF RowInv, RowType
<1>2. nrows \in [Numbers -> AttemptRow]
  BY <1>1, PositiveConstants DEF AttemptRow, Leased
<1>3. \A m \in Numbers :
         /\ nrows[m].status = rows[m].status
         /\ m # n => nrows[m] = rows[m]
         /\ m = n => nrows[m].lease # NoLease
  BY <1>1, PositiveConstants DEF AttemptRow, Leased, NoLease
<1>4. LedgerInv(row, nrows)
  BY <1>1, <1>3 DEF LedgerInv
<1> QED BY <1>1, <1>2, <1>4 DEF RowInv, RowType

-----------------------------------------------------------------------------
(* Every action preserves the invariant *)

LEMMA RowsOfIInv ==
    ASSUME IInv
    PROVE  /\ \A j \in Jobs : RowInv(job[j], attempt[j], outbox[j])
           /\ job \in [Jobs -> JobRow]
           /\ attempt \in [Jobs -> [Numbers -> AttemptRow]]
           /\ outbox \in [Jobs -> SUBSET Message]
           /\ now \in Nat
BY DEF IInv, TypeOK, RowInv, RowType

\* It is enough to look at one job at a time.
LEMMA IInvOfRows ==
    ASSUME now' \in Nat,
           job' = [j \in Jobs |-> job'[j]],
           attempt' = [j \in Jobs |-> attempt'[j]],
           outbox' = [j \in Jobs |-> outbox'[j]],
           \A j \in Jobs : RowInv(job'[j], attempt'[j], outbox'[j])
    PROVE  IInv'
<1>1. TypeOK'
  BY DEF TypeOK, RowInv, RowType
<1>2. \A j \in Jobs : CountInv(job'[j]) /\ LedgerInv(job'[j], attempt'[j])
                      /\ KeysInv(job'[j], outbox'[j])
  BY DEF RowInv
<1> QED BY <1>1, <1>2 DEF IInv

LEMMA ReadingsAreNat == now \in Nat => Readings \subseteq Nat
BY PositiveConstants DEF Readings

\* What a holder may call, with any delay before a retry.
HolderCall(j, n, t) ==
    \/ Heartbeat(j, n, t)
    \/ Succeed(j, n, t)
    \/ \E delay \in Nat : FailAndRequeue(j, n, t, delay)
    \/ \E retryable \in BOOLEAN : FailForGood(j, n, t, retryable)

HolderStep == \E j \in Jobs, n \in Numbers, t \in Readings : HolderCall(j, n, t)

QueueStep == HolderStep \/ ApiStep \/ PollStep \/ Tick

LEMMA NextIsQueueStep == Next => QueueStep
BY PositiveConstants DEF Next, QueueStep, ClaimHolderStep, HolderStep, HolderCall

LEMMA HolderPreserves == IInv /\ HolderStep => IInv'
<1> SUFFICES ASSUME IInv, NEW c \in Jobs, NEW n \in Numbers, NEW t \in Readings,
                    HolderCall(c, n, t)
             PROVE  IInv'
  BY DEF HolderStep
<1>1. /\ \A j \in Jobs : RowInv(job[j], attempt[j], outbox[j])
      /\ job \in [Jobs -> JobRow]
      /\ attempt \in [Jobs -> [Numbers -> AttemptRow]]
      /\ outbox \in [Jobs -> SUBSET Message]
      /\ now \in Nat
  BY RowsOfIInv
<1>2. t \in Nat
  BY <1>1, ReadingsAreNat
<1>3. job[c] \in JobRow /\ RowInv(job[c], attempt[c], outbox[c])
  BY <1>1
<1>4. CASE Heartbeat(c, n, t)
  <2>1. RowInv(job[c], [attempt[c] EXCEPT ![n] = Leased(t)], outbox[c])
    BY <1>2, <1>3, <1>4, HeartbeatRow DEF Heartbeat, Owned
  <2>2. \A j \in Jobs : RowInv(job'[j], attempt'[j], outbox'[j])
    BY <1>1, <1>4, <2>1 DEF Heartbeat
  <2> QED BY <1>1, <1>4, <2>2, IInvOfRows DEF Heartbeat
<1>5. CASE Succeed(c, n, t)
  <2>1. [job[c] EXCEPT !.status = "succeeded"] \in JobRow
    BY <1>3 DEF JobRow, Terminal
  <2>2. RowInv([job[c] EXCEPT !.status = "succeeded"],
               [attempt[c] EXCEPT ![n] = Closed("succeeded")],
               outbox[c] \cup {<<"succeeded", job[c].count>>})
    BY <1>3, <1>5, <2>1, CloseRow DEF Succeed, Owned, JobRow
  <2>3. \A j \in Jobs : RowInv(job'[j], attempt'[j], outbox'[j])
    BY <1>1, <1>5, <2>2 DEF Succeed, AddStateOutbox
  <2> QED BY <1>1, <1>5, <2>3, IInvOfRows DEF Succeed, AddStateOutbox
<1>6. CASE \E delay \in Nat : FailAndRequeue(c, n, t, delay)
  <2> PICK delay \in Nat : FailAndRequeue(c, n, t, delay)
    BY <1>6
  <2>1. Queued(job[c], t + delay) \in JobRow
    BY <1>2, <1>3, PositiveConstants DEF JobRow, Queued
  <2>2. RowInv(Queued(job[c], t + delay),
               [attempt[c] EXCEPT ![n] = Closed("failed")],
               outbox[c] \cup {<<"queued", job[c].count>>})
    BY <1>3, <2>1, CloseRow DEF FailAndRequeue, Owned, Queued
  <2>3. \A j \in Jobs : RowInv(job'[j], attempt'[j], outbox'[j])
    BY <1>1, <2>2 DEF FailAndRequeue, AddStateOutbox
  <2> QED BY <1>1, <2>3, IInvOfRows DEF FailAndRequeue, AddStateOutbox
<1>7. CASE \E retryable \in BOOLEAN : FailForGood(c, n, t, retryable)
  <2> PICK retryable \in BOOLEAN : FailForGood(c, n, t, retryable)
    BY <1>7
  <2>1. [job[c] EXCEPT !.status = "failed"] \in JobRow
    BY <1>3 DEF JobRow, Terminal
  <2>2. RowInv([job[c] EXCEPT !.status = "failed"],
               [attempt[c] EXCEPT ![n] = Closed("failed")],
               outbox[c] \cup {<<"failed", job[c].count>>})
    BY <1>3, <2>1, CloseRow DEF FailForGood, Owned, JobRow
  <2>3. \A j \in Jobs : RowInv(job'[j], attempt'[j], outbox'[j])
    BY <1>1, <2>2 DEF FailForGood, AddStateOutbox
  <2> QED BY <1>1, <2>3, IInvOfRows DEF FailForGood, AddStateOutbox
<1> QED BY <1>4, <1>5, <1>6, <1>7 DEF HolderCall

LEMMA ApiPreserves == IInv /\ ApiStep => IInv'
<1> SUFFICES ASSUME IInv, NEW c \in Jobs, NEW t \in Readings,
                    \/ \E due \in DueTimes(t), max \in Numbers : Enqueue(c, t, due, max)
                    \/ Cancel(c)
                    \/ \E due \in DueTimes(t) : Retry(c, due)
             PROVE  IInv'
  BY DEF ApiStep
<1>1. /\ \A j \in Jobs : RowInv(job[j], attempt[j], outbox[j])
      /\ job \in [Jobs -> JobRow]
      /\ attempt \in [Jobs -> [Numbers -> AttemptRow]]
      /\ outbox \in [Jobs -> SUBSET Message]
      /\ now \in Nat
  BY RowsOfIInv
<1>2. DueTimes(t) \subseteq Nat
  BY <1>1, ReadingsAreNat, PositiveConstants DEF DueTimes
<1>3. job[c] \in JobRow /\ RowInv(job[c], attempt[c], outbox[c])
  BY <1>1
<1>4. CASE \E due \in DueTimes(t), max \in Numbers : Enqueue(c, t, due, max)
  <2> PICK due \in DueTimes(t), max \in Numbers : Enqueue(c, t, due, max)
    BY <1>4
  <2>1. RowInv(Queued([count |-> 0, max |-> max], due), attempt[c], outbox[c] \cup {<<"queued", 0>>})
    BY <1>2, <1>3, EnqueueRow DEF Enqueue
  <2>2. \A j \in Jobs : RowInv(job'[j], attempt'[j], outbox'[j])
    BY <1>1, <2>1 DEF Enqueue
  <2> QED BY <1>1, <2>2, IInvOfRows DEF Enqueue
<1>5. CASE Cancel(c)
  <2>1. [job[c] EXCEPT !.status = "cancelled"] \in JobRow
    BY <1>3 DEF JobRow, Terminal
  <2> DEFINE rows == [n \in Numbers |-> IF attempt[c][n].status = "running"
                                        THEN Closed("cancelled") ELSE attempt[c][n]]
  <2>2. RowInv([job[c] EXCEPT !.status = "cancelled"], rows,
               outbox[c] \cup {<<"cancelled", job[c].count>>})
    <3>1. CASE job[c].status = "queued"
      <4>1. \A n \in Numbers : attempt[c][n].status # "running"
        BY <1>3, <3>1 DEF RowInv, LedgerInv
      <4>2. rows = attempt[c]
        BY <1>3, <4>1 DEF RowInv, RowType
      <4> QED BY <1>3, <2>1, <3>1, <4>2, IdleRow DEF JobRow
    <3>2. CASE job[c].status = "running"
      <4>1. job[c].count \in Numbers
        BY <1>3, <3>2, PositiveConstants DEF RowInv, CountInv, JobRow, Numbers
      <4>2. \A n \in Numbers : attempt[c][n].status = "running" <=> n = job[c].count
        BY <1>3, <3>2 DEF RowInv, LedgerInv
      <4>3. rows = [attempt[c] EXCEPT ![job[c].count] = Closed("cancelled")]
        BY <1>3, <4>1, <4>2 DEF RowInv, RowType
      <4>4. RowInv([job[c] EXCEPT !.status = "cancelled"],
                   [attempt[c] EXCEPT ![job[c].count] = Closed("cancelled")],
                   outbox[c] \cup {<<"cancelled", job[c].count>>})
        BY <1>3, <2>1, <4>1, <4>2, CloseRow DEF JobRow
      <4> QED BY <4>3, <4>4
    <3> QED BY <1>5, <3>1, <3>2 DEF Cancel
  <2>3. \A j \in Jobs : RowInv(job'[j], attempt'[j], outbox'[j])
    BY <1>1, <1>5, <2>2 DEF Cancel, AddStateOutbox
  <2> QED BY <1>1, <1>5, <2>3, IInvOfRows DEF Cancel, AddStateOutbox
<1>6. CASE \E due \in DueTimes(t) : Retry(c, due)
  <2> PICK due \in DueTimes(t) : Retry(c, due)
    BY <1>6
  <2>1. Queued(job[c], due) \in JobRow
    BY <1>2, <1>3 DEF JobRow, Queued
  <2>2. RowInv(Queued(job[c], due), attempt[c], outbox[c] \cup {<<"queued", job[c].count>>})
    BY <1>3, <2>1, IdleRow DEF Retry, Queued
  <2>3. \A j \in Jobs : RowInv(job'[j], attempt'[j], outbox'[j])
    BY <1>1, <2>2 DEF Retry, AddStateOutbox
  <2> QED BY <1>1, <2>3, IInvOfRows DEF Retry, AddStateOutbox
<1> QED BY <1>4, <1>5, <1>6

\* The recovery half of claim_next, on one job.
LEMMA RecoveredRow ==
    ASSUME IInv, NEW t \in Nat, NEW r \in Recoveries(t), NEW j \in Jobs
    PROVE  RowInv(RecoveredJob(j, r[j], t), RecoveredAttempts(j, r[j]), RecoveredOutbox(j, r[j]))
<1>1. job[j] \in JobRow /\ RowInv(job[j], attempt[j], outbox[j])
  BY RowsOfIInv
<1>2. r[j] \in Lapsed(j, t) \cup {0}
  BY DEF Recoveries
<1>3. CASE r[j] = 0
  <2>1. RecoveredAttempts(j, 0) = attempt[j]
    <3>1. \A n \in Numbers : n # 0
      BY PositiveConstants DEF Numbers
    <3>2. attempt[j] \in [Numbers -> AttemptRow]
      BY <1>1 DEF RowInv, RowType
    <3> QED BY <3>1, <3>2 DEF RecoveredAttempts
  <2>2. RecoveredJob(j, 0, t) = job[j] /\ RecoveredOutbox(j, 0) = outbox[j]
    BY DEF RecoveredJob, RecoveredOutbox, Exhausts
  <2> QED BY <1>1, <1>3, <2>1, <2>2
<1>4. CASE r[j] # 0
  <2>1. r[j] \in Numbers /\ attempt[j][r[j]].status = "running"
    BY <1>2, <1>4 DEF Lapsed
  <2>2. RecoveredAttempts(j, r[j]) = [attempt[j] EXCEPT ![r[j]] = Closed("lease_expired")]
    BY <1>1, <2>1 DEF RecoveredAttempts, RowInv, RowType
  <2>3. CASE Exhausts(j, r[j])
    <3>1. [job[j] EXCEPT !.status = "failed"] \in JobRow
      BY <1>1 DEF JobRow, Terminal
    <3>2. RowInv([job[j] EXCEPT !.status = "failed"],
                 [attempt[j] EXCEPT ![r[j]] = Closed("lease_expired")],
                 outbox[j] \cup {<<"failed", job[j].count>>})
      BY <1>1, <2>1, <3>1, CloseRow DEF JobRow
    <3> QED BY <1>4, <2>2, <2>3, <3>2 DEF RecoveredJob, RecoveredOutbox
  <2>4. CASE ~ Exhausts(j, r[j])
    <3>1. r[j] < job[j].max
      BY <1>1, <1>4, <2>1, <2>4, PositiveConstants DEF Exhausts, JobRow, Numbers
    <3>2. RowInv(Queued(job[j], t), [attempt[j] EXCEPT ![r[j]] = Closed("lease_expired")], outbox[j])
      BY <1>1, <2>1, <3>1, RequeueRow
    <3> QED BY <1>4, <2>2, <2>4, <3>2 DEF RecoveredJob, RecoveredOutbox
  <2> QED BY <2>3, <2>4
<1> QED BY <1>3, <1>4

LEMMA PollPreserves == IInv /\ PollStep => IInv'
<1> SUFFICES ASSUME IInv, NEW t \in Readings, NEW eligible \in SUBSET Jobs,
                    NEW r \in Recoveries(t),
                    \/ Reconcile(t, r, eligible)
                    \/ \E c \in Jobs : ClaimNext(c, t, r, eligible)
             PROVE  IInv'
  BY DEF PollStep
<1>1. t \in Nat /\ now \in Nat
  BY ReadingsAreNat, RowsOfIInv
<1>2. \A j \in Jobs : RowInv(RecoveredJob(j, r[j], t), RecoveredAttempts(j, r[j]),
                             RecoveredOutbox(j, r[j]))
  BY <1>1, RecoveredRow
<1>3. CASE Reconcile(t, r, eligible)
  <2>1. \A j \in Jobs : RowInv(job'[j], attempt'[j], outbox'[j])
    BY <1>2, <1>3 DEF Reconcile
  <2> QED BY <1>1, <1>3, <2>1, IInvOfRows DEF Reconcile
<1>4. CASE \E c \in Jobs : ClaimNext(c, t, r, eligible)
  <2> PICK c \in Jobs : ClaimNext(c, t, r, eligible)
    BY <1>4
  <2>1. RecoveredJob(c, r[c], t).status = "queued"
    BY DEF ClaimNext, DueAfter
  <2>2. RowInv(ClaimRow(RecoveredJob(c, r[c], t)),
               ClaimAttempts(RecoveredJob(c, r[c], t), RecoveredAttempts(c, r[c]), t),
               ClaimOutbox(RecoveredJob(c, r[c], t), RecoveredOutbox(c, r[c])))
    BY <1>1, <1>2, <2>1, ClaimRowInv
  <2>3. \A j \in Jobs : RowInv(job'[j], attempt'[j], outbox'[j])
    BY <1>2, <2>2 DEF ClaimNext
  <2> QED BY <1>1, <2>3, IInvOfRows DEF ClaimNext
<1> QED BY <1>3, <1>4

LEMMA InitIInv == Init => IInv
<1> SUFFICES ASSUME Init PROVE IInv
  OBVIOUS
<1>1. TypeOK
  BY PositiveConstants DEF Init, TypeOK, JobRow, AttemptRow, Message, Closed, NoLease, Numbers
<1>2. ASSUME NEW j \in Jobs
      PROVE  CountInv(job[j]) /\ LedgerInv(job[j], attempt[j]) /\ KeysInv(job[j], outbox[j])
  BY PositiveConstants
     DEF Init, CountInv, LedgerInv, KeysInv, Closed, NoLease, Numbers, Terminal
<1> QED BY <1>1, <1>2 DEF IInv

LEMMA StepIInv == IInv /\ [QueueStep]_vars => IInv'
<1> SUFFICES ASSUME IInv, [QueueStep]_vars PROVE IInv'
  OBVIOUS
<1>1. CASE HolderStep
  BY <1>1, HolderPreserves
<1>2. CASE ApiStep
  BY <1>2, ApiPreserves
<1>3. CASE PollStep
  BY <1>3, PollPreserves
<1>4. CASE Tick
  BY <1>4 DEF Tick, IInv, TypeOK
<1>5. CASE UNCHANGED vars
  BY <1>5 DEF vars, IInv, TypeOK
<1> QED BY <1>1, <1>2, <1>3, <1>4, <1>5 DEF QueueStep

LEMMA NextIInv == IInv /\ [Next]_vars => IInv'
BY NextIsQueueStep, StepIInv

-----------------------------------------------------------------------------
(* Theorems *)

\* IInv is an invariant of the queue, hence so is its first conjunct.
LEMMA Invariance == Spec => []IInv
BY InitIInv, NextIInv, PTL DEF Spec

\* Every row of the three tables has its type after any history of calls.
THEOREM TypeCorrect == Spec => []TypeOK
<1>1. IInv => TypeOK
  BY DEF IInv
<1> QED BY <1>1, Invariance, PTL

\* At most one claim on a job is good at any time, whatever late, repeated or
\* skewed calls earlier claim holders make.
THEOREM OneHolder == Spec => []SingleHolder
<1>1. IInv => SingleHolder
  <2> SUFFICES ASSUME IInv, NEW j \in Jobs
               PROVE  Holders(j) = IF job[j].status = "running" THEN {job[j].count} ELSE {}
    BY DEF SingleHolder
  <2>1. /\ job[j] \in JobRow /\ CountInv(job[j]) /\ LedgerInv(job[j], attempt[j])
    BY DEF IInv, TypeOK
  <2>2. job[j].status = "running" => job[j].count \in Numbers
    BY <2>1, PositiveConstants DEF CountInv, JobRow, Numbers
  <2>3. \A n \in Numbers : attempt[j][n].status = "running" <=>
                             n = job[j].count /\ job[j].status = "running"
    BY <2>1 DEF LedgerInv
  <2> QED BY <2>2, <2>3 DEF Holders
<1> QED BY <1>1, Invariance, PTL

\* The attempt ledger and the job row never disagree.
THEOREM LedgerCorrect == Spec => []LedgerAgrees
<1>1. IInv => LedgerAgrees
  BY DEF IInv, LedgerInv, LedgerAgrees
<1> QED BY <1>1, Invariance, PTL

\* A queued job has an attempt left: the exhausted branch of a claim is dead.
THEOREM BudgetKept == Spec => []BudgetLeft
<1>1. IInv => BudgetLeft
  BY DEF IInv, CountInv, BudgetLeft
<1> QED BY <1>1, Invariance, PTL

\* No running attempt is without a lease, so recovery can reach every one.
THEOREM HoldersExpire == Spec => []EveryHolderExpires
<1>1. IInv => EveryHolderExpires
  BY DEF IInv, LedgerInv, EveryHolderExpires
<1> QED BY <1>1, Invariance, PTL

\* A terminal state is always announced, and only what is so is announced.
THEOREM OutboxCorrect == Spec => []OutboxTruthful
<1>1. IInv => OutboxTruthful
  <2> SUFFICES ASSUME IInv, NEW j \in Jobs
               PROVE  /\ job[j].status \in Terminal => <<job[j].status, job[j].count>> \in outbox[j]
                      /\ \A n \in 0 .. MaxAttempts, s \in {"succeeded", "cancelled"} :
                            <<s, n>> \in outbox[j] => job[j].status = s /\ job[j].count = n
    BY DEF OutboxTruthful
  <2>1. KeysInv(job[j], outbox[j])
    BY DEF IInv
  <2> QED BY <2>1 DEF KeysInv, MayHaveAnnounced
<1> QED BY <1>1, Invariance, PTL

\* No transition is ever blocked by the unique outbox key.
THEOREM KeysStayFree == Spec => []OutboxKeysFree
<1>1. IInv => OutboxKeysFree
  <2> SUFFICES ASSUME IInv, NEW j \in Jobs
               PROVE  /\ job[j].status = "running" =>
                            \A s \in {"queued", "succeeded", "failed", "cancelled"} : KeyFree(j, s)
                      /\ job[j].status = "queued" => KeyFree(j, "cancelled")
                      /\ job[j].status = "failed" => KeyFree(j, "queued")
    BY DEF OutboxKeysFree
  <2>1. KeysInv(job[j], outbox[j]) /\ job[j].count \in 0 .. MaxAttempts
    BY DEF IInv, TypeOK, JobRow
  <2> QED BY <2>1 DEF KeysInv, MayHaveAnnounced, KeyFree
<1> QED BY <1>1, Invariance, PTL

-----------------------------------------------------------------------------
(* The queue implements JobLifecycle *)

\* What a step does to the row of one job.
RowStep(old, new) == LifeOf(new) = LifeOf(old) \/ Lifecycle!JobStep(LifeOf(old), LifeOf(new))

LEMMA HolderRowStep ==
    ASSUME IInv, HolderStep, NEW j \in Jobs
    PROVE  RowStep(job[j], job'[j])
<1> PICK c \in Jobs, n \in Numbers, t \in Readings : HolderCall(c, n, t)
  BY DEF HolderStep
<1>1. /\ job \in [Jobs -> JobRow]
      /\ job[c] \in JobRow
      /\ LedgerInv(job[c], attempt[c])
  BY DEF IInv, TypeOK
<1>2. ASSUME Owned(c, n, t) PROVE n = job[c].count /\ job[c].status = "running"
  BY <1>1, <1>2 DEF Owned, LedgerInv
<1>3. CASE Heartbeat(c, n, t)
  BY <1>3 DEF Heartbeat, RowStep
<1>4. CASE Succeed(c, n, t)
  BY <1>1, <1>2, <1>4
     DEF Succeed, RowStep, LifeOf, JobRow, Lifecycle!JobStep, Lifecycle!EndTurn
<1>5. CASE \E delay \in Nat : FailAndRequeue(c, n, t, delay)
  BY <1>1, <1>2, <1>5
     DEF FailAndRequeue, Queued, RowStep, LifeOf, JobRow, Lifecycle!JobStep, Lifecycle!EndTurn
<1>6. CASE \E retryable \in BOOLEAN : FailForGood(c, n, t, retryable)
  BY <1>1, <1>2, <1>6
     DEF FailForGood, RowStep, LifeOf, JobRow, Lifecycle!JobStep, Lifecycle!EndTurn
<1> QED BY <1>3, <1>4, <1>5, <1>6 DEF HolderCall

LEMMA ApiRowStep ==
    ASSUME IInv, ApiStep, NEW j \in Jobs
    PROVE  RowStep(job[j], job'[j])
<1> PICK c \in Jobs, t \in Readings :
        \/ \E due \in DueTimes(t), max \in Numbers : Enqueue(c, t, due, max)
        \/ Cancel(c)
        \/ \E due \in DueTimes(t) : Retry(c, due)
  BY DEF ApiStep
<1>1. job \in [Jobs -> JobRow] /\ job[c] \in JobRow
  BY DEF IInv, TypeOK
<1>2. CASE \E due \in DueTimes(t), max \in Numbers : Enqueue(c, t, due, max)
  BY <1>1, <1>2, PositiveConstants
     DEF Enqueue, Queued, RowStep, LifeOf, JobRow, Numbers, Lifecycle!JobStep, Lifecycle!Submit
<1>3. CASE Cancel(c)
  BY <1>1, <1>3
     DEF Cancel, RowStep, LifeOf, JobRow,
         Lifecycle!JobStep, Lifecycle!EndTurn, Lifecycle!Withdraw
<1>4. CASE \E due \in DueTimes(t) : Retry(c, due)
  BY <1>1, <1>4
     DEF Retry, Queued, RowStep, LifeOf, JobRow, Lifecycle!JobStep, Lifecycle!Reopen
<1> QED BY <1>2, <1>3, <1>4

LEMMA PollRowStep ==
    ASSUME IInv, PollStep, NEW j \in Jobs
    PROVE  RowStep(job[j], job'[j])
<1> PICK t \in Readings, eligible \in SUBSET Jobs :
        \E r \in Recoveries(t) : \/ Reconcile(t, r, eligible)
                              \/ \E c \in Jobs : ClaimNext(c, t, r, eligible)
  BY DEF PollStep
<1> PICK r \in Recoveries(t) : \/ Reconcile(t, r, eligible)
                            \/ \E c \in Jobs : ClaimNext(c, t, r, eligible)
  OBVIOUS
<1> DEFINE recovered == RecoveredJob(j, r[j], t)
<1>1. /\ job[j] \in JobRow
      /\ CountInv(job[j])
      /\ LedgerInv(job[j], attempt[j])
  BY DEF IInv, TypeOK
<1>2. r[j] # 0 => r[j] = job[j].count /\ job[j].status = "running" /\ r[j] \in Numbers
  BY <1>1 DEF Recoveries, Lapsed, LedgerInv
<1>3. \/ recovered = job[j]
      \/ /\ job[j].status = "running"
         /\ recovered = [job[j] EXCEPT !.status = "failed"]
      \/ /\ job[j].status = "running" /\ job[j].count < job[j].max
         /\ recovered = Queued(job[j], t)
  BY <1>1, <1>2, PositiveConstants DEF RecoveredJob, Exhausts, JobRow, Numbers
<1>4. RowStep(job[j], recovered)
  BY <1>1, <1>3
     DEF RowStep, Queued, LifeOf, JobRow, Lifecycle!JobStep, Lifecycle!EndTurn
<1>5. CASE Reconcile(t, r, eligible)
  BY <1>4, <1>5 DEF Reconcile
<1>6. CASE \E c \in Jobs : ClaimNext(c, t, r, eligible)
  <2> PICK c \in Jobs : ClaimNext(c, t, r, eligible)
    BY <1>6
  <2>1. CASE j # c
    BY <1>4, <2>1 DEF ClaimNext
  <2>2. CASE j = c
    <3>1. recovered.status = "queued"
      BY <2>2 DEF ClaimNext, DueAfter
    <3>2. /\ recovered.count = job[j].count /\ recovered.max = job[j].max
          /\ job[j].count < job[j].max
          /\ job[j].status \in {"queued", "running"}
      BY <1>1, <1>3, <3>1 DEF Queued, JobRow, CountInv
    <3>3. /\ job'[j] = ClaimRow(recovered)
          /\ job'[j].status = "running"
          /\ job'[j].count = job[j].count + 1
          /\ job'[j].max = job[j].max
      BY <1>1, <2>2, <3>2 DEF ClaimNext, ClaimRow, JobRow
    <3> QED BY <1>1, <3>2, <3>3
            DEF RowStep, LifeOf, JobRow, Lifecycle!JobStep, Lifecycle!BeginTurn
  <2> QED BY <2>1, <2>2
<1> QED BY <1>5, <1>6

LEMMA LifecycleStep ==
    ASSUME IInv, [QueueStep]_vars
    PROVE  [Lifecycle!Next]_([j \in Jobs |-> LifeOf(job[j])])
<1>1. CASE \A j \in Jobs : RowStep(job[j], job'[j])
  BY <1>1 DEF RowStep, Lifecycle!Next
<1>2. CASE UNCHANGED job
  BY <1>2
<1>3. CASE HolderStep
  BY <1>1, <1>3, HolderRowStep
<1>4. CASE ApiStep
  BY <1>1, <1>4, ApiRowStep
<1>5. CASE PollStep
  BY <1>1, <1>5, PollRowStep
<1>6. CASE Tick \/ UNCHANGED vars
  BY <1>2, <1>6 DEF Tick, vars
<1> QED BY <1>3, <1>4, <1>5, <1>6 DEF QueueStep

\* The repository keeps the promise of JobLifecycle for every number of jobs,
\* attempts and callers.
THEOREM ImplementsLifecycle == Spec => KeepsLifecycle
<1>1. Init => Lifecycle!Init
  BY DEF Init, Lifecycle!Init, LifeOf
<1>2. IInv /\ [Next]_vars => [Lifecycle!Next]_([j \in Jobs |-> LifeOf(job[j])])
  BY NextIsQueueStep, LifecycleStep
<1> QED BY <1>1, <1>2, Invariance, PTL DEF Spec, KeepsLifecycle, Lifecycle!Spec

-----------------------------------------------------------------------------
(* What a step may never do *)

AttemptsClosed ==
    \A j \in Jobs, n \in Numbers :
        attempt[j][n].status \notin {"none", "running"} => attempt'[j][n] = attempt[j][n]

\* A claim opens an attempt row that was still unused.
LEMMA ClaimOpensFresh ==
    ASSUME IInv, NEW t \in Readings, NEW r \in Recoveries(t), NEW c \in Jobs,
           RecoveredJob(c, r[c], t).status = "queued"
    PROVE  LET row == RecoveredJob(c, r[c], t)
           IN  /\ row.count = job[c].count
               /\ ~ (row.count + 1 > row.max)
               /\ row.count + 1 \in Numbers
               /\ attempt[c][row.count + 1].status = "none"
<1>1. /\ job[c] \in JobRow
      /\ CountInv(job[c])
      /\ LedgerInv(job[c], attempt[c])
  BY DEF IInv, TypeOK
<1>2. r[c] # 0 => r[c] = job[c].count /\ job[c].status = "running" /\ r[c] \in Numbers
  BY <1>1 DEF Recoveries, Lapsed, LedgerInv
<1>3. /\ RecoveredJob(c, r[c], t).count = job[c].count
      /\ RecoveredJob(c, r[c], t).max = job[c].max
      /\ job[c].count < job[c].max
  BY <1>1, <1>2, PositiveConstants
     DEF RecoveredJob, Exhausts, Queued, JobRow, Numbers, CountInv
<1>4. job[c].count + 1 \in Numbers
  BY <1>1, <1>3, PositiveConstants DEF JobRow, Numbers
<1> QED BY <1>1, <1>3, <1>4 DEF LedgerInv, JobRow, Numbers

LEMMA ClosedStep == IInv /\ [QueueStep]_vars => [AttemptsClosed]_vars
<1> SUFFICES ASSUME IInv, QueueStep, NEW j \in Jobs, NEW n \in Numbers,
                    attempt[j][n].status \notin {"none", "running"}
             PROVE  attempt'[j][n] = attempt[j][n]
  BY DEF AttemptsClosed
<1>1. attempt \in [Jobs -> [Numbers -> AttemptRow]]
  BY DEF IInv, TypeOK
<1>2. CASE HolderStep
  BY <1>1, <1>2
     DEF HolderStep, HolderCall, Owned, Heartbeat, Succeed, FailAndRequeue, FailForGood
<1>3. CASE ApiStep
  <2> PICK c \in Jobs, t \in Readings :
          \/ \E due \in DueTimes(t), max \in Numbers : Enqueue(c, t, due, max)
          \/ Cancel(c)
          \/ \E due \in DueTimes(t) : Retry(c, due)
    BY <1>3 DEF ApiStep
  <2>1. CASE Cancel(c)
    <3>1. attempt'[c] = [m \in Numbers |-> IF attempt[c][m].status = "running"
                                           THEN Closed("cancelled") ELSE attempt[c][m]]
      BY <1>1, <2>1 DEF Cancel
    <3>2. j # c => attempt'[j] = attempt[j]
      BY <1>1, <2>1 DEF Cancel
    <3> QED BY <3>1, <3>2
  <2>2. CASE UNCHANGED attempt
    BY <2>2
  <2> QED BY <2>1, <2>2 DEF Enqueue, Retry
<1>4. CASE PollStep
  <2> PICK t \in Readings, eligible \in SUBSET Jobs :
          \E r \in Recoveries(t) : \/ Reconcile(t, r, eligible)
                                \/ \E c \in Jobs : ClaimNext(c, t, r, eligible)
    BY <1>4 DEF PollStep
  <2> PICK r \in Recoveries(t) : \/ Reconcile(t, r, eligible)
                              \/ \E c \in Jobs : ClaimNext(c, t, r, eligible)
    OBVIOUS
  <2>1. RecoveredAttempts(j, r[j])[n] = attempt[j][n]
    <3>1. r[j] \in Lapsed(j, t) \cup {0}
      BY DEF Recoveries
    <3>2. n # 0
      BY PositiveConstants DEF Numbers
    <3>3. n # r[j]
      BY <3>1, <3>2 DEF Lapsed
    <3> QED BY <3>3 DEF RecoveredAttempts
  <2>2. CASE Reconcile(t, r, eligible)
    BY <2>1, <2>2 DEF Reconcile
  <2>3. CASE \E c \in Jobs : ClaimNext(c, t, r, eligible)
    <3> PICK c \in Jobs : ClaimNext(c, t, r, eligible)
      BY <2>3
    <3>1. CASE j # c
      BY <2>1, <3>1 DEF ClaimNext
    <3>2. CASE j = c
      <4> DEFINE row == RecoveredJob(c, r[c], t)
      <4>1. row.status = "queued"
        BY DEF ClaimNext, DueAfter
      <4>2. ~ (row.count + 1 > row.max) /\ n # row.count + 1
        BY <3>2, <4>1, ClaimOpensFresh
      <4>3. attempt'[j] = [RecoveredAttempts(c, r[c]) EXCEPT ![row.count + 1] = Leased(t)]
        BY <3>2, <4>2 DEF ClaimNext, ClaimAttempts
      <4> QED BY <2>1, <3>2, <4>2, <4>3 DEF RecoveredAttempts
    <3> QED BY <3>1, <3>2
  <2> QED BY <2>2, <2>3
<1>5. CASE Tick
  BY <1>5 DEF Tick
<1> QED BY <1>2, <1>3, <1>4, <1>5 DEF QueueStep

\* Fencing: no late call of a holder changes an attempt that was closed.
THEOREM Fencing == Spec => ClosedStaysClosed
<1>1. IInv /\ [Next]_vars => [AttemptsClosed]_vars
  BY NextIsQueueStep, ClosedStep
<1> QED BY <1>1, Invariance, PTL DEF Spec, ClosedStaysClosed, AttemptsClosed

-----------------------------------------------------------------------------
(* Leases in true time *)

\* What a step does to an attempt.
Renewed(j, n, t) == Owned(j, n, t) /\ attempt'[j][n] = Leased(t)

Reported(j, n, t) ==
    Owned(j, n, t) /\ attempt'[j][n] \in {Closed("succeeded"), Closed("failed")}

Recovered(j, n, t) == n \in Lapsed(j, t) /\ attempt'[j][n] = Closed("lease_expired")

Opened(j, n, t) == attempt[j][n].status = "none" /\ attempt'[j][n] = Leased(t)

AttemptStep(j, n) ==
    \/ attempt'[j][n] \in {attempt[j][n], Closed("cancelled")}
    \/ \E t \in Readings :
          Renewed(j, n, t) \/ Reported(j, n, t) \/ Recovered(j, n, t) \/ Opened(j, n, t)

LEMMA PollAttempts ==
    ASSUME IInv, NEW t \in Readings, NEW r \in Recoveries(t), NEW eligible \in SUBSET Jobs,
           Reconcile(t, r, eligible) \/ \E c \in Jobs : ClaimNext(c, t, r, eligible),
           NEW j \in Jobs, NEW n \in Numbers
    PROVE  AttemptStep(j, n)
<1>1. attempt \in [Jobs -> [Numbers -> AttemptRow]]
  BY DEF IInv, TypeOK
<1>2. r[j] \in Lapsed(j, t) \cup {0} /\ n # 0
  BY PositiveConstants DEF Recoveries, Numbers
<1>3. \/ RecoveredAttempts(j, r[j])[n] = attempt[j][n]
      \/ n \in Lapsed(j, t) /\ RecoveredAttempts(j, r[j])[n] = Closed("lease_expired")
  BY <1>2 DEF RecoveredAttempts
<1>4. CASE Reconcile(t, r, eligible)
  BY <1>3, <1>4 DEF Reconcile, AttemptStep, Recovered
<1>5. CASE \E c \in Jobs : ClaimNext(c, t, r, eligible)
  <2> PICK c \in Jobs : ClaimNext(c, t, r, eligible)
    BY <1>5
  <2>1. CASE j # c
    BY <1>3, <2>1 DEF ClaimNext, AttemptStep, Recovered
  <2>2. CASE j = c
    <3> DEFINE row == RecoveredJob(c, r[c], t)
    <3>1. row.status = "queued"
      BY DEF ClaimNext, DueAfter
    <3>2. /\ ~ (row.count + 1 > row.max)
          /\ row.count + 1 \in Numbers
          /\ attempt[c][row.count + 1].status = "none"
      BY <3>1, ClaimOpensFresh
    <3>3. attempt'[j] = [RecoveredAttempts(c, r[c]) EXCEPT ![row.count + 1] = Leased(t)]
      BY <2>2, <3>2 DEF ClaimNext, ClaimAttempts
    <3>4. CASE n = row.count + 1
      <4>1. attempt'[j][n] = Leased(t)
        BY <3>3, <3>4 DEF RecoveredAttempts
      <4> QED BY <2>2, <3>2, <3>4, <4>1 DEF AttemptStep, Opened
    <3>5. CASE n # row.count + 1
      <4>1. attempt'[j][n] = RecoveredAttempts(j, r[j])[n]
        BY <2>2, <3>3, <3>5 DEF RecoveredAttempts
      <4> QED BY <1>3, <4>1 DEF AttemptStep, Recovered
    <3> QED BY <3>4, <3>5
  <2> QED BY <2>1, <2>2
<1> QED BY <1>4, <1>5

LEMMA StepAttempts == IInv /\ [Next]_vars => \A j \in Jobs, n \in Numbers : AttemptStep(j, n)
<1> SUFFICES ASSUME IInv, [Next]_vars, NEW j \in Jobs, NEW n \in Numbers
             PROVE  AttemptStep(j, n)
  OBVIOUS
<1>1. attempt \in [Jobs -> [Numbers -> AttemptRow]]
  BY DEF IInv, TypeOK
<1>2. CASE UNCHANGED attempt
  BY <1>2 DEF AttemptStep
<1>3. CASE ClaimHolderStep
  <2> PICK c \in Jobs, k \in Numbers, t \in Readings :
          \/ Heartbeat(c, k, t)
          \/ Succeed(c, k, t)
          \/ \E delay \in 0 .. MaxDelay : FailAndRequeue(c, k, t, delay)
          \/ \E retryable \in BOOLEAN : FailForGood(c, k, t, retryable)
    BY <1>3 DEF ClaimHolderStep
  <2>1. /\ Owned(c, k, t)
        /\ \E row \in {Leased(t), Closed("succeeded"), Closed("failed")} :
              attempt' = [attempt EXCEPT ![c][k] = row]
    BY DEF Heartbeat, Succeed, FailAndRequeue, FailForGood
  <2>2. CASE j = c /\ n = k
    <3>1. attempt'[j][n] \in {Leased(t), Closed("succeeded"), Closed("failed")}
      BY <1>1, <2>1, <2>2
    <3> QED BY <2>1, <2>2, <3>1 DEF AttemptStep, Renewed, Reported
  <2>3. CASE ~ (j = c /\ n = k)
    <3>1. attempt'[j][n] = attempt[j][n]
      BY <1>1, <2>1, <2>3
    <3> QED BY <3>1 DEF AttemptStep
  <2> QED BY <2>2, <2>3
<1>4. CASE ApiStep
  <2> PICK c \in Jobs, t \in Readings :
          \/ \E due \in DueTimes(t), max \in Numbers : Enqueue(c, t, due, max)
          \/ Cancel(c)
          \/ \E due \in DueTimes(t) : Retry(c, due)
    BY <1>4 DEF ApiStep
  <2>1. CASE Cancel(c)
    <3>1. attempt'[c] = [m \in Numbers |-> IF attempt[c][m].status = "running"
                                           THEN Closed("cancelled") ELSE attempt[c][m]]
      BY <1>1, <2>1 DEF Cancel
    <3>2. j # c => attempt'[j] = attempt[j]
      BY <1>1, <2>1 DEF Cancel
    <3> QED BY <3>1, <3>2 DEF AttemptStep
  <2> QED BY <1>2, <2>1 DEF Enqueue, Retry
<1>5. CASE PollStep
  <2> PICK t \in Readings, eligible \in SUBSET Jobs :
          \E r \in Recoveries(t) : \/ Reconcile(t, r, eligible)
                                \/ \E c \in Jobs : ClaimNext(c, t, r, eligible)
    BY <1>5 DEF PollStep
  <2> PICK r \in Recoveries(t) : \/ Reconcile(t, r, eligible)
                              \/ \E c \in Jobs : ClaimNext(c, t, r, eligible)
    OBVIOUS
  <2> QED BY PollAttempts
<1>6. CASE Tick
  BY <1>2, <1>6 DEF Tick
<1> QED BY <1>2, <1>3, <1>4, <1>5, <1>6 DEF Next, vars

\* A lease just written is off by one clock's error at most.
Fresh(lease) == lease <= now + LeaseSeconds + ClockSkew /\ now + LeaseSeconds <= lease + ClockSkew

LEMMA FreshLease ==
    ASSUME now \in Nat, NEW t \in Readings
    PROVE  Fresh(Leased(t).lease)
<1>1. t \in Nat /\ t <= now + ClockSkew /\ now <= t + ClockSkew
  BY PositiveConstants DEF Readings
<1>2. Leased(t).lease = t + LeaseSeconds
  BY DEF Leased
<1> QED BY <1>1, <1>2, PositiveConstants DEF Fresh

\* Every row that is running after a step and was not before, or has another lease, has a
\* fresh one.
LEMMA WrittenIsFresh ==
    ASSUME IInv, NEW j \in Jobs, NEW n \in Numbers, AttemptStep(j, n), WritesLease(j, n)
    PROVE  Fresh(attempt'[j][n].lease)
<1>1. now \in Nat
  BY DEF IInv, TypeOK
<1>2. PICK t \in Readings : Renewed(j, n, t) \/ Opened(j, n, t)
  BY DEF AttemptStep, WritesLease, Renewed, Opened, Reported, Recovered, Closed
<1>3. attempt'[j][n] = Leased(t)
  BY <1>2 DEF Renewed, Opened
<1> QED BY <1>1, <1>3, FreshLease

LEMMA LeasesStep == LeasesInv /\ [LeasesNext]_leaseVars => LeasesInv'
<1> SUFFICES ASSUME LeasesInv, [LeasesNext]_leaseVars
             PROVE  LeasesInv'
  OBVIOUS
<1>1. IInv /\ [Next]_vars
  BY DEF LeasesInv, LeasesNext, leaseVars, vars
<1>2. IInv' /\ now \in Nat
  BY <1>1, NextIInv DEF IInv, TypeOK
<1>3. granted \in [Jobs -> Nat]
  BY DEF LeasesInv
<1>4. CASE UNCHANGED leaseVars
  BY <1>2, <1>4 DEF LeasesInv, leaseVars, LeaseInv
<1>5. CASE Notes
  <2>1. granted' \in [Jobs -> Nat]
    BY <1>2, <1>3, <1>5 DEF Notes
  <2>2. ASSUME NEW j \in Jobs, NEW n \in Numbers, attempt'[j][n].status = "running"
        PROVE  /\ attempt'[j][n].lease <= granted'[j] + LeaseSeconds + ClockSkew
               /\ granted'[j] + LeaseSeconds <= attempt'[j][n].lease + ClockSkew
    <3>1. CASE WritesLease(j, n)
      <4>1. granted'[j] = now
        BY <1>5, <3>1 DEF Notes
      <4>2. Fresh(attempt'[j][n].lease)
        BY <1>1, <3>1, StepAttempts, WrittenIsFresh
      <4> QED BY <4>1, <4>2 DEF Fresh
    <3>2. CASE ~ WritesLease(j, n)
      <4>1. attempt'[j][n] = attempt[j][n]
        BY <2>2, <3>2 DEF WritesLease
      <4>2. \A m \in Numbers : ~ WritesLease(j, m)
        <5>1. LedgerInv(job'[j], attempt'[j])
          BY <1>2 DEF IInv
        <5> QED BY <2>2, <3>2, <5>1 DEF LedgerInv, WritesLease
      <4>3. granted'[j] = granted[j]
        BY <1>5, <4>2 DEF Notes
      <4> QED BY <2>2, <4>1, <4>3 DEF LeasesInv, LeaseInv
    <3> QED BY <3>1, <3>2
  <2> QED BY <1>2, <2>1, <2>2 DEF LeasesInv, LeaseInv
<1> QED BY <1>4, <1>5 DEF LeasesNext

LeaseStep ==
    \A j \in Jobs, n \in Numbers :
        /\ Takes(j, n) => granted[j] + LeaseSeconds <= now + 2 * ClockSkew
        /\ Accepts(j, n) => now < granted[j] + LeaseSeconds + 2 * ClockSkew

LEMMA LeasesKept == LeasesInv /\ [LeasesNext]_leaseVars => [LeaseStep]_leaseVars
<1> SUFFICES ASSUME LeasesInv, LeasesNext, NEW j \in Jobs, NEW n \in Numbers
             PROVE  /\ Takes(j, n) => granted[j] + LeaseSeconds <= now + 2 * ClockSkew
                    /\ Accepts(j, n) => now < granted[j] + LeaseSeconds + 2 * ClockSkew
  BY DEF LeaseStep
<1>1. IInv /\ AttemptStep(j, n)
  BY StepAttempts DEF LeasesInv, LeasesNext
<1>2. /\ attempt[j][n].lease \in Nat
      /\ now \in Nat
      /\ granted[j] \in Nat
      /\ \A t \in Readings : t \in Nat /\ t <= now + ClockSkew /\ now <= t + ClockSkew
  BY PositiveConstants DEF LeasesInv, IInv, TypeOK, AttemptRow, Readings
<1>3. attempt[j][n].status = "running" =>
          /\ attempt[j][n].lease <= granted[j] + LeaseSeconds + ClockSkew
          /\ granted[j] + LeaseSeconds <= attempt[j][n].lease + ClockSkew
  BY DEF LeasesInv, LeaseInv
<1>4. ASSUME Takes(j, n)
      PROVE  granted[j] + LeaseSeconds <= now + 2 * ClockSkew
  <2>1. attempt'[j][n] \notin {attempt[j][n], Closed("cancelled")}
    BY <1>4 DEF Takes, Closed
  <2>2. PICK t \in Readings :
            Renewed(j, n, t) \/ Reported(j, n, t) \/ Recovered(j, n, t) \/ Opened(j, n, t)
    BY <1>1, <2>1 DEF AttemptStep
  <2>3. attempt[j][n].lease <= t
    BY <1>4, <2>2
       DEF Takes, Renewed, Reported, Recovered, Opened, Lapsed, Closed, Leased
  <2> QED BY <1>2, <1>3, <1>4, <2>3, PositiveConstants DEF Takes
<1>5. ASSUME Accepts(j, n)
      PROVE  now < granted[j] + LeaseSeconds + 2 * ClockSkew
  <2>1. PICK t \in Readings : Renewed(j, n, t) \/ Reported(j, n, t)
    BY <1>1, <1>5
       DEF AttemptStep, Accepts, WritesLease, Renewed, Reported, Opened, Recovered, Closed, Leased
  <2>2. t < attempt[j][n].lease
    BY <1>2, <2>1 DEF Renewed, Reported, Owned
  <2> QED BY <1>2, <1>3, <1>5, <2>2, PositiveConstants DEF Accepts
<1> QED BY <1>4, <1>5

\* A worker is robbed of its claim no earlier, and one believed dead heard no later, than
\* the errors of two clocks before or after the end of its lease in true time, for every
\* number of jobs and callers, and clocks that may be slow or fast.
THEOREM HonoursLeases == LeasesSpec => LeaseHonoured
<1>1. LeasesInit => LeasesInv
  BY InitIInv DEF LeasesInit, LeasesInv, LeaseInv, Init, Closed
<1>2. LeasesInv /\ [LeasesNext]_leaseVars => [LeaseStep]_leaseVars
  BY LeasesKept
<1> QED BY <1>1, <1>2, LeasesStep, PTL DEF LeasesSpec, LeaseHonoured, LeaseStep

-----------------------------------------------------------------------------
(* The jobs of operations, and the workers that run them *)

Busy(w) == worker[w].phase # "idle"

OperationTypes ==
    /\ worker \in [Workers -> WorkerState]
    /\ promotions \subseteq Jobs
    /\ version \in [Items -> Nat]
    /\ receipt \in [Jobs -> 0 .. 2]
    /\ direct \in [Items -> Nat]
    /\ doubtful \in [Jobs -> BOOLEAN]

\* A busy worker has an attempt that nobody but recovery and cancellation closes before it.
HasAttempt(w) ==
    Busy(w) => \E j \in Jobs, n \in Numbers :
                  /\ worker[w].claim = <<j, n>>
                  /\ attempt[j][n].status \in {"running", "cancelled", "lease_expired"}

Apart == \A w, v \in Workers : Busy(w) /\ Busy(v) /\ worker[w].claim = worker[v].claim => w = v

OkIsApplied(w) ==
    worker[w].phase = "returned" /\ worker[w].outcome = "ok" => HasReceipt(JobOf(w))

ClaimsInv ==
    /\ OperationTypes
    /\ Apart
    /\ \A w \in Workers : HasAttempt(w) /\ OkIsApplied(w)

Expired(j) == \E n \in Numbers : attempt[j][n].status = "lease_expired"

\* Whoever holds the current attempt of j will report a success.
ToldOf(j) ==
    \A w \in Workers :
        Busy(w) /\ worker[w].claim = <<j, job[j].count>> =>
            worker[w].phase = "returned" /\ worker[w].outcome = "ok"

OutcomeInv(j) ==
    /\ job[j].status = "succeeded" => HasReceipt(j)
    /\ HasReceipt(j) /\ ~ doubtful[j] /\ ~ Expired(j) =>
          \/ job[j].status \in {"succeeded", "cancelled"}
          \/ job[j].status = "running" /\ ToldOf(j)

AppliedJobs == {j \in Jobs : HasReceipt(j)}

Effects(i) == {j \in Jobs \ promotions : HasReceipt(j) /\ i \in Targets[j]}

CountedInv ==
    /\ IsFiniteSet(AppliedJobs)
    /\ \A j \in Jobs : receipt[j] <= 1
    /\ \A i \in Items : version[i] = direct[i] + Cardinality(Effects(i))

OperationsInv == IInv /\ ClaimsInv /\ CountedInv /\ \A j \in Jobs : OutcomeInv(j)

\* What a handler's answer and the end of a pass do to the workers.
LEMMA AnswerFacts ==
    ASSUME worker \in [Workers -> WorkerState], NEW w \in Workers,
           NEW o \in {"ok", "retryable", "error"}, HandlerReturns(w, o)
    PROVE  /\ worker' \in [Workers -> WorkerState]
           /\ Busy(w)
           /\ worker[w].phase = "handling"
           /\ worker'[w].phase = "returned"
           /\ worker'[w].outcome = o
           /\ worker'[w].claim = worker[w].claim
           /\ \A v \in Workers \ {w} : worker'[v] = worker[v]
<1>1. Returned(worker[w].claim, o) \in WorkerState
  BY DEF Returned, WorkerState
<1> QED BY <1>1 DEF HandlerReturns, Returned, Busy

LEMMA RestFacts ==
    ASSUME worker \in [Workers -> WorkerState], NEW w \in Workers,
           worker' = [worker EXCEPT ![w] = Idle]
    PROVE  /\ worker' \in [Workers -> WorkerState]
           /\ worker'[w].phase = "idle"
           /\ \A v \in Workers \ {w} : worker'[v] = worker[v]
BY DEF Idle, WorkerState

\* The job and the number of a busy worker's claim
LEMMA ClaimFacts ==
    ASSUME NEW w \in Workers, HasAttempt(w), Busy(w)
    PROVE  /\ JobOf(w) \in Jobs
           /\ NumberOf(w) \in Numbers
           /\ worker[w].claim = <<JobOf(w), NumberOf(w)>>
           /\ attempt[JobOf(w)][NumberOf(w)].status \in {"running", "cancelled", "lease_expired"}
BY DEF HasAttempt, JobOf, NumberOf

\* Whoever reports is the current holder.
LEMMA OwnedIsCurrent ==
    ASSUME IInv, NEW j \in Jobs, NEW n \in Numbers, NEW t, Owned(j, n, t)
    PROVE  n = job[j].count /\ job[j].status = "running"
BY DEF IInv, LedgerInv, Owned

LEMMA ReportIsHolderStep ==
    ASSUME ClaimsInv, NEW w \in Workers, Report(w)
    PROVE  HolderStep \/ UNCHANGED vars
<1>1. JobOf(w) \in Jobs /\ NumberOf(w) \in Numbers
  BY ClaimFacts DEF ClaimsInv, Report, Busy
<1>2. RetryDelay \in Nat
  BY WorkerConstants
<1> PICK t \in Readings : Accepted(w, t) \/ LeaseLost(w, t)
  BY DEF Report
<1>3. CASE Accepted(w, t)
  <2>1. HolderCall(JobOf(w), NumberOf(w), t)
    BY <1>2, <1>3 DEF Accepted, HolderCall
  <2> QED BY <1>1, <2>1 DEF HolderStep
<1>4. CASE LeaseLost(w, t)
  BY <1>4 DEF LeaseLost, vars
<1> QED BY <1>3, <1>4

LEMMA PollIsPollStep ==
    ASSUME NEW w \in Workers, Poll(w)
    PROVE  PollStep
BY DEF Poll, PollStep

LEMMA OperationsStepQueue ==
    ASSUME ClaimsInv, [OperationsNext]_allVars
    PROVE  [QueueStep]_vars
<1>1. CASE OperatorStep
  <2>1. ASSUME NEW j \in Jobs, NEW t \in Readings, NEW due \in DueTimes(t), NEW max \in Numbers,
               Submit(j, t, due, max)
        PROVE  ApiStep
    BY <2>1 DEF Submit, ApiStep
  <2>2. ASSUME NEW j \in Jobs, NEW t \in Readings,
               Cancel(j) \/ \E due \in DueTimes(t) : Retry(j, due)
        PROVE  ApiStep
    BY <2>2 DEF ApiStep
  <2>3. ASSUME NEW i \in Items, ChangeItem(i)
        PROVE  UNCHANGED vars
    BY <2>3 DEF ChangeItem, vars
  <2> QED BY <1>1, <2>1, <2>2, <2>3 DEF OperatorStep, QueueStep
<1>2. ASSUME NEW w \in Workers, WorkerStep(w)
      PROVE  [QueueStep]_vars
  <2>1. CASE Poll(w)
    BY <2>1, PollIsPollStep DEF QueueStep
  <2>2. CASE Report(w)
    BY <2>2, ReportIsHolderStep DEF QueueStep
  <2>3. CASE LookForReceipt(w) \/ Commits(w) \/ CommitsUnheard(w) \/ Conflicts(w)
             \/ ApplyRaises(w) \/ Die(w)
    BY <2>3 DEF LookForReceipt, Commits, CommitsUnheard, Committed, Conflicts, ApplyRaises, Die,
                Crash, vars
  <2> QED BY <1>2, <2>1, <2>2, <2>3 DEF WorkerStep
<1>3. CASE WorkersTick
  BY <1>3 DEF WorkersTick, QueueStep
<1>4. CASE UNCHANGED allVars
  BY <1>4 DEF allVars, vars
<1> QED BY <1>1, <1>2, <1>3, <1>4 DEF OperationsNext

Kept == {"running", "cancelled", "lease_expired"}

\* A step that gives no worker a new claim
LEMMA ClaimsKept ==
    ASSUME ClaimsInv, OperationTypes',
           \A w \in Workers : worker'[w].phase # "idle" =>
               /\ Busy(w)
               /\ worker'[w].claim = worker[w].claim
               /\ attempt'[JobOf(w)][NumberOf(w)].status \in Kept
               /\ worker'[w].phase = "returned" /\ worker'[w].outcome = "ok"
                      => receipt'[JobOf(w)] > 0
    PROVE  ClaimsInv'
<1>1. Apart'
  BY DEF Apart, ClaimsInv, Busy
<1>2. ASSUME NEW w \in Workers PROVE HasAttempt(w)'
  <2> SUFFICES ASSUME worker'[w].phase # "idle" PROVE HasAttempt(w)'
    BY DEF HasAttempt, Busy
  <2>1. /\ JobOf(w) \in Jobs /\ NumberOf(w) \in Numbers
        /\ worker'[w].claim = <<JobOf(w), NumberOf(w)>>
    BY ClaimFacts DEF ClaimsInv
  <2> QED BY <2>1 DEF HasAttempt, Kept
<1>3. ASSUME NEW w \in Workers PROVE OkIsApplied(w)'
  BY <1>3 DEF OkIsApplied, HasReceipt, JobOf
<1> QED BY <1>1, <1>2, <1>3 DEF ClaimsInv

\* A step that gives j no receipt
LEMMA OutcomeKept ==
    ASSUME NEW j \in Jobs, OutcomeInv(j),
           receipt'[j] = receipt[j], doubtful'[j] = doubtful[j], Expired(j) => Expired(j)',
           job'[j].status = "succeeded" => job[j].status = "succeeded",
           \/ Expired(j)'
           \/ job'[j].status = "cancelled"
           \/ job[j].status = "succeeded" /\ job'[j].status = "succeeded"
           \/ job[j].status \notin {"succeeded", "cancelled", "running"}
           \/ /\ job[j].status = "running" /\ job'[j].status = "running"
              /\ job'[j].count = job[j].count
              /\ \A w \in Workers :
                    worker'[w].phase # "idle" /\ worker'[w].claim = <<j, job[j].count>> =>
                        /\ Busy(w)
                        /\ worker[w].claim = worker'[w].claim
                        /\ worker[w].phase = "returned" /\ worker[w].outcome = "ok" =>
                              worker'[w].phase = "returned" /\ worker'[w].outcome = "ok"
    PROVE  OutcomeInv(j)'
<1>1. ToldOf(j) /\ job'[j].count = job[j].count
      /\ (\A w \in Workers :
             worker'[w].phase # "idle" /\ worker'[w].claim = <<j, job[j].count>> =>
                 /\ Busy(w)
                 /\ worker[w].claim = worker'[w].claim
                 /\ worker[w].phase = "returned" /\ worker[w].outcome = "ok" =>
                       worker'[w].phase = "returned" /\ worker'[w].outcome = "ok")
      => ToldOf(j)'
  BY DEF ToldOf, Busy
<1> QED BY <1>1 DEF OutcomeInv, HasReceipt

\* The steps of a handler leave the queue alone.
LEMMA AnswerKeeps ==
    ASSUME IInv, ClaimsInv, \A j \in Jobs : OutcomeInv(j),
           NEW w \in Workers, NEW o \in {"ok", "retryable", "error"}, HandlerReturns(w, o),
           UNCHANGED <<job, attempt, outbox, now, promotions, version, receipt, direct, doubtful>>,
           o = "ok" => HasReceipt(JobOf(w))
    PROVE  ClaimsInv' /\ \A j \in Jobs : OutcomeInv(j)'
<1>1. /\ worker' \in [Workers -> WorkerState]
      /\ Busy(w)
      /\ worker[w].phase = "handling"
      /\ worker'[w].phase = "returned"
      /\ worker'[w].outcome = o
      /\ worker'[w].claim = worker[w].claim
      /\ \A v \in Workers \ {w} : worker'[v] = worker[v]
  BY AnswerFacts DEF ClaimsInv, OperationTypes
<1>2. OperationTypes'
  BY <1>1 DEF ClaimsInv, OperationTypes
<1>3. \A v \in Workers : worker'[v].phase # "idle" =>
               /\ Busy(v)
               /\ worker'[v].claim = worker[v].claim
               /\ attempt'[JobOf(v)][NumberOf(v)].status \in Kept
               /\ worker'[v].phase = "returned" /\ worker'[v].outcome = "ok"
                      => receipt'[JobOf(v)] > 0
  <2> SUFFICES ASSUME NEW v \in Workers, worker'[v].phase # "idle"
               PROVE  /\ Busy(v)
                      /\ worker'[v].claim = worker[v].claim
                      /\ attempt[JobOf(v)][NumberOf(v)].status \in Kept
                      /\ worker'[v].phase = "returned" /\ worker'[v].outcome = "ok"
                            => receipt[JobOf(v)] > 0
    OBVIOUS
  <2>1. Busy(v) /\ worker'[v].claim = worker[v].claim
    BY <1>1 DEF Busy
  <2>2. attempt[JobOf(v)][NumberOf(v)].status \in Kept
    BY <2>1, ClaimFacts DEF ClaimsInv, Kept
  <2>3. CASE v = w
    BY <1>1, <2>1, <2>2, <2>3 DEF HasReceipt
  <2>4. CASE v # w
    BY <1>1, <2>1, <2>2, <2>4 DEF ClaimsInv, OkIsApplied, HasReceipt
  <2> QED BY <2>3, <2>4
<1>4. ClaimsInv'
  BY <1>2, <1>3, ClaimsKept
<1>5. ASSUME NEW j \in Jobs PROVE OutcomeInv(j)'
  <2>1. \A v \in Workers :
            worker'[v].phase # "idle" /\ worker'[v].claim = <<j, job[j].count>> =>
                /\ Busy(v)
                /\ worker[v].claim = worker'[v].claim
                /\ worker[v].phase = "returned" /\ worker[v].outcome = "ok" =>
                      worker'[v].phase = "returned" /\ worker'[v].outcome = "ok"
    BY <1>1 DEF Busy
  <2>2. Expired(j) => Expired(j)'
    BY DEF Expired
  <2> QED BY <2>1, <2>2, OutcomeKept
<1> QED BY <1>4, <1>5

LEMMA NothingKeeps ==
    ASSUME ClaimsInv, \A j \in Jobs : OutcomeInv(j),
           UNCHANGED <<job, attempt, worker, promotions, receipt, doubtful>>,
           version' \in [Items -> Nat], direct' \in [Items -> Nat]
    PROVE  ClaimsInv' /\ \A j \in Jobs : OutcomeInv(j)'
<1>1. OperationTypes'
  BY DEF ClaimsInv, OperationTypes
<1>2. Apart' /\ \A w \in Workers : HasAttempt(w)' /\ OkIsApplied(w)'
  BY DEF ClaimsInv, Apart, HasAttempt, OkIsApplied, Busy, HasReceipt, JobOf
<1>3. \A j \in Jobs : OutcomeInv(j)'
  BY DEF OutcomeInv, HasReceipt, Expired, ToldOf, Busy
<1> QED BY <1>1, <1>2, <1>3 DEF ClaimsInv

\* A worker that rests, while the queue stays as it is
LEMMA RestKeeps ==
    ASSUME ClaimsInv, \A j \in Jobs : OutcomeInv(j),
           NEW w \in Workers, worker' = [worker EXCEPT ![w] = Idle],
           UNCHANGED <<job, attempt, promotions, version, receipt, direct, doubtful>>
    PROVE  ClaimsInv' /\ \A j \in Jobs : OutcomeInv(j)'
<1>1. /\ worker' \in [Workers -> WorkerState]
      /\ worker'[w].phase = "idle"
      /\ \A v \in Workers \ {w} : worker'[v] = worker[v]
  BY RestFacts DEF ClaimsInv, OperationTypes
<1>2. OperationTypes'
  BY <1>1 DEF ClaimsInv, OperationTypes
<1>3. \A v \in Workers : worker'[v].phase # "idle" => worker'[v] = worker[v] /\ Busy(v)
  BY <1>1 DEF Busy
<1>4. \A v \in Workers : Busy(v) => attempt[JobOf(v)][NumberOf(v)].status \in Kept
  BY ClaimFacts DEF ClaimsInv, Kept
<1>5. ClaimsInv'
  BY <1>2, <1>3, <1>4, ClaimsKept DEF ClaimsInv, OkIsApplied, HasReceipt
<1>6. ASSUME NEW j \in Jobs PROVE OutcomeInv(j)'
  <2>1. Expired(j) => Expired(j)'
    BY DEF Expired
  <2> QED BY <1>3, <2>1, OutcomeKept
<1> QED BY <1>5, <1>6

\* What clients of the queue do to a job and its attempts
LEMMA ApiEffect ==
    ASSUME IInv, ApiStep, NEW j \in Jobs
    PROVE  /\ \A n \in Numbers : attempt[j][n].status \in Kept => attempt'[j][n].status \in Kept
           /\ Expired(j) => Expired(j)'
           /\ job'[j].status = "succeeded" => job[j].status = "succeeded"
           /\ \/ job'[j] = job[j]
              \/ job'[j].status = "cancelled"
              \/ job[j].status \notin {"succeeded", "cancelled", "running"}
<1> PICK c \in Jobs, t \in Readings :
        \/ \E due \in DueTimes(t), max \in Numbers : Enqueue(c, t, due, max)
        \/ Cancel(c)
        \/ \E due \in DueTimes(t) : Retry(c, due)
  BY DEF ApiStep
<1>1. /\ job \in [Jobs -> JobRow]
      /\ attempt \in [Jobs -> [Numbers -> AttemptRow]]
  BY DEF IInv, TypeOK
<1>2. CASE \E due \in DueTimes(t), max \in Numbers : Enqueue(c, t, due, max)
  BY <1>1, <1>2 DEF Enqueue, Queued, Expired
<1>3. CASE Cancel(c)
  <2>1. attempt'[c] = [n \in Numbers |-> IF attempt[c][n].status = "running"
                                         THEN Closed("cancelled") ELSE attempt[c][n]]
    BY <1>1, <1>3 DEF Cancel
  <2>2. j # c => attempt'[j] = attempt[j] /\ job'[j] = job[j]
    BY <1>1, <1>3 DEF Cancel
  <2>3. j = c => job'[j].status = "cancelled"
    BY <1>1, <1>3 DEF Cancel, JobRow
  <2>4. \A n \in Numbers : /\ attempt[j][n].status \in Kept => attempt'[j][n].status \in Kept
                           /\ attempt[j][n].status = "lease_expired" =>
                                  attempt'[j][n].status = "lease_expired"
    BY <2>1, <2>2 DEF Closed, Kept
  <2> QED BY <2>2, <2>3, <2>4 DEF Expired
<1>4. CASE \E due \in DueTimes(t) : Retry(c, due)
  BY <1>1, <1>4 DEF Retry, Queued, Expired
<1> QED BY <1>2, <1>3, <1>4

LEMMA ApiKeeps ==
    ASSUME IInv, ClaimsInv, \A j \in Jobs : OutcomeInv(j), ApiStep,
           UNCHANGED <<worker, promotions, version, receipt, direct, doubtful>>
    PROVE  ClaimsInv' /\ \A j \in Jobs : OutcomeInv(j)'
<1>1. OperationTypes'
  BY DEF ClaimsInv, OperationTypes
<1>2. \A w \in Workers : Busy(w) => attempt'[JobOf(w)][NumberOf(w)].status \in Kept
  BY ClaimFacts, ApiEffect DEF ClaimsInv, Kept
<1>3. ClaimsInv'
  BY <1>1, <1>2, ClaimsKept DEF ClaimsInv, OkIsApplied, HasReceipt, Busy
<1>4. ASSUME NEW j \in Jobs PROVE OutcomeInv(j)'
  <2>1. /\ Expired(j) => Expired(j)'
        /\ job'[j].status = "succeeded" => job[j].status = "succeeded"
        /\ \/ job'[j] = job[j]
           \/ job'[j].status = "cancelled"
           \/ job[j].status \notin {"succeeded", "cancelled", "running"}
    BY ApiEffect
  <2>2. CASE job'[j] = job[j]
    <3>1. \A w \in Workers : worker'[w] = worker[w]
      OBVIOUS
    <3>2. \/ job[j].status \in {"cancelled", "running"}
          \/ job[j].status = "succeeded"
          \/ job[j].status \notin {"succeeded", "cancelled", "running"}
      OBVIOUS
    <3> QED BY <2>1, <2>2, <3>1, <3>2, OutcomeKept DEF Busy
  <2>3. CASE job'[j] # job[j]
    BY <2>1, <2>3, OutcomeKept
  <2> QED BY <2>2, <2>3
<1> QED BY <1>3, <1>4

\* Recovery either leaves a job and its attempts alone or leaves a lapsed attempt behind.
LEMMA RecoveryEffect ==
    ASSUME IInv, NEW t \in Readings, NEW r \in Recoveries(t), NEW j \in Jobs
    PROVE  LET rows == RecoveredAttempts(j, r[j])
               new == RecoveredJob(j, r[j], t)
           IN  /\ \A n \in Numbers : attempt[j][n].status \in Kept => rows[n].status \in Kept
               /\ \A n \in Numbers : attempt[j][n].status = "lease_expired" => rows[n] = attempt[j][n]
               /\ new.status = "succeeded" => job[j].status = "succeeded"
               /\ new = job[j] \/ \E n \in Numbers : rows[n].status = "lease_expired"
<1>1. job[j] \in JobRow /\ r[j] \in Lapsed(j, t) \cup {0}
  BY DEF IInv, TypeOK, Recoveries
<1>2. \A n \in Numbers : n # 0
  BY PositiveConstants DEF Numbers
<1>3. \A n \in Numbers : RecoveredAttempts(j, r[j])[n] =
                            IF n = r[j] THEN Closed("lease_expired") ELSE attempt[j][n]
  BY DEF RecoveredAttempts
<1>4. CASE r[j] = 0
  BY <1>2, <1>3, <1>4 DEF RecoveredJob
<1>5. CASE r[j] # 0
  <2>1. r[j] \in Numbers /\ attempt[j][r[j]].status = "running"
    BY <1>1, <1>5 DEF Lapsed
  <2>2. RecoveredJob(j, r[j], t).status # "succeeded"
    BY <1>1, <1>5 DEF RecoveredJob, Queued, JobRow
  <2>3. RecoveredAttempts(j, r[j])[r[j]].status = "lease_expired"
    BY <1>3, <2>1 DEF Closed
  <2>4. \A n \in Numbers : n = r[j] \/ RecoveredAttempts(j, r[j])[n] = attempt[j][n]
    BY <1>3
  <2> QED BY <2>1, <2>2, <2>3, <2>4 DEF Kept
<1> QED BY <1>4, <1>5

\* A claim hands out a number that nobody has had.
LEMMA ClaimEffect ==
    ASSUME IInv, NEW t \in Readings, NEW r \in Recoveries(t), NEW eligible \in SUBSET Jobs,
           NEW c \in Jobs, ClaimNext(c, t, r, eligible)
    PROVE  /\ job'[c].status = "running"
           /\ job'[c].count \in Numbers
           /\ attempt[c][job'[c].count].status = "none"
           /\ attempt'[c][job'[c].count].status = "running"
           /\ \A n \in Numbers \ {job'[c].count} : attempt'[c][n] = RecoveredAttempts(c, r[c])[n]
           /\ RecoveredJob(c, r[c], t).status = "queued"
<1> DEFINE row == RecoveredJob(c, r[c], t)
<1>1. row.status = "queued"
  BY DEF ClaimNext, DueAfter
<1>2. /\ ~ (row.count + 1 > row.max) /\ row.count + 1 \in Numbers
      /\ attempt[c][row.count + 1].status = "none"
  BY <1>1, ClaimOpensFresh
<1>3. job'[c] = [status |-> "running", due |-> row.due, count |-> row.count + 1, max |-> row.max]
  BY <1>2 DEF ClaimNext, ClaimRow
<1>4. attempt'[c] = [RecoveredAttempts(c, r[c]) EXCEPT ![row.count + 1] = Leased(t)]
  BY <1>2 DEF ClaimNext, ClaimAttempts
<1>5. \A n \in Numbers : attempt'[c][n] = IF n = row.count + 1 THEN Leased(t)
                                          ELSE RecoveredAttempts(c, r[c])[n]
  BY <1>4 DEF RecoveredAttempts
<1> QED BY <1>1, <1>2, <1>3, <1>5 DEF Leased

\* The queue's part of a poll that claims c, seen from job j
LEMMA ClaimedEffect ==
    ASSUME IInv, NEW t \in Readings, NEW r \in Recoveries(t), NEW eligible \in SUBSET Jobs,
           NEW c \in Jobs, ClaimNext(c, t, r, eligible), NEW j \in Jobs
    PROVE  /\ \A n \in Numbers : attempt[j][n].status \in Kept => attempt'[j][n].status \in Kept
           /\ Expired(j) => Expired(j)'
           /\ job'[j].status = "succeeded" => job[j].status = "succeeded"
           /\ j # c => job'[j] = job[j] \/ Expired(j)'
           /\ j = c => Expired(j)' \/ job[j].status = "queued"
<1> DEFINE rows == RecoveredAttempts(j, r[j])
           new == RecoveredJob(j, r[j], t)
<1>1. /\ \A n \in Numbers : attempt[j][n].status \in Kept => rows[n].status \in Kept
      /\ \A n \in Numbers : attempt[j][n].status = "lease_expired" => rows[n] = attempt[j][n]
      /\ new.status = "succeeded" => job[j].status = "succeeded"
      /\ new = job[j] \/ \E n \in Numbers : rows[n].status = "lease_expired"
  BY RecoveryEffect
<1>2. CASE j # c
  <2>1. job'[j] = new /\ attempt'[j] = rows
    BY <1>2 DEF ClaimNext
  <2> QED BY <1>1, <1>2, <2>1 DEF Expired
<1>3. CASE j = c
  <2>1. /\ job'[c].status = "running"
        /\ job'[c].count \in Numbers
        /\ attempt[c][job'[c].count].status = "none"
        /\ attempt'[c][job'[c].count].status = "running"
        /\ \A n \in Numbers \ {job'[c].count} : attempt'[c][n] = RecoveredAttempts(c, r[c])[n]
        /\ RecoveredJob(c, r[c], t).status = "queued"
    BY ClaimEffect
  <2>2. rows[job'[c].count].status # "lease_expired"
    <3>1. r[c] \in Lapsed(c, t) \cup {0}
      BY DEF Recoveries
    <3>2. r[c] # job'[c].count
      BY <2>1, <3>1, PositiveConstants DEF Lapsed, Numbers
    <3> QED BY <1>3, <2>1, <3>2 DEF RecoveredAttempts
  <2>3. \A n \in Numbers : rows[n].status = "lease_expired" => attempt'[j][n].status = "lease_expired"
    BY <1>3, <2>1, <2>2
  <2>4. \A n \in Numbers : attempt[j][n].status \in Kept => attempt'[j][n].status \in Kept
    BY <1>1, <1>3, <2>1 DEF Kept
  <2>5. Expired(j) => Expired(j)'
    BY <1>1, <2>3 DEF Expired
  <2>6. Expired(j)' \/ job[j].status = "queued"
    BY <1>1, <1>3, <2>1, <2>3 DEF Expired
  <2> QED BY <1>3, <2>1, <2>4, <2>5, <2>6
<1> QED BY <1>2, <1>3

LEMMA ClaimKeeps ==
    ASSUME IInv, ClaimsInv, \A j \in Jobs : OutcomeInv(j),
           NEW w \in Workers, worker[w].phase = "idle",
           NEW t \in Readings, NEW r \in Recoveries(t), NEW eligible \in SUBSET Jobs,
           NEW c \in Jobs, ClaimNext(c, t, r, eligible),
           worker' = [worker EXCEPT ![w] =
                         IF job'[c].status = "running" THEN Handling(c, job'[c].count) ELSE @],
           UNCHANGED <<promotions, version, receipt, direct, doubtful>>
    PROVE  ClaimsInv' /\ \A j \in Jobs : OutcomeInv(j)'
<1> DEFINE m == job'[c].count
<1>1. /\ job'[c].status = "running"
      /\ m \in Numbers
      /\ attempt[c][m].status = "none"
      /\ attempt'[c][m].status = "running"
  BY ClaimEffect
<1>2. /\ worker \in [Workers -> WorkerState]
      /\ Handling(c, m) \in WorkerState
  BY <1>1 DEF ClaimsInv, OperationTypes, Handling, WorkerState
<1>3. /\ worker' \in [Workers -> WorkerState]
      /\ worker'[w] = Handling(c, m)
      /\ \A v \in Workers \ {w} : worker'[v] = worker[v]
  BY <1>1, <1>2
<1>4. worker'[w].phase = "handling" /\ worker'[w].claim = <<c, m>>
  BY <1>3 DEF Handling
<1>5. \A v \in Workers : Busy(v) => /\ JobOf(v) \in Jobs /\ NumberOf(v) \in Numbers
                                    /\ worker[v].claim = <<JobOf(v), NumberOf(v)>>
                                    /\ attempt[JobOf(v)][NumberOf(v)].status \in Kept
  BY ClaimFacts DEF ClaimsInv, Kept
<1>6. \A v \in Workers : Busy(v) => worker[v].claim # <<c, m>>
  BY <1>1, <1>5 DEF Kept
<1>7. ASSUME NEW j \in Jobs
      PROVE  /\ \A n \in Numbers : attempt[j][n].status \in Kept => attempt'[j][n].status \in Kept
             /\ Expired(j) => Expired(j)'
             /\ job'[j].status = "succeeded" => job[j].status = "succeeded"
             /\ j # c => job'[j] = job[j] \/ Expired(j)'
             /\ j = c => Expired(j)' \/ job[j].status = "queued"
  BY ClaimedEffect
<1>8. OperationTypes'
  BY <1>3 DEF ClaimsInv, OperationTypes
<1>9. Apart'
  <2> SUFFICES ASSUME NEW u \in Workers, NEW v \in Workers, worker'[u].phase # "idle",
                      worker'[v].phase # "idle", worker'[u].claim = worker'[v].claim
               PROVE  u = v
    BY DEF Apart, Busy
  <2> QED BY <1>3, <1>4, <1>6 DEF ClaimsInv, Apart, Busy
<1>10. ASSUME NEW v \in Workers PROVE HasAttempt(v)'
  <2>1. CASE v = w
    BY <1>1, <1>4, <2>1 DEF HasAttempt
  <2>2. CASE v # w
    <3> SUFFICES ASSUME Busy(v) PROVE HasAttempt(v)'
      BY <1>3, <2>2 DEF HasAttempt, Busy
    <3>1. attempt'[JobOf(v)][NumberOf(v)].status \in Kept
      BY <1>5, <1>7
    <3> QED BY <1>3, <1>5, <2>2, <3>1 DEF HasAttempt, Kept
  <2> QED BY <2>1, <2>2
<1>11. ASSUME NEW v \in Workers PROVE OkIsApplied(v)'
  BY <1>3, <1>4 DEF ClaimsInv, OkIsApplied, HasReceipt, JobOf
<1>12. ASSUME NEW j \in Jobs PROVE OutcomeInv(j)'
  <2>1. CASE j = c
    BY <1>7, <2>1, OutcomeKept
  <2>2. CASE j # c
    <3>1. CASE Expired(j)'
      BY <1>7, <3>1, OutcomeKept
    <3>2. CASE job'[j] = job[j]
      <4>1. \A v \in Workers :
                worker'[v].phase # "idle" /\ worker'[v].claim = <<j, job[j].count>> =>
                    Busy(v) /\ worker'[v] = worker[v]
        BY <1>3, <1>4, <2>2 DEF Busy
      <4>2. \/ job[j].status \in {"cancelled", "running"}
            \/ job[j].status = "succeeded"
            \/ job[j].status \notin {"succeeded", "cancelled", "running"}
        OBVIOUS
      <4> QED BY <1>7, <3>2, <4>1, <4>2, OutcomeKept
    <3> QED BY <1>7, <2>2, <3>1, <3>2
  <2> QED BY <2>1, <2>2
<1> QED BY <1>8, <1>9, <1>10, <1>11, <1>12 DEF ClaimsInv

LEMMA ReconcileKeeps ==
    ASSUME IInv, ClaimsInv, \A j \in Jobs : OutcomeInv(j),
           NEW t \in Readings, NEW r \in Recoveries(t), NEW eligible \in SUBSET Jobs,
           Reconcile(t, r, eligible),
           UNCHANGED <<worker, promotions, version, receipt, direct, doubtful>>
    PROVE  ClaimsInv' /\ \A j \in Jobs : OutcomeInv(j)'
<1>1. ASSUME NEW j \in Jobs
      PROVE  /\ \A n \in Numbers : attempt[j][n].status \in Kept => attempt'[j][n].status \in Kept
             /\ Expired(j) => Expired(j)'
             /\ job'[j].status = "succeeded" => job[j].status = "succeeded"
             /\ job'[j] = job[j] \/ Expired(j)'
  <2>1. job'[j] = RecoveredJob(j, r[j], t) /\ attempt'[j] = RecoveredAttempts(j, r[j])
    BY DEF Reconcile
  <2> QED BY <2>1, RecoveryEffect DEF Expired
<1>2. OperationTypes'
  BY DEF ClaimsInv, OperationTypes
<1>3. \A w \in Workers : Busy(w) => attempt'[JobOf(w)][NumberOf(w)].status \in Kept
  BY <1>1, ClaimFacts DEF ClaimsInv, Kept
<1>4. ClaimsInv'
  BY <1>2, <1>3, ClaimsKept DEF ClaimsInv, OkIsApplied, HasReceipt, Busy
<1>5. ASSUME NEW j \in Jobs PROVE OutcomeInv(j)'
  <2>1. CASE Expired(j)'
    BY <1>1, <2>1, OutcomeKept
  <2>2. CASE job'[j] = job[j]
    <3>1. \A w \in Workers : worker'[w] = worker[w]
      OBVIOUS
    <3>2. \/ job[j].status \in {"cancelled", "running"}
          \/ job[j].status = "succeeded"
          \/ job[j].status \notin {"succeeded", "cancelled", "running"}
      OBVIOUS
    <3> QED BY <1>1, <2>2, <3>1, <3>2, OutcomeKept DEF Busy
  <2> QED BY <1>1, <2>1, <2>2
<1> QED BY <1>4, <1>5

\* The queue's part of a report that is accepted
LEMMA AcceptedEffect ==
    ASSUME IInv, NEW w \in Workers, JobOf(w) \in Jobs, NumberOf(w) \in Numbers,
           NEW t \in Readings, Accepted(w, t)
    PROVE  /\ job[JobOf(w)].status = "running"
           /\ job[JobOf(w)].count = NumberOf(w)
           /\ \A j \in Jobs \ {JobOf(w)} : job'[j] = job[j] /\ attempt'[j] = attempt[j]
           /\ \A n \in Numbers \ {NumberOf(w)} : attempt'[JobOf(w)][n] = attempt[JobOf(w)][n]
           /\ attempt[JobOf(w)][NumberOf(w)].status = "running"
           /\ \/ worker[w].outcome = "ok" /\ job'[JobOf(w)].status = "succeeded"
              \/ worker[w].outcome # "ok" /\ job'[JobOf(w)].status \in {"queued", "failed"}
<1> DEFINE j == JobOf(w)
           n == NumberOf(w)
<1>1. /\ job \in [Jobs -> JobRow] /\ job[j] \in JobRow
      /\ attempt \in [Jobs -> [Numbers -> AttemptRow]]
  BY DEF IInv, TypeOK
<1>2. Owned(j, n, t)
  BY DEF Accepted, Succeed, FailAndRequeue, FailForGood
<1>3. job[j].count = n /\ job[j].status = "running"
  BY <1>2, OwnedIsCurrent
<1>4. attempt[j][n].status = "running"
  BY <1>2 DEF Owned
<1>5. CASE worker[w].outcome = "ok" /\ Succeed(j, n, t)
  BY <1>1, <1>3, <1>4, <1>5 DEF Succeed, JobRow
<1>6. CASE worker[w].outcome # "ok" /\ FailAndRequeue(j, n, t, RetryDelay)
  BY <1>1, <1>3, <1>4, <1>6 DEF FailAndRequeue, Queued, JobRow
<1>7. CASE worker[w].outcome # "ok" /\ \E retryable \in BOOLEAN : FailForGood(j, n, t, retryable)
  BY <1>1, <1>3, <1>4, <1>7 DEF FailForGood, JobRow
<1> QED BY <1>5, <1>6, <1>7 DEF Accepted

LEMMA ReportKeeps ==
    ASSUME IInv, ClaimsInv, \A j \in Jobs : OutcomeInv(j),
           NEW w \in Workers, Report(w),
           UNCHANGED <<promotions, version, receipt, direct, doubtful>>
    PROVE  ClaimsInv' /\ \A j \in Jobs : OutcomeInv(j)'
<1>1. /\ worker[w].phase = "returned"
      /\ worker' = [worker EXCEPT ![w] = Idle]
  BY DEF Report
<1>2. Busy(w) /\ HasAttempt(w)
  BY <1>1 DEF Busy, ClaimsInv
<1> PICK k \in Jobs, m \in Numbers : k = JobOf(w) /\ m = NumberOf(w)
  BY <1>2, ClaimFacts
<1>3. worker[w].claim = <<k, m>>
  BY <1>2, ClaimFacts
<1> PICK t \in Readings : Accepted(w, t) \/ LeaseLost(w, t)
  BY DEF Report
<1>4. CASE LeaseLost(w, t)
  BY <1>1, <1>4, RestKeeps DEF LeaseLost
<1>5. CASE Accepted(w, t)
  <2>1. /\ job[k].status = "running"
        /\ job[k].count = m
        /\ \A j \in Jobs \ {k} : job'[j] = job[j] /\ attempt'[j] = attempt[j]
        /\ \A n \in Numbers \ {m} : attempt'[k][n] = attempt[k][n]
        /\ attempt[k][m].status = "running"
        /\ \/ worker[w].outcome = "ok" /\ job'[k].status = "succeeded"
           \/ worker[w].outcome # "ok" /\ job'[k].status \in {"queued", "failed"}
    BY <1>3, <1>5, AcceptedEffect
  <2>2. /\ worker' \in [Workers -> WorkerState]
        /\ worker'[w].phase = "idle"
        /\ \A v \in Workers \ {w} : worker'[v] = worker[v]
    BY <1>1, RestFacts DEF ClaimsInv, OperationTypes
  <2>3. OperationTypes'
    BY <2>2 DEF ClaimsInv, OperationTypes
  <2>4. ASSUME NEW v \in Workers, worker'[v].phase # "idle"
        PROVE  /\ v # w /\ worker'[v] = worker[v] /\ Busy(v)
               /\ attempt'[JobOf(v)][NumberOf(v)].status \in Kept
    <3>1. v # w /\ worker'[v] = worker[v] /\ Busy(v)
      BY <2>2, <2>4 DEF Busy
    <3>2. /\ JobOf(v) \in Jobs /\ NumberOf(v) \in Numbers
          /\ worker[v].claim = <<JobOf(v), NumberOf(v)>>
          /\ attempt[JobOf(v)][NumberOf(v)].status \in Kept
      BY <3>1, ClaimFacts DEF ClaimsInv, Kept
    <3>3. worker[v].claim # worker[w].claim
      BY <1>2, <3>1 DEF ClaimsInv, Apart
    <3>4. JobOf(v) # k \/ NumberOf(v) # m
      BY <1>3, <3>2, <3>3
    <3>5. attempt'[JobOf(v)][NumberOf(v)] = attempt[JobOf(v)][NumberOf(v)]
      BY <2>1, <3>2, <3>4
    <3> QED BY <3>1, <3>2, <3>5
  <2>5. ClaimsInv'
    BY <2>3, <2>4, ClaimsKept DEF ClaimsInv, OkIsApplied, HasReceipt
  <2>6. ASSUME NEW j \in Jobs PROVE OutcomeInv(j)'
    <3>1. CASE j # k
      <4>1. job'[j] = job[j] /\ attempt'[j] = attempt[j]
        BY <2>1, <3>1
      <4>2. Expired(j) => Expired(j)'
        BY <4>1 DEF Expired
      <4>3. \/ job[j].status \in {"cancelled", "running"}
            \/ job[j].status = "succeeded"
            \/ job[j].status \notin {"succeeded", "cancelled", "running"}
        OBVIOUS
      <4> QED BY <2>4, <4>1, <4>2, <4>3, OutcomeKept
    <3>2. CASE j = k /\ worker[w].outcome = "ok"
      <4>1. HasReceipt(k) /\ job'[k].status = "succeeded"
        BY <1>1, <2>1, <3>2 DEF ClaimsInv, OkIsApplied
      <4> QED BY <3>2, <4>1 DEF OutcomeInv, HasReceipt
    <3>3. CASE j = k /\ worker[w].outcome # "ok"
      <4>1. job'[k].status \in {"queued", "failed"}
        BY <2>1, <3>3
      <4>2. ~ ToldOf(k)
        BY <1>2, <1>3, <2>1, <3>3 DEF ToldOf
      <4>3. Expired(k) => Expired(k)'
        BY <2>1 DEF Expired
      <4> QED BY <2>1, <3>3, <4>1, <4>2, <4>3 DEF OutcomeInv, HasReceipt
    <3> QED BY <3>1, <3>2, <3>3
  <2> QED BY <2>5, <2>6
<1> QED BY <1>4, <1>5

\* The changes and the receipt of an operation, in a worker that may have lost its lease
LEMMA CommitKeeps ==
    ASSUME IInv, ClaimsInv, \A j \in Jobs : OutcomeInv(j),
           NEW w \in Workers, NEW o \in {"ok", "error"}, Committed(w, o), ~ HasReceipt(JobOf(w)),
           \/ o = "ok" /\ UNCHANGED doubtful
           \/ doubtful' = [doubtful EXCEPT ![JobOf(w)] = TRUE]
    PROVE  ClaimsInv' /\ \A j \in Jobs : OutcomeInv(j)'
<1>0. HandlerReturns(w, o) /\ Busy(w) /\ HasAttempt(w)
  BY DEF Committed, HandlerReturns, Busy, ClaimsInv
<1> PICK k \in Jobs, m \in Numbers : k = JobOf(w) /\ m = NumberOf(w)
  BY <1>0, ClaimFacts
<1>1. /\ HandlerReturns(w, o) /\ Applied(k)
      /\ UNCHANGED <<job, attempt, outbox, now, promotions, expected, direct>>
  BY DEF Committed
<1>2. /\ worker' \in [Workers -> WorkerState]
      /\ Busy(w)
      /\ worker[w].phase = "handling"
      /\ worker'[w].phase = "returned"
      /\ worker'[w].outcome = o
      /\ worker'[w].claim = worker[w].claim
      /\ \A v \in Workers \ {w} : worker'[v] = worker[v]
  BY <1>1, AnswerFacts DEF ClaimsInv, OperationTypes
<1>3. /\ k \in Jobs /\ m \in Numbers /\ worker[w].claim = <<k, m>>
      /\ attempt[k][m].status \in Kept
  BY <1>2, ClaimFacts DEF ClaimsInv, Kept
<1>4. /\ receipt \in [Jobs -> 0 .. 2] /\ receipt[k] = 0
      /\ version \in [Items -> Nat] /\ doubtful \in [Jobs -> BOOLEAN]
  BY <1>3 DEF ClaimsInv, OperationTypes, HasReceipt
<1>5. receipt' = [receipt EXCEPT ![k] = 1]
  BY <1>1, <1>3, <1>4 DEF Applied
<1>6. version' \in [Items -> Nat]
  BY <1>1, <1>4 DEF Applied
<1>7. OperationTypes'
  <2>1. doubtful' \in [Jobs -> BOOLEAN]
    BY <1>4
  <2>2. receipt' \in [Jobs -> 0 .. 2]
    BY <1>4, <1>5
  <2> QED BY <1>1, <1>2, <1>6, <2>1, <2>2 DEF ClaimsInv, OperationTypes
<1>8. \A j \in Jobs : receipt'[j] > 0 <=> j = k \/ receipt[j] > 0
  BY <1>3, <1>4, <1>5
<1>9. ASSUME NEW v \in Workers, worker'[v].phase # "idle"
      PROVE  /\ Busy(v)
             /\ worker'[v].claim = worker[v].claim
             /\ attempt'[JobOf(v)][NumberOf(v)].status \in Kept
             /\ worker'[v].phase = "returned" /\ worker'[v].outcome = "ok"
                    => receipt'[JobOf(v)] > 0
  <2>1. Busy(v) /\ worker'[v].claim = worker[v].claim
    BY <1>2, <1>9 DEF Busy
  <2>2. JobOf(v) \in Jobs /\ attempt[JobOf(v)][NumberOf(v)].status \in Kept
    BY <2>1, ClaimFacts DEF ClaimsInv, Kept
  <2>3. worker'[v].phase = "returned" /\ worker'[v].outcome = "ok" => receipt'[JobOf(v)] > 0
    BY <1>2, <1>8, <2>2 DEF ClaimsInv, OkIsApplied, HasReceipt
  <2> QED BY <1>1, <2>1, <2>2, <2>3
<1>10. ClaimsInv'
  BY <1>7, <1>9, ClaimsKept
<1>11. ASSUME NEW j \in Jobs, j # k PROVE OutcomeInv(j)'
  <2>1. receipt'[j] = receipt[j] /\ doubtful'[j] = doubtful[j]
    BY <1>3, <1>4, <1>5, <1>11
  <2>2. Expired(j) => Expired(j)'
    BY <1>1 DEF Expired
  <2>3. \A v \in Workers :
            worker'[v].phase # "idle" /\ worker'[v].claim = <<j, job[j].count>> =>
                v # w /\ Busy(v) /\ worker'[v] = worker[v]
    BY <1>2, <1>3, <1>11 DEF Busy
  <2>4. \/ job[j].status \in {"cancelled", "running"}
        \/ job[j].status = "succeeded"
        \/ job[j].status \notin {"succeeded", "cancelled", "running"}
    OBVIOUS
  <2> QED BY <1>1, <2>1, <2>2, <2>3, <2>4, OutcomeKept
<1>12. OutcomeInv(k)'
  <2>1. LedgerInv(job[k], attempt[k])
    BY <1>3 DEF IInv
  <2>2. HasReceipt(k)'
    BY <1>3, <1>8 DEF HasReceipt
  <2>3. CASE attempt[k][m].status = "lease_expired"
    BY <1>1, <1>3, <2>2, <2>3 DEF OutcomeInv, Expired
  <2>4. CASE attempt[k][m].status = "cancelled"
    BY <1>1, <1>3, <2>1, <2>2, <2>4 DEF OutcomeInv, LedgerInv
  <2>5. CASE attempt[k][m].status = "running"
    <3>1. m = job[k].count /\ job[k].status = "running"
      BY <1>3, <2>1, <2>5 DEF LedgerInv
    <3>2. CASE o = "ok"
      <4>1. ToldOf(k)'
        <5> SUFFICES ASSUME NEW v \in Workers, worker'[v].phase # "idle",
                            worker'[v].claim = <<k, job[k].count>>
                     PROVE  worker'[v].phase = "returned" /\ worker'[v].outcome = "ok"
          BY <1>1 DEF ToldOf, Busy
        <5>1. v = w
          BY <1>2, <1>3, <3>1 DEF ClaimsInv, Apart, Busy
        <5> QED BY <1>2, <3>2, <5>1
      <4> QED BY <1>1, <2>2, <3>1, <4>1 DEF OutcomeInv
    <3>3. CASE o # "ok"
      <4>1. doubtful'[k]
        BY <1>3, <1>4, <3>3
      <4> QED BY <2>2, <4>1 DEF OutcomeInv
    <3> QED BY <3>2, <3>3
  <2> QED BY <1>3, <2>3, <2>4, <2>5 DEF Kept
<1> QED BY <1>10, <1>11, <1>12

\* The count of versions
LEMMA CountedKept ==
    ASSUME CountedInv, UNCHANGED <<promotions, version, receipt, direct>>
    PROVE  CountedInv'
<1>1. AppliedJobs' = AppliedJobs
  BY DEF AppliedJobs, HasReceipt
<1>2. \A i \in Items : Effects(i)' = Effects(i)
  BY DEF Effects, HasReceipt
<1> QED BY <1>1, <1>2 DEF CountedInv

LEMMA EffectsFinite ==
    ASSUME CountedInv, NEW i \in Items
    PROVE  IsFiniteSet(Effects(i)) /\ Cardinality(Effects(i)) \in Nat
<1>1. Effects(i) \subseteq AppliedJobs
  BY DEF Effects, AppliedJobs
<1>2. IsFiniteSet(Effects(i))
  BY <1>1, FS_Subset DEF CountedInv
<1> QED BY <1>2, FS_CardinalityType

LEMMA ChangeCounted ==
    ASSUME CountedInv, OperationTypes, NEW i \in Items, ChangeItem(i)
    PROVE  CountedInv' /\ version' \in [Items -> Nat] /\ direct' \in [Items -> Nat]
<1>1. /\ version' = [version EXCEPT ![i] = version[i] + 1]
      /\ direct' = [direct EXCEPT ![i] = direct[i] + 1]
      /\ UNCHANGED <<promotions, receipt>>
  BY DEF ChangeItem
<1>2. version \in [Items -> Nat] /\ direct \in [Items -> Nat]
  BY DEF OperationTypes
<1>3. AppliedJobs' = AppliedJobs /\ \A k \in Items : Effects(k)' = Effects(k)
  BY <1>1 DEF AppliedJobs, Effects, HasReceipt
<1>4. ASSUME NEW k \in Items PROVE version'[k] = direct'[k] + Cardinality(Effects(k))
  <2>1. Cardinality(Effects(k)) \in Nat /\ version[k] = direct[k] + Cardinality(Effects(k))
    BY EffectsFinite DEF CountedInv
  <2> QED BY <1>1, <1>2, <2>1
<1>5. \A j \in Jobs : receipt'[j] <= 1
  BY <1>1 DEF CountedInv
<1>6. version' \in [Items -> Nat] /\ direct' \in [Items -> Nat]
  BY <1>1, <1>2
<1> QED BY <1>3, <1>4, <1>5, <1>6 DEF CountedInv

LEMMA CommitCounted ==
    ASSUME CountedInv, ClaimsInv, NEW w \in Workers, NEW o \in {"ok", "error"},
           Committed(w, o), ~ HasReceipt(JobOf(w))
    PROVE  CountedInv'
<1>1. Busy(w) /\ HasAttempt(w)
  BY DEF Committed, HandlerReturns, Busy, ClaimsInv
<1> PICK k \in Jobs : k = JobOf(w)
  BY <1>1, ClaimFacts
<1>2. Applied(k) /\ UNCHANGED <<promotions, direct>>
  BY DEF Committed
<1>3. /\ receipt \in [Jobs -> 0 .. 2] /\ receipt[k] = 0
      /\ version \in [Items -> Nat] /\ direct \in [Items -> Nat]
  BY DEF ClaimsInv, OperationTypes, HasReceipt
<1>4. receipt' = [receipt EXCEPT ![k] = 1]
  BY <1>2, <1>3 DEF Applied
<1>5. \A j \in Jobs : receipt'[j] > 0 <=> j = k \/ receipt[j] > 0
  BY <1>3, <1>4
<1>6. IsFiniteSet(AppliedJobs')
  <2>1. AppliedJobs' = AppliedJobs \cup {k}
    BY <1>5 DEF AppliedJobs, HasReceipt
  <2> QED BY <2>1, FS_AddElement DEF CountedInv
<1>7. \A j \in Jobs : receipt'[j] <= 1
  BY <1>3, <1>4 DEF CountedInv
<1>8. ASSUME NEW i \in Items PROVE version'[i] = direct'[i] + Cardinality(Effects(i)')
  <2>1. /\ IsFiniteSet(Effects(i)) /\ Cardinality(Effects(i)) \in Nat
        /\ version[i] = direct[i] + Cardinality(Effects(i))
    BY EffectsFinite DEF CountedInv
  <2>2. CASE i \in Targets[k] /\ k \notin promotions
    <3>1. Effects(i)' = Effects(i) \cup {k}
      BY <1>2, <1>5, <2>2 DEF Effects, HasReceipt
    <3>2. k \notin Effects(i)
      BY <1>3 DEF Effects, HasReceipt
    <3>3. Cardinality(Effects(i)') = Cardinality(Effects(i)) + 1
      BY <2>1, <3>1, <3>2, FS_AddElement
    <3>4. version'[i] = version[i] + 1
      BY <1>2, <2>2 DEF Applied
    <3> QED BY <1>2, <1>3, <2>1, <3>3, <3>4
  <2>3. CASE ~ (i \in Targets[k] /\ k \notin promotions)
    <3>1. Effects(i)' = Effects(i)
      BY <1>2, <1>5, <2>3 DEF Effects, HasReceipt
    <3>2. version'[i] = version[i]
      BY <1>2, <2>3 DEF Applied
    <3> QED BY <1>2, <2>1, <3>1, <3>2
  <2> QED BY <2>2, <2>3
<1> QED BY <1>6, <1>7, <1>8 DEF CountedInv

-----------------------------------------------------------------------------

Local == ClaimsInv /\ (\A j \in Jobs : OutcomeInv(j)) /\ CountedInv

LEMMA OperatorKeeps ==
    ASSUME OperationsInv, OperatorStep
    PROVE  Local'
<1>1. IInv /\ ClaimsInv /\ CountedInv /\ \A j \in Jobs : OutcomeInv(j)
  BY DEF OperationsInv
<1>2. CASE \E j \in Jobs, t \in Readings :
              \E due \in DueTimes(t), max \in Numbers : Submit(j, t, due, max)
  <2>1. ApiStep /\ UNCHANGED <<worker, promotions, version, receipt, direct, doubtful>>
    BY <1>2 DEF Submit, ApiStep
  <2> QED BY <1>1, <2>1, ApiKeeps, CountedKept DEF Local
<1>3. CASE /\ \E j \in Jobs, t \in Readings :
                  Cancel(j) \/ \E due \in DueTimes(t) : Retry(j, due)
           /\ UNCHANGED <<worker, crashes, promotions, version, expected, receipt, looked, direct,
                          doubtful>>
  <2>1. ApiStep /\ UNCHANGED <<worker, promotions, version, receipt, direct, doubtful>>
    BY <1>3 DEF ApiStep
  <2> QED BY <1>1, <2>1, ApiKeeps, CountedKept DEF Local
<1>4. CASE \E i \in Items : ChangeItem(i)
  <2> PICK i \in Items : ChangeItem(i)
    BY <1>4
  <2>1. CountedInv' /\ version' \in [Items -> Nat] /\ direct' \in [Items -> Nat]
    BY <1>1, ChangeCounted DEF ClaimsInv
  <2>2. UNCHANGED <<job, attempt, worker, promotions, receipt, doubtful>>
    BY DEF ChangeItem
  <2> QED BY <1>1, <2>1, <2>2, NothingKeeps DEF Local
<1> QED BY <1>2, <1>3, <1>4 DEF OperatorStep

LEMMA WorkerKeeps ==
    ASSUME OperationsInv, NEW w \in Workers, WorkerStep(w)
    PROVE  Local'
<1>1. IInv /\ ClaimsInv /\ CountedInv /\ \A j \in Jobs : OutcomeInv(j)
  BY DEF OperationsInv
<1>2. CASE Poll(w) /\ UNCHANGED opVars
  <2>1. UNCHANGED <<promotions, version, receipt, direct, doubtful>>
    BY <1>2 DEF opVars
  <2> PICK t \in Readings, unlocked \in SUBSET Jobs : \E r \in Recoveries(t) :
          \/ Reconcile(t, r, unlocked) /\ UNCHANGED worker
          \/ \E c \in Jobs :
                /\ ClaimNext(c, t, r, unlocked)
                /\ worker' = [worker EXCEPT ![w] =
                       IF job'[c].status = "running" THEN Handling(c, job'[c].count) ELSE @]
    BY <1>2 DEF Poll
  <2> PICK r \in Recoveries(t) :
          \/ Reconcile(t, r, unlocked) /\ UNCHANGED worker
          \/ \E c \in Jobs :
                /\ ClaimNext(c, t, r, unlocked)
                /\ worker' = [worker EXCEPT ![w] =
                       IF job'[c].status = "running" THEN Handling(c, job'[c].count) ELSE @]
    OBVIOUS
  <2>2. worker[w].phase = "idle"
    BY <1>2 DEF Poll
  <2> QED BY <1>1, <2>1, <2>2, ReconcileKeeps, ClaimKeeps, CountedKept DEF Local
<1>3. CASE Report(w) /\ UNCHANGED opVars
  BY <1>1, <1>3, ReportKeeps, CountedKept DEF Local, opVars
<1>4. CASE LookForReceipt(w)
  <2>1. CASE ReceiptFound(w)
    BY <1>1, <1>4, <2>1, AnswerKeeps, CountedKept DEF Local, LookForReceipt, ReceiptFound
  <2>2. CASE NoReceipt(w)
    <3>1. version' \in [Items -> Nat] /\ direct' \in [Items -> Nat]
      BY <1>1, <1>4 DEF LookForReceipt, ClaimsInv, OperationTypes
    <3> QED BY <1>1, <1>4, <2>2, <3>1, NothingKeeps, CountedKept DEF Local, LookForReceipt, NoReceipt
  <2> QED BY <1>4, <2>1, <2>2 DEF LookForReceipt
<1>5. CASE Commits(w)
  BY <1>1, <1>5, CommitKeeps, CommitCounted DEF Local, Commits, Insertable
<1>6. CASE CommitsUnheard(w)
  BY <1>1, <1>6, CommitKeeps, CommitCounted DEF Local, CommitsUnheard, Insertable
<1>7. CASE Conflicts(w)
  BY <1>1, <1>7, AnswerKeeps, CountedKept DEF Local, Conflicts
<1>8. CASE ApplyRaises(w)
  BY <1>1, <1>8, AnswerKeeps, CountedKept DEF Local, ApplyRaises
<1>9. CASE Die(w)
  BY <1>1, <1>9, RestKeeps, CountedKept DEF Local, Die, Crash
<1> QED BY <1>2, <1>3, <1>4, <1>5, <1>6, <1>7, <1>8, <1>9 DEF WorkerStep

LEMMA OperationsStepInv == OperationsInv /\ [OperationsNext]_allVars => OperationsInv'
<1> SUFFICES ASSUME OperationsInv, [OperationsNext]_allVars PROVE OperationsInv'
  OBVIOUS
<1>1. IInv'
  BY OperationsStepQueue, StepIInv DEF OperationsInv
<1>2. ASSUME OperatorStep PROVE Local'
  BY <1>2, OperatorKeeps DEF Local
<1>3. ASSUME \E w \in Workers : WorkerStep(w) PROVE Local'
  BY <1>3, WorkerKeeps DEF Local
<1>4. ASSUME (WorkersTick /\ UNCHANGED opVars) \/ UNCHANGED allVars PROVE Local'
  <2>1. /\ UNCHANGED <<job, attempt, worker, promotions, receipt, doubtful>>
        /\ UNCHANGED <<promotions, version, receipt, direct>>
    BY <1>4 DEF WorkersTick, Tick, opVars, allVars
  <2>2. version' \in [Items -> Nat] /\ direct' \in [Items -> Nat]
    BY <2>1 DEF OperationsInv, ClaimsInv, OperationTypes
  <2> QED BY <2>1, <2>2, NothingKeeps, CountedKept DEF OperationsInv, Local
<1> QED BY <1>1, <1>2, <1>3, <1>4 DEF OperationsNext, OperationsInv, Local

LEMMA OperationsInitInv == OperationsInit => OperationsInv
<1> SUFFICES ASSUME OperationsInit PROVE OperationsInv
  OBVIOUS
<1>1. IInv /\ \A j \in Jobs : job[j].status = "absent"
  BY InitIInv DEF OperationsInit, WorkersInit, Init
<1>2. ClaimsInv
  <2>1. \A w \in Workers : ~ Busy(w)
    BY DEF OperationsInit, WorkersInit, Idle, Busy
  <2>2. OperationTypes
    BY OperationConstants
       DEF OperationsInit, WorkersInit, OperationTypes, WorkerState, Idle
  <2> QED BY <2>1, <2>2 DEF ClaimsInv, Apart, HasAttempt, OkIsApplied, Busy
<1>3. \A j \in Jobs : ~ HasReceipt(j)
  BY DEF OperationsInit, HasReceipt
<1>4. CountedInv
  <2>1. AppliedJobs = {} /\ \A i \in Items : Effects(i) = {}
    BY <1>3 DEF AppliedJobs, Effects
  <2>2. IsFiniteSet({}) /\ Cardinality({}) = 0
    BY FS_EmptySet
  <2> QED BY <2>1, <2>2 DEF CountedInv, OperationsInit
<1> QED BY <1>1, <1>2, <1>3, <1>4 DEF OperationsInv, OutcomeInv

LEMMA OperationsInvariance == OperationsSpec => []OperationsInv
BY OperationsInitInv, OperationsStepInv, PTL DEF OperationsSpec

\* However many workers run an operation, late, twice or again after a crash, it takes effect
\* once and no change of an item is lost or made twice.
THEOREM OperationsApplyOnce == OperationsSpec => []AppliedOnce
<1>1. OperationsInv => AppliedOnce
  BY DEF OperationsInv, CountedInv, Effects, AppliedOnce
<1> QED BY <1>1, OperationsInvariance, PTL

\* The job of an operation tells what became of it, unless a lease ran out or the answer to
\* the commit was lost.
THEOREM JobsTellOutcome == OperationsSpec => []StateTellsOutcome
<1>1. OperationsInv => StateTellsOutcome
  BY DEF OperationsInv, OutcomeInv, Expired, StateTellsOutcome
<1> QED BY <1>1, OperationsInvariance, PTL

\* With the workers, their handlers and their own retry delay in place of the most general
\* clients, the queue still keeps the promise of JobLifecycle.
THEOREM OperationsKeepLifecycle == OperationsSpec => KeepsLifecycle
<1>1. OperationsInit => Lifecycle!Init
  BY DEF OperationsInit, WorkersInit, Init, Lifecycle!Init, LifeOf
<1>2. OperationsInv /\ [OperationsNext]_allVars =>
          [Lifecycle!Next]_([j \in Jobs |-> LifeOf(job[j])])
  BY OperationsStepQueue, LifecycleStep DEF OperationsInv
<1> QED BY <1>1, <1>2, OperationsInvariance, PTL
        DEF OperationsSpec, KeepsLifecycle, Lifecycle!Spec

=============================================================================
