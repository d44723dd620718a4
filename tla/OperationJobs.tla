---------------------------- MODULE OperationJobs ----------------------------
(***************************************************************************)
(* Operation jobs: batches of changes to items that an operator submits to *)
(* the durable queue (operation_jobs/service.py) and a worker applies with *)
(* SqlAlchemyAtomicOperationExecutor (worker/durable_runtime.py).          *)
(*                                                                         *)
(* apply_all looks for a receipt under the operation id first and locks    *)
(* nothing if there is none; it then locks the items, compares their       *)
(* versions, changes them and inserts the receipt, and commits.  A worker  *)
(* whose lease ran out may therefore be between the two while another      *)
(* worker runs the same operation.                                         *)
(***************************************************************************)
EXTENDS DurableWorkers, Functions

CONSTANTS
    Items,
    Targets,      \* items of each operation
    PromotionSets, \* which operations may be of kind promote
    MaxChanges    \* bound on the changes of items by other writers

ASSUME OperationConstants ==
    /\ Targets \in [Jobs -> (SUBSET Items) \ {{}}]
    /\ PromotionSets \subseteq SUBSET Jobs
    /\ MaxChanges \in Nat

VARIABLES
    promotions, \* operations of kind promote: they leave the version alone (fixed)
    version,    \* items.state_version
    expected,   \* the versions each operation was submitted against
    receipt,    \* operation_batches rows of each operation (0 or 1; 2 = more)
    looked,     \* the worker has looked for the receipt and found none
    direct,     \* history: version increments by others than operation jobs
    doubtful    \* history: the answer to the commit of an operation was lost

opVars == <<promotions, version, expected, receipt, looked, direct, doubtful>>

allVars == <<job, attempt, outbox, now, worker, crashes, promotions, version, expected,
             receipt, looked, direct, doubtful>>

-----------------------------------------------------------------------------

OperationsTypeOK ==
    /\ WorkersTypeOK
    /\ promotions \subseteq Jobs
    /\ version \in [Items -> Nat]
    /\ expected \in [Jobs -> [Items -> Nat]]
    /\ receipt \in [Jobs -> 0 .. 2]
    /\ looked \in [Workers -> BOOLEAN]
    /\ direct \in [Items -> 0 .. MaxChanges]
    /\ doubtful \in [Jobs -> BOOLEAN]

OperationsInit ==
    /\ WorkersInit
    /\ promotions \in PromotionSets
    /\ version = [i \in Items |-> 0]
    /\ expected = [j \in Jobs |-> [i \in Items |-> 0]]
    /\ receipt = [j \in Jobs |-> 0]
    /\ looked = [w \in Workers |-> FALSE]
    /\ direct = [i \in Items |-> 0]
    /\ doubtful = [j \in Jobs |-> FALSE]

-----------------------------------------------------------------------------

\* The operator states the versions seen last, which may be out of date.
Submit(j, t, due, max) ==
    /\ Enqueue(j, t, due, max)
    /\ \E seen \in [Targets[j] -> 0 .. MaxChanges + Cardinality(Jobs)] :
          /\ \A i \in Targets[j] : seen[i] <= version[i]
          /\ expected' = [expected EXCEPT ![j] =
                             [i \in Items |-> IF i \in Targets[j] THEN seen[i] ELSE 0]]
    /\ UNCHANGED <<worker, crashes, promotions, version, receipt, looked, direct, doubtful>>

\* Another writer: a batch of OperationService.
ChangeItem(i) ==
    /\ FoldFunction(+, 0, direct) < MaxChanges
    /\ version' = [version EXCEPT ![i] = @ + 1]
    /\ direct' = [direct EXCEPT ![i] = @ + 1]
    /\ UNCHANGED <<job, attempt, outbox, now, worker, crashes, promotions,
                   expected, receipt, looked, doubtful>>

-----------------------------------------------------------------------------
(* apply_all *)

HasReceipt(j) == receipt[j] > 0

\* apply_all returns the recorded result.
ReceiptFound(w) ==
    /\ HasReceipt(JobOf(w))
    /\ HandlerReturns(w, "ok")
    /\ UNCHANGED looked

NoReceipt(w) ==
    /\ ~ HasReceipt(JobOf(w))
    /\ looked' = [looked EXCEPT ![w] = TRUE]
    /\ UNCHANGED worker

LookForReceipt(w) ==
    /\ worker[w].phase = "handling"
    /\ ~ looked[w]
    /\ ReceiptFound(w) \/ NoReceipt(w)
    /\ UNCHANGED <<job, attempt, outbox, now, crashes, promotions, version, expected, receipt,
                   direct, doubtful>>

Matches(j) == \A i \in Targets[j] : version[i] = expected[j][i]

\* The changes and the receipt, in one commit.
Applied(j) ==
    /\ version' = [i \in Items |-> IF i \in Targets[j] /\ j \notin promotions
                                   THEN version[i] + 1 ELSE version[i]]
    /\ receipt' = [receipt EXCEPT ![j] = IF @ = 2 THEN 2 ELSE @ + 1]

Committed(w, outcome) ==
    /\ Matches(JobOf(w))
    /\ Applied(JobOf(w))
    /\ HandlerReturns(w, outcome)
    /\ looked' = [looked EXCEPT ![w] = FALSE]
    /\ UNCHANGED <<job, attempt, outbox, now, promotions, expected, direct>>

\* (variant) operation_batches has no unique batch_id.
InsertableAlways(j) == TRUE

\* The primary key of operation_batches.
Insertable(j) == ~ HasReceipt(j)

Commits(w) ==
    /\ looked[w]
    /\ Insertable(JobOf(w))
    /\ Committed(w, "ok")
    /\ UNCHANGED <<crashes, doubtful>>

\* The commit goes through and the connection is lost: the handler raises.
CommitsUnheard(w) ==
    /\ looked[w]
    /\ Insertable(JobOf(w))
    /\ Committed(w, "error")
    /\ crashes < MaxCrashes
    /\ crashes' = crashes + 1
    /\ doubtful' = [doubtful EXCEPT ![JobOf(w)] = TRUE]

\* (variant) A conflict is taken for a duplicate.
ConflictsQuietly(w) ==
    /\ looked[w]
    /\ ~ Matches(JobOf(w)) \/ ~ Insertable(JobOf(w))
    /\ HandlerReturns(w, "ok")
    /\ looked' = [looked EXCEPT ![w] = FALSE]
    /\ UNCHANGED <<job, attempt, outbox, now, crashes, promotions, version, expected, receipt,
                   direct, doubtful>>

\* A changed or missing target (ExpectedStateConflict), or a receipt inserted
\* since apply_all looked (IntegrityError): rolled back, and not retryable.
Conflicts(w) ==
    /\ looked[w]
    /\ ~ Matches(JobOf(w)) \/ ~ Insertable(JobOf(w))
    /\ HandlerReturns(w, "error")
    /\ looked' = [looked EXCEPT ![w] = FALSE]
    /\ UNCHANGED <<job, attempt, outbox, now, crashes, promotions, version, expected, receipt,
                   direct, doubtful>>

\* The database raises before the commit, or the payload is refused.
ApplyRaises(w) ==
    /\ HandlerReturns(w, "error")
    /\ looked' = [looked EXCEPT ![w] = FALSE]
    /\ UNCHANGED <<job, attempt, outbox, now, crashes, promotions, version, expected, receipt,
                   direct, doubtful>>

-----------------------------------------------------------------------------

OperatorStep ==
    \/ \E j \in Jobs, t \in Readings :
          \E due \in DueTimes(t), max \in Numbers : Submit(j, t, due, max)
    \/ /\ \E j \in Jobs, t \in Readings :
              Cancel(j) \/ \E due \in DueTimes(t) : Retry(j, due)
       /\ UNCHANGED <<worker, crashes, promotions, version, expected, receipt, looked, direct, doubtful>>
    \/ \E i \in Items : ChangeItem(i)

Die(w) ==
    /\ Crash(w)
    /\ looked' = [looked EXCEPT ![w] = FALSE]
    /\ UNCHANGED <<promotions, version, expected, receipt, direct, doubtful>>

WorkerStep(w) ==
    \/ (Poll(w) \/ Report(w)) /\ UNCHANGED opVars
    \/ LookForReceipt(w)
    \/ Commits(w)
    \/ CommitsUnheard(w)
    \/ Conflicts(w)
    \/ ApplyRaises(w)
    \/ Die(w)

OperationsNext ==
    \/ OperatorStep
    \/ \E w \in Workers : WorkerStep(w)
    \/ WorkersTick /\ UNCHANGED opVars

OperationsSpec == OperationsInit /\ [][OperationsNext]_allVars

-----------------------------------------------------------------------------
(* Properties *)

\* An operation takes effect at most once, though its handler may run in several workers at
\* once and again after a crash, and every version counts the changes made: no change is lost,
\* made twice or left without its receipt.
AppliedOnce ==
    /\ \A j \in Jobs : receipt[j] <= 1
    /\ \A i \in Items :
          version[i] = direct[i] +
              Cardinality({j \in Jobs \ promotions : HasReceipt(j) /\ i \in Targets[j]})

\* The job tells what became of the operation: SUCCEEDED if it was applied, FAILED
\* if it was not, unless a lease ran out on the way or the answer to its commit was
\* lost.
StateTellsOutcome ==
    \A j \in Jobs :
        /\ job[j].status = "succeeded" => HasReceipt(j)
        /\ job[j].status = "failed" /\ HasReceipt(j) =>
              doubtful[j] \/ \E n \in Numbers : attempt[j][n].status = "lease_expired"

\* The contract of AtomicOperationExecutor: a duplicate operation id returns the
\* original result.  (The code fails it: see the run duplicate_operation.)
DuplicateGetsResult ==
    [][\A w \in Workers : Conflicts(w) => ~ HasReceipt(JobOf(w))]_allVars
=============================================================================
