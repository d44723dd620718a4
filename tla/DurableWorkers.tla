--------------------------- MODULE DurableWorkers ---------------------------
(***************************************************************************)
(* The worker processes that drive the durable queue: RunOnceWorker of     *)
(* apps/worker/async_tasks.py in the loop of ProductionScheduler.serve,    *)
(* against the transactions of DurableJobs.                                *)
(*                                                                         *)
(* A pass polls, runs the handler of the claimed task, and reports what    *)
(* came of it.  No heartbeat is sent meanwhile, so a handler may outlive   *)
(* its lease and report to a queue that has given the job to another.      *)
(***************************************************************************)
EXTENDS DurableJobs, Sequences

CONSTANTS
    Workers,
    RetryDelay,    \* retry_delay_seconds
    MaxCrashes     \* bound on worker failures

ASSUME WorkerConstants == RetryDelay \in Nat /\ MaxCrashes \in Nat

VARIABLES
    worker,    \* what each process is doing, with which claim
    crashes

workerVars == <<job, attempt, outbox, now, worker, crashes>>

-----------------------------------------------------------------------------

NoClaim == <<>>

Idle == [phase |-> "idle", claim |-> NoClaim, outcome |-> "none"]

Handling(j, n) == [phase |-> "handling", claim |-> <<j, n>>, outcome |-> "none"]

Returned(claim, outcome) == [phase |-> "returned", claim |-> claim, outcome |-> outcome]

WorkerState ==
    [phase   : {"idle", "handling", "returned"},
     claim   : (Jobs \X Numbers) \cup {NoClaim},
     outcome : {"none", "ok", "retryable", "error"}]

WorkersTypeOK ==
    /\ TypeOK
    /\ worker \in [Workers -> WorkerState]
    /\ crashes \in 0 .. MaxCrashes

WorkersInit ==
    /\ Init
    /\ worker = [w \in Workers |-> Idle]
    /\ crashes = 0

JobOf(w) == worker[w].claim[1]

NumberOf(w) == worker[w].claim[2]

-----------------------------------------------------------------------------
(* RunOnceWorker.run_once *)

\* The pass ends here if nothing was claimed.
Poll(w) ==
    /\ worker[w].phase = "idle"
    /\ \E t \in Readings, unlocked \in SUBSET Jobs :
          \E r \in Recoveries(t) :
              \/ Reconcile(t, r, unlocked) /\ UNCHANGED worker
              \/ \E c \in Jobs :
                    /\ ClaimNext(c, t, r, unlocked)
                    /\ worker' = [worker EXCEPT ![w] =
                           IF job'[c].status = "running" THEN Handling(c, job'[c].count) ELSE @]
    /\ UNCHANGED crashes

HandlerReturns(w, outcome) ==
    /\ worker[w].phase = "handling"
    /\ worker' = [worker EXCEPT ![w] = Returned(worker[w].claim, outcome)]

Handle(w) ==
    /\ \E outcome \in {"ok", "retryable", "error"} : HandlerReturns(w, outcome)
    /\ UNCHANGED <<job, attempt, outbox, now, crashes>>

\* The queue refuses the report: LeaseLost ends the pass, serve goes on.
LeaseLost(w, t) ==
    /\ ~ Owned(JobOf(w), NumberOf(w), t)
    /\ UNCHANGED <<job, attempt, outbox, now>>

Accepted(w, t) ==
    \/ /\ worker[w].outcome = "ok"
       /\ Succeed(JobOf(w), NumberOf(w), t)
    \/ /\ worker[w].outcome = "retryable"
       /\ \/ FailAndRequeue(JobOf(w), NumberOf(w), t, RetryDelay)
          \/ FailForGood(JobOf(w), NumberOf(w), t, TRUE)
    \/ /\ worker[w].outcome = "error"
       /\ FailForGood(JobOf(w), NumberOf(w), t, FALSE)

\* The clock is read again for the report.
Report(w) ==
    /\ worker[w].phase = "returned"
    /\ \E t \in Readings : Accepted(w, t) \/ LeaseLost(w, t)
    /\ worker' = [worker EXCEPT ![w] = Idle]
    /\ UNCHANGED crashes

\* The process dies and is started again, or a call to the database raises.
Crash(w) ==
    /\ worker[w].phase # "idle"
    /\ crashes < MaxCrashes
    /\ crashes' = crashes + 1
    /\ worker' = [worker EXCEPT ![w] = Idle]
    /\ UNCHANGED <<job, attempt, outbox, now>>

\* The clock is stopped (a bound) while nothing waits for it.
TimerAhead ==
    \E j \in Jobs :
        \/ job[j].status = "queued" /\ now < job[j].due + ClockSkew
        \/ \E n \in Numbers : attempt[j][n].lease # NoLease
                                /\ now < attempt[j][n].lease + ClockSkew

WorkersTick == TimerAhead /\ Tick /\ UNCHANGED <<worker, crashes>>

WorkersApiStep == ApiStep /\ UNCHANGED <<worker, crashes>>

WorkersNext ==
    \/ \E w \in Workers : Poll(w) \/ Handle(w) \/ Report(w) \/ Crash(w)
    \/ WorkersApiStep
    \/ WorkersTick

WorkersSpec == WorkersInit /\ [][WorkersNext]_workerVars

-----------------------------------------------------------------------------
(* Properties *)

\* Every queued job ends, though workers die, handlers fail or outlive their
\* leases and clocks disagree.
JobsEnd == \A j \in Jobs : job[j].status = "queued" ~> job[j].status \in Terminal
=============================================================================
