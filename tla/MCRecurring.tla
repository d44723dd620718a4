---------------------------- MODULE MCRecurring ----------------------------
(***************************************************************************)
(* What worker and scheduler processes do over and over, and what comes of *)
(* it in the end: durable jobs, operation batches and their promotions,    *)
(* alerts; and the page an operator submits operations from.  The durable  *)
(* queue is in focus twice: alone, for calls of any caller at any time,    *)
(* and with its workers.  The components share no state otherwise; a       *)
(* behaviour is one of the component in focus, and the others rest in      *)
(* their initial state.                                                    *)
(***************************************************************************)
EXTENDS DurableLeases, DurableWorkers, OperationBatches, Alerts, OperationSubmission

CONSTANTS a, w1, w2, r1, r2, q1, s1, s2, o1

OneJob == {a}

TwoWorkers == {w1, w2}

\* Three batches of which two cross: 3 asks for both items in id order, and a runner that
\* has both 1 and 2 to apply asks for them in the other order.  Two runners, so that a
\* pass finds rules another one has locked.
TwoRunners == {r1, r2}

OneRequest == {q1}

TwoItems == 1 .. 2

ThreeBatches == 1 .. 3

Kinds == <<"offline", "promote", "restore">>

TargetSets == <<{2}, {1}, {1, 2}>>

Windows == <<0, 1, 0>>

TwoSchedulers == {s1, s2}

SecondScheduler == {s2}

FirstRule == {1}

OneActor == {o1}

-----------------------------------------------------------------------------

VARIABLE focus

recurring == <<focus, granted, workerVars, batchVars, alertVars, submissionVars>>

RecurringInit ==
    /\ focus \in {"queue", "jobs", "batches", "alerts", "submission"}
    /\ LeasesInit /\ WorkersInit /\ BatchesInit /\ AlertInit /\ SubmissionInit

QueueingNext ==
    focus = "queue" /\ LeasesNext /\ UNCHANGED <<focus, worker, crashes, batchVars, alertVars, submissionVars>>

JobsNext ==
    focus = "jobs" /\ WorkersNext /\ Notes /\ UNCHANGED <<focus, batchVars, alertVars, submissionVars>>

OperatingNext ==
    focus = "batches" /\ BatchesNext /\ UNCHANGED <<focus, granted, workerVars, alertVars, submissionVars>>

AlertingNext ==
    focus = "alerts" /\ AlertNext /\ UNCHANGED <<focus, granted, workerVars, batchVars, submissionVars>>

SubmittingNext ==
    focus = "submission" /\ SubmissionNext /\ UNCHANGED <<focus, granted, workerVars, batchVars, alertVars>>

RecurringNext == QueueingNext \/ JobsNext \/ OperatingNext \/ AlertingNext \/ SubmittingNext

\* The fairness of each component, while it is in focus: processes keep making passes and
\* handlers return, transactions go on while they can, time passes.
RecurringFairness ==
    /\ \A w \in Workers :
          /\ WF_workerVars(focus = "jobs" /\ Poll(w))
          /\ WF_workerVars(focus = "jobs" /\ Handle(w))
          /\ WF_workerVars(focus = "jobs" /\ Report(w))
    /\ WF_workerVars(focus = "jobs" /\ WorkersTick)
    /\ \A r \in Runners : WF_batchVars(focus = "batches" /\ BeginRun(r))
    /\ \A p \in Procs : WF_batchVars(focus = "batches" /\ Step(p))
    /\ WF_batchVars(focus = "batches" /\ ClockTicks)
    /\ \A s \in Schedulers : WF_alertVars(focus = "alerts" /\ AlertPass(s))

RecurringSpec == RecurringInit /\ [][RecurringNext]_recurring /\ RecurringFairness

\* Every queued job ends where workers serve the queue, though they die, handlers fail or
\* outlive their leases and clocks disagree (JobsEnd of DurableWorkers).
WorkersEndJobs == focus = "jobs" => JobsEnd
=============================================================================
