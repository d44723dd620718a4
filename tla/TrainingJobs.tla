---------------------------- MODULE TrainingJobs ----------------------------
(***************************************************************************)
(* Training jobs (worker/jobs.py): a queue of its own beside the durable   *)
(* one, whose worker (worker/runtime.py) runs the training handler under a *)
(* lease and whose result is a directory of model artifacts named by its   *)
(* content (recsys/models/artifacts.py), outside every transaction; the    *)
(* handler then registers a READY model, whose row is left out here.       *)
(* Instants are left out: what matters of a lease is whether it has lapsed.*)
(***************************************************************************)
EXTENDS Naturals, Sequences

CONSTANTS
    Trainings,  \* training jobs, by idempotency key
    Trainers,  \* worker processes
    MaxTries,  \* max_attempts
    Versions,  \* of models
    NoModel

ASSUME TrainingConstants == MaxTries \in Nat \ {0}

VARIABLES
    training,   \* training_jobs with their job_attempts
    trainer,    \* each worker's run_once
    artifacts   \* the model directories in place

trainingVars == <<training, trainer, artifacts>>

-----------------------------------------------------------------------------

Over == {"succeeded", "failed", "cancelled"}

Try ==
    [status : Over \cup {"running", "lease_expired"},
     lapsed : BOOLEAN]   \* lease_expires_at <= now; it is cleared at the end

Resting == [at |-> "idle", request |-> NoModel, try |-> 0, crowded |-> FALSE]

Work ==
    [at : {"claimed", "training", "writing", "reporting", "failing"},
     request : Trainings,
     try : 1 .. MaxTries,
     crowded : BOOLEAN]   \* history: another worker was in its handler for the same model

TrainingRow ==
    [status : Over \cup {"absent", "queued", "running"}, model : Versions \cup {NoModel}, tries : Seq(Try)]

TrainingTypeOK ==
    /\ training \in [Trainings -> TrainingRow]
    /\ \A r \in Trainings : Len(training[r].tries) <= MaxTries
    /\ trainer \in [Trainers -> Work \cup {Resting}]
    /\ \A w \in Trainers :
          trainer[w].at # "idle" => trainer[w].try <= Len(training[trainer[w].request].tries)
    /\ artifacts \subseteq Versions

TrainingInit ==
    /\ training = [r \in Trainings |-> [status |-> "absent", model |-> NoModel, tries |-> <<>>]]
    /\ trainer = [w \in Trainers |-> Resting]
    /\ artifacts = {}

-----------------------------------------------------------------------------
(* The rows *)

Running(job) == job.status = "running" /\ job.tries[Len(job.tries)].status = "running"

\* The job and its last attempt change together.
EndedTry(job, outcome, status) ==
    [status |-> status, model |-> job.model,
     tries |-> [job.tries EXCEPT ![Len(job.tries)] = [status |-> outcome, lapsed |-> FALSE]]]

\* A job that has no attempt to end
WithStatus(job, status) == [status |-> status, model |-> job.model, tries |-> job.tries]

\* Another attempt is left, or none is.
Requeued(job) == IF Len(job.tries) < MaxTries THEN "queued" ELSE "failed"

Expired(job) == Running(job) /\ job.tries[Len(job.tries)].lapsed

LapsedTry(job) ==
    [status |-> job.status, model |-> job.model,
     tries |-> [job.tries EXCEPT ![Len(job.tries)] = [status |-> "running", lapsed |-> TRUE]]]

\* (variant) A lapsed attempt keeps its job.
RecoveredNever(job) == job

Recovered(job) == IF Expired(job) THEN EndedTry(job, "lease_expired", Requeued(job)) ELSE job

\* (variant) Only the number and the lease are looked at, not the statuses.
OwnsTryOfAnyStatus(w) ==
    LET job == training[trainer[w].request]
    IN Len(job.tries) = trainer[w].try /\ ~ job.tries[trainer[w].try].lapsed

\* _owned_running_attempt
OwnsTry(w) ==
    LET job == training[trainer[w].request]
    IN /\ Running(job)
       /\ Len(job.tries) = trainer[w].try
       /\ ~ job.tries[trainer[w].try].lapsed

-----------------------------------------------------------------------------
(* Clients *)

\* enqueue, of a job whose content determines the model (none if the handler refuses its
\* inputs); a repeated one returns the job that is there, or a conflict.
EnqueueTraining(r, model) ==
    /\ training[r].status = "absent"
    /\ training' = [training EXCEPT ![r] = [status |-> "queued", model |-> model, tries |-> <<>>]]
    /\ UNCHANGED <<trainer, artifacts>>

CancelTraining(r) ==
    /\ training[r].status \in {"queued", "running"}
    /\ training' = [training EXCEPT ![r] =
          IF training[r].status = "running" THEN EndedTry(training[r], "cancelled", "cancelled")
          ELSE WithStatus(training[r], "cancelled")]
    /\ UNCHANGED <<trainer, artifacts>>

\* lease_seconds pass without a heartbeat.
Lapse(r) ==
    /\ Running(training[r])
    /\ ~ Expired(training[r])
    /\ training' = [training EXCEPT ![r] = LapsedTry(training[r])]
    /\ UNCHANGED <<trainer, artifacts>>

-----------------------------------------------------------------------------
(* run_once *)

NewTry(job) ==
    [status |-> "running", model |-> job.model,
     tries |-> Append(job.tries, [status |-> "running", lapsed |-> FALSE])]

\* claim_next: recovery, then a queued job (the oldest whose row is not locked), if any.
Claim(w) ==
    LET recovered == [r \in Trainings |-> Recovered(training[r])]
        queued    == {r \in Trainings : recovered[r].status = "queued"}
    IN /\ trainer[w].at = "idle"
       /\ IF queued = {}
          THEN /\ recovered # training
               /\ training' = recovered
               /\ UNCHANGED trainer
          ELSE \E r \in queued :
                  IF Len(recovered[r].tries) < MaxTries
                  THEN /\ training' = [recovered EXCEPT ![r] = NewTry(recovered[r])]
                       /\ trainer' = [trainer EXCEPT ![w] =
                             [at |-> "claimed", request |-> r, try |-> Len(recovered[r].tries) + 1, crowded |-> FALSE]]
                  ELSE /\ training' = [recovered EXCEPT ![r] = WithStatus(recovered[r], "failed")]
                       /\ UNCHANGED trainer
       /\ UNCHANGED artifacts

Content(w) == training[trainer[w].request].model

Proceeds(w, at) ==
    /\ trainer' = [trainer EXCEPT ![w].at = at]
    /\ UNCHANGED <<training, artifacts>>

Rests(w) == trainer' = [trainer EXCEPT ![w] = Resting]

Cancelled(w) == training[trainer[w].request].status = "cancelled"

InHandler(w, model) ==
    /\ trainer[w].at \in {"training", "writing"}
    /\ Content(w) = model

\* The check before the handler, and the handler's own of its inputs.
Start(w) ==
    LET model  == Content(w)
        others == {v \in Trainers \ {w} : InHandler(v, model)}
    IN /\ trainer[w].at = "claimed"
       /\ ~ Cancelled(w)
       /\ IF model = NoModel
          THEN Proceeds(w, "failing")
          ELSE /\ trainer' = [v \in Trainers |->
                     IF v = w THEN [at |-> "training", request |-> trainer[w].request,
                                    try |-> trainer[w].try, crowded |-> others # {}]
                     ELSE IF v \in others THEN [trainer[v] EXCEPT !.crowded = TRUE]
                     ELSE trainer[v]]
               /\ UNCHANGED <<training, artifacts>>

\* A pulse of the handler finds the job cancelled or the lease lost, and so does run_once
\* when it comes to report it: nothing is written.
GiveUp(w) ==
    /\ \/ trainer[w].at = "claimed" /\ Cancelled(w)
       \/ trainer[w].at = "training" /\ ~ OwnsTry(w)
    /\ Rests(w)
    /\ UNCHANGED <<training, artifacts>>

\* (variant) Whether the version is there already is left to the renaming.
LookNowhere(w) ==
    /\ trainer[w].at = "training"
    /\ Proceeds(w, "writing")

\* write_model_artifacts: a version that is there is verified and returned.
Look(w) ==
    /\ trainer[w].at = "training"
    /\ Proceeds(w, IF Content(w) \in artifacts THEN "reporting" ELSE "writing")

\* The directory is renamed into place, unless another attempt was faster: then it is an error.
Publish(w) ==
    LET model == Content(w)
    IN /\ trainer[w].at = "writing"
       /\ trainer' = [trainer EXCEPT ![w].at = IF model \in artifacts THEN "failing" ELSE "reporting"]
       /\ artifacts' = artifacts \cup {model}
       /\ UNCHANGED training

Reported(w, outcome) ==
    LET r == trainer[w].request
    IN training' = [training EXCEPT ![r] = EndedTry(training[r], outcome, outcome)]

\* succeed; without the lease it raises, fail raises as well, and the loop polls again.
ReportSuccess(w) ==
    /\ trainer[w].at = "reporting"
    /\ Rests(w)
    /\ IF OwnsTry(w)
       THEN Reported(w, "succeeded")
       ELSE UNCHANGED training
    /\ UNCHANGED artifacts

\* fail, of an error that is not retryable
ReportFailure(w) ==
    /\ trainer[w].at = "failing"
    /\ Rests(w)
    /\ IF OwnsTry(w)
       THEN Reported(w, "failed")
       ELSE UNCHANGED training
    /\ UNCHANGED artifacts

\* register raises for a READY model (worker/model_training.py): the directory stays, the
\* handler has failed and run_once reports it, not for a while either.
RegistrationFails(w) ==
    /\ trainer[w].at = "reporting"
    /\ Rests(w)
    /\ IF OwnsTry(w)
       THEN Reported(w, "failed")
       ELSE UNCHANGED training
    /\ UNCHANGED artifacts

\* fail, of a RetryableTrainingError of the handler
FailRetryably(w) ==
    /\ trainer[w].at = "training"
    /\ OwnsTry(w)
    /\ Rests(w)
    /\ LET r == trainer[w].request
       IN training' = [training EXCEPT ![r] = EndedTry(training[r], "failed", Requeued(training[r]))]
    /\ UNCHANGED artifacts

\* The process dies; it is started again.
TrainerDies(w) ==
    /\ trainer[w].at # "idle"
    /\ Rests(w)
    /\ UNCHANGED <<training, artifacts>>

RunOnce(w) ==
    Claim(w) \/ Start(w) \/ GiveUp(w) \/ Look(w) \/ Publish(w) \/ ReportSuccess(w) \/ ReportFailure(w)

TrainingNext ==
    \/ \E r \in Trainings, model \in Versions \cup {NoModel} : EnqueueTraining(r, model)
    \/ \E r \in Trainings : CancelTraining(r) \/ Lapse(r)
    \/ \E w \in Trainers : RunOnce(w) \/ RegistrationFails(w) \/ FailRetryably(w) \/ TrainerDies(w)

\* No process holds the attempt any more.
Abandoned(r) == \A w \in Trainers : trainer[w].request # r \/ trainer[w].try # Len(training[r].tries)

TrainingSpec == TrainingInit /\ [][TrainingNext]_trainingVars

-----------------------------------------------------------------------------
(* Properties *)

\* A job succeeds only with its model in place; and a handler whose inputs were good comes
\* to report an error of the directory only if another handler of the same model ran beside it
\* (a lapsed lease whose holder still trains, or two jobs of one content).
ModelInPlace ==
    /\ \A r \in Trainings : training[r].status = "succeeded" => training[r].model \in artifacts
    /\ \A w \in Trainers :
          trainer[w].at = "failing" => Content(w) = NoModel \/ trainer[w].crowded

\* What JobLifecycle says of a row: the turns left are those not taken.
TrainingLife(job) ==
    [phase |-> job.status, left |-> IF job.status = "absent" THEN 0 ELSE MaxTries - Len(job.tries)]

TrainingLifecycle ==
    INSTANCE JobLifecycle WITH
        Jobs <- Trainings, life <- [r \in Trainings |-> TrainingLife(training[r])]

\* The training queue keeps the promise of the durable queue.
TrainingKeepsLifecycle == TrainingLifecycle!Spec

\* A job that was accepted gets its outcome, whatever crashes, stalls or is lost.
TrainingEnds ==
    \A r \in Trainings : training[r].status = "queued" ~> training[r].status \in Over
=============================================================================
