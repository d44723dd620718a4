------------------------ MODULE TrainingJobs_proofs ------------------------
(***************************************************************************)
(* Proofs about TrainingJobs, for any number of jobs, workers and tries.   *)
(* First what an operation makes of one row, then of all rows, then of the *)
(* workers that hold them.                                                 *)
(***************************************************************************)
EXTENDS TrainingJobs, SequenceTheorems, TLAPS

\* A queued job has a try left, a running one has begun one.
Fits(job) ==
    /\ Len(job.tries) <= MaxTries
    /\ job.status = "absent" => job.tries = <<>>
    /\ job.status = "queued" => Len(job.tries) < MaxTries
    /\ job.status = "running" => Len(job.tries) > 0

GoodRow(job) == job \in TrainingRow /\ Fits(job)

\* What a step may make of a row
RowStep(old, new) ==
    /\ GoodRow(new)
    /\ Len(old.tries) <= Len(new.tries)
    /\ old.status # "absent" => new.status # "absent" /\ new.model = old.model
    /\ TrainingLife(new) = TrainingLife(old) \/ TrainingLifecycle!JobStep(TrainingLife(old), TrainingLife(new))

\* ... unless it reports a success
Unfinished(old, new) == RowStep(old, new) /\ (new.status = "succeeded" => old.status = "succeeded")

-----------------------------------------------------------------------------
(* One row *)

LEMMA RowFacts ==
    ASSUME NEW job, GoodRow(job)
    PROVE  /\ job.tries \in Seq(Try)
           /\ Len(job.tries) \in Nat
           /\ MaxTries \in Nat
           /\ job.model \in Versions \cup {NoModel}
           /\ job.status \in Over \cup {"absent", "queued", "running"}
  BY TrainingConstants DEF GoodRow, TrainingRow, TrainingConstants

LEMMA SameRow ==
    ASSUME NEW job, GoodRow(job)
    PROVE  Unfinished(job, job)
  BY RowFacts DEF Unfinished, RowStep

LEMMA LastReplaced ==
    ASSUME NEW tries \in Seq(Try), Len(tries) > 0, NEW try \in Try
    PROVE  /\ [tries EXCEPT ![Len(tries)] = try] \in Seq(Try)
           /\ Len([tries EXCEPT ![Len(tries)] = try]) = Len(tries)
  <1>1. Len(tries) \in 1 .. Len(tries)
    OBVIOUS
  <1> QED
    BY <1>1, ExceptSeq

\* A turn ends, with a result or for another try.
LEMMA EndedRow ==
    ASSUME NEW job, GoodRow(job), job.status = "running",
           NEW outcome \in Over \cup {"lease_expired"},
           NEW status \in Over \cup {"queued"},
           status = "queued" => Len(job.tries) < MaxTries
    PROVE  RowStep(job, EndedTry(job, outcome, status)) /\ EndedTry(job, outcome, status).status = status
  <1> DEFINE new == EndedTry(job, outcome, status)
  <1>1. /\ job.tries \in Seq(Try) /\ Len(job.tries) \in Nat /\ MaxTries \in Nat
        /\ job.model \in Versions \cup {NoModel}
        /\ Len(job.tries) > 0 /\ Len(job.tries) <= MaxTries
    BY RowFacts DEF GoodRow, Fits
  <1>2. [status |-> outcome, lapsed |-> FALSE] \in Try
    BY DEF Try
  <1>3. new.tries \in Seq(Try) /\ Len(new.tries) = Len(job.tries)
    BY <1>1, <1>2, LastReplaced DEF EndedTry
  <1>4. /\ new = [status |-> status, model |-> job.model, tries |-> new.tries]
        /\ new.status = status /\ new.model = job.model
    BY DEF EndedTry
  <1> HIDE DEF new
  <1>5. new \in TrainingRow
    BY <1>1, <1>3, <1>4 DEF TrainingRow
  <1>6. status \notin {"absent", "running"}
    BY DEF Over
  <1>7. Fits(new)
    BY <1>1, <1>3, <1>4, <1>6 DEF Fits
  <1>8. /\ TrainingLife(job) = [phase |-> "running", left |-> MaxTries - Len(job.tries)]
        /\ TrainingLife(new) = [phase |-> status, left |-> MaxTries - Len(job.tries)]
    BY <1>3, <1>4, <1>6 DEF TrainingLife
  <1>9. status = "queued" => MaxTries - Len(job.tries) > 0
    BY <1>1
  <1>10. TrainingLifecycle!JobStep(TrainingLife(job), TrainingLife(new))
    BY <1>8, <1>9 DEF Over, TrainingLifecycle!JobStep, TrainingLifecycle!EndTurn
  <1> QED
    BY <1>1, <1>3, <1>4, <1>5, <1>6, <1>7, <1>10 DEF RowStep, GoodRow, new

LEMMA RequeuedStatus ==
    ASSUME NEW job
    PROVE  Requeued(job) \in {"queued", "failed"} /\ (Requeued(job) = "queued" => Len(job.tries) < MaxTries)
  BY DEF Requeued

\* An attempt begins: of a queued job, or of one whose lapsed attempt has just been closed.
LEMMA NewTryRow ==
    ASSUME NEW old, NEW job, GoodRow(old), GoodRow(job), Len(job.tries) < MaxTries,
           Len(job.tries) = Len(old.tries), job.model = old.model,
           old.status \in {"queued", "running"}
    PROVE  /\ Unfinished(old, NewTry(job))
           /\ Len(NewTry(job).tries) = Len(job.tries) + 1
           /\ NewTry(job).status = "running"
  <1> DEFINE new == NewTry(job)
  <1>1. /\ job.tries \in Seq(Try) /\ Len(job.tries) \in Nat /\ MaxTries \in Nat
        /\ job.model \in Versions \cup {NoModel}
    BY RowFacts
  <1>2. [status |-> "running", lapsed |-> FALSE] \in Try
    BY DEF Try
  <1>3. new.tries \in Seq(Try) /\ Len(new.tries) = Len(job.tries) + 1
    BY <1>1, <1>2, AppendProperties DEF NewTry
  <1>4. /\ new = [status |-> "running", model |-> job.model, tries |-> new.tries]
        /\ new.status = "running" /\ new.model = job.model
    BY DEF NewTry
  <1> HIDE DEF new
  <1>5. new \in TrainingRow
    BY <1>1, <1>3, <1>4 DEF TrainingRow
  <1>6. Len(new.tries) <= MaxTries /\ Len(new.tries) > 0 /\ Len(old.tries) <= Len(new.tries)
    BY <1>1, <1>3
  <1>7. Fits(new)
    BY <1>4, <1>6 DEF Fits
  <1>8. /\ TrainingLife(old) = [phase |-> old.status, left |-> MaxTries - Len(job.tries)]
        /\ TrainingLife(new) = [phase |-> "running", left |-> MaxTries - (Len(job.tries) + 1)]
    BY <1>3, <1>4 DEF TrainingLife
  <1>9. /\ MaxTries - Len(job.tries) > 0
        /\ MaxTries - (Len(job.tries) + 1) = (MaxTries - Len(job.tries)) - 1
    BY <1>1
  <1>10. TrainingLifecycle!JobStep(TrainingLife(old), TrainingLife(new))
    BY <1>8, <1>9 DEF TrainingLifecycle!JobStep, TrainingLifecycle!BeginTurn
  <1> QED
    BY <1>3, <1>4, <1>5, <1>6, <1>7, <1>10 DEF Unfinished, RowStep, GoodRow, new

LEMMA LapsedRow ==
    ASSUME NEW job, GoodRow(job), job.status = "running"
    PROVE  Unfinished(job, LapsedTry(job))
  <1> DEFINE new == LapsedTry(job)
  <1>1. /\ job.tries \in Seq(Try) /\ Len(job.tries) \in Nat /\ MaxTries \in Nat
        /\ job.model \in Versions \cup {NoModel}
        /\ Len(job.tries) > 0 /\ Len(job.tries) <= MaxTries
    BY RowFacts DEF GoodRow, Fits
  <1>2. [status |-> "running", lapsed |-> TRUE] \in Try
    BY DEF Try
  <1>3. new.tries \in Seq(Try) /\ Len(new.tries) = Len(job.tries)
    BY <1>1, <1>2, LastReplaced DEF LapsedTry
  <1>4. /\ new = [status |-> "running", model |-> job.model, tries |-> new.tries]
        /\ new.status = "running" /\ new.model = job.model
    BY DEF LapsedTry
  <1> HIDE DEF new
  <1>5. GoodRow(new)
    BY <1>1, <1>3, <1>4 DEF GoodRow, TrainingRow, Fits
  <1>6. TrainingLife(new) = TrainingLife(job)
    BY <1>3, <1>4 DEF TrainingLife
  <1> QED
    BY <1>1, <1>3, <1>4, <1>5, <1>6 DEF Unfinished, RowStep, new

LEMMA CancelledRow ==
    ASSUME NEW job, GoodRow(job), job.status = "queued"
    PROVE  Unfinished(job, WithStatus(job, "cancelled"))
  <1> DEFINE new == WithStatus(job, "cancelled")
  <1>1. /\ job.tries \in Seq(Try) /\ Len(job.tries) \in Nat /\ MaxTries \in Nat
        /\ job.model \in Versions \cup {NoModel}
        /\ Len(job.tries) <= MaxTries
    BY RowFacts DEF GoodRow, Fits
  <1>2. /\ new = [status |-> "cancelled", model |-> job.model, tries |-> job.tries]
        /\ new.status = "cancelled" /\ new.model = job.model /\ new.tries = job.tries
    BY DEF WithStatus
  <1> HIDE DEF new
  <1>3. GoodRow(new)
    BY <1>1, <1>2 DEF GoodRow, TrainingRow, Fits, Over
  <1>4. /\ TrainingLife(job) = [phase |-> "queued", left |-> MaxTries - Len(job.tries)]
        /\ TrainingLife(new) = [phase |-> "cancelled", left |-> MaxTries - Len(job.tries)]
    BY <1>2 DEF TrainingLife
  <1>5. TrainingLifecycle!JobStep(TrainingLife(job), TrainingLife(new))
    BY <1>4 DEF TrainingLifecycle!JobStep, TrainingLifecycle!Withdraw
  <1> QED
    BY <1>1, <1>2, <1>3, <1>5 DEF Unfinished, RowStep, new

LEMMA EnqueuedRow ==
    ASSUME NEW job, GoodRow(job), job.status = "absent", NEW model \in Versions \cup {NoModel}
    PROVE  Unfinished(job, [status |-> "queued", model |-> model, tries |-> <<>>])
  <1> DEFINE new == [status |-> "queued", model |-> model, tries |-> <<>>]
  <1>1. /\ MaxTries \in Nat /\ MaxTries > 0
        /\ job.tries = <<>> /\ Len(job.tries) = 0 /\ <<>> \in Seq(Try)
    BY TrainingConstants DEF TrainingConstants, GoodRow, Fits
  <1>2. GoodRow(new)
    BY <1>1 DEF GoodRow, TrainingRow, Fits
  <1>3. /\ TrainingLife(job) = [phase |-> "absent", left |-> 0]
        /\ TrainingLife(new) = [phase |-> "queued", left |-> MaxTries]
    BY <1>1 DEF TrainingLife
  <1>4. TrainingLifecycle!JobStep(TrainingLife(job), TrainingLife(new))
    BY <1>1, <1>3 DEF TrainingLifecycle!JobStep, TrainingLifecycle!Submit
  <1> QED
    BY <1>1, <1>2, <1>4 DEF Unfinished, RowStep

\* Recovery moves a row or leaves it, and begins no attempt.
LEMMA RecoveredRow ==
    ASSUME NEW job, GoodRow(job)
    PROVE  /\ Unfinished(job, Recovered(job))
           /\ Len(Recovered(job).tries) = Len(job.tries)
           /\ Recovered(job).model = job.model
           /\ Recovered(job).status = "queued" => job.status \in {"queued", "running"}
  <1>1. CASE Expired(job)
    <2>1. job.status = "running"
      BY <1>1 DEF Expired, Running
    <2>2. Requeued(job) \in Over \cup {"queued"} /\ Requeued(job) # "succeeded"
      BY RequeuedStatus DEF Over
    <2>3. /\ RowStep(job, EndedTry(job, "lease_expired", Requeued(job)))
          /\ EndedTry(job, "lease_expired", Requeued(job)).status = Requeued(job)
      BY <2>1, <2>2, RequeuedStatus, EndedRow
    <2>4. Len(job.tries) > 0 /\ job.tries \in Seq(Try)
      BY <2>1, RowFacts DEF GoodRow, Fits
    <2>5. [status |-> "lease_expired", lapsed |-> FALSE] \in Try
      BY DEF Try
    <2>6. Len(EndedTry(job, "lease_expired", Requeued(job)).tries) = Len(job.tries)
      BY <2>4, <2>5, LastReplaced DEF EndedTry
    <2>7. EndedTry(job, "lease_expired", Requeued(job)).model = job.model
      BY DEF EndedTry
    <2>8. Recovered(job) = EndedTry(job, "lease_expired", Requeued(job))
      BY <1>1 DEF Recovered
    <2> QED
      BY <2>1, <2>2, <2>3, <2>6, <2>7, <2>8 DEF Unfinished
  <1>2. CASE ~ Expired(job)
    BY <1>2, SameRow DEF Recovered
  <1> QED
    BY <1>1, <1>2

-----------------------------------------------------------------------------
(* All rows *)

RowsInv ==
    /\ training = [r \in Trainings |-> training[r]]
    /\ \A r \in Trainings : GoodRow(training[r])

\* Every row moves; those that come to succeed are not looked at.
Rows == RowsInv' /\ \A r \in Trainings : RowStep(training[r], training'[r])

NoneSucceeds == \A r \in Trainings : training'[r].status = "succeeded" => training[r].status = "succeeded"

LEMMA OneRowMoves ==
    ASSUME RowsInv, NEW r \in Trainings, NEW new, RowStep(training[r], new),
           training' = [training EXCEPT ![r] = new]
    PROVE  Rows /\ training'[r] = new /\ \A q \in Trainings \ {r} : training'[q] = training[q]
  <1>1. /\ training' = [q \in Trainings |-> IF q = r THEN new ELSE training[q]]
        /\ training' = [q \in Trainings |-> training'[q]]
    BY DEF RowsInv
  <1>2. training'[r] = new /\ \A q \in Trainings \ {r} : training'[q] = training[q]
    BY <1>1
  <1>3. ASSUME NEW q \in Trainings
        PROVE  RowStep(training[q], training'[q]) /\ GoodRow(training'[q])
    BY <1>2, SameRow DEF RowsInv, Unfinished, RowStep
  <1> QED
    BY <1>1, <1>2, <1>3 DEF Rows, RowsInv

LEMMA RowsRest ==
    ASSUME RowsInv, UNCHANGED training
    PROVE  Rows /\ NoneSucceeds
  BY SameRow DEF RowsInv, Rows, NoneSucceeds, Unfinished

-----------------------------------------------------------------------------
(* The workers *)

Handling(x) == x.at \in {"training", "writing"}

\* What a worker may rely on while it holds an attempt of this row, with these models done
Holding(x, job, done) ==
    x.at # "idle" =>
        /\ job.status # "absent"
        /\ x.try <= Len(job.tries)
        /\ Handling(x) => job.model # NoModel
        /\ x.at = "writing" /\ job.model \in done => x.crowded = TRUE
        /\ x.at = "reporting" => job.model \in done
        /\ x.at = "failing" => job.model = NoModel \/ x.crowded = TRUE

\* Two workers in their handlers for one model know of it.
Crowded(x, y, jobX, jobY) == Handling(x) /\ Handling(y) /\ jobX.model = jobY.model => x.crowded = TRUE

WorkersInv ==
    /\ trainer \in [Trainers -> Work \cup {Resting}]
    /\ artifacts \subseteq Versions
    /\ \A w \in Trainers : Holding(trainer[w], training[trainer[w].request], artifacts)
    /\ \A v, w \in Trainers : v # w =>
          Crowded(trainer[v], trainer[w], training[trainer[v].request], training[trainer[w].request])

DoneInv == \A r \in Trainings : training[r].status = "succeeded" => training[r].model \in artifacts

TrainingInv == RowsInv /\ WorkersInv /\ DoneInv

LEMMA WorkFacts ==
    ASSUME NEW x \in Work \cup {Resting}
    PROVE  /\ x.at # "idle" => x \in Work /\ x.request \in Trainings /\ x.try \in 1 .. MaxTries
           /\ x.crowded \in BOOLEAN
           /\ Handling(x) => x.at # "idle"
  <1>1. CASE x \in Work
    BY <1>1 DEF Work, Handling
  <1>2. CASE x = Resting
    <2>1. x.at = "idle" /\ x.crowded = FALSE
      BY <1>2 DEF Resting
    <2> QED
      BY <2>1 DEF Handling
  <1> QED
    BY <1>1, <1>2

\* The row a worker holds keeps its model, however it moves.
LEMMA ContentStays ==
    ASSUME TrainingInv, Rows, NEW w \in Trainers, trainer[w].at # "idle"
    PROVE  /\ trainer[w].request \in Trainings
           /\ training'[trainer[w].request].model = training[trainer[w].request].model
           /\ training'[trainer[w].request].status # "absent"
           /\ trainer[w].try <= Len(training'[trainer[w].request].tries)
           /\ trainer[w].try <= Len(training[trainer[w].request].tries)
  <1> DEFINE r == trainer[w].request
  <1>1. r \in Trainings /\ trainer[w].try \in 1 .. MaxTries
    BY WorkFacts DEF TrainingInv, WorkersInv
  <1>2. training[r].status # "absent" /\ trainer[w].try <= Len(training[r].tries)
    BY DEF TrainingInv, WorkersInv, Holding
  <1>3. RowStep(training[r], training'[r]) /\ GoodRow(training[r]) /\ GoodRow(training'[r])
    BY <1>1 DEF Rows, RowsInv, TrainingInv
  <1>4. /\ training'[r].model = training[r].model /\ training'[r].status # "absent"
        /\ Len(training[r].tries) <= Len(training'[r].tries)
    BY <1>2, <1>3 DEF RowStep
  <1>5. Len(training[r].tries) \in Nat /\ Len(training'[r].tries) \in Nat
    BY <1>3, RowFacts
  <1>6. trainer[w].try <= Len(training'[r].tries)
    BY <1>1, <1>2, <1>4, <1>5
  <1> QED
    BY <1>1, <1>2, <1>4, <1>6

LEMMA HoldingStays ==
    ASSUME TrainingInv, Rows, NEW w \in Trainers
    PROVE  Holding(trainer[w], training'[trainer[w].request], artifacts)
  BY ContentStays DEF Holding, TrainingInv, WorkersInv, Handling

LEMMA CrowdedStays ==
    ASSUME TrainingInv, Rows, NEW v \in Trainers, NEW w \in Trainers, v # w
    PROVE  Crowded(trainer[v], trainer[w], training'[trainer[v].request], training'[trainer[w].request])
  BY ContentStays DEF Crowded, TrainingInv, WorkersInv, Handling

LEMMA WorkersRest ==
    ASSUME TrainingInv, Rows, UNCHANGED <<trainer, artifacts>>
    PROVE  WorkersInv'
  BY HoldingStays, CrowdedStays DEF TrainingInv, WorkersInv

\* A worker goes on; it enters no handler.
LEMMA OneWorkerMoves ==
    ASSUME TrainingInv, Rows, NEW w \in Trainers, NEW new \in Work \cup {Resting},
           trainer' = [trainer EXCEPT ![w] = new], UNCHANGED artifacts,
           Holding(new, training'[new.request], artifacts),
           Handling(new) =>
              Handling(trainer[w]) /\ new.request = trainer[w].request /\ new.crowded = trainer[w].crowded
    PROVE  WorkersInv'
  <1>1. /\ trainer' \in [Trainers -> Work \cup {Resting}]
        /\ trainer'[w] = new
        /\ \A v \in Trainers \ {w} : trainer'[v] = trainer[v]
    BY DEF TrainingInv, WorkersInv
  <1>2. ASSUME NEW v \in Trainers
        PROVE  Holding(trainer'[v], training'[trainer'[v].request], artifacts')
    BY <1>1, HoldingStays
  <1>3. ASSUME NEW u \in Trainers, NEW v \in Trainers, u # v
        PROVE  Crowded(trainer'[u], trainer'[v], training'[trainer'[u].request], training'[trainer'[v].request])
    <2>1. CASE u # w /\ v # w
      BY <1>1, <1>3, <2>1, CrowdedStays
    <2>2. CASE u = w
      BY <1>1, <1>3, <2>2, CrowdedStays DEF Crowded
    <2>3. CASE v = w
      BY <1>1, <1>3, <2>3, CrowdedStays DEF Crowded
    <2> QED
      BY <2>1, <2>2, <2>3
  <1>4. artifacts' \subseteq Versions
    BY DEF TrainingInv, WorkersInv
  <1> QED
    BY <1>1, <1>2, <1>3, <1>4 DEF WorkersInv

LEMMA DoneStays ==
    ASSUME TrainingInv, Rows, artifacts \subseteq artifacts',
           \A r \in Trainings : training'[r].status = "succeeded" =>
              training[r].status = "succeeded" \/ training'[r].model \in artifacts
    PROVE  DoneInv'
  <1> SUFFICES ASSUME NEW r \in Trainings, training'[r].status = "succeeded", training[r].status = "succeeded"
               PROVE  training'[r].model \in artifacts'
    BY DEF DoneInv
  <1>1. training'[r].model = training[r].model
    BY DEF Rows, RowStep
  <1> QED
    BY <1>1 DEF TrainingInv, DoneInv

-----------------------------------------------------------------------------
(* Clients *)

Preserved == Rows /\ WorkersInv' /\ DoneInv'

LEMMA RowAlone ==
    ASSUME TrainingInv, NEW r \in Trainings, NEW new, Unfinished(training[r], new),
           training' = [training EXCEPT ![r] = new], UNCHANGED <<trainer, artifacts>>
    PROVE  Preserved
  <1>1. /\ Rows
        /\ training'[r] = new
        /\ \A q \in Trainings \ {r} : training'[q] = training[q]
    BY OneRowMoves DEF TrainingInv, Unfinished
  <1>2. WorkersInv'
    BY <1>1, WorkersRest
  <1>3. DoneInv'
    BY <1>1, DoneStays DEF Unfinished
  <1> QED
    BY <1>1, <1>2, <1>3 DEF Preserved

LEMMA ClientsPreserve ==
    ASSUME TrainingInv, NEW r \in Trainings,
           (\E model \in Versions \cup {NoModel} : EnqueueTraining(r, model)) \/ CancelTraining(r) \/ Lapse(r)
    PROVE  Preserved
  <1>1. GoodRow(training[r])
    BY DEF TrainingInv, RowsInv
  <1>2. CASE \E model \in Versions \cup {NoModel} : EnqueueTraining(r, model)
    <2> PICK model \in Versions \cup {NoModel} : EnqueueTraining(r, model)
      BY <1>2
    <2>1. Unfinished(training[r], [status |-> "queued", model |-> model, tries |-> <<>>])
      BY <1>1, EnqueuedRow DEF EnqueueTraining
    <2> QED
      BY <2>1, RowAlone DEF EnqueueTraining
  <1>3. CASE CancelTraining(r) /\ training[r].status = "running"
    <2>1. Unfinished(training[r], EndedTry(training[r], "cancelled", "cancelled"))
      BY <1>1, <1>3, EndedRow DEF Unfinished, Over
    <2> QED
      BY <1>3, <2>1, RowAlone DEF CancelTraining
  <1>4. CASE CancelTraining(r) /\ training[r].status # "running"
    <2>1. Unfinished(training[r], WithStatus(training[r], "cancelled"))
      BY <1>1, <1>4, CancelledRow DEF CancelTraining
    <2> QED
      BY <1>4, <2>1, RowAlone DEF CancelTraining
  <1>5. CASE Lapse(r)
    <2>1. Unfinished(training[r], LapsedTry(training[r]))
      BY <1>1, <1>5, LapsedRow DEF Lapse, Running
    <2> QED
      BY <1>5, <2>1, RowAlone DEF Lapse
  <1> QED
    BY <1>2, <1>3, <1>4, <1>5

-----------------------------------------------------------------------------
(* run_once *)

\* Recovery of all rows, after which one of them may be given a new attempt
LEMMA RecoveredRows ==
    ASSUME TrainingInv,
           training' = [q \in Trainings |-> training'[q]],
           \A q \in Trainings :
              \/ training'[q] = Recovered(training[q])
              \/ /\ training'[q] = NewTry(Recovered(training[q]))
                 /\ Recovered(training[q]).status = "queued"
    PROVE  Rows /\ NoneSucceeds
  <1>1. ASSUME NEW q \in Trainings
        PROVE  Unfinished(training[q], training'[q])
    <2>1. GoodRow(training[q])
      BY DEF TrainingInv, RowsInv
    <2>2. /\ Unfinished(training[q], Recovered(training[q]))
          /\ GoodRow(Recovered(training[q]))
      BY <2>1, RecoveredRow DEF Unfinished, RowStep
    <2>3. CASE training'[q] = Recovered(training[q])
      BY <2>2, <2>3
    <2>4. CASE /\ training'[q] = NewTry(Recovered(training[q]))
               /\ Recovered(training[q]).status = "queued"
      <3>1. Len(Recovered(training[q]).tries) < MaxTries
        BY <2>2, <2>4 DEF GoodRow, Fits
      <3> QED
        BY <2>1, <2>2, <2>4, <3>1, RecoveredRow, NewTryRow
    <2> QED
      BY <2>3, <2>4
  <1> QED
    BY <1>1 DEF Rows, RowsInv, NoneSucceeds, Unfinished, RowStep

LEMMA ClaimPreserves ==
    ASSUME TrainingInv, NEW w \in Trainers, Claim(w)
    PROVE  Preserved
  <1> DEFINE recovered == [q \in Trainings |-> Recovered(training[q])]
             queued == {q \in Trainings : recovered[q].status = "queued"}
  <1>1. UNCHANGED artifacts /\ trainer[w].at = "idle"
    BY DEF Claim
  <1>2. CASE queued = {}
    <2>1. training' = recovered /\ UNCHANGED trainer
      BY <1>2 DEF Claim
    <2>2. Rows /\ NoneSucceeds
      BY <2>1, RecoveredRows
    <2>3. WorkersInv' /\ DoneInv'
      BY <1>1, <2>1, <2>2, WorkersRest, DoneStays DEF NoneSucceeds
    <2> QED
      BY <2>2, <2>3 DEF Preserved
  <1>3. CASE queued # {}
    <2>1. PICK r \in queued :
             IF Len(recovered[r].tries) < MaxTries
             THEN /\ training' = [recovered EXCEPT ![r] = NewTry(recovered[r])]
                  /\ trainer' = [trainer EXCEPT ![w] =
                        [at |-> "claimed", request |-> r, try |-> Len(recovered[r].tries) + 1, crowded |-> FALSE]]
             ELSE /\ training' = [recovered EXCEPT ![r] = WithStatus(recovered[r], "failed")]
                  /\ UNCHANGED trainer
      BY <1>3 DEF Claim
    <2>2. r \in Trainings /\ recovered[r] = Recovered(training[r]) /\ recovered[r].status = "queued"
      OBVIOUS
    <2>3. GoodRow(training[r]) /\ GoodRow(recovered[r])
      BY <2>2, RecoveredRow DEF TrainingInv, RowsInv, Unfinished, RowStep
    <2>4. Len(recovered[r].tries) < MaxTries /\ Len(recovered[r].tries) \in Nat /\ MaxTries \in Nat
      BY <2>2, <2>3, RowFacts DEF GoodRow, Fits
    <2> DEFINE new == [at |-> "claimed", request |-> r, try |-> Len(recovered[r].tries) + 1, crowded |-> FALSE]
    <2>5. training' = [recovered EXCEPT ![r] = NewTry(recovered[r])] /\ trainer' = [trainer EXCEPT ![w] = new]
      BY <2>1, <2>4
    <2>6. /\ training' = [q \in Trainings |-> training'[q]]
          /\ training'[r] = NewTry(recovered[r])
          /\ \A q \in Trainings \ {r} : training'[q] = Recovered(training[q])
      BY <2>2, <2>5
    <2>7. Rows /\ NoneSucceeds
      BY <2>2, <2>6, RecoveredRows
    <2>8. /\ training'[r].status = "running"
          /\ Len(training'[r].tries) = Len(recovered[r].tries) + 1
      BY <2>2, <2>3, <2>4, <2>6, NewTryRow
    <2>9. Len(recovered[r].tries) + 1 \in 1 .. MaxTries
      BY <2>4
    <2>10. new \in Work
      BY <2>2, <2>9 DEF Work
    <2>11. new.at = "claimed" /\ new.request = r /\ new.try = Len(recovered[r].tries) + 1
      OBVIOUS
    <2> HIDE DEF new, recovered, queued
    <2>12. new.try <= Len(training'[new.request].tries)
      BY <2>8, <2>9, <2>11
    <2>13. Holding(new, training'[new.request], artifacts) /\ ~ Handling(new)
      BY <2>8, <2>11, <2>12 DEF Holding, Handling
    <2>14. WorkersInv'
      BY <1>1, <2>5, <2>7, <2>10, <2>13, OneWorkerMoves
    <2>15. DoneInv'
      BY <1>1, <2>7, DoneStays DEF NoneSucceeds
    <2> QED
      BY <2>7, <2>14, <2>15 DEF Preserved
  <1> QED
    BY <1>2, <1>3

\* A worker goes on with its attempt, and the rows stay.
LEMMA GoesOnPreserves ==
    ASSUME TrainingInv, NEW w \in Trainers, trainer[w].at # "idle",
           NEW at \in {"training", "writing", "reporting", "failing"}, Proceeds(w, at),
           at \in {"training", "writing"} => Handling(trainer[w]),
           LET model == Content(w)
           IN /\ at = "writing" => model \notin artifacts
              /\ at = "reporting" => model \in artifacts
              /\ at = "failing" => model = NoModel \/ trainer[w].crowded = TRUE
    PROVE  Preserved
  <1> DEFINE new == [trainer[w] EXCEPT !.at = at]
  <1>1. trainer' = [trainer EXCEPT ![w] = new] /\ UNCHANGED <<training, artifacts>>
    BY DEF Proceeds
  <1>2. trainer[w] \in Work
    BY WorkFacts DEF TrainingInv, WorkersInv
  <1>3. /\ new \in Work
        /\ new.at = at /\ new.request = trainer[w].request
        /\ new.try = trainer[w].try /\ new.crowded = trainer[w].crowded
    BY <1>2 DEF Work
  <1> HIDE DEF new
  <1>4. Rows /\ NoneSucceeds
    BY <1>1, RowsRest DEF TrainingInv
  <1>5. Holding(trainer[w], training[trainer[w].request], artifacts)
    BY DEF TrainingInv, WorkersInv
  <1>6. Holding(new, training'[new.request], artifacts)
    BY <1>1, <1>3, <1>5 DEF Holding, Handling, Content
  <1>7. Handling(new) => Handling(trainer[w])
    BY <1>3 DEF Handling
  <1>8. WorkersInv'
    BY <1>1, <1>3, <1>4, <1>6, <1>7, OneWorkerMoves
  <1>9. DoneInv'
    BY <1>1, <1>4, DoneStays DEF NoneSucceeds
  <1> QED
    BY <1>4, <1>8, <1>9 DEF Preserved

\* A worker that enters its handler and those it finds there know of each other.
LEMMA StartPreserves ==
    ASSUME TrainingInv, NEW w \in Trainers, Start(w)
    PROVE  Preserved
  <1>1. trainer[w].at = "claimed"
    BY DEF Start
  <1>2. CASE Content(w) = NoModel
    BY <1>1, <1>2, GoesOnPreserves DEF Start
  <1>3. CASE Content(w) # NoModel
    <2> DEFINE others == {v \in Trainers \ {w} : InHandler(v, Content(w))}
               new == [at |-> "training", request |-> trainer[w].request,
                       try |-> trainer[w].try, crowded |-> others # {}]
    <2>1. /\ trainer' = [v \in Trainers |->
                IF v = w THEN new
                ELSE IF v \in others THEN [trainer[v] EXCEPT !.crowded = TRUE]
                ELSE trainer[v]]
          /\ UNCHANGED <<training, artifacts>>
      BY <1>3 DEF Start
    <2>2. Rows /\ NoneSucceeds
      BY <2>1, RowsRest DEF TrainingInv
    <2>3. trainer[w] \in Work
      BY <1>1, WorkFacts DEF TrainingInv, WorkersInv
    <2>4. /\ new \in Work
          /\ new.at = "training" /\ new.request = trainer[w].request
          /\ new.try = trainer[w].try /\ new.crowded = (others # {})
      BY <2>3 DEF Work
    <2>5. ASSUME NEW v \in Trainers, v # w
          PROVE  /\ trainer'[v] \in Work \cup {Resting}
                 /\ trainer'[v].at = trainer[v].at /\ trainer'[v].request = trainer[v].request
                 /\ trainer'[v].try = trainer[v].try
                 /\ trainer'[v].crowded = TRUE \/ trainer'[v].crowded = trainer[v].crowded
                 /\ v \in others => trainer'[v].crowded = TRUE
      <3>1. CASE v \in others
        <4>1. trainer[v] \in Work
          BY <3>1, WorkFacts DEF TrainingInv, WorkersInv, InHandler, Handling
        <4>2. trainer'[v] = [trainer[v] EXCEPT !.crowded = TRUE]
          BY <2>1, <2>5, <3>1
        <4> QED
          BY <4>1, <4>2 DEF Work
      <3>2. CASE v \notin others
        <4>1. trainer'[v] = trainer[v]
          BY <2>1, <2>5, <3>2
        <4> QED
          BY <3>2, <4>1 DEF TrainingInv, WorkersInv
      <3> QED
        BY <3>1, <3>2
    <2>6. trainer'[w] = new
      BY <2>1
    <2>7. \A v \in Trainers \ {w} :
             v \in others <=> Handling(trainer[v]) /\ training[trainer[v].request].model = Content(w)
      BY DEF InHandler, Handling, Content
    <2>8. trainer' = [v \in Trainers |-> trainer'[v]]
      BY <2>1
    <2> HIDE DEF new, others
    <2>9. trainer' \in [Trainers -> Work \cup {Resting}]
      BY <2>4, <2>5, <2>6, <2>8
    <2>10. ASSUME NEW v \in Trainers
           PROVE  Holding(trainer'[v], training'[trainer'[v].request], artifacts')
      <3>1. Holding(trainer[v], training[trainer[v].request], artifacts)
        BY DEF TrainingInv, WorkersInv
      <3>2. CASE v = w
        BY <1>1, <1>3, <2>1, <2>4, <2>6, <3>1, <3>2 DEF Holding, Handling, Content
      <3>3. CASE v # w
        BY <2>1, <2>5, <3>1, <3>3 DEF Holding, Handling
      <3> QED
        BY <3>2, <3>3
    <2>11. ASSUME NEW u \in Trainers, NEW v \in Trainers, u # v
           PROVE  Crowded(trainer'[u], trainer'[v], training'[trainer'[u].request], training'[trainer'[v].request])
      <3>1. Crowded(trainer[u], trainer[v], training[trainer[u].request], training[trainer[v].request])
        BY <2>11 DEF TrainingInv, WorkersInv
      <3>2. CASE u # w /\ v # w
        BY <2>1, <2>5, <2>11, <3>1, <3>2 DEF Crowded, Handling
      <3>3. CASE u = w
        BY <2>1, <2>4, <2>5, <2>6, <2>7, <2>11, <3>3 DEF Crowded, Handling, Content
      <3>4. CASE v = w
        BY <2>1, <2>4, <2>5, <2>6, <2>7, <2>11, <3>4 DEF Crowded, Handling, Content
      <3> QED
        BY <3>2, <3>3, <3>4
    <2>12. WorkersInv'
      BY <2>1, <2>9, <2>10, <2>11 DEF WorkersInv, TrainingInv
    <2>13. DoneInv'
      BY <2>1, <2>2, DoneStays DEF NoneSucceeds
    <2> QED
      BY <2>2, <2>12, <2>13 DEF Preserved
  <1> QED
    BY <1>2, <1>3

LEMMA LookPreserves ==
    ASSUME TrainingInv, NEW w \in Trainers, Look(w)
    PROVE  Preserved
  BY GoesOnPreserves DEF Look, Handling

\* Only one of two workers that write the same model finds no directory.
LEMMA PublishPreserves ==
    ASSUME TrainingInv, NEW w \in Trainers, Publish(w)
    PROVE  Preserved
  <1> DEFINE model == Content(w)
             at == IF model \in artifacts THEN "failing" ELSE "reporting"
             new == [trainer[w] EXCEPT !.at = at]
  <1>1. /\ trainer[w].at = "writing"
        /\ trainer' = [trainer EXCEPT ![w] = new]
        /\ artifacts' = artifacts \cup {model}
        /\ UNCHANGED training
    BY DEF Publish
  <1>2. trainer[w] \in Work
    BY <1>1, WorkFacts DEF TrainingInv, WorkersInv
  <1>3. /\ new \in Work
        /\ new.at = at /\ new.request = trainer[w].request
        /\ new.try = trainer[w].try /\ new.crowded = trainer[w].crowded
    BY <1>2 DEF Work
  <1>4. Rows /\ NoneSucceeds
    BY <1>1, RowsRest DEF TrainingInv
  <1>5. Holding(trainer[w], training[trainer[w].request], artifacts)
    BY DEF TrainingInv, WorkersInv
  <1>6. model = training[trainer[w].request].model
    BY DEF Content
  <1>7. model \in Versions /\ trainer[w].request \in Trainings
    <2>1. trainer[w].request \in Trainings /\ model # NoModel
      BY <1>1, <1>2, <1>5, <1>6 DEF Work, Holding, Handling
    <2>2. GoodRow(training[trainer[w].request])
      BY <2>1 DEF TrainingInv, RowsInv
    <2> QED
      BY <1>6, <2>1, <2>2, RowFacts
  <1>8. /\ trainer' \in [Trainers -> Work \cup {Resting}]
        /\ trainer'[w] = new
        /\ \A v \in Trainers \ {w} : trainer'[v] = trainer[v]
    BY <1>1, <1>3 DEF TrainingInv, WorkersInv
  <1>9. (at = "failing" /\ model \in artifacts) \/ (at = "reporting" /\ model \notin artifacts)
    OBVIOUS
  <1> HIDE DEF model, at, new
  <1>10. ASSUME NEW v \in Trainers
         PROVE  Holding(trainer'[v], training'[trainer'[v].request], artifacts')
    <2>1. CASE v = w
      BY <1>1, <1>3, <1>5, <1>6, <1>8, <1>9, <2>1 DEF Holding, Handling
    <2>2. CASE v # w
      <3>1. /\ Holding(trainer[v], training[trainer[v].request], artifacts)
            /\ Crowded(trainer[v], trainer[w], training[trainer[v].request], training[trainer[w].request])
        BY <2>2 DEF TrainingInv, WorkersInv
      <3> QED
        BY <1>1, <1>6, <1>8, <2>2, <3>1 DEF Holding, Handling, Crowded
    <2> QED
      BY <2>1, <2>2
  <1>11. ASSUME NEW u \in Trainers, NEW v \in Trainers, u # v
         PROVE  Crowded(trainer'[u], trainer'[v], training'[trainer'[u].request], training'[trainer'[v].request])
    <2>1. Crowded(trainer[u], trainer[v], training[trainer[u].request], training[trainer[v].request])
      BY <1>11 DEF TrainingInv, WorkersInv
    <2>2. ~ Handling(new)
      BY <1>3, <1>9 DEF Handling
    <2> QED
      BY <1>1, <1>8, <2>1, <2>2 DEF Crowded
  <1>12. WorkersInv'
    BY <1>1, <1>7, <1>8, <1>10, <1>11 DEF WorkersInv, TrainingInv
  <1>13. DoneInv'
    BY <1>1, <1>4, DoneStays DEF NoneSucceeds
  <1> QED
    BY <1>4, <1>12, <1>13 DEF Preserved

\* A worker is done with its attempt.
LEMMA RestPreserves ==
    ASSUME TrainingInv, Rows, NEW w \in Trainers, Rests(w), UNCHANGED artifacts
    PROVE  WorkersInv'
  <1>1. Holding(Resting, training'[Resting.request], artifacts) /\ ~ Handling(Resting)
    BY DEF Holding, Handling, Resting
  <1> QED
    BY <1>1, OneWorkerMoves DEF Rests

LEMMA OwnedRow ==
    ASSUME TrainingInv, NEW w \in Trainers, trainer[w].at # "idle", OwnsTry(w)
    PROVE  /\ trainer[w].request \in Trainings
           /\ GoodRow(training[trainer[w].request])
           /\ training[trainer[w].request].status = "running"
  <1>1. trainer[w].request \in Trainings
    BY WorkFacts DEF TrainingInv, WorkersInv
  <1> QED
    BY <1>1 DEF TrainingInv, RowsInv, OwnsTry, Running

\* A worker rests, and reports an end of its attempt if it still owns it.
LEMMA ReportPreserves ==
    ASSUME TrainingInv, NEW w \in Trainers, trainer[w].at # "idle", Rests(w), UNCHANGED artifacts,
           NEW outcome \in Over, NEW status \in Over \cup {"queued"},
           status = "queued" => Len(training[trainer[w].request].tries) < MaxTries,
           status = "succeeded" => Content(w) \in artifacts,
           \/ UNCHANGED training
           \/ OwnsTry(w) /\ training' = [training EXCEPT ![trainer[w].request] =
                 EndedTry(training[trainer[w].request], outcome, status)]
    PROVE  Preserved
  <1> DEFINE r == trainer[w].request
             new == EndedTry(training[r], outcome, status)
  <1>1. CASE UNCHANGED training
    <2>1. Rows /\ NoneSucceeds
      BY <1>1, RowsRest DEF TrainingInv
    <2> QED
      BY <2>1, RestPreserves, DoneStays DEF NoneSucceeds, Preserved
  <1>2. CASE OwnsTry(w) /\ training' = [training EXCEPT ![r] = new]
    <2>1. r \in Trainings /\ GoodRow(training[r]) /\ training[r].status = "running"
      BY <1>2, OwnedRow
    <2>2. RowStep(training[r], new) /\ new.status = status
      BY <2>1, EndedRow
    <2>3. new.model = Content(w)
      BY DEF EndedTry, Content
    <2> HIDE DEF new
    <2>4. Rows /\ training'[r] = new /\ \A q \in Trainings \ {r} : training'[q] = training[q]
      BY <1>2, <2>1, <2>2, OneRowMoves DEF TrainingInv
    <2>5. WorkersInv'
      BY <2>4, RestPreserves
    <2>6. DoneInv'
      BY <2>2, <2>3, <2>4, DoneStays
    <2> QED
      BY <2>4, <2>5, <2>6 DEF Preserved
  <1> QED
    BY <1>1, <1>2

LEMMA EndsPreserve ==
    ASSUME TrainingInv, NEW w \in Trainers,
           GiveUp(w) \/ ReportSuccess(w) \/ ReportFailure(w) \/ RegistrationFails(w) \/ FailRetryably(w) \/ TrainerDies(w)
    PROVE  Preserved
  <1>1. CASE GiveUp(w) \/ TrainerDies(w)
    <2>1. trainer[w].at # "idle" /\ Rests(w) /\ UNCHANGED <<training, artifacts>>
      BY <1>1 DEF GiveUp, TrainerDies
    <2> QED
      BY <2>1, ReportPreserves DEF Over
  <1>2. CASE ReportSuccess(w)
    <2>1. /\ trainer[w].at = "reporting" /\ Rests(w) /\ UNCHANGED artifacts
          /\ \/ UNCHANGED training
             \/ OwnsTry(w) /\ training' = [training EXCEPT ![trainer[w].request] =
                   EndedTry(training[trainer[w].request], "succeeded", "succeeded")]
      BY <1>2 DEF ReportSuccess, Reported
    <2>2. Content(w) \in artifacts
      BY <2>1 DEF TrainingInv, WorkersInv, Holding, Content
    <2> QED
      BY <2>1, <2>2, ReportPreserves DEF Over
  <1>3. CASE ReportFailure(w) \/ RegistrationFails(w)
    <2>1. /\ trainer[w].at \in {"failing", "reporting"} /\ Rests(w) /\ UNCHANGED artifacts
          /\ \/ UNCHANGED training
             \/ OwnsTry(w) /\ training' = [training EXCEPT ![trainer[w].request] =
                   EndedTry(training[trainer[w].request], "failed", "failed")]
      BY <1>3 DEF ReportFailure, RegistrationFails, Reported
    <2> QED
      BY <2>1, ReportPreserves DEF Over
  <1>4. CASE FailRetryably(w)
    <2> DEFINE status == Requeued(training[trainer[w].request])
    <2>1. /\ trainer[w].at = "training" /\ Rests(w) /\ UNCHANGED artifacts
          /\ OwnsTry(w)
          /\ training' = [training EXCEPT ![trainer[w].request] =
                EndedTry(training[trainer[w].request], "failed", status)]
      BY <1>4 DEF FailRetryably
    <2>2. /\ status \in Over \cup {"queued"} /\ status # "succeeded"
          /\ status = "queued" => Len(training[trainer[w].request].tries) < MaxTries
      BY RequeuedStatus DEF Over
    <2> HIDE DEF status
    <2>3. "failed" \in Over
      BY DEF Over
    <2> QED
      BY <2>1, <2>2, <2>3, ReportPreserves
  <1> QED
    BY <1>1, <1>2, <1>3, <1>4

-----------------------------------------------------------------------------
(* Theorems *)

LEMMA InitInv ==
    ASSUME TrainingInit
    PROVE  TrainingInv
  <1>1. /\ MaxTries \in Nat
        /\ <<>> \in Seq(Try) /\ Len(<<>>) = 0
    BY TrainingConstants DEF TrainingConstants
  <1>2. \A r \in Trainings : training[r] = [status |-> "absent", model |-> NoModel, tries |-> <<>>]
    BY DEF TrainingInit
  <1>3. RowsInv
    BY <1>1, <1>2 DEF RowsInv, TrainingInit, GoodRow, TrainingRow, Fits
  <1>4. \A w \in Trainers : trainer[w] = Resting /\ trainer[w].at = "idle"
    BY DEF TrainingInit, Resting
  <1>5. WorkersInv
    BY <1>4 DEF WorkersInv, TrainingInit, Holding, Crowded, Handling
  <1>6. DoneInv
    BY <1>2 DEF DoneInv
  <1> QED
    BY <1>3, <1>5, <1>6 DEF TrainingInv

LEMMA StepPreserves ==
    ASSUME TrainingInv, TrainingNext
    PROVE  Preserved
  <1>1. CASE \E r \in Trainings :
                (\E model \in Versions \cup {NoModel} : EnqueueTraining(r, model)) \/ CancelTraining(r) \/ Lapse(r)
    BY <1>1, ClientsPreserve
  <1>2. ASSUME NEW w \in Trainers, RunOnce(w) \/ RegistrationFails(w) \/ FailRetryably(w) \/ TrainerDies(w)
        PROVE  Preserved
    BY <1>2, ClaimPreserves, StartPreserves, LookPreserves, PublishPreserves, EndsPreserve DEF RunOnce
  <1> QED
    BY <1>1, <1>2 DEF TrainingNext

LEMMA Inductive ==
    ASSUME TrainingInv, [TrainingNext]_trainingVars
    PROVE  TrainingInv' /\ Rows
  <1>1. CASE TrainingNext
    BY <1>1, StepPreserves DEF Preserved, Rows, TrainingInv
  <1>2. CASE UNCHANGED trainingVars
    <2>1. UNCHANGED <<training, trainer, artifacts>>
      BY <1>2 DEF trainingVars
    <2>2. Rows /\ NoneSucceeds
      BY <2>1, RowsRest DEF TrainingInv
    <2>3. WorkersInv' /\ DoneInv'
      BY <2>1, <2>2, WorkersRest, DoneStays DEF NoneSucceeds
    <2> QED
      BY <2>2, <2>3 DEF Rows, TrainingInv
  <1> QED
    BY <1>1, <1>2

LEMMA Invariance == TrainingSpec => []TrainingInv
<1>1. TrainingInit => TrainingInv
  BY InitInv
<1>2. TrainingInv /\ [TrainingNext]_trainingVars => TrainingInv'
  BY Inductive
<1> QED BY <1>1, <1>2, PTL DEF TrainingSpec

\* Every reachable state of jobs, workers and model directories is well typed.
THEOREM TrainingTypeCorrect == TrainingSpec => []TrainingTypeOK
<1>1. TrainingInv => TrainingTypeOK
  BY DEF TrainingInv, TrainingTypeOK, RowsInv, WorkersInv, Holding, GoodRow, Fits
<1> QED BY <1>1, Invariance, PTL

\* Whatever attempts overlap, a job that succeeded has its model directory, and a good one
\* fails only beside another handler of its model.
THEOREM ModelsInPlace == TrainingSpec => []ModelInPlace
<1>1. TrainingInv => ModelInPlace
  BY DEF TrainingInv, ModelInPlace, WorkersInv, DoneInv, Holding, Content
<1> QED BY <1>1, Invariance, PTL

\* The training queue keeps the promise of JobLifecycle for every number of jobs, workers
\* and tries.
THEOREM TrainingImplementsLifecycle == TrainingSpec => TrainingKeepsLifecycle
<1>1. TrainingInit => TrainingLifecycle!Init
  BY DEF TrainingInit, TrainingLifecycle!Init, TrainingLife
<1>2. TrainingInv /\ [TrainingNext]_trainingVars =>
         [TrainingLifecycle!Next]_([r \in Trainings |-> TrainingLife(training[r])])
  <2> SUFFICES ASSUME TrainingInv, [TrainingNext]_trainingVars
               PROVE  TrainingLifecycle!Next
    OBVIOUS
  <2>1. \A r \in Trainings : RowStep(training[r], training'[r])
    BY Inductive DEF Rows
  <2> QED
    BY <2>1 DEF RowStep, TrainingLifecycle!Next
<1> QED BY <1>1, <1>2, Invariance, PTL DEF TrainingSpec, TrainingKeepsLifecycle, TrainingLifecycle!Spec
=============================================================================
