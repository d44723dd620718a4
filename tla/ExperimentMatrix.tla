--------------------------- MODULE ExperimentMatrix ---------------------------
(***************************************************************************)
(* The experiment runner (recsys/experiments/phase7a.py): it claims an     *)
(* output root, trains the experiments of a matrix in order, selects one   *)
(* by its validation metric, trains that again and reads the test split    *)
(* once.  What it does is recorded in run.json, replaced as a whole; a     *)
(* runner that fails marks the record of its run_id, even if another one   *)
(* has the root.  Training is deterministic: a configuration has a metric. *)
(***************************************************************************)
EXTENDS Naturals, Sequences, SequencesExt

CONSTANTS
    Runners,      \* processes, each called once
    RunIds,
    Matrix,       \* experiment ids, in their order
    ConfigOf,     \* resolved configuration of each experiment
    Metrics,
    NoRunner, NoExperiment, NoRunRecord

VARIABLES
    scores,      \* the validation metric of each configuration
    marker,      \* who has claimed the output root
    runDirs,     \* run directories in it
    runRecord,   \* run.json of each
    runner,      \* the processes
    tested       \* history: readings of the test split

experimentVars == <<scores, marker, runDirs, runRecord, runner, tested>>

-----------------------------------------------------------------------------

Experiments == ToSet(Matrix)

ASSUME ExperimentConstants ==
    /\ Matrix \in Seq(Nat)
    /\ Metrics \subseteq Nat
    /\ NoExperiment \notin Experiments
    /\ NoRunner \notin Runners \cup RunIds

Stopped == {"idle", "done"}

ExperimentsInit ==
    /\ scores \in [{ConfigOf[e] : e \in Experiments} -> Metrics]
    /\ marker = NoRunner
    /\ runDirs = {}
    /\ runRecord = [id \in RunIds |-> NoRunRecord]
    /\ runner = [r \in Runners |->
          [at |-> "idle", id |-> NoRunner, existed |-> FALSE, record |-> NoRunRecord, best |-> NoExperiment]]
    /\ tested = {}

ExperimentsTypeOK ==
    /\ marker \in Runners \cup {NoRunner}
    /\ runDirs \subseteq RunIds
    /\ \A id \in RunIds : runRecord[id] # NoRunRecord =>
          id \in runDirs /\ runRecord[id].status \in {"running", "passed", "failed"}

Metric(e) == scores[ConfigOf[e]]

\* One of two experiments: the better metric, then the lesser id
Preferred(e, f) == f = NoExperiment \/ Metric(e) > Metric(f) \/ (Metric(e) = Metric(f) /\ e < f)

Better(e, best) == IF Preferred(e, best) THEN e ELSE best

\* An experiment whose configuration was trained before takes over its results.
Validated(e, runs) ==
    [experiment |-> e, metric |-> Metric(e), reused |-> \E n \in DOMAIN runs : ConfigOf[runs[n].experiment] = ConfigOf[e]]

Goes(r, place) == runner' = [runner EXCEPT ![r].at = place]

\* _write_json_atomic of the record in memory; "best" is the one selected so far.
RecordsRun(r, record, best, place) ==
    /\ runRecord' = [runRecord EXCEPT ![runner[r].id] = record]
    /\ runner' = [runner EXCEPT ![r] = [@ EXCEPT !.at = place, !.record = record, !.best = best]]

-----------------------------------------------------------------------------

\* run_phase7a: whether the run is there already is looked up first.
CallRun(r, id) ==
    /\ runner[r].at = "idle"
    /\ runner' = [runner EXCEPT ![r] = [@ EXCEPT !.at = "verifying", !.id = id, !.existed = id \in runDirs]]
    /\ UNCHANGED <<scores, marker, runDirs, runRecord, tested>>

\* _runtime_envelope and _ensure_namespace: the root is empty ...
FindsEmpty(r) ==
    /\ runner[r].at = "verifying"
    /\ marker = NoRunner /\ runDirs = {}
    /\ Goes(r, "claiming")
    /\ UNCHANGED <<scores, marker, runDirs, runRecord, tested>>

\* (variant) The marker is written whoever has written one.
ClaimableAnyway == TRUE

\* O_CREAT | O_EXCL
Claimable == marker = NoRunner

\* ... and claimed.
ClaimsRoot(r) ==
    /\ runner[r].at = "claiming"
    /\ Claimable
    /\ marker' = r
    /\ Goes(r, "claimed")
    /\ UNCHANGED <<scores, runDirs, runRecord, tested>>

\* The marker could not be written out, and is removed.
UnclaimsRoot(r) ==
    /\ runner[r].at = "claimed"
    /\ marker' = NoRunner
    /\ Goes(r, "unclaimed")
    /\ UNCHANGED <<scores, runDirs, runRecord, tested>>

MakesRun(r) ==
    /\ runner[r].at = "claimed"
    /\ runner[r].id \notin runDirs
    /\ runDirs' = runDirs \cup {runner[r].id}
    /\ Goes(r, "opening")
    /\ UNCHANGED <<scores, marker, runRecord, tested>>

OpensRecord(r) ==
    /\ runner[r].at = "opening"
    /\ RecordsRun(r, [status |-> "running", runs |-> <<>>, selected |-> NoExperiment], NoExperiment, "validating")
    /\ UNCHANGED <<scores, marker, runDirs, tested>>

\* The next experiment is trained and evaluated on the validation split.
Validates(r) ==
    LET record == runner[r].record
        n == Len(record.runs) + 1
    IN /\ runner[r].at = "validating"
       /\ n <= Len(Matrix)
       /\ RecordsRun(r, [record EXCEPT !.runs = Append(@, Validated(Matrix[n], @))], Better(Matrix[n], runner[r].best),
                     "validating")
       /\ UNCHANGED <<scores, marker, runDirs, tested>>

FreezesSelection(r) ==
    LET record == runner[r].record
    IN /\ runner[r].at = "validating"
       /\ Len(record.runs) = Len(Matrix)
       /\ RecordsRun(r, [record EXCEPT !.selected = runner[r].best], runner[r].best, "frozen")
       /\ UNCHANGED <<scores, marker, runDirs, tested>>

\* The selected one is trained again, which must come to the same stages; then the test
\* split is loaded and evaluated.
ReadsTest(r) ==
    /\ runner[r].at = "frozen"
    /\ tested' = tested \cup {[by |-> r, experiment |-> runner[r].record.selected]}
    /\ Goes(r, "finishing")
    /\ UNCHANGED <<scores, marker, runDirs, runRecord>>

Passes(r) ==
    /\ runner[r].at = "finishing"
    /\ RecordsRun(r, [runner[r].record EXCEPT !.status = "passed"], runner[r].best, "done")
    /\ UNCHANGED <<scores, marker, runDirs, tested>>

\* Refused, or any step raises: the record there is read, if the run was not there first, ...
RunRaises(r) ==
    /\ runner[r].at \notin Stopped \cup {"failing"}
    /\ LET found == runRecord[runner[r].id]
       IN IF runner[r].existed \/ found = NoRunRecord THEN Goes(r, "done")
          ELSE runner' = [runner EXCEPT ![r] = [@ EXCEPT !.at = "failing", !.record = found]]
    /\ UNCHANGED <<scores, marker, runDirs, runRecord, tested>>

\* ... and replaced.
MarksFailed(r) ==
    /\ runner[r].at = "failing"
    /\ RecordsRun(r, [runner[r].record EXCEPT !.status = "failed"], runner[r].best, "done")
    /\ UNCHANGED <<scores, marker, runDirs, tested>>

RunnerDies(r) ==
    /\ runner[r].at \notin Stopped
    /\ Goes(r, "done")
    /\ UNCHANGED <<scores, marker, runDirs, runRecord, tested>>

ExperimentsNext ==
    \E r \in Runners :
       \/ \E id \in RunIds : CallRun(r, id)
       \/ FindsEmpty(r) \/ ClaimsRoot(r) \/ UnclaimsRoot(r) \/ MakesRun(r) \/ OpensRecord(r)
       \/ Validates(r) \/ FreezesSelection(r) \/ ReadsTest(r) \/ Passes(r)
       \/ RunRaises(r) \/ MarksFailed(r) \/ RunnerDies(r)

ExperimentsSpec == ExperimentsInit /\ [][ExperimentsNext]_experimentVars

-----------------------------------------------------------------------------
(* Properties *)

BestOfAll(e) == \A f \in Experiments \ {e} : Preferred(e, f)

\* A runner that was refused may mark the record of its run_id.
Contended(id) == \E r \in Runners \ {marker} : runner[r].id = id /\ ~ runner[r].existed

\* However many runners contend for an output root, fail and die: its test split is read
\* once at most, for the best experiment of the whole matrix, which is on record by then
\* (unless a refused runner has put back an older record); and a run that has passed tells
\* the whole matrix and what was tested.
TestedOnceAsSelected ==
    /\ \A t, u \in tested : t = u
    /\ \A t \in tested :
          /\ BestOfAll(t.experiment)
          /\ Contended(runner[t.by].id) \/ runRecord[runner[t.by].id].selected = t.experiment
    /\ \A id \in RunIds : runRecord[id] # NoRunRecord /\ runRecord[id].status = "passed" =>
          /\ tested = {[by |-> marker, experiment |-> runRecord[id].selected]}
          /\ [n \in DOMAIN runRecord[id].runs |-> runRecord[id].runs[n].experiment] = Matrix
=============================================================================
