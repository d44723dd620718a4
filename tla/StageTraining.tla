---------------------------- MODULE StageTraining ----------------------------
(***************************************************************************)
(* train_model (recsys/models/entrypoint.py, training.py): the recall      *)
(* model is trained epoch by epoch with early stopping, then the ranker on *)
(* the best recall model; each epoch ends with a checkpoint, from which a  *)
(* later call may resume.  Training is deterministic (no dropout, as in    *)
(* the -a configurations): a model is given by the epochs it has seen, and *)
(* a ranker also by the recall models its examples came from.              *)
(***************************************************************************)
EXTENDS Naturals

CONSTANTS
    Epochs,     \* of each stage
    Patience,
    Curves,     \* possible validation metrics: sequences, one value an epoch
    NoCheckpoint

ASSUME StageConstants == Epochs \in Nat \ {0} /\ Patience \in Nat \ {0}

VARIABLES
    curve,        \* the metric of each stage after each epoch
    checkpoints,  \* the file of each stage
    stage         \* the process

stageVars == <<curve, checkpoints, stage>>

-----------------------------------------------------------------------------
(* EarlyStopper, and a stage around it *)

Fresh == [epoch |-> 0, best |-> 0, metric |-> 0, without |-> 0, examples |-> {},
          stopped |-> FALSE,
          again   |-> FALSE]   \* history: a stage that was over has been taken up again

Improves(s, metric) == metric > s.metric

\* observe, of epoch s.epoch + 1: the best model is kept with its metric.
Observed(s, metric) ==
    [s EXCEPT !.epoch   = @ + 1,
              !.best    = IF Improves(s, metric) THEN s.epoch + 1 ELSE @,
              !.metric  = IF Improves(s, metric) THEN metric ELSE @,
              !.without = IF Improves(s, metric) THEN 0 ELSE @ + 1,
              !.stopped = ~ Improves(s, metric) /\ s.without + 1 >= Patience]

Finished(s) == s.stopped \/ s.epoch = Epochs

\* The loop over the epochs, if nothing interrupts it: the stage after each of them
Course(metrics) ==
    LET course[n \in 0 .. Epochs] ==
            IF n = 0 THEN Fresh
            ELSE IF Finished(course[n - 1]) THEN course[n - 1]
            ELSE Observed(course[n - 1], metrics[n])
    IN course

\* What the stage comes to then
Undisturbed(metrics) == Course(metrics)[Epochs]

\* (variant) The count of the epochs without improvement starts anew.
FromCheckpointAnew(checkpoint) == [checkpoint EXCEPT !.stopped = FALSE, !.without = 0, !.again = checkpoint.stopped \/ @]

\* What a checkpoint brings back: not that the stage was over.
FromCheckpoint(checkpoint) == [checkpoint EXCEPT !.stopped = FALSE, !.again = checkpoint.stopped \/ @]

-----------------------------------------------------------------------------

Names == {"dssm", "deepfm"}

Away == [at |-> "away"]

StageInit ==
    /\ curve \in [Names -> Curves]
    /\ checkpoints = [n \in Names |-> NoCheckpoint]
    /\ stage = Away

StageTypeOK ==
    /\ \A n \in Names : checkpoints[n] = NoCheckpoint \/ checkpoints[n].epoch \in 1 .. Epochs
    /\ stage.at \in {"away", "test", "done"} \cup Names

\* A stage from its checkpoint, or from nothing
Starting(n, resumed) == IF resumed THEN FromCheckpoint(checkpoints[n]) ELSE Fresh

\* train_model_stages: both checkpoints are read, and refused if they are not of this data
\* and configuration, before the first stage runs.
CallTrain(resumed) ==
    /\ stage.at \in {"away", "done"}
    /\ \A n \in resumed : checkpoints[n] # NoCheckpoint
    /\ stage' = [at     |-> "dssm",
                 drawn  |-> {},
                 dssm   |-> Starting("dssm", "dssm" \in resumed),
                 deepfm |-> Starting("deepfm", "deepfm" \in resumed)]
    /\ UNCHANGED <<curve, checkpoints>>

\* One epoch of a stage with its examples, up to the checkpoint in place
Epoch(n, examples) ==
    LET before == stage[n]
        after  == [Observed(before, curve[n][before.epoch + 1]) EXCEPT
                      !.examples = @ \cup examples, !.again = @ \/ stage.dssm.again]
    IN /\ stage.at = n
       /\ ~ Finished(before)
       /\ stage' = [stage EXCEPT ![n] = after]
       /\ checkpoints' = [checkpoints EXCEPT ![n] = after]
       /\ UNCHANGED curve

RecallEpoch == Epoch("dssm", {})

\* What the ranker learns from: the items the recall model in memory, that is the best one,
\* proposes to each user, and its scores.
Examples == stage.dssm.best

\* The best recall model is restored, and the examples of the ranker are drawn with it,
\* before the first epoch of every call, a resumed one too.
Draw ==
    /\ stage.at = "dssm"
    /\ Finished(stage.dssm)
    /\ stage' = [stage EXCEPT !.at = "deepfm", !.drawn = {Examples}]
    /\ UNCHANGED <<curve, checkpoints>>

RankerEpoch == Epoch("deepfm", stage.drawn)

\* The best ranker is restored and the test split is loaded, for the first time.
LoadTest ==
    /\ stage.at = "deepfm"
    /\ Finished(stage.deepfm)
    /\ stage' = [stage EXCEPT !.at = "test"]
    /\ UNCHANGED <<curve, checkpoints>>

\* The two models in memory are evaluated together and written.
Finalize ==
    /\ stage.at = "test"
    /\ stage' = [stage EXCEPT !.at = "done"]
    /\ UNCHANGED <<curve, checkpoints>>

\* Cancelled at a pulse, or the process dies: the checkpoints stay.
Interrupted ==
    /\ stage.at \in Names \cup {"test"}
    /\ stage' = Away
    /\ UNCHANGED <<curve, checkpoints>>

StageNext ==
    \/ \E resumed \in SUBSET Names : CallTrain(resumed)
    \/ RecallEpoch
    \/ Draw
    \/ RankerEpoch
    \/ LoadTest
    \/ Finalize
    \/ Interrupted

StageSpec == StageInit /\ [][StageNext]_stageVars

-----------------------------------------------------------------------------
(* Properties *)

\* Whatever was interrupted and resumed, in any combination of the two checkpoints, the
\* models are those of an undisturbed call and the ranker has learned from the recall model
\* it is published with, unless a stage that had been over was taken up again.
ResumedAsUndisturbed ==
    stage.at = "done" /\ ~ stage.dssm.again /\ ~ stage.deepfm.again =>
        /\ \A n \in Names : stage[n].best = Undisturbed(curve[n]).best
        /\ stage.deepfm.examples = {stage.dssm.best}
=============================================================================
