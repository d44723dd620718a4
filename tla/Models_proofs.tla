---------------------------- MODULE Models_proofs ----------------------------
(***************************************************************************)
(* Proofs about what models are trained on, chosen by and activated with,  *)
(* for any models, requests, data, files and users.  First the datasets,   *)
(* the stages of a training, whose course is a function of the epoch, and  *)
(* the experiment matrix.  Then ModelActivation: most actions move one     *)
(* request and leave the models alone (OtherSteps); Activate is proved on  *)
(* its own.  Then ServingResources: each step is shown to be a step of     *)
(* ModelActivation or none of its variables, so that its invariant holds;  *)
(* the rows and the captured resources are followed step by step.          *)
(***************************************************************************)
EXTENDS ServingResources, TrainingData, StageTraining, ExperimentMatrix,
        FunctionTheorems, FiniteSetTheorems, WellFoundedInduction, TLAPS

-----------------------------------------------------------------------------
(* Induction *)

\* What holds of 0 and of the successor of every number it holds of holds of every number.
\* (The induction theorems of the library take an operator, which no prover here can
\* instantiate; a set says the same.)
LEMMA ByInduction ==
    ASSUME NEW S, 0 \in S, \A n \in Nat : n \in S => n + 1 \in S
    PROVE  \A n \in Nat : n \in S
  <1> DEFINE Others == {n \in Nat : n \notin S}
  <1>1. Others = {}
    <2> SUFFICES ASSUME Others # {} PROVE FALSE
      OBVIOUS
    <2>1. Others \subseteq Nat
      OBVIOUS
    <2> HIDE DEF Others
    <2>2. PICK n \in Others : \A m \in Others : ~ (<<m, n>> \in OpToRel(<, Nat))
      BY <2>1, NatLessThanWellFounded, WFMin
    <2>3. \A m \in Others : ~ (m < n)
      BY <2>1, <2>2 DEF OpToRel
    <2>4. n \in Nat /\ n \notin S
      BY DEF Others
    <2>5. n # 0
      BY <2>4
    <2>6. n - 1 \in Nat /\ (n - 1) + 1 = n /\ n - 1 < n
      BY <2>4, <2>5
    <2>7. n - 1 \in S
      BY <2>3, <2>6 DEF Others
    <2> QED
      BY <2>4, <2>6, <2>7
  <1> QED
    BY <1>1

-----------------------------------------------------------------------------
(* StageTraining: the loop over the epochs is a recursive function, which   *)
(* is shown to exist; a stage that was never taken up again after it was    *)
(* over is a value of it, and so is every checkpoint.                       *)

Moved(course, metrics, n) ==
    IF n = 0 THEN Fresh
    ELSE IF Finished(course[n - 1]) THEN course[n - 1]
    ELSE Observed(course[n - 1], metrics[n])

\* The loop is well defined, whatever the metrics.
LEMMA CourseIs ==
    ASSUME NEW metrics
    PROVE  Course(metrics) = [n \in 0 .. Epochs |-> Moved(Course(metrics), metrics, n)]
  <1> DEFINE Is(g, n) == g = [k \in 0 .. n |-> Moved(g, metrics, k)]
             S == {n \in Nat : \E g : Is(g, n)}
  <1>1. 0 \in S
    <2> DEFINE g == [k \in 0 .. 0 |-> Fresh]
    <2>1. \A k \in 0 .. 0 : Moved(g, metrics, k) = Fresh
      BY DEF Moved
    <2>2. Is(g, 0)
      BY <2>1
    <2> QED
      BY <2>2
  <1>2. ASSUME NEW n \in Nat, n \in S PROVE n + 1 \in S
    <2>1. PICK g : Is(g, n)
      BY <1>2
    <2> DEFINE h == [k \in 0 .. n + 1 |-> IF k = n + 1 THEN Moved(g, metrics, n + 1) ELSE g[k]]
    <2>2. \A k \in 0 .. n : h[k] = g[k]
      OBVIOUS
    <2>3. ASSUME NEW k \in 0 .. n + 1 PROVE h[k] = Moved(h, metrics, k)
      <3>1. k # 0 => h[k - 1] = g[k - 1]
        BY <2>2
      <3>2. Moved(h, metrics, k) = Moved(g, metrics, k)
        BY <3>1 DEF Moved
      <3>3. k \in 0 .. n => g[k] = Moved(g, metrics, k)
        BY <2>1
      <3> QED
        BY <3>2, <3>3
    <2>4. Is(h, n + 1)
      BY <2>3
    <2> HIDE DEF h, Is
    <2>5. \E f : Is(f, n + 1)
      BY <2>4
    <2> QED
      BY <2>5
  <1>3. Epochs \in S
    <2> HIDE DEF S
    <2> QED
      BY <1>1, <1>2, ByInduction, StageConstants
  <1>4. \E g : Is(g, Epochs)
    BY <1>3
  <1> QED
    BY <1>4 DEF Course, Moved

\* What an epoch makes of a stage, apart from its examples and its history
Same(s, c) ==
    /\ s.epoch = c.epoch /\ s.best = c.best /\ s.metric = c.metric
    /\ s.without = c.without /\ s.stopped = c.stopped

IsRow(s) ==
    s \in [epoch : {s.epoch}, best : {s.best}, metric : {s.metric}, without : {s.without},
           examples : {s.examples}, stopped : BOOLEAN, again : BOOLEAN]

IsStage(s) == IsRow(s) /\ s.epoch \in 0 .. Epochs /\ (s.stopped => s.epoch > 0)

\* As long as a stage has not been taken up again after it was over, it is where the
\* undisturbed course is after as many epochs.
OnCourse(s, metrics) == s.again \/ Same(s, Course(metrics)[s.epoch])

\* The examples of the ranker are those of the best recall model there can be.
LearnedFrom(s, metrics) ==
    s.again \/ s.examples = IF s.epoch = 0 THEN {} ELSE {Undisturbed(metrics).best}

Along(s, n) ==
    /\ IsStage(s)
    /\ OnCourse(s, curve[n])
    /\ n = "deepfm" => LearnedFrom(s, curve["dssm"])

IsTraining(row) ==
    /\ row \in [at : Names \cup {"test", "done"}, drawn : {row.drawn}, dssm : {row.dssm}, deepfm : {row.deepfm}]
    /\ \A n \in Names : Along(row[n], n)
    /\ row.at # "dssm" => Finished(row.dssm) /\ row.drawn = {row.dssm.best}
    /\ row.at \in {"test", "done"} => Finished(row.deepfm)

StagesInv ==
    /\ checkpoints \in [Names -> {checkpoints[n] : n \in Names}]
    /\ \A n \in Names : checkpoints[n] = NoCheckpoint \/ (Along(checkpoints[n], n) /\ checkpoints[n].epoch > 0)
    /\ stage = Away \/ IsTraining(stage)

LEMMA CourseValues ==
    ASSUME NEW metrics
    PROVE  /\ Course(metrics)[0] = Fresh
           /\ \A n \in 0 .. Epochs - 1 :
                 Course(metrics)[n + 1] =
                    IF Finished(Course(metrics)[n]) THEN Course(metrics)[n] ELSE Observed(Course(metrics)[n], metrics[n + 1])
  <1> DEFINE c == Course(metrics)
  <1>1. c = [n \in 0 .. Epochs |-> Moved(c, metrics, n)]
    BY CourseIs
  <1> HIDE DEF c
  <1>2. \A n \in 0 .. Epochs : c[n] = Moved(c, metrics, n)
    BY <1>1
  <1>3. c[0] = Fresh
    BY <1>2, StageConstants DEF Moved
  <1>4. ASSUME NEW n \in 0 .. Epochs - 1
        PROVE  c[n + 1] = IF Finished(c[n]) THEN c[n] ELSE Observed(c[n], metrics[n + 1])
    <2>1. n + 1 \in 0 .. Epochs /\ n + 1 # 0 /\ (n + 1) - 1 = n
      BY StageConstants
    <2>2. c[n + 1] = Moved(c, metrics, n + 1)
      BY <1>2, <2>1
    <2> QED
      BY <2>1, <2>2 DEF Moved
  <1> QED
    BY <1>3, <1>4 DEF c

\* An epoch is the same for stages that are the same.
LEMMA ObservesSame ==
    ASSUME NEW s, NEW d, NEW metric, IsRow(s), IsRow(d), Same(s, d)
    PROVE  Same(Observed(s, metric), Observed(d, metric)) /\ IsRow(Observed(d, metric))
  <1> DEFINE better == Improves(s, metric)
  <1>1. Improves(s, metric) = better /\ Improves(d, metric) = better /\ better \in BOOLEAN
    BY DEF Improves, Same
  <1> HIDE DEF better
  <1>2. /\ Observed(s, metric).epoch = Observed(d, metric).epoch
        /\ Observed(s, metric).best = Observed(d, metric).best
        /\ Observed(s, metric).metric = Observed(d, metric).metric
        /\ Observed(s, metric).without = Observed(d, metric).without
    BY <1>1 DEF Observed, Same, IsRow
  <1>3. Observed(s, metric).stopped = Observed(d, metric).stopped
    BY <1>1 DEF Observed, Same, IsRow
  <1>4. IsRow(Observed(d, metric))
    BY <1>1 DEF Observed, IsRow
  <1> QED
    BY <1>2, <1>3, <1>4 DEF Same

\* The course goes through stages.
LEMMA CourseRows ==
    ASSUME NEW metrics, NEW n \in 0 .. Epochs
    PROVE  IsRow(Course(metrics)[n])
  <1> DEFINE S == {k \in Nat : k <= Epochs => IsRow(Course(metrics)[k])}
  <1>1. 0 \in S
    <2>1. IsRow(Fresh)
      BY DEF IsRow, Fresh
    <2> QED
      BY <2>1, CourseValues
  <1>2. ASSUME NEW k \in Nat, k \in S PROVE k + 1 \in S
    <2> SUFFICES ASSUME k + 1 <= Epochs PROVE IsRow(Course(metrics)[k + 1])
      OBVIOUS
    <2>1. k \in 0 .. Epochs - 1 /\ IsRow(Course(metrics)[k])
      BY <1>2, StageConstants
    <2>2. IsRow(Observed(Course(metrics)[k], metrics[k + 1]))
      BY <2>1, ObservesSame DEF Same
    <2> QED
      BY <2>1, <2>2, CourseValues
  <1>3. n \in S
    <2> HIDE DEF S
    <2> QED
      BY <1>1, <1>2, ByInduction
  <1> QED
    BY <1>3

\* Once over, a stage stays as it is.
LEMMA OverStays ==
    ASSUME NEW metrics, NEW k \in 0 .. Epochs, Finished(Course(metrics)[k])
    PROVE  Undisturbed(metrics) = Course(metrics)[k]
  <1> DEFINE c == Course(metrics)
             S == {n \in Nat : k + n <= Epochs => c[k + n] = c[k]}
  <1>1. 0 \in S
    OBVIOUS
  <1>2. ASSUME NEW n \in Nat, n \in S PROVE n + 1 \in S
    <2> SUFFICES ASSUME k + (n + 1) <= Epochs PROVE c[k + (n + 1)] = c[k]
      OBVIOUS
    <2>1. c[k + n] = c[k]
      BY <1>2, StageConstants
    <2>2. k + n \in 0 .. Epochs - 1 /\ k + (n + 1) = (k + n) + 1
      BY StageConstants
    <2>3. c[(k + n) + 1] = c[k + n]
      BY <2>1, <2>2, CourseValues
    <2> QED
      BY <2>1, <2>2, <2>3
  <1>3. Epochs - k \in Nat /\ k + (Epochs - k) = Epochs
    BY StageConstants
  <1>4. Epochs - k \in S
    <2> HIDE DEF S
    <2> QED
      BY <1>1, <1>2, <1>3, ByInduction
  <1> QED
    BY <1>3, <1>4 DEF Undisturbed

\* A stage that is over, on course: what an undisturbed call comes to.
LEMMA OverOnCourse ==
    ASSUME NEW s, NEW metrics, IsStage(s), OnCourse(s, metrics), ~ s.again, Finished(s)
    PROVE  s.best = Undisturbed(metrics).best /\ s.epoch > 0
  <1> DEFINE c == Course(metrics)[s.epoch]
  <1>1. Same(s, c) /\ s.epoch \in 0 .. Epochs
    BY DEF OnCourse, IsStage
  <1>2. Finished(c)
    BY <1>1 DEF Same, Finished
  <1>3. Undisturbed(metrics) = c
    BY <1>1, <1>2, OverStays
  <1>4. s.epoch > 0
    BY StageConstants DEF IsStage, Finished
  <1> QED
    BY <1>1, <1>3, <1>4 DEF Same

LEMMA FreshAlong == ASSUME NEW n \in Names PROVE Along(Fresh, n)
  <1>1. IsStage(Fresh)
    BY StageConstants DEF IsStage, IsRow, Fresh
  <1>2. OnCourse(Fresh, curve[n])
    BY CourseValues DEF OnCourse, Same, Fresh
  <1>3. LearnedFrom(Fresh, curve["dssm"])
    BY DEF LearnedFrom, Fresh
  <1> QED
    BY <1>1, <1>2, <1>3 DEF Along

\* What a checkpoint brings back is on the course its stage was on.
LEMMA ResumesAlong ==
    ASSUME NEW n \in Names, NEW s, Along(s, n)
    PROVE  Along(FromCheckpoint(s), n)
  <1> DEFINE t == FromCheckpoint(s)
  <1>0. IsStage(s)
    BY DEF Along
  <1>1. /\ t.epoch = s.epoch /\ t.best = s.best /\ t.metric = s.metric /\ t.without = s.without
        /\ t.examples = s.examples /\ t.stopped = FALSE
    BY <1>0 DEF FromCheckpoint, IsStage, IsRow
  <1>a. t.again = (s.stopped \/ s.again)
    BY <1>0 DEF FromCheckpoint, IsStage, IsRow
  <1>b. t \in [epoch : {s.epoch}, best : {s.best}, metric : {s.metric}, without : {s.without},
               examples : {s.examples}, stopped : BOOLEAN, again : BOOLEAN]
    BY <1>0 DEF FromCheckpoint, IsStage, IsRow
  <1> HIDE DEF t
  <1>2. IsStage(t)
    BY <1>0, <1>1, <1>a, <1>b DEF IsStage, IsRow
  <1>3. OnCourse(t, curve[n])
    BY <1>0, <1>1, <1>a DEF Along, OnCourse, Same, IsStage, IsRow
  <1>4. n = "deepfm" => LearnedFrom(t, curve["dssm"])
    BY <1>0, <1>1, <1>a DEF Along, LearnedFrom, IsStage, IsRow
  <1>5. Along(t, n)
    BY <1>2, <1>3, <1>4 DEF Along
  <1> QED
    BY <1>5 DEF t

\* The stage after an epoch, as Epoch has it
AfterEpoch(s, metric, drawn, recall) ==
    [Observed(s, metric) EXCEPT !.examples = @ \cup drawn, !.again = @ \/ recall]

\* An epoch of a stage that is not over, with examples of the best recall model if it is the
\* ranker's, and with the history of the recall model.
LEMMA ObservesAlong ==
    ASSUME NEW n \in Names, NEW s, Along(s, n), ~ Finished(s), NEW recall \in BOOLEAN, NEW drawn,
           n = "deepfm" /\ ~ recall => drawn = {Undisturbed(curve["dssm"]).best},
           NEW t, t = AfterEpoch(s, curve[n][s.epoch + 1], drawn, recall)
    PROVE  Along(t, n) /\ t.epoch = s.epoch + 1
  <1> DEFINE m == curve[n]
             o == Observed(s, m[s.epoch + 1])
             c == Course(m)
  <1>1. IsStage(s) /\ ~ s.stopped
    BY DEF Along, Finished
  <1>2. s.epoch \in 0 .. Epochs - 1 /\ s.epoch + 1 \in 1 .. Epochs
    BY <1>1, StageConstants DEF IsStage, Finished
  <1>3. /\ o.epoch = s.epoch + 1 /\ o.examples = s.examples /\ o.again = s.again
        /\ o \in [epoch : {o.epoch}, best : {o.best}, metric : {o.metric}, without : {o.without},
                  examples : {o.examples}, stopped : BOOLEAN, again : BOOLEAN]
    BY <1>1 DEF Observed, IsStage, IsRow, Improves
  <1>4. /\ t.epoch = o.epoch /\ t.best = o.best /\ t.metric = o.metric /\ t.without = o.without
        /\ t.stopped = o.stopped /\ t.examples = o.examples \cup drawn
    BY <1>3 DEF AfterEpoch
  <1>5. t.again = (s.again \/ recall)
    BY <1>3 DEF AfterEpoch
  <1>6. t \in [epoch : {t.epoch}, best : {t.best}, metric : {t.metric}, without : {t.without},
               examples : {t.examples}, stopped : BOOLEAN, again : BOOLEAN]
    BY <1>1, <1>3 DEF AfterEpoch, IsStage, IsRow
  <1>7. IsStage(t)
    BY <1>2, <1>3, <1>4, <1>6 DEF IsStage, IsRow
  <1>8. ASSUME ~ t.again PROVE Same(t, c[t.epoch])
    <2>1. Same(s, c[s.epoch])
      BY <1>5, <1>8 DEF Along, OnCourse
    <2>2. ~ Finished(c[s.epoch])
      BY <2>1 DEF Same, Finished
    <2>3. c[s.epoch + 1] = Observed(c[s.epoch], m[s.epoch + 1])
      BY <1>2, <2>2, CourseValues
    <2>4. Same(o, Observed(c[s.epoch], m[s.epoch + 1]))
      BY <1>1, <1>2, <2>1, CourseRows, ObservesSame DEF IsStage
    <2> QED
      BY <1>3, <1>4, <2>3, <2>4 DEF Same
  <1>9. n = "deepfm" => LearnedFrom(t, curve["dssm"])
    <2> SUFFICES ASSUME n = "deepfm", ~ t.again PROVE t.examples = {Undisturbed(curve["dssm"]).best}
      BY <1>2, <1>3, <1>4 DEF LearnedFrom
    <2>1. drawn = {Undisturbed(curve["dssm"]).best}
      BY <1>5
    <2>2. s.examples \subseteq {Undisturbed(curve["dssm"]).best}
      BY <1>5 DEF Along, LearnedFrom
    <2> QED
      BY <1>3, <1>4, <2>1, <2>2
  <1> QED
    BY <1>3, <1>4, <1>7, <1>8, <1>9 DEF Along, OnCourse

LEMMA InitStages == StageInit => StagesInv
  BY DEF StageInit, StagesInv, Away

LEMMA CallTrainKeeps == ASSUME StagesInv, NEW resumed \in SUBSET Names, CallTrain(resumed) PROVE StagesInv'
  <1>1. ASSUME NEW n \in Names PROVE Along(Starting(n, n \in resumed), n)
    <2>1. CASE n \in resumed
      <3>1. Along(checkpoints[n], n)
        BY <2>1 DEF CallTrain, StagesInv
      <3> QED
        BY <2>1, <3>1, ResumesAlong DEF Starting
    <2>2. CASE n \notin resumed
      BY <2>2, FreshAlong DEF Starting
    <2> QED
      BY <2>1, <2>2
  <1>2. IsTraining(stage') /\ UNCHANGED <<curve, checkpoints>>
    <2> DEFINE one == Starting("dssm", "dssm" \in resumed)
               two == Starting("deepfm", "deepfm" \in resumed)
    <2>1. Along(one, "dssm") /\ Along(two, "deepfm")
      BY <1>1 DEF Names
    <2> HIDE DEF one, two
    <2>2. stage' = [at |-> "dssm", drawn |-> {}, dssm |-> one, deepfm |-> two]
      BY DEF CallTrain, one, two
    <2>3. \A n \in Names : Along(stage'[n], n)
      BY <2>1, <2>2 DEF Names
    <2> QED
      BY <2>2, <2>3 DEF CallTrain, IsTraining, Names
  <1> QED
    BY <1>2, ZenonT(30) DEF StagesInv, IsTraining, Along, OnCourse, LearnedFrom

\* Whatever happens to the process, the checkpoints staying, or the stage going on
LEMMA StageMoves ==
    ASSUME StagesInv, UNCHANGED <<curve, checkpoints>>, stage' = Away \/ IsTraining(stage')
    PROVE  StagesInv'
  BY DEF StagesInv, IsTraining, Along, OnCourse, LearnedFrom

LEMMA EpochKeeps ==
    ASSUME StagesInv, NEW n \in Names, NEW drawn, Epoch(n, drawn), n = "deepfm" => drawn = stage.drawn
    PROVE  StagesInv'
  <1> DEFINE s == stage[n]
             t == AfterEpoch(s, curve[n][s.epoch + 1], drawn, stage.dssm.again)
  <1>1. IsTraining(stage) /\ stage.at = n /\ ~ Finished(s)
    BY DEF Epoch, StagesInv, Away, Names
  <1>2. Along(stage.dssm, "dssm") /\ Along(stage.deepfm, "deepfm") /\ Along(s, n) /\ stage.dssm.again \in BOOLEAN
    BY <1>1 DEF IsTraining, Names, Along, IsStage, IsRow
  <1>3. n = "deepfm" /\ ~ stage.dssm.again => drawn = {Undisturbed(curve["dssm"]).best}
    BY <1>1, <1>2, OverOnCourse DEF IsTraining, Along
  <1>4. Along(t, n) /\ t.epoch = s.epoch + 1
    BY <1>1, <1>2, <1>3, ObservesAlong
  <1>5. s.epoch \in Nat
    BY <1>2 DEF Along, IsStage
  <1> HIDE DEF t
  <1>6. stage' = [stage EXCEPT ![n] = t] /\ checkpoints' = [checkpoints EXCEPT ![n] = t] /\ UNCHANGED curve
    BY DEF Epoch, t, AfterEpoch
  <1>7. /\ checkpoints' \in [Names -> {checkpoints'[k] : k \in Names}]
        /\ \A k \in Names : checkpoints'[k] = NoCheckpoint \/ (Along(checkpoints'[k], k) /\ checkpoints'[k].epoch > 0)
    BY <1>4, <1>5, <1>6 DEF StagesInv
  <1>8. IsTraining(stage')
    <2>1. /\ stage'.at = stage.at /\ stage'.drawn = stage.drawn
          /\ stage' \in [at : Names \cup {"test", "done"}, drawn : {stage'.drawn}, dssm : {stage'.dssm}, deepfm : {stage'.deepfm}]
      BY <1>1, <1>6 DEF IsTraining, Names
    <2>2. \A k \in Names : stage'[k] = IF k = n THEN t ELSE stage[k]
      BY <1>1, <1>6 DEF IsTraining, Names
    <2>3. \A k \in Names : Along(stage'[k], k)
      BY <1>1, <1>4, <2>2 DEF IsTraining
    <2>4. n = "deepfm" => stage'.dssm = stage.dssm
      BY <2>2 DEF Names
    <2> QED
      BY <1>1, <2>1, <2>3, <2>4 DEF IsTraining, Names
  <1> QED
    BY <1>6, <1>7, <1>8 DEF StagesInv, IsTraining, Along, OnCourse, LearnedFrom

LEMMA StagesStep == StagesInv /\ [StageNext]_stageVars => StagesInv'
  <1> SUFFICES ASSUME StagesInv, [StageNext]_stageVars PROVE StagesInv'
    OBVIOUS
  <1>1. CASE RecallEpoch
    BY <1>1, EpochKeeps DEF RecallEpoch, Names
  <1>2. CASE RankerEpoch
    BY <1>2, EpochKeeps DEF RankerEpoch, Names
  <1>3. CASE Draw
    <2>1. IsTraining(stage)
      BY <1>3 DEF Draw, StagesInv, Away
    <2>2. /\ stage'.at = "deepfm" /\ stage'.drawn = {stage.dssm.best}
          /\ stage'.dssm = stage.dssm /\ stage'.deepfm = stage.deepfm
          /\ stage' \in [at : {"deepfm"}, drawn : {stage'.drawn}, dssm : {stage'.dssm}, deepfm : {stage'.deepfm}]
      BY <1>3, <2>1 DEF Draw, Examples, IsTraining
    <2>3. IsTraining(stage')
      BY <1>3, <2>1, <2>2 DEF Draw, IsTraining, Names
    <2> QED
      BY <1>3, <2>3, StageMoves DEF Draw
  <1>4. ASSUME LoadTest \/ Finalize PROVE StagesInv'
    <2>1. IsTraining(stage)
      BY <1>4 DEF LoadTest, Finalize, StagesInv, Away
    <2>2. /\ stage'.at \in {"test", "done"} /\ stage'.drawn = stage.drawn
          /\ stage'.dssm = stage.dssm /\ stage'.deepfm = stage.deepfm
          /\ stage' \in [at : {"test", "done"}, drawn : {stage'.drawn}, dssm : {stage'.dssm}, deepfm : {stage'.deepfm}]
      BY <1>4, <2>1 DEF LoadTest, Finalize, IsTraining
    <2>3. stage.at # "dssm" /\ Finished(stage.deepfm)
      BY <1>4, <2>1 DEF LoadTest, Finalize, IsTraining
    <2>4. IsTraining(stage')
      BY <2>1, <2>2, <2>3 DEF IsTraining, Names
    <2> QED
      BY <1>4, <2>4, StageMoves DEF LoadTest, Finalize
  <1>5. CASE Interrupted
    BY <1>5, StageMoves DEF Interrupted
  <1>6. CASE UNCHANGED stageVars
    BY <1>6, StageMoves DEF stageVars, StagesInv
  <1>7. ASSUME NEW resumed \in SUBSET Names, CallTrain(resumed) PROVE StagesInv'
    BY <1>7, CallTrainKeeps
  <1> QED
    BY <1>1, <1>2, <1>3, <1>4, <1>5, <1>6, <1>7 DEF StageNext

LEMMA StagesInvariance == StageSpec => []StagesInv
  BY InitStages, StagesStep, PTL DEF StageSpec

\* For any epochs, patience and metrics, and however often calls are interrupted and resumed
\* from either checkpoint or both: what is finalized, unless a stage that had been over was
\* taken up again, is what one undisturbed call comes to.
THEOREM ResumedAsIfUndisturbed == StageSpec => []ResumedAsUndisturbed
  <1>1. ASSUME StagesInv PROVE ResumedAsUndisturbed
    <2> SUFFICES ASSUME stage.at = "done", ~ stage.dssm.again, ~ stage.deepfm.again
                 PROVE  /\ \A n \in Names : stage[n].best = Undisturbed(curve[n]).best
                        /\ stage.deepfm.examples = {stage.dssm.best}
      BY DEF ResumedAsUndisturbed
    <2>1. IsTraining(stage)
      BY <1>1 DEF StagesInv, Away
    <2>2. /\ Along(stage.dssm, "dssm") /\ Along(stage.deepfm, "deepfm")
          /\ Finished(stage.dssm) /\ Finished(stage.deepfm)
      BY <2>1 DEF IsTraining, Names
    <2>3. stage.dssm.best = Undisturbed(curve["dssm"]).best
      BY <2>2, OverOnCourse DEF Along
    <2>4. stage.deepfm.best = Undisturbed(curve["deepfm"]).best /\ stage.deepfm.epoch > 0
      BY <2>2, OverOnCourse DEF Along
    <2>5. stage.deepfm.examples = {stage.dssm.best}
      BY <2>2, <2>3, <2>4 DEF Along, LearnedFrom, IsStage
    <2> QED
      BY <2>3, <2>4, <2>5 DEF Names
  <1> QED
    BY <1>1, StagesInvariance, PTL

-----------------------------------------------------------------------------
(* TrainingData: what is being built is as good as what is in place.       *)

\* Of each user, the rows of the one bag come before those of the other.
Precedes(before, after) ==
    \A r \in DOMAIN before, s \in DOMAIN after : r.user = s.user => r.time < s.time

Unseen(d) ==
    /\ Precedes(d.train, d.validation) /\ Precedes(d.train, d.test) /\ Precedes(d.validation, d.test)
    /\ \A r \in DOMAIN d.train \cup DOMAIN d.validation \cup DOMAIN d.test : r.time \in Nat

\* How often a bag holds r
Copies(bag, r) == IF r \in DOMAIN bag THEN bag[r] ELSE 0

Counts(bag) == \A r \in DOMAIN bag : bag[r] \in Nat

All(d) == d.train (+) d.validation (+) d.test

Purposes == {"systems_only", "quality_evaluation"}

Added == [export : Exported, mapping : Mappings, purpose : Purposes]

Version(v) ==
    /\ v \in Seq(Sources \cup Added) /\ Len(v) > 0
    /\ v[1] \in Sources
    /\ \A k \in 2 .. Len(v) : v[k] \in Added

\* The events of r in the k-th step of a version, and those of them that no later cutoff drops
EventsOf(v, r, k) == {i \in Accepted(v[k].export) : Positive(i, v[k].mapping) /\ Interaction(i) = r}

KeptFrom(v, r, k) == \A j \in 2 .. Len(v) : j > k => r.time < Cutoff(v[j].export)

EventsKept(v, r) == UNION {{k} \X EventsOf(v, r, k) : k \in {k \in 2 .. Len(v) : KeptFrom(v, r, k)}}

HeldBy(v, r) == Cardinality(EventsKept(v, r)) + IF r \in v[1] /\ KeptFrom(v, r, 1) THEN 1 ELSE 0

\* A dataset of a version has learned each interaction as often as that holds it.
Learned(v, d) ==
    /\ Version(v)
    /\ Counts(d.train) /\ Counts(d.validation) /\ Counts(d.test)
    /\ (\A k \in 2 .. Len(v) : v[k].purpose = "systems_only") =>
          \A r : IsFiniteSet(EventsKept(v, r)) /\ Copies(All(d), r) = HeldBy(v, r)

Fair(version, d) == Unseen(d) /\ Learned(version, d)

BuildInv(row) ==
    \/ row = Unbuilt
    \/ \E version, d : row \in [at : {"written", "clear"}, version : {version}, dataset : {d}] /\ Fair(version, d)

DataInv ==
    /\ \A v \in DOMAIN datasets : Fair(v, datasets[v])
    /\ DOMAIN building = DataBuilders
    /\ \A b \in DataBuilders : BuildInv(building[b])
    /\ building = [b \in DataBuilders |-> building[b]]

\* A finite set of instants that is not empty has a last one.
LEMMA LastInstant ==
    ASSUME NEW S \in SUBSET Nat, IsFiniteSet(S), S # {}
    PROVE  Max(S) \in S /\ \A m \in S : m <= Max(S)
  <1>1. ASSUME NEW n \in Nat PROVE IsFiniteSet({m \in S : m > n})
    BY FS_Subset
  <1> DEFINE Above(n) == {m \in S : m > n}
             counts == {Cardinality(Above(n)) : n \in S}
  <1>2. \A n \in S : Cardinality(Above(n)) \in Nat
    <2> HIDE DEF Above
    <2>1. \A n \in S : IsFiniteSet(Above(n))
      BY <1>1 DEF Above
    <2> QED
      BY <2>1, FS_CardinalityType
  <1>3. counts \in SUBSET Nat /\ counts # {}
    <2> HIDE DEF Above
    <2> QED
      BY <1>2
  <1>4. PICK c \in counts : \A d \in counts : ~ (<<d, c>> \in OpToRel(<, Nat))
    <2> HIDE DEF counts
    <2> QED
      BY <1>3, NatLessThanWellFounded, WFMin
  <1>5. PICK last \in S : c = Cardinality(Above(last))
    <2> HIDE DEF Above
    <2> QED
      BY <1>4
  <1>6. \A n \in S : ~ (Cardinality(Above(n)) < Cardinality(Above(last)))
    <2> HIDE DEF Above
    <2> QED
      BY <1>2, <1>4, <1>5 DEF OpToRel
  <1>7. ASSUME NEW m \in S, m > last PROVE FALSE
    <2>1. Above(m) \subseteq Above(last) /\ m \in Above(last) /\ m \notin Above(m)
      <3>1. \A n \in S : n > m => n > last
        <4>1. \A n \in S : n \in Nat
          OBVIOUS
        <4> QED
          BY <1>7, <4>1
      <3>2. ~ (m > m)
        OBVIOUS
      <3> QED
        BY <1>7, <3>1, <3>2
    <2>2. IsFiniteSet(Above(last)) /\ IsFiniteSet(Above(m))
      BY <1>1
    <2> HIDE DEF Above
    <2>3. Cardinality(Above(m)) < Cardinality(Above(last))
      <3>1. /\ Cardinality(Above(m)) <= Cardinality(Above(last))
            /\ Cardinality(Above(m)) = Cardinality(Above(last)) => Above(m) = Above(last)
        BY <2>1, <2>2, FS_Subset
      <3>2. Cardinality(Above(m)) # Cardinality(Above(last))
        BY <2>1, <3>1
      <3>3. Cardinality(Above(m)) \in Nat /\ Cardinality(Above(last)) \in Nat
        BY <1>2
      <3> QED
        BY <3>1, <3>2, <3>3
    <2> QED
      BY <1>6, <2>3
  <1>8. \E x \in S : \A y \in S : x >= y
    <2>1. \A y \in S : y \in Nat
      OBVIOUS
    <2> QED
      BY <1>7, <2>1
  <1>9. Max(S) \in S /\ \A m \in S : Max(S) >= m
    BY <1>8 DEF Max
  <1> QED
    <2>1. \A y \in S : y \in Nat
      OBVIOUS
    <2> QED
      BY <1>9, <2>1

\* split_interactions: what is held out of a user's rows are those of the last instant and
\* of the one before, or none.
LEMMA HoldsOutTheLast ==
    ASSUME NEW rows, IsFiniteSet(Instants(rows)), Instants(rows) \in SUBSET Nat
    PROVE  /\ \A split \in {"validation", "test"} : Holdout(rows)[split] \subseteq rows
           /\ \A r \in rows, s \in Holdout(rows)["test"] :
                 r \notin Holdout(rows)["test"] => r.time < s.time
           /\ \A r \in rows, s \in Holdout(rows)["validation"] :
                 r \notin Holdout(rows)["test"] /\ r \notin Holdout(rows)["validation"] => r.time < s.time
           /\ Holdout(rows)["validation"] \cap Holdout(rows)["test"] = {}
  <1> DEFINE none == [validation |-> {}, test |-> {}]
             last == Max(Instants(rows))
             before == Max(Instants(rows) \ {last})
             cut == [validation |-> {r \in rows : r.time = before}, test |-> {r \in rows : r.time = last}]
  <1>1. Holdout(rows) = none \/ (Cardinality(Instants(rows)) >= 3 /\ Holdout(rows) = cut)
    <2>1. Cardinality(Instants(rows)) \in Nat
      BY FS_CardinalityType
    <2> QED
      BY <2>1 DEF Holdout
  <1>2. CASE Holdout(rows) = none
    BY <1>2
  <1>3. CASE Cardinality(Instants(rows)) >= 3 /\ Holdout(rows) = cut
    <2>1. Instants(rows) # {} /\ Instants(rows) \ {last} # {}
      <3>1. ASSUME Instants(rows) \subseteq {last} PROVE FALSE
        <4>1. IsFiniteSet({last}) /\ Cardinality({last}) = 1
          <5> HIDE DEF last
          <5> QED
            BY FS_Singleton
        <4>2. Cardinality(Instants(rows)) <= 1
          BY <3>1, <4>1, FS_Subset
        <4>3. Cardinality(Instants(rows)) \in Nat
          BY FS_CardinalityType
        <4> QED
          BY <1>3, <4>2, <4>3
      <3> QED
        BY <3>1
    <2>2. last \in Instants(rows) /\ \A t \in Instants(rows) : t <= last
      BY <2>1, LastInstant
    <2>3. before \in Instants(rows) \ {last} /\ \A t \in Instants(rows) \ {last} : t <= before
      <3> HIDE DEF last
      <3>1. IsFiniteSet(Instants(rows) \ {last}) /\ Instants(rows) \ {last} \in SUBSET Nat
        BY FS_Subset
      <3> QED
        BY <2>1, <3>1, LastInstant
    <2> HIDE DEF last, before
    <2>4. \A r \in rows : r.time \in Instants(rows) /\ r.time \in Nat
      BY DEF Instants
    <2>5. cut.validation = {r \in rows : r.time = before} /\ cut.test = {r \in rows : r.time = last}
      OBVIOUS
    <2>6. ASSUME NEW r \in rows, r.time # last PROVE r.time < last
      BY <2>2, <2>4, <2>6
    <2>7. ASSUME NEW r \in rows, r.time # last, r.time # before PROVE r.time < before
      BY <2>3, <2>4, <2>7
    <2> HIDE DEF cut
    <2>8. Holdout(rows)["validation"] = {r \in rows : r.time = before}
      BY <1>3, <2>5
    <2>9. Holdout(rows)["test"] = {r \in rows : r.time = last}
      BY <1>3, <2>5
    <2>10. before # last
      BY <2>3
    <2> QED
      BY <2>6, <2>7, <2>8, <2>9, <2>10
  <1> QED
    BY <1>1, <1>2, <1>3

\* What is held out of the official files: rows of theirs, none twice, of each user those
\* that come last.
LEMMA HoldsOutOfFiles ==
    ASSUME NEW source \in Sources
    PROVE  LET validation == HeldOut(source, "validation")
               test == HeldOut(source, "test")
           IN /\ validation \subseteq source /\ test \subseteq source /\ validation \cap test = {}
              /\ \A r \in source, s \in test : r.user = s.user /\ r \notin test => r.time < s.time
              /\ \A r \in source \ (validation \cup test), s \in validation : r.user = s.user => r.time < s.time
  <1> DEFINE of(u) == {r \in source : r.user = u}
             validation == HeldOut(source, "validation")
             test == HeldOut(source, "test")
             train == source \ (validation \cup test)
  <1>1. ASSUME NEW u
        PROVE  /\ \A split \in {"validation", "test"} : Holdout(of(u))[split] \subseteq of(u)
               /\ \A r \in of(u), s \in Holdout(of(u))["test"] :
                     r \notin Holdout(of(u))["test"] => r.time < s.time
               /\ \A r \in of(u), s \in Holdout(of(u))["validation"] :
                     r \notin Holdout(of(u))["test"] /\ r \notin Holdout(of(u))["validation"] => r.time < s.time
               /\ Holdout(of(u))["validation"] \cap Holdout(of(u))["test"] = {}
    <2>1. IsFiniteSet(of(u))
      <3>1. IsFiniteSet(source)
        BY DataConstants
      <3> QED
        BY <3>1, FS_Subset
    <2>2. IsFiniteSet(Instants(of(u)))
      <3> DEFINE time == [r \in of(u) |-> r.time]
      <3>1. time \in [of(u) -> Instants(of(u))] /\ \A t \in Instants(of(u)) : \E r \in of(u) : time[r] = t
        BY DEF Instants
      <3> HIDE DEF of, time
      <3>2. time \in Surjection(of(u), Instants(of(u)))
        BY <3>1, Fun_IsSurj
      <3> QED
        BY <2>1, <3>2, FS_Surjection
    <2>3. Instants(of(u)) \in SUBSET Nat
      <3>1. Instants(source) \subseteq Nat
        BY DataConstants
      <3> QED
        BY <3>1 DEF Instants
    <2> HIDE DEF of
    <2> QED
      BY <2>2, <2>3, HoldsOutTheLast
  <1>2. ASSUME NEW split \in {"validation", "test"}, NEW s
        PROVE  s \in HeldOut(source, split) <=> s \in source /\ s \in Holdout(of(s.user))[split]
    <2>1. s \in HeldOut(source, split) <=> \E u \in Users(source) : s \in Holdout(of(u))[split]
      BY DEF HeldOut
    <2>2. ASSUME NEW u, s \in Holdout(of(u))[split] PROVE s \in source /\ s.user = u
      <3>1. Holdout(of(u))[split] \subseteq of(u)
        BY <1>1
      <3> QED
        BY <2>2, <3>1
    <2>3. s \in source => s.user \in Users(source)
      BY DEF Users
    <2> HIDE DEF of
    <2> QED
      BY <2>1, <2>2, <2>3
  <1> HIDE DEF of
  <1>3. ASSUME NEW r \in source, NEW s \in test, r.user = s.user, r \notin test PROVE r.time < s.time
    <2>1. r \in of(s.user)
      BY <1>3 DEF of
    <2>2. s \in Holdout(of(s.user))["test"] /\ r \notin Holdout(of(s.user))["test"]
      BY <1>2, <1>3
    <2> QED
      BY <1>1, <2>1, <2>2
  <1>4. ASSUME NEW r \in train, NEW s \in validation, r.user = s.user PROVE r.time < s.time
    <2>1. r \in of(s.user) /\ r \in source
      BY <1>4 DEF of
    <2>2. s \in Holdout(of(s.user))["validation"]
      BY <1>2
    <2>3. r \notin Holdout(of(s.user))["validation"] /\ r \notin Holdout(of(s.user))["test"]
      BY <1>2, <1>4, <2>1
    <2> QED
      BY <1>1, <2>1, <2>2, <2>3
  <1>5. validation \subseteq source /\ test \subseteq source
    BY <1>2
  <1>6. validation \cap test = {}
    <2>1. ASSUME NEW r \in validation, r \in test PROVE FALSE
      <3>1. r \in Holdout(of(r.user))["validation"] /\ r \in Holdout(of(r.user))["test"]
        BY <1>2, <2>1
      <3> QED
        BY <1>1, <3>1
    <2> QED
      BY <2>1
  <1> QED
    BY <1>3, <1>4, <1>5, <1>6

\* A dataset of the official files is as its holdout.
LEMMA SourceUnseen == ASSUME NEW source \in Sources PROVE Unseen(FromSource(source))
  <1> DEFINE validation == HeldOut(source, "validation")
             test == HeldOut(source, "test")
             train == source \ (validation \cup test)
             d == FromSource(source)
  <1>1. /\ validation \subseteq source /\ test \subseteq source /\ validation \cap test = {}
        /\ \A r \in source, s \in test : r.user = s.user /\ r \notin test => r.time < s.time
        /\ \A r \in train, s \in validation : r.user = s.user => r.time < s.time
    BY HoldsOutOfFiles
  <1>2. DOMAIN d.train = train /\ DOMAIN d.validation = validation /\ DOMAIN d.test = test
    BY DEF FromSource, SetToBag
  <1> HIDE DEF d, validation, test
  <1>3. Precedes(d.train, d.validation)
    BY <1>1, <1>2 DEF Precedes
  <1>4. Precedes(d.train, d.test)
    BY <1>1, <1>2 DEF Precedes
  <1>5. Precedes(d.validation, d.test)
    BY <1>1, <1>2 DEF Precedes
  <1>6. \A r \in source : r.time \in Nat
    BY DataConstants DEF Instants
  <1>7. \A r \in DOMAIN d.train \cup DOMAIN d.validation \cup DOMAIN d.test : r.time \in Nat
    BY <1>1, <1>2, <1>6
  <1> QED
    BY <1>3, <1>4, <1>5, <1>7 DEF Unseen, d

\* The interactions of an export are in one split, at the time of their events.
LEMMA InTheirSplit ==
    ASSUME NEW e \in Exported, NEW m, NEW split, NEW purpose, NEW w,
           NEW r \in DOMAIN Signals(e, m, split, purpose, w)
    PROVE  /\ r.time \in Nat
           /\ purpose = "systems_only" => split = "train"
           /\ purpose # "systems_only" =>
                 \/ split = "train" /\ r.time < w.end
                 \/ split = "validation" /\ Within(r.time, w.validation)
                 \/ split = "test" /\ Within(r.time, w.test)
  <1> DEFINE chosen == {i \in Accepted(e) : Positive(i, m) /\ InSplit(i, split, purpose, w)}
  <1>1. DOMAIN Signals(e, m, split, purpose, w) = {Interaction(i) : i \in chosen}
    BY DEF Signals
  <1>2. PICK i \in chosen : r = Interaction(i)
    <2> HIDE DEF chosen
    <2> QED
      BY <1>1
  <1>3. r.time = Happened[i].time
    BY <1>2 DEF Interaction
  <1>4. Happened[i].time \in Nat
    BY DataConstants DEF Accepted
  <1>5. InSplit(i, split, purpose, w)
    OBVIOUS
  <1> QED
    BY <1>3, <1>4, <1>5 DEF InSplit

\* A dataset that adds an export holds out what is after all it keeps of its base.
LEMMA ExportUnseen ==
    ASSUME NEW base, Unseen(base), NEW e \in Exported, NEW m \in Mappings,
           NEW purpose \in {"systems_only", "quality_evaluation"},
           purpose = "quality_evaluation" => Ordered(FromExport(base, e, m, purpose).windows)
    PROVE  Unseen(FromExport(base, e, m, purpose))
  <1> DEFINE d == FromExport(base, e, m, purpose)
             w == Windows(e, m, purpose)
             Part(split) == Signals(e, m, split, purpose, w)
  <1>1. /\ d.train = Earlier(base, w.end) (+) Part("train")
        /\ d.validation = Part("validation") /\ d.test = Part("test") /\ d.windows = w
    BY DEF FromExport
  <1>2. \A r \in DOMAIN Earlier(base, w.end) :
           r.time < w.end /\ r \in DOMAIN base.train \cup DOMAIN base.validation \cup DOMAIN base.test
    BY DEF Earlier, Only, (+)
  <1>3. \A r \in DOMAIN Earlier(base, w.end) : r.time \in Nat
    BY <1>2 DEF Unseen
  <1>4. DOMAIN d.train = DOMAIN Earlier(base, w.end) \cup DOMAIN Part("train")
    BY <1>1 DEF (+)
  <1>5. ASSUME NEW split \in {"train", "validation", "test"}, NEW r \in DOMAIN Part(split)
        PROVE  /\ r.time \in Nat
               /\ purpose = "systems_only" => split = "train"
               /\ purpose # "systems_only" =>
                     \/ split = "train" /\ r.time < w.end
                     \/ split = "validation" /\ Within(r.time, w.validation)
                     \/ split = "test" /\ Within(r.time, w.test)
    <2> HIDE DEF w
    <2> QED
      BY <1>5, InTheirSplit
  <1> HIDE DEF d, Part
  <1>6. \A r \in DOMAIN d.train \cup DOMAIN d.validation \cup DOMAIN d.test : r.time \in Nat
    BY <1>1, <1>3, <1>4, <1>5
  <1>7. ASSUME purpose = "systems_only" PROVE Unseen(d)
    <2>1. DOMAIN d.validation = {} /\ DOMAIN d.test = {}
      BY <1>1, <1>5, <1>7
    <2> QED
      BY <1>6, <2>1 DEF Unseen, Precedes
  <1>8. ASSUME purpose = "quality_evaluation" PROVE Unseen(d)
    <2>1. \A t \in {w.end, w.validation[1], w.validation[2], w.test[1], w.test[2]} : t \in Nat
      BY <1>8, DataConstants DEF Windows
    <2>2. /\ w.end <= w.validation[1] /\ w.validation[1] < w.validation[2]
          /\ w.validation[2] <= w.test[1] /\ w.test[1] < w.test[2]
      BY <1>1, <1>8 DEF d, Ordered
    <2> HIDE DEF w
    <2>3. \A r \in DOMAIN d.train : r.time < w.end
      BY <1>2, <1>4, <1>5, <1>8
    <2>4. \A r \in DOMAIN d.validation : w.validation[1] <= r.time /\ r.time < w.validation[2]
      BY <1>1, <1>5, <1>8 DEF Within
    <2>5. \A r \in DOMAIN d.test : w.test[1] <= r.time
      BY <1>1, <1>5, <1>8 DEF Within
    <2>6. \A r \in DOMAIN d.train, s \in DOMAIN d.validation : r.time < s.time
      BY <1>6, <2>1, <2>2, <2>3, <2>4
    <2>7. \A r \in DOMAIN d.train, s \in DOMAIN d.test : r.time < s.time
      BY <1>6, <2>1, <2>2, <2>3, <2>5
    <2>8. \A r \in DOMAIN d.validation, s \in DOMAIN d.test : r.time < s.time
      BY <1>6, <2>1, <2>2, <2>4, <2>5
    <2> QED
      BY <1>6, <2>6, <2>7, <2>8 DEF Unseen, Precedes
  <1> QED
    BY <1>7, <1>8 DEF d

LEMMA BagsAdd ==
    ASSUME NEW a, NEW b, Counts(a), Counts(b)
    PROVE  /\ Counts(a (+) b)
           /\ \A r : Copies(a, r) \in Nat /\ Copies(a (+) b, r) = Copies(a, r) + Copies(b, r)
  <1>1. ASSUME NEW bag, Counts(bag), NEW r PROVE Copies(bag, r) \in Nat
    BY <1>1 DEF Counts, Copies
  <1>2. a (+) b = [r \in DOMAIN a \cup DOMAIN b |-> Copies(a, r) + Copies(b, r)]
    BY DEF (+), Copies
  <1>3. ASSUME NEW r PROVE Copies(a (+) b, r) = Copies(a, r) + Copies(b, r)
    <2>1. CASE r \in DOMAIN a \cup DOMAIN b
      <3>1. (a (+) b)[r] = Copies(a, r) + Copies(b, r)
        BY <1>2, <2>1
      <3>2. r \in DOMAIN (a (+) b)
        BY <1>2, <2>1
      <3> QED
        BY ONLY <3>1, <3>2 DEF Copies
    <2>2. CASE r \notin DOMAIN a \cup DOMAIN b
      <3>1. r \notin DOMAIN (a (+) b)
        BY <1>2, <2>2
      <3>2. Copies(a, r) = 0 /\ Copies(b, r) = 0 /\ Copies(a (+) b, r) = 0
        BY <2>2, <3>1 DEF Copies
      <3> QED
        BY <3>2
    <2> QED
      BY <2>1, <2>2
  <1>4. Counts(a (+) b)
    <2>1. \A r \in DOMAIN a \cup DOMAIN b : Copies(a, r) \in Nat /\ Copies(b, r) \in Nat
      BY <1>1
    <2>2. \A r \in DOMAIN a \cup DOMAIN b : (a (+) b)[r] = Copies(a, r) + Copies(b, r)
      BY <1>2
    <2>3. DOMAIN (a (+) b) = DOMAIN a \cup DOMAIN b
      BY <1>2
    <2> QED
      BY <2>1, <2>2, <2>3 DEF Counts
  <1> QED
    BY <1>1, <1>3, <1>4

LEMMA AllCopies ==
    ASSUME NEW d, Counts(d.train), Counts(d.validation), Counts(d.test)
    PROVE  /\ Counts(All(d))
           /\ \A r : /\ Copies(All(d), r) \in Nat
                     /\ Copies(All(d), r) = Copies(d.train, r) + Copies(d.validation, r) + Copies(d.test, r)
  <1>1. Counts(d.train (+) d.validation)
    BY BagsAdd
  <1>2. Counts(All(d))
    BY <1>1, BagsAdd DEF All
  <1>3. \A r : Copies(d.train (+) d.validation, r) = Copies(d.train, r) + Copies(d.validation, r)
    BY BagsAdd
  <1>4. \A r : Copies(All(d), r) = Copies(d.train (+) d.validation, r) + Copies(d.test, r)
    BY <1>1, BagsAdd DEF All
  <1>5. \A r : Copies(All(d), r) \in Nat
    BY <1>2, BagsAdd
  <1> QED
    BY <1>2, <1>3, <1>4, <1>5

LEMMA FiniteExports == ASSUME NEW e \in Exported PROVE IsFiniteSet(Accepted(e))
  <1>1. e.after + 1 \in Int /\ e.upto \in Int
    BY DataConstants
  <1>2. IsFiniteSet(e.after + 1 .. e.upto)
    BY <1>1, FS_Interval
  <1> QED
    BY <1>2, FS_Subset DEF Accepted

LEMMA SignalsCount ==
    ASSUME NEW e \in Exported, NEW m, NEW split, NEW purpose, NEW w
    PROVE  /\ Counts(Signals(e, m, split, purpose, w))
           /\ purpose = "systems_only" =>
                \A r : Copies(Signals(e, m, split, purpose, w), r) =
                   IF split = "train" THEN Cardinality({i \in Accepted(e) : Positive(i, m) /\ Interaction(i) = r}) ELSE 0
  <1> DEFINE chosen == {i \in Accepted(e) : Positive(i, m) /\ InSplit(i, split, purpose, w)}
             of(r) == {i \in chosen : Interaction(i) = r}
             bag == Signals(e, m, split, purpose, w)
  <1>1. bag = [r \in {Interaction(i) : i \in chosen} |-> Cardinality(of(r))]
    BY DEF Signals
  <1>2. \A r : IsFiniteSet(of(r))
    <2>1. \A r : of(r) \subseteq Accepted(e)
      OBVIOUS
    <2> HIDE DEF of
    <2> QED
      BY <2>1, FiniteExports, FS_Subset
  <1> HIDE DEF bag
  <1>3. Counts(bag)
    <2>1. \A r : Cardinality(of(r)) \in Nat
      <3> HIDE DEF of
      <3> QED
        BY <1>2, FS_CardinalityType
    <2> HIDE DEF of
    <2> QED
      BY <1>1, <2>1 DEF Counts
  <1>4. ASSUME NEW r PROVE Copies(bag, r) = Cardinality(of(r))
    <2>1. CASE r \in {Interaction(i) : i \in chosen}
      <3> HIDE DEF of
      <3> QED
        BY <1>1, <2>1 DEF Copies
    <2>2. CASE r \notin {Interaction(i) : i \in chosen}
      <3>1. of(r) = {}
        BY <2>2
      <3>2. Cardinality(of(r)) = 0
        BY <3>1, FS_EmptySet
      <3>3. r \notin DOMAIN bag
        BY <1>1, <2>2
      <3> HIDE DEF of
      <3> QED
        BY <3>2, <3>3 DEF Copies
    <2> QED
      BY <2>1, <2>2
  <1>5. ASSUME purpose = "systems_only", split = "train", NEW r
        PROVE  of(r) = {i \in Accepted(e) : Positive(i, m) /\ Interaction(i) = r}
    BY <1>5 DEF InSplit
  <1>6. ASSUME purpose = "systems_only", split # "train", NEW r PROVE Cardinality(of(r)) = 0
    <2>1. of(r) = {}
      BY <1>6 DEF InSplit
    <2> QED
      BY <2>1, FS_EmptySet
  <1> HIDE DEF of
  <1>7. ASSUME purpose = "systems_only", NEW r
        PROVE  Copies(bag, r) = IF split = "train" THEN Cardinality({i \in Accepted(e) : Positive(i, m) /\ Interaction(i) = r}) ELSE 0
    BY <1>4, <1>5, <1>6, <1>7
  <1> QED
    BY <1>3, <1>7 DEF bag

\* A version that goes on: what it keeps of the events before, and the events it adds
LEMMA VersionGoesOn ==
    ASSUME NEW v, Version(v), NEW x \in Added
    PROVE  /\ Version(Append(v, x)) /\ Len(Append(v, x)) = Len(v) + 1
           /\ \A k \in 1 .. Len(v) : Append(v, x)[k] = v[k]
           /\ Append(v, x)[Len(v) + 1] = x
           /\ Len(v) \in Nat
  <1>1. /\ Append(v, x) \in Seq(Sources \cup Added) /\ Len(Append(v, x)) = Len(v) + 1
        /\ \A k \in 1 .. Len(v) : Append(v, x)[k] = v[k]
        /\ Append(v, x)[Len(v) + 1] = x
        /\ Len(v) \in Nat /\ Len(v) > 0
    BY DEF Version
  <1>2. \A k \in 2 .. Len(v) + 1 : k = Len(v) + 1 \/ k \in 2 .. Len(v)
    BY <1>1
  <1>3. \A k \in 2 .. Len(v) : k \in 1 .. Len(v)
    BY <1>1
  <1>4. 1 \in 1 .. Len(v)
    BY <1>1
  <1> QED
    BY <1>1, <1>2, <1>3, <1>4 DEF Version

LEMMA KeptGoesOn ==
    ASSUME NEW v, Version(v), NEW x \in Added, NEW r
    PROVE  /\ \A k \in 1 .. Len(v) : KeptFrom(Append(v, x), r, k) <=> KeptFrom(v, r, k) /\ r.time < Cutoff(x.export)
           /\ KeptFrom(Append(v, x), r, Len(v) + 1)
           /\ \A k \in 2 .. Len(v) : EventsOf(Append(v, x), r, k) = EventsOf(v, r, k)
           /\ EventsOf(Append(v, x), r, Len(v) + 1) = {i \in Accepted(x.export) : Positive(i, x.mapping) /\ Interaction(i) = r}
  <1> DEFINE n == Len(v)
             y == Append(v, x)
  <1>1. /\ n \in Nat /\ Len(y) = n + 1 /\ y[n + 1] = x
        /\ \A k \in 1 .. n : y[k] = v[k]
    BY VersionGoesOn
  <1> HIDE DEF n, y
  <1>2. \A k \in 2 .. n : k \in 1 .. n
    BY <1>1
  <1>3. \A k \in 2 .. n + 1 : k = n + 1 \/ k \in 2 .. n
    BY <1>1
  <1>4. ASSUME NEW k \in 1 .. n PROVE KeptFrom(y, r, k) <=> KeptFrom(v, r, k) /\ r.time < Cutoff(x.export)
    <2>1. n + 1 > k /\ n + 1 \in 2 .. n + 1
      BY <1>1
    <2>2. \A j \in 2 .. n : j \in 2 .. n + 1
      BY <1>1
    <2>3. KeptFrom(y, r, k) <=> \A j \in 2 .. n + 1 : j > k => r.time < Cutoff(y[j].export)
      BY <1>1 DEF KeptFrom
    <2>4. KeptFrom(v, r, k) <=> \A j \in 2 .. n : j > k => r.time < Cutoff(v[j].export)
      BY DEF KeptFrom, n
    <2> QED
      BY <1>1, <1>2, <1>3, <2>1, <2>2, <2>3, <2>4
  <1>5. KeptFrom(y, r, n + 1)
    <2>1. \A j \in 2 .. n + 1 : ~ (j > n + 1)
      BY <1>1
    <2> QED
      BY <1>1, <2>1 DEF KeptFrom
  <1>6. \A k \in 2 .. n : EventsOf(y, r, k) = EventsOf(v, r, k)
    BY <1>1, <1>2 DEF EventsOf
  <1>7. EventsOf(y, r, n + 1) = {i \in Accepted(x.export) : Positive(i, x.mapping) /\ Interaction(i) = r}
    BY <1>1 DEF EventsOf
  <1> QED
    BY <1>4, <1>5, <1>6, <1>7 DEF n, y

\* One set beside a number
LEMMA Beside ==
    ASSUME NEW S, IsFiniteSet(S), NEW n
    PROVE  IsFiniteSet({n} \X S) /\ Cardinality({n} \X S) = Cardinality(S)
  <1> DEFINE pair == [i \in S |-> <<n, i>>]
  <1>1. pair \in [S -> {n} \X S]
    OBVIOUS
  <1>2. \A i, j \in S : pair[i] = pair[j] => i = j
    OBVIOUS
  <1>3. \A p \in {n} \X S : \E i \in S : pair[i] = p
    OBVIOUS
  <1> HIDE DEF pair
  <1>4. pair \in Bijection(S, {n} \X S)
    BY <1>1, <1>2, <1>3 DEF Bijection, Injection, Surjection, IsInjective
  <1>5. pair \in Surjection(S, {n} \X S) /\ ExistsBijection(S, {n} \X S)
    BY <1>4 DEF Bijection, ExistsBijection
  <1>6. IsFiniteSet({n} \X S)
    BY <1>5, FS_Surjection
  <1>7. Cardinality(S) = Cardinality({n} \X S)
    BY <1>5, <1>6, FS_Bijection
  <1> QED
    BY <1>6, <1>7

LEMMA HoldsMore ==
    ASSUME NEW v, Version(v), NEW x \in Added, NEW r, IsFiniteSet(EventsKept(v, r))
    PROVE  /\ IsFiniteSet(EventsKept(Append(v, x), r))
           /\ HeldBy(v, r) \in Nat
           /\ HeldBy(Append(v, x), r) =
                (IF r.time < Cutoff(x.export) THEN HeldBy(v, r) ELSE 0)
                 + Cardinality({i \in Accepted(x.export) : Positive(i, x.mapping) /\ Interaction(i) = r})
  <1> DEFINE n == Len(v)
             y == Append(v, x)
             old == IF r.time < Cutoff(x.export) THEN EventsKept(v, r) ELSE {}
             new == {i \in Accepted(x.export) : Positive(i, x.mapping) /\ Interaction(i) = r}
  <1>1. /\ n \in Nat /\ n > 0 /\ Len(y) = n + 1 /\ y[n + 1] = x /\ y[1] = v[1]
    <2>1. n > 0
      BY DEF Version
    <2> QED
      BY <2>1, VersionGoesOn
  <1>2. /\ \A k \in 1 .. n : KeptFrom(y, r, k) <=> KeptFrom(v, r, k) /\ r.time < Cutoff(x.export)
        /\ KeptFrom(y, r, n + 1)
        /\ \A k \in 2 .. n : EventsOf(y, r, k) = EventsOf(v, r, k)
        /\ EventsOf(y, r, n + 1) = new
    BY KeptGoesOn
  <1>3. IsFiniteSet(new) /\ Cardinality(new) \in Nat
    <2>1. IsFiniteSet(Accepted(x.export))
      BY FiniteExports DEF Added
    <2>2. IsFiniteSet(new)
      BY <2>1, FS_Subset
    <2> QED
      BY <2>2, FS_CardinalityType
  <1> HIDE DEF n, y, new
  <1>4. EventsKept(y, r) = old \cup ({n + 1} \X new)
    <2>1. \A p : p \in EventsKept(y, r) <=> \E k \in 2 .. n + 1 : KeptFrom(y, r, k) /\ p \in {k} \X EventsOf(y, r, k)
      BY <1>1 DEF EventsKept
    <2>2. \A p : p \in EventsKept(v, r) <=> \E k \in 2 .. n : KeptFrom(v, r, k) /\ p \in {k} \X EventsOf(v, r, k)
      BY DEF EventsKept, n
    <2>3. \A k \in 2 .. n + 1 : k = n + 1 \/ (k \in 2 .. n /\ k \in 1 .. n)
      BY <1>1
    <2>4. \A k \in 2 .. n : k \in 2 .. n + 1 /\ k \in 1 .. n
      BY <1>1
    <2>5. n + 1 \in 2 .. n + 1
      BY <1>1
    <2>6. ASSUME NEW p \in EventsKept(y, r) PROVE p \in old \cup ({n + 1} \X new)
      <3>1. PICK k \in 2 .. n + 1 : KeptFrom(y, r, k) /\ p \in {k} \X EventsOf(y, r, k)
        BY <2>1
      <3>2. CASE k = n + 1
        BY <1>2, <3>1, <3>2
      <3>3. CASE k \in 2 .. n /\ k \in 1 .. n
        <4>1. KeptFrom(v, r, k) /\ r.time < Cutoff(x.export) /\ p \in {k} \X EventsOf(v, r, k)
          BY <1>2, <3>1, <3>3
        <4> QED
          BY <2>2, <3>3, <4>1
      <3> QED
        BY <2>3, <3>2, <3>3
    <2>7. ASSUME NEW p \in old PROVE p \in EventsKept(y, r)
      <3>1. r.time < Cutoff(x.export) /\ p \in EventsKept(v, r)
        BY <2>7
      <3>2. PICK k \in 2 .. n : KeptFrom(v, r, k) /\ p \in {k} \X EventsOf(v, r, k)
        BY <2>2, <3>1
      <3>3. KeptFrom(y, r, k) /\ p \in {k} \X EventsOf(y, r, k) /\ k \in 2 .. n + 1
        BY <1>2, <2>4, <3>1, <3>2
      <3> QED
        BY <2>1, <3>3
    <2>8. ASSUME NEW p \in {n + 1} \X new PROVE p \in EventsKept(y, r)
      BY <1>2, <2>1, <2>5
    <2> QED
      BY <2>6, <2>7, <2>8
  <1>5. IsFiniteSet(old) /\ Cardinality(old) \in Nat
        /\ Cardinality(old) = IF r.time < Cutoff(x.export) THEN Cardinality(EventsKept(v, r)) ELSE 0
    BY FS_EmptySet, FS_CardinalityType
  <1>6. IsFiniteSet({n + 1} \X new) /\ Cardinality({n + 1} \X new) = Cardinality(new)
    BY <1>3, Beside
  <1>7. old \cap ({n + 1} \X new) = {}
    <2>1. ASSUME NEW p \in EventsKept(v, r) PROVE p[1] \in 2 .. n
      BY DEF EventsKept, n
    <2>2. \A p \in {n + 1} \X new : p[1] = n + 1
      OBVIOUS
    <2>3. n + 1 \notin 2 .. n
      BY <1>1
    <2> QED
      BY <2>1, <2>2, <2>3
  <1> HIDE DEF old
  <1>8. /\ IsFiniteSet(EventsKept(y, r))
        /\ Cardinality(EventsKept(y, r)) = Cardinality(old) + Cardinality(new)
    <2>1. Cardinality(old \cap ({n + 1} \X new)) = 0
      BY <1>7, FS_EmptySet
    <2>2. /\ IsFiniteSet(old \cup ({n + 1} \X new))
          /\ Cardinality(old \cup ({n + 1} \X new)) =
                Cardinality(old) + Cardinality({n + 1} \X new) - Cardinality(old \cap ({n + 1} \X new))
      BY <1>5, <1>6, FS_Union
    <2> QED
      BY <1>3, <1>4, <1>5, <1>6, <2>1, <2>2
  <1>9. 1 \in 1 .. n
    BY <1>1
  <1>10. Cardinality(EventsKept(v, r)) \in Nat
    BY FS_CardinalityType
  <1>11. HeldBy(v, r) \in Nat
    BY <1>10 DEF HeldBy
  <1>12. HeldBy(y, r) = (IF r.time < Cutoff(x.export) THEN HeldBy(v, r) ELSE 0) + Cardinality(new)
    <2>1. HeldBy(y, r) = Cardinality(old) + Cardinality(new) + IF r \in v[1] /\ KeptFrom(y, r, 1) THEN 1 ELSE 0
      BY <1>1, <1>8 DEF HeldBy
    <2>2. KeptFrom(y, r, 1) <=> KeptFrom(v, r, 1) /\ r.time < Cutoff(x.export)
      BY <1>2, <1>9
    <2>3. CASE r.time < Cutoff(x.export)
      <3>1. HeldBy(y, r) = Cardinality(EventsKept(v, r)) + Cardinality(new) + IF r \in v[1] /\ KeptFrom(v, r, 1) THEN 1 ELSE 0
        BY <1>5, <2>1, <2>2, <2>3
      <3> QED
        BY <1>3, <1>10, <2>3, <3>1 DEF HeldBy
    <2>4. CASE ~ (r.time < Cutoff(x.export))
      BY <1>3, <1>5, <2>1, <2>2, <2>4
    <2> QED
      BY <2>3, <2>4
  <1> QED
    BY <1>8, <1>11, <1>12 DEF y, new

\* Of a dataset, what precedes the end
LEMMA EarlierCount ==
    ASSUME NEW d, Counts(d.train), Counts(d.validation), Counts(d.test), NEW end
    PROVE  /\ Counts(Earlier(d, end))
           /\ \A r : Copies(Earlier(d, end), r) = IF r.time < end THEN Copies(All(d), r) ELSE 0
  <1> DEFINE kept == {r \in DOMAIN All(d) : r.time < end}
  <1>1. Earlier(d, end) = [r \in kept |-> All(d)[r]]
    BY DEF Earlier, Only, All
  <1>2. Counts(All(d))
    BY AllCopies
  <1>3. ASSUME NEW r PROVE Copies(Earlier(d, end), r) = IF r.time < end THEN Copies(All(d), r) ELSE 0
    BY <1>1 DEF Copies
  <1> QED
    BY <1>1, <1>2, <1>3 DEF Counts

LEMMA ExportLearned ==
    ASSUME NEW v, NEW d, Learned(v, d), NEW e \in Exported, NEW m \in Mappings, NEW purpose \in Purposes
    PROVE  Learned(Append(v, [export |-> e, mapping |-> m, purpose |-> purpose]), FromExport(d, e, m, purpose))
  <1> DEFINE x == [export |-> e, mapping |-> m, purpose |-> purpose]
             y == Append(v, x)
             w == Windows(e, m, purpose)
             next == FromExport(d, e, m, purpose)
             Part(split) == Signals(e, m, split, purpose, w)
             new(r) == {i \in Accepted(e) : Positive(i, m) /\ Interaction(i) = r}
  <1>1. x \in Added /\ x.export = e /\ x.mapping = m /\ x.purpose = purpose
    BY DEF Added
  <1> HIDE DEF x
  <1>2. /\ Version(v) /\ Counts(d.train) /\ Counts(d.validation) /\ Counts(d.test)
    BY DEF Learned
  <1>3. /\ Version(y) /\ Len(y) = Len(v) + 1 /\ y[Len(v) + 1] = x /\ Len(v) \in Nat /\ Len(v) > 0
        /\ \A k \in 1 .. Len(v) : y[k] = v[k]
    <2>1. Len(v) > 0
      BY <1>2 DEF Version
    <2> QED
      BY <1>1, <1>2, <2>1, VersionGoesOn
  <1> HIDE DEF y
  <1>4. next.train = Earlier(d, w.end) (+) Part("train") /\ next.validation = Part("validation") /\ next.test = Part("test")
    BY DEF FromExport
  <1> HIDE DEF next
  <1>5. Counts(Part("train")) /\ Counts(Part("validation")) /\ Counts(Part("test"))
    <2> HIDE DEF w
    <2> QED
      BY SignalsCount
  <1>6. Counts(Earlier(d, w.end)) /\ \A r : Copies(Earlier(d, w.end), r) = IF r.time < w.end THEN Copies(All(d), r) ELSE 0
    <2> HIDE DEF w
    <2> QED
      BY <1>2, EarlierCount
  <1>7. Counts(next.train) /\ Counts(next.validation) /\ Counts(next.test)
    <2> HIDE DEF Part, w
    <2> QED
      BY <1>4, <1>5, <1>6, BagsAdd
  <1>8. ASSUME \A k \in 2 .. Len(y) : y[k].purpose = "systems_only", NEW r
        PROVE  IsFiniteSet(EventsKept(y, r)) /\ Copies(All(next), r) = HeldBy(y, r)
    <2>1. purpose = "systems_only"
      <3>1. Len(v) + 1 \in 2 .. Len(y)
        BY <1>3
      <3> QED
        BY <1>1, <1>3, <1>8, <3>1
    <2>2. \A k \in 2 .. Len(v) : v[k].purpose = "systems_only"
      <3>1. \A k \in 2 .. Len(v) : k \in 2 .. Len(y) /\ k \in 1 .. Len(v)
        BY <1>3
      <3> QED
        BY <1>3, <1>8, <3>1
    <2>3. IsFiniteSet(EventsKept(v, r)) /\ Copies(All(d), r) = HeldBy(v, r)
      BY <2>2 DEF Learned
    <2>4. w.end = Cutoff(e)
      BY <2>1 DEF Windows
    <2>5. Copies(Part("train"), r) = Cardinality(new(r)) /\ Copies(Part("validation"), r) = 0 /\ Copies(Part("test"), r) = 0
      <3> HIDE DEF w
      <3> QED
        BY <2>1, SignalsCount
    <2>6. Copies(next.train, r) = Copies(Earlier(d, w.end), r) + Copies(Part("train"), r)
      <3> HIDE DEF Part, w
      <3> QED
        BY <1>4, <1>5, <1>6, BagsAdd
    <2>7. /\ IsFiniteSet(EventsKept(y, r)) /\ HeldBy(v, r) \in Nat
          /\ HeldBy(y, r) = (IF r.time < Cutoff(e) THEN HeldBy(v, r) ELSE 0) + Cardinality(new(r))
      BY <1>1, <1>2, <2>3, HoldsMore DEF y
    <2>8. Copies(All(next), r) = Copies(next.train, r) + Copies(next.validation, r) + Copies(next.test, r)
      BY <1>7, AllCopies
    <2>9. Cardinality(new(r)) \in Nat
      <3>1. Copies(Part("train"), r) \in Nat
        <4> HIDE DEF Part
        <4> QED
          BY <1>5, BagsAdd
      <3> QED
        BY <2>5, <3>1
    <2> HIDE DEF Part, new, w
    <2>10. Copies(Earlier(d, w.end), r) = IF r.time < Cutoff(e) THEN HeldBy(v, r) ELSE 0
      BY <1>6, <2>3, <2>4
    <2>11. Copies(All(next), r) = Copies(Earlier(d, w.end), r) + Cardinality(new(r)) + 0 + 0
      BY <1>4, <2>5, <2>6, <2>8
    <2> QED
      BY <2>7, <2>9, <2>10, <2>11
  <1>9. Learned(y, next)
    BY <1>3, <1>7, <1>8 DEF Learned
  <1> QED
    BY <1>9 DEF x, y, next

LEMMA SourceLearned ==
    ASSUME NEW source \in Sources,
           HeldOut(source, "validation") \subseteq source, HeldOut(source, "test") \subseteq source,
           HeldOut(source, "validation") \cap HeldOut(source, "test") = {}
    PROVE  Learned(<<source>>, FromSource(source))
  <1> DEFINE v == <<source>>
             d == FromSource(source)
             validation == HeldOut(source, "validation")
             test == HeldOut(source, "test")
  <1>1. /\ v \in Seq(Sources \cup Added) /\ Len(v) = 1 /\ v[1] = source
    OBVIOUS
  <1> HIDE DEF v
  <1>2. 2 .. 1 = {}
    OBVIOUS
  <1>3. Version(v)
    BY <1>1, <1>2 DEF Version
  <1>4. /\ d.train = [r \in source \ (validation \cup test) |-> 1]
        /\ d.validation = [r \in validation |-> 1] /\ d.test = [r \in test |-> 1]
    BY DEF FromSource, SetToBag
  <1> HIDE DEF d, validation, test
  <1>5. Counts(d.train) /\ Counts(d.validation) /\ Counts(d.test)
    BY <1>4 DEF Counts
  <1>6. ASSUME NEW r PROVE IsFiniteSet(EventsKept(v, r)) /\ Copies(All(d), r) = HeldBy(v, r)
    <2>1. EventsKept(v, r) = {}
      BY <1>1, <1>2 DEF EventsKept
    <2>2. IsFiniteSet(EventsKept(v, r)) /\ Cardinality(EventsKept(v, r)) = 0
      BY <2>1, FS_EmptySet
    <2>3. KeptFrom(v, r, 1)
      BY <1>1, <1>2 DEF KeptFrom
    <2>4. HeldBy(v, r) = IF r \in source THEN 1 ELSE 0
      BY <1>1, <2>2, <2>3 DEF HeldBy
    <2>5. Copies(All(d), r) = Copies(d.train, r) + Copies(d.validation, r) + Copies(d.test, r)
      BY <1>5, AllCopies
    <2>6. /\ Copies(d.train, r) = IF r \in source \ (validation \cup test) THEN 1 ELSE 0
          /\ Copies(d.validation, r) = IF r \in validation THEN 1 ELSE 0
          /\ Copies(d.test, r) = IF r \in test THEN 1 ELSE 0
      BY <1>4 DEF Copies
    <2>7. validation \subseteq source /\ test \subseteq source /\ validation \cap test = {}
      BY DEF validation, test
    <2> QED
      BY <2>2, <2>4, <2>5, <2>6, <2>7
  <1>7. Learned(v, d)
    BY <1>3, <1>5, <1>6 DEF Learned
  <1> QED
    BY <1>7 DEF v, d

LEMMA AsOften ==
    ASSUME NEW v, NEW d, Learned(v, d), \A k \in 2 .. Len(v) : v[k].purpose = "systems_only", NEW r
    PROVE  (IF r \in DOMAIN All(d) THEN All(d)[r] ELSE 0) = HeldBy(v, r)
  BY DEF Learned, Copies

LEMMA InitData == DataInit => DataInv
  BY DEF DataInit, DataInv, BuildInv

\* A step of a builder that leaves the directories in place.
LEMMA BuilderStep ==
    ASSUME DataInv, NEW b \in DataBuilders, NEW row, BuildInv(row),
           building' = [building EXCEPT ![b] = row], UNCHANGED datasets
    PROVE  DataInv'
  BY DEF DataInv

LEMMA DataStep == DataInv /\ [DataNext]_dataVars => DataInv'
  <1> SUFFICES ASSUME DataInv, [DataNext]_dataVars PROVE DataInv'
    OBVIOUS
  <1>1. ASSUME NEW b \in DataBuilders, NEW version, NEW d, Fair(version, d), Written(b, version, d)
        PROVE  DataInv'
    <2> DEFINE row == [at |-> "written", version |-> version, dataset |-> d]
    <2>1. row \in [at : {"written", "clear"}, version : {version}, dataset : {d}]
      OBVIOUS
    <2>2. BuildInv(row)
      BY <1>1, <2>1 DEF BuildInv
    <2>3. building' = [building EXCEPT ![b] = row] /\ UNCHANGED datasets
      BY <1>1 DEF Written
    <2> QED
      BY <2>2, <2>3, BuilderStep
  <1>2. BuildInv(Unbuilt)
    BY DEF BuildInv
  <1>3. ASSUME NEW b \in DataBuilders, NEW source \in Sources, BuildOfficial(b, source) PROVE DataInv'
    <2>1. Fair(<<source>>, FromSource(source))
      BY SourceUnseen, HoldsOutOfFiles, SourceLearned DEF Fair
    <2> QED
      BY <1>1, <1>3, <2>1 DEF BuildOfficial
  <1>4. ASSUME NEW b \in DataBuilders, NEW base \in DOMAIN datasets, NEW e \in Exported, NEW m \in Mappings,
               NEW purpose \in {"systems_only", "quality_evaluation"}, BuildEvents(b, base, e, m, purpose)
        PROVE  DataInv'
    <2> DEFINE d == FromExport(datasets[base], e, m, purpose)
               version == Append(base, [export |-> e, mapping |-> m, purpose |-> purpose])
    <2>1. (purpose = "quality_evaluation" => Ordered(d.windows)) /\ Written(b, version, d)
      BY <1>4 DEF BuildEvents
    <2>2. Unseen(datasets[base]) /\ Learned(base, datasets[base])
      BY DEF DataInv, Fair
    <2>3. Unseen(d)
      BY <2>1, <2>2, ExportUnseen
    <2>4. Learned(version, d)
      BY <2>2, ExportLearned DEF Purposes
    <2> HIDE DEF d, version
    <2> QED
      BY <1>1, <2>1, <2>3, <2>4 DEF Fair
  <1>5. ASSUME NEW b \in DataBuilders, building[b].at # "idle"
        PROVE  /\ Fair(building[b].version, building[b].dataset)
               /\ BuildInv([building[b] EXCEPT !.at = "clear"])
    <2>1. BuildInv(building[b]) /\ building[b] # Unbuilt
      BY <1>5 DEF DataInv, Unbuilt
    <2>2. PICK version, d :
             building[b] \in [at : {"written", "clear"}, version : {version}, dataset : {d}] /\ Fair(version, d)
      BY <2>1 DEF BuildInv
    <2>3. building[b].dataset = d /\ building[b].version = version
      BY <2>2
    <2>4. [building[b] EXCEPT !.at = "clear"] \in [at : {"written", "clear"}, version : {version}, dataset : {d}]
      BY <2>2
    <2> QED
      BY <2>2, <2>3, <2>4 DEF BuildInv
  <1>6. ASSUME NEW b \in DataBuilders, LookFor(b) PROVE DataInv'
    <2>1. building[b].at # "idle" /\ UNCHANGED datasets
      BY <1>6 DEF LookFor
    <2>2. CASE building' = [building EXCEPT ![b] = Unbuilt]
      BY <1>2, <2>1, <2>2, BuilderStep
    <2>3. CASE building' = [building EXCEPT ![b].at = "clear"]
      <3>1. building' = [building EXCEPT ![b] = [building[b] EXCEPT !.at = "clear"]]
        BY <2>3
      <3> QED
        BY <1>5, <2>1, <3>1, BuilderStep
    <2> QED
      BY <1>6, <2>2, <2>3 DEF LookFor, Put
  <1>7. ASSUME NEW b \in DataBuilders, MoveIn(b) PROVE DataInv'
    <2> DEFINE version == building[b].version
               dataset == building[b].dataset
    <2>1. datasets' = [v \in DOMAIN datasets \cup {version} |-> IF v \in DOMAIN datasets THEN datasets[v] ELSE dataset]
      BY <1>7 DEF MoveIn
    <2>2. building[b].at # "idle" /\ building' = [building EXCEPT ![b] = Unbuilt]
      BY <1>7 DEF MoveIn, Put
    <2>3. Fair(version, dataset)
      BY <1>5, <2>2
    <2> HIDE DEF version, dataset
    <2>4. \A v \in DOMAIN datasets' : Fair(v, datasets'[v])
      BY <2>1, <2>3 DEF DataInv
    <2>5. /\ DOMAIN building' = DataBuilders
          /\ \A c \in DataBuilders : BuildInv(building'[c])
          /\ building' = [c \in DataBuilders |-> building'[c]]
      BY <1>2, <2>2 DEF DataInv
    <2> QED
      BY <2>4, <2>5 DEF DataInv
  <1>8. ASSUME NEW b \in DataBuilders, BuilderDies(b) PROVE DataInv'
    <2>1. building' = [building EXCEPT ![b] = Unbuilt] /\ UNCHANGED datasets
      BY <1>8 DEF BuilderDies, Put
    <2> QED
      BY <1>2, <2>1, BuilderStep
  <1>9. CASE UNCHANGED dataVars
    BY <1>9 DEF DataInv, dataVars
  <1> QED
    BY <1>3, <1>4, <1>6, <1>7, <1>8, <1>9 DEF DataNext

\* What a dataset holds out of a user comes after all it trains on of that user, and the test
\* after the validation, over any chain of exports that overlap, repeat or go back in time,
\* for any files, catalogs, mappings and builders (recsys/data).
THEOREM HoldoutUnseen == DataSpec => [] EvaluationUnseen
  <1>1. DataInv => EvaluationUnseen
    BY DEF DataInv, Fair, EvaluationUnseen, Unseen, Precedes
  <1> QED
    BY <1>1, InitData, DataStep, PTL DEF DataSpec

\* A chain of systems_only builds keeps every interaction as often as the files and the
\* exports hold it, as long as it precedes the cutoff of each later build: of none does a
\* build, a repeat or an overlap of exports, or a race of builders lose or double a copy.
THEOREM NoneLostNoneDoubled == DataSpec => [] LearnedAsOften
  <1>1. DataInv => LearnedAsOften
    <2> SUFFICES ASSUME DataInv, NEW v \in DOMAIN datasets, \A k \in 2 .. Len(v) : v[k].purpose = "systems_only", NEW r
                 PROVE  (IF r \in DOMAIN All(datasets[v]) THEN All(datasets[v])[r] ELSE 0) = HeldBy(v, r)
      BY DEF LearnedAsOften, All, HeldBy, EventsKept, EventsOf, KeptFrom
    <2> QED
      BY AsOften DEF DataInv, Fair
  <1> QED
    BY <1>1, InitData, DataStep, PTL DEF DataSpec

ExperimentRow == [experiment : Experiments, metric : Metrics, reused : BOOLEAN]

RunRecord ==
    [status : {"running", "passed", "failed"}, runs : Seq(ExperimentRow), selected : Experiments \cup {NoExperiment}]

Phases ==
    {"idle", "verifying", "claiming", "claimed", "unclaimed", "opening", "validating", "frozen", "finishing", "failing",
     "done"}

RunnerRow ==
    [at : Phases, id : RunIds \cup {NoRunner}, existed : BOOLEAN, record : RunRecord \cup {NoRunRecord},
     best : Experiments \cup {NoExperiment}]

ExperimentTypes ==
    /\ scores \in [{ConfigOf[e] : e \in Experiments} -> Metrics]
    /\ runRecord \in [RunIds -> RunRecord \cup {NoRunRecord}]
    /\ runner \in [Runners -> RunnerRow]

\* From the marker to the end, or to an exception
Holding == {"claimed", "opening", "validating", "frozen", "finishing"}

RootInv ==
    /\ \A r \in Runners : runner[r].at \in Holding => marker = r
    /\ \A r \in Runners : runner[r].at # "idle" => runner[r].id \in RunIds
    /\ \A r \in Runners : runner[r].at = "idle" => runner[r].id = NoRunner

\* The best of the first n experiments
BestOf(e, n) ==
    IF n = 0 THEN e = NoExperiment
    ELSE e \in Experiments /\ \A k \in 1 .. n : Matrix[k] = e \/ Preferred(e, Matrix[k])

\* A record of the first experiments of the matrix
Covers(record) ==
    /\ record \in RunRecord /\ record.status = "running"
    /\ Len(record.runs) <= Len(Matrix)
    /\ \A n \in 1 .. Len(record.runs) : record.runs[n].experiment = Matrix[n]

Validating(row) == Covers(row.record) /\ BestOf(row.best, Len(row.record.runs))

Frozen(row) ==
    /\ Covers(row.record) /\ Len(row.record.runs) = Len(Matrix)
    /\ BestOf(row.record.selected, Len(Matrix))

MemoryInv ==
    \A r \in Runners :
        /\ runner[r].at = "validating" => Validating(runner[r])
        /\ runner[r].at \in {"frozen", "finishing"} => Frozen(runner[r])
        /\ runner[r].at = "failing" => runner[r].record \in RunRecord /\ ~ runner[r].existed

\* What the one that has the root has recorded stands, unless another one marks it.
Stands(r, e) == Contended(runner[r].id) \/ runRecord[runner[r].id].selected = e

FrozenInv ==
    \A r \in Runners : runner[r].at \in {"frozen", "finishing"} => Stands(r, runner[r].record.selected)

ReadOnce(r, e) ==
    /\ marker = r /\ tested = {[by |-> r, experiment |-> e]}
    /\ BestOf(e, Len(Matrix))
    /\ runner[r].at \in {"finishing", "failing", "done"}
    /\ Stands(r, e)
    /\ runner[r].at = "finishing" => runner[r].record.selected = e
    /\ runner[r].at = "failing" => Contended(runner[r].id) \/ runner[r].record.selected = e

TestInv ==
    /\ tested = {} \/ \E r \in Runners, e \in Experiments \cup {NoExperiment} : ReadOnce(r, e)
    /\ \A r \in Runners : runner[r].at = "finishing" => tested # {}

PassedInv ==
    \A id \in RunIds : runRecord[id] # NoRunRecord /\ runRecord[id].status = "passed" =>
        /\ tested = {[by |-> marker, experiment |-> runRecord[id].selected]}
        /\ Len(runRecord[id].runs) = Len(Matrix)
        /\ \A n \in 1 .. Len(Matrix) : runRecord[id].runs[n].experiment = Matrix[n]

ExperimentsInv == ExperimentTypes /\ RootInv /\ MemoryInv /\ FrozenInv /\ TestInv /\ PassedInv

LEMMA SameBest == ASSUME UNCHANGED scores PROVE \A e, n : BestOf(e, n)' <=> BestOf(e, n)
  BY DEF BestOf, Preferred, Metric

\* Contention of the run of one whose row keeps its id is not taken back.
LEMMA Contends ==
    ASSUME ExperimentsInv, UNCHANGED marker, NEW r \in Runners, NEW row \in RunnerRow,
           runner' = [runner EXCEPT ![r] = row],
           runner[r].at = "idle" \/ (row.id = runner[r].id /\ row.existed = runner[r].existed)
    PROVE  \A id \in RunIds : Contended(id) => Contended(id)'
  <1>1. runner \in [Runners -> RunnerRow] /\ NoRunner \notin RunIds
    BY ExperimentConstants DEF ExperimentsInv, ExperimentTypes
  <1>2. \A u \in Runners : runner'[u] = IF u = r THEN row ELSE runner[u]
    BY <1>1
  <1>3. ASSUME NEW id \in RunIds, NEW u \in Runners \ {marker}, runner[u].id = id, ~ runner[u].existed
        PROVE  runner'[u].id = id /\ ~ runner'[u].existed
    <2>1. runner[u].at # "idle"
      BY <1>1, <1>3 DEF ExperimentsInv, RootInv
    <2>2. QED
      BY <1>2, <1>3, <2>1
  <1>4. QED
    BY <1>3 DEF Contended

\* What is claimed of the memory and the files, once it holds for the row that moves and was kept for the others
LEMMA OnlyMoves ==
    ASSUME ExperimentsInv, NEW r \in Runners, NEW row \in RunnerRow, runner' = [runner EXCEPT ![r] = row],
           UNCHANGED <<scores, marker, runRecord, tested>>,
           runner[r].at = "idle" \/ (row.id = runner[r].id /\ row.existed = runner[r].existed),
           row.at \notin {"idle", "validating", "frozen", "finishing"}, row.id \in RunIds,
           row.at \in Holding => runner[r].at \in Holding,
           row.at = "failing" => row.record \in RunRecord /\ ~ row.existed /\ row.record = runRecord[row.id],
           runner[r].at \in {"finishing", "failing", "done"} => row.at \in {"failing", "done"}
    PROVE  ExperimentsInv'
  <1>1. runner \in [Runners -> RunnerRow]
    BY DEF ExperimentsInv, ExperimentTypes
  <1>2. \A u \in Runners : runner'[u] = IF u = r THEN row ELSE runner[u]
    BY <1>1
  <1>3. ExperimentTypes'
    BY <1>1 DEF ExperimentsInv, ExperimentTypes
  <1>4. RootInv'
    BY <1>2 DEF ExperimentsInv, RootInv
  <1>5. MemoryInv'
    BY <1>2, SameBest DEF ExperimentsInv, MemoryInv, Validating, Frozen
  <1>6. \A id \in RunIds : Contended(id) => Contended(id)'
    BY Contends
  <1>7. ASSUME NEW u \in Runners, runner[u].at # "idle", NEW e, Stands(u, e)
        PROVE  Stands(u, e)'
    <2>1. runner'[u].id = runner[u].id /\ runner[u].id \in RunIds
      BY <1>2, <1>7 DEF ExperimentsInv, RootInv
    <2>2. QED
      BY <1>6, <1>7, <2>1 DEF Stands
  <1>8. FrozenInv'
    BY <1>2, <1>7 DEF ExperimentsInv, FrozenInv
  <1>9. ASSUME NEW u \in Runners, NEW e \in Experiments \cup {NoExperiment}, ReadOnce(u, e)
        PROVE  ReadOnce(u, e)'
    <2>1. marker' = u /\ tested' = {[by |-> u, experiment |-> e]} /\ BestOf(e, Len(Matrix))'
      BY <1>9, SameBest DEF ReadOnce
    <2>2. runner[u].at \in {"finishing", "failing", "done"} /\ runner'[u].at \in {"finishing", "failing", "done"}
      BY <1>2, <1>9 DEF ReadOnce
    <2>3. Stands(u, e)'
      BY <1>7, <1>9, <2>2 DEF ReadOnce
    <2>4. runner'[u].at = "finishing" => runner'[u].record.selected = e
      BY <1>2, <1>9 DEF ReadOnce
    <2>5. runner'[u].at = "failing" => Contended(runner[u].id)' \/ runner'[u].record.selected = e
      <3>1. CASE u = r
        BY <1>2, <2>3, <3>1 DEF Stands
      <3>2. CASE u # r
        <4>1. runner[u].id \in RunIds
          BY <2>2 DEF ExperimentsInv, RootInv
        <4>2. QED
          BY <1>2, <1>6, <1>9, <3>2, <4>1 DEF ReadOnce
      <3>3. QED
        BY <3>1, <3>2
    <2>6. QED
      BY <2>1, <2>2, <2>3, <2>4, <2>5 DEF ReadOnce
  <1>10. TestInv'
    BY <1>2, <1>9 DEF ExperimentsInv, TestInv
  <1>11. PassedInv'
    BY DEF ExperimentsInv, PassedInv
  <1>12. QED
    BY <1>3, <1>4, <1>5, <1>8, <1>10, <1>11 DEF ExperimentsInv

LEMMA CallRunKeeps == ASSUME ExperimentsInv, NEW r \in Runners, NEW id \in RunIds, CallRun(r, id) PROVE ExperimentsInv'
  <1> DEFINE flag == id \in runDirs
  <1>1. PICK row \in RunnerRow : runner' = [runner EXCEPT ![r] = row] /\ row.at = "verifying" /\ row.id = id
    <2> DEFINE new == [runner[r] EXCEPT !.at = "verifying", !.id = id, !.existed = flag]
    <2>1. flag \in BOOLEAN /\ runner[r] \in RunnerRow
      BY DEF ExperimentsInv, ExperimentTypes
    <2>2. runner' = [runner EXCEPT ![r] = new]
      BY DEF CallRun
    <2> HIDE DEF flag
    <2>3. new \in RunnerRow /\ new.at = "verifying" /\ new.id = id
      BY <2>1 DEF RunnerRow, Phases
    <2>4. QED
      BY <2>2, <2>3
  <1>2. runner[r].at = "idle" /\ UNCHANGED <<scores, marker, runRecord, tested>>
    BY DEF CallRun
  <1>3. QED
    BY <1>1, <1>2, OnlyMoves DEF Holding

\* A runner goes to another place, all else standing.
LEMMA GoesKeeps ==
    ASSUME ExperimentsInv, NEW r \in Runners, NEW place, Goes(r, place), UNCHANGED <<scores, marker, runRecord, tested>>,
           runner[r].at # "idle", place \in Phases \ {"idle", "validating", "frozen", "finishing", "failing"},
           place \in Holding => runner[r].at \in Holding,
           place = "done" \/ runner[r].at \notin {"finishing", "failing", "done"}
    PROVE  ExperimentsInv'
  <1>1. runner[r] \in RunnerRow /\ runner[r].id \in RunIds
    BY DEF ExperimentsInv, ExperimentTypes, RootInv
  <1>2. PICK row \in RunnerRow :
           /\ runner' = [runner EXCEPT ![r] = row]
           /\ row.at = place /\ row.id = runner[r].id /\ row.existed = runner[r].existed
    <2> DEFINE new == [runner[r] EXCEPT !.at = place]
    <2>1. new \in RunnerRow /\ new.at = place /\ new.id = runner[r].id /\ new.existed = runner[r].existed
      BY <1>1 DEF RunnerRow
    <2>2. runner' = [runner EXCEPT ![r] = new]
      BY DEF Goes
    <2>3. QED
      BY <2>1, <2>2
  <1>3. QED
    BY <1>1, <1>2, OnlyMoves

LEMMA MovesKeep ==
    ASSUME ExperimentsInv, NEW r \in Runners, FindsEmpty(r) \/ MakesRun(r) \/ RunnerDies(r)
    PROVE  ExperimentsInv'
  BY GoesKeeps DEF FindsEmpty, MakesRun, RunnerDies, Stopped, Holding, Phases

LEMMA RunRaisesKeeps == ASSUME ExperimentsInv, NEW r \in Runners, RunRaises(r) PROVE ExperimentsInv'
  <1> DEFINE found == runRecord[runner[r].id]
  <1>1. /\ runner[r] \in RunnerRow /\ runner[r].id \in RunIds /\ runner[r].at \notin {"idle", "done", "failing"}
        /\ UNCHANGED <<scores, marker, runRecord, tested>>
    BY DEF ExperimentsInv, ExperimentTypes, RootInv, RunRaises, Stopped
  <1>2. CASE Goes(r, "done")
    BY <1>1, <1>2, GoesKeeps DEF Phases, Holding
  <1>3. CASE ~ runner[r].existed /\ found # NoRunRecord /\ runner' = [runner EXCEPT ![r] = [@ EXCEPT !.at = "failing", !.record = found]]
    <2>1. found \in RunRecord
      BY <1>1, <1>3 DEF ExperimentsInv, ExperimentTypes
    <2>2. PICK row \in RunnerRow :
             /\ runner' = [runner EXCEPT ![r] = row]
             /\ row.at = "failing" /\ row.id = runner[r].id /\ row.existed = runner[r].existed /\ row.record = found
      <3> DEFINE new == [runner[r] EXCEPT !.at = "failing", !.record = found]
      <3>1. runner' = [runner EXCEPT ![r] = new]
        BY <1>3
      <3> HIDE DEF found
      <3>2. /\ new \in RunnerRow /\ new.at = "failing" /\ new.id = runner[r].id
            /\ new.existed = runner[r].existed /\ new.record = found
        BY <1>1, <2>1 DEF RunnerRow, Phases
      <3>3. QED
        BY <3>1, <3>2
    <2>3. QED
      BY <1>1, <1>3, <2>1, <2>2, OnlyMoves, ZenonT(30) DEF Holding
  <1>4. QED
    BY <1>2, <1>3 DEF RunRaises


\* Who has claimed the root and not come to the test is the first one to.
LEMMA Untested ==
    ASSUME ExperimentsInv, marker = NoRunner \/ \E r \in Runners : marker = r /\ runner[r].at \in Holding \ {"finishing"}
    PROVE  tested = {} /\ \A id \in RunIds : runRecord[id] = NoRunRecord \/ runRecord[id].status # "passed"
  <1>1. \A r \in Runners, e \in Experiments \cup {NoExperiment} : ~ ReadOnce(r, e)
    BY ExperimentConstants DEF ReadOnce, Holding
  <1>2. tested = {}
    BY <1>1 DEF ExperimentsInv, TestInv
  <1>3. QED
    BY <1>2 DEF ExperimentsInv, PassedInv

\* The root is claimed or given up.
LEMMA MarkerMoves ==
    ASSUME ExperimentsInv, NEW r \in Runners, NEW place \in {"claimed", "unclaimed"}, Goes(r, place),
           tested = {}, \A id \in RunIds : runRecord[id] = NoRunRecord \/ runRecord[id].status # "passed",
           \A u \in Runners : u # r => runner[u].at \notin Holding,
           place = "claimed" => marker' = r, runner[r].at # "idle", UNCHANGED <<scores, runRecord, tested>>
    PROVE  ExperimentsInv'
  <1>1. runner[r] \in RunnerRow /\ runner \in [Runners -> RunnerRow]
    BY DEF ExperimentsInv, ExperimentTypes
  <1>2. PICK row \in RunnerRow : runner' = [runner EXCEPT ![r] = row] /\ row.at = place /\ row.id = runner[r].id
    <2> DEFINE new == [runner[r] EXCEPT !.at = place]
    <2>1. new \in RunnerRow /\ new.at = place /\ new.id = runner[r].id
      BY <1>1 DEF RunnerRow, Phases
    <2>2. runner' = [runner EXCEPT ![r] = new]
      BY DEF Goes
    <2>3. QED
      BY <2>1, <2>2
  <1>3. \A u \in Runners : runner'[u] = IF u = r THEN row ELSE runner[u]
    BY <1>1, <1>2
  <1>4. ExperimentTypes'
    BY <1>1, <1>2 DEF ExperimentsInv, ExperimentTypes
  <1>5. RootInv'
    BY <1>2, <1>3 DEF ExperimentsInv, RootInv, Holding
  <1>6. MemoryInv'
    BY <1>2, <1>3, SameBest DEF ExperimentsInv, MemoryInv, Validating, Frozen
  <1>7. FrozenInv'
    BY <1>2, <1>3 DEF FrozenInv, Holding
  <1>8. TestInv'
    BY <1>2, <1>3 DEF TestInv, ExperimentsInv
  <1>9. PassedInv'
    BY DEF PassedInv
  <1>10. QED
    BY <1>4, <1>5, <1>6, <1>7, <1>8, <1>9 DEF ExperimentsInv

LEMMA ClaimsKeep ==
    ASSUME ExperimentsInv, NEW r \in Runners, ClaimsRoot(r) \/ UnclaimsRoot(r)
    PROVE  ExperimentsInv'
  <1>1. CASE ClaimsRoot(r)
    <2>1. marker = NoRunner /\ Goes(r, "claimed") /\ marker' = r /\ runner[r].at = "claiming"
      BY <1>1 DEF ClaimsRoot, Claimable
    <2>2. \A u \in Runners : runner[u].at \notin Holding
      BY <2>1, ExperimentConstants DEF ExperimentsInv, RootInv
    <2>3. QED
      BY <1>1, <2>1, <2>2, Untested, MarkerMoves DEF ClaimsRoot
  <1>2. CASE UnclaimsRoot(r)
    <2>1. Goes(r, "unclaimed") /\ runner[r].at = "claimed" /\ UNCHANGED <<scores, runRecord, tested>>
      BY <1>2 DEF UnclaimsRoot
    <2>2. marker = r /\ \A u \in Runners : u # r => runner[u].at \notin Holding
      BY <2>1 DEF ExperimentsInv, RootInv, Holding
    <2>3. tested = {} /\ \A id \in RunIds : runRecord[id] = NoRunRecord \/ runRecord[id].status # "passed"
      BY <2>1, <2>2, Untested DEF Holding
    <2>4. QED
      BY <2>1, <2>2, <2>3, MarkerMoves
  <1>3. QED
    BY <1>1, <1>2

\* A record is written before the test.
LEMMA RecordsKeep ==
    ASSUME ExperimentsInv, NEW r \in Runners, NEW row \in RunnerRow, runner' = [runner EXCEPT ![r] = row],
           runRecord' = [runRecord EXCEPT ![runner[r].id] = row.record],
           UNCHANGED <<scores, marker, tested>>, row.id = runner[r].id,
           runner[r].at \in {"opening", "validating"}, row.at \in {"validating", "frozen"},
           row.record \in RunRecord, row.record.status = "running",
           row.at = "validating" => Validating(row), row.at = "frozen" => Frozen(row)
    PROVE  ExperimentsInv'
  <1>1. /\ runner \in [Runners -> RunnerRow] /\ runRecord \in [RunIds -> RunRecord \cup {NoRunRecord}]
        /\ runner[r].id \in RunIds
    BY DEF ExperimentsInv, ExperimentTypes, RootInv
  <1>2. marker = r /\ \A u \in Runners : u # r => runner[u].at \notin Holding
    BY DEF ExperimentsInv, RootInv, Holding
  <1>3. tested = {} /\ \A id \in RunIds : runRecord[id] = NoRunRecord \/ runRecord[id].status # "passed"
    BY <1>2, Untested DEF Holding
  <1>4. \A u \in Runners : runner'[u] = IF u = r THEN row ELSE runner[u]
    BY <1>1
  <1>5. \A id \in RunIds : runRecord'[id] = IF id = runner[r].id THEN row.record ELSE runRecord[id]
    BY <1>1
  <1>6. ExperimentTypes'
    BY <1>1 DEF ExperimentsInv, ExperimentTypes
  <1>7. RootInv'
    BY <1>1, <1>2, <1>4 DEF ExperimentsInv, RootInv
  <1>8. MemoryInv'
    <2>1. ASSUME NEW u \in Runners, u # r
          PROVE  /\ runner'[u].at = "validating" => Validating(runner[u])'
                 /\ runner'[u].at \in {"frozen", "finishing"} => Frozen(runner[u])'
                 /\ runner'[u].at = "failing" => runner'[u].record \in RunRecord /\ ~ runner'[u].existed
      BY <1>4, <2>1, SameBest DEF ExperimentsInv, MemoryInv, Validating, Frozen
    <2>2. /\ runner'[r].at = "validating" => Validating(runner[r])'
          /\ runner'[r].at \in {"frozen", "finishing"} => Frozen(runner[r])'
          /\ runner'[r].at # "failing"
      BY <1>4, SameBest DEF Validating, Frozen
    <2>3. QED
      BY <2>1, <2>2 DEF MemoryInv
  <1>9. FrozenInv'
    BY <1>1, <1>2, <1>4, <1>5 DEF FrozenInv, Stands, Holding
  <1>10. TestInv'
    BY <1>3, <1>4 DEF TestInv, ExperimentsInv
  <1>11. PassedInv'
    BY <1>3, <1>5 DEF PassedInv
  <1>12. QED
    BY <1>6, <1>7, <1>8, <1>9, <1>10, <1>11 DEF ExperimentsInv

LEMMA OpensRecordKeeps == ASSUME ExperimentsInv, NEW r \in Runners, OpensRecord(r) PROVE ExperimentsInv'
  <1> DEFINE record == [status |-> "running", runs |-> <<>>, selected |-> NoExperiment]
             row == [runner[r] EXCEPT !.at = "validating", !.record = record, !.best = NoExperiment]
  <1>1. /\ runner[r] \in RunnerRow /\ runner[r].at = "opening" /\ UNCHANGED <<scores, marker, tested>>
        /\ runRecord' = [runRecord EXCEPT ![runner[r].id] = record] /\ runner' = [runner EXCEPT ![r] = row]
    BY DEF ExperimentsInv, ExperimentTypes, OpensRecord, RecordsRun
  <1>2. record \in RunRecord /\ record.status = "running" /\ Len(record.runs) = 0
    BY DEF RunRecord
  <1>3. Len(Matrix) \in Nat
    BY ExperimentConstants
  <1>4. Covers(record) /\ BestOf(NoExperiment, Len(record.runs))
    BY <1>2, <1>3 DEF Covers, BestOf
  <1> HIDE DEF record
  <1>5. /\ row \in RunnerRow /\ row.at = "validating" /\ row.record = record /\ row.id = runner[r].id
        /\ row.best = NoExperiment
    BY <1>1, <1>2 DEF RunnerRow, Phases
  <1> HIDE DEF row
  <1>6. Validating(row)
    BY <1>4, <1>5 DEF Validating
  <1>7. QED
    BY <1>1, <1>2, <1>5, <1>6, RecordsKeep


\* One more experiment, compared with the best so far
LEMMA BestGrows ==
    ASSUME ExperimentTypes, NEW n \in Nat, n < Len(Matrix), NEW b, BestOf(b, n)
    PROVE  /\ Better(Matrix[n + 1], b) \in Experiments
           /\ BestOf(Better(Matrix[n + 1], b), n + 1)
  <1> DEFINE e == Matrix[n + 1]
             new == Better(e, b)
  <1>1. Matrix \in Seq(Nat) /\ n + 1 \in DOMAIN Matrix /\ \A k \in 1 .. n : k \in DOMAIN Matrix
    BY ExperimentConstants
  <1>2. \A k \in DOMAIN Matrix : Matrix[k] \in Experiments /\ Matrix[k] \in Nat
    BY <1>1 DEF Experiments, ToSet
  <1>3. \A f \in Experiments : f \in Nat /\ Metric(f) \in Nat /\ f # NoExperiment
    <2>1. \A f \in Experiments : Metric(f) \in Metrics
      BY DEF ExperimentTypes, Metric
    <2>2. Experiments \subseteq Nat
      BY <1>1 DEF Experiments, ToSet
    <2>3. QED
      BY <2>1, <2>2, ExperimentConstants
  <1>4. e \in Experiments
    BY <1>1, <1>2
  <1>5. CASE n = 0
    <2>1. b = NoExperiment
      BY <1>5 DEF BestOf
    <2>2. new = e
      BY <2>1 DEF Better, Preferred
    <2>3. \A k \in 1 .. n + 1 : Matrix[k] = new
      BY <1>5, <2>2
    <2>4. QED
      BY <1>4, <2>2, <2>3 DEF BestOf
  <1>6. CASE n # 0
    <2>1. b \in Experiments /\ \A k \in 1 .. n : Matrix[k] = b \/ Preferred(b, Matrix[k])
      BY <1>6 DEF BestOf
    <2>2. new \in Experiments /\ (new = e \/ new = b)
      BY <1>4, <2>1 DEF Better
    <2>3. ASSUME NEW k \in 1 .. n
          PROVE  Matrix[k] = new \/ Preferred(new, Matrix[k])
      <3> DEFINE f == Matrix[k]
      <3>1. f \in Experiments /\ (f = b \/ Preferred(b, f))
        BY <1>1, <1>2, <2>1
      <3>2. CASE Preferred(e, b)
        <4>1. new = e
          BY <3>2 DEF Better
        <4>2. Preferred(e, f)
          BY <1>3, <1>4, <2>1, <3>1, <3>2 DEF Preferred
        <4>3. QED
          BY <4>1, <4>2
      <3>3. CASE ~ Preferred(e, b)
        BY <3>1, <3>3 DEF Better
      <3>4. QED
        BY <3>2, <3>3
    <2>4. e = new \/ Preferred(new, e)
      <3>1. CASE Preferred(e, b)
        BY <3>1 DEF Better
      <3>2. CASE ~ Preferred(e, b)
        <4>1. new = b
          BY <3>2 DEF Better
        <4>2. e = b \/ Preferred(b, e)
          BY <1>3, <1>4, <2>1, <3>2 DEF Preferred
        <4>3. QED
          BY <4>1, <4>2
      <3>3. QED
        BY <3>1, <3>2
    <2>5. \A k \in 1 .. n + 1 : k \in 1 .. n \/ k = n + 1
      OBVIOUS
    <2>6. \A k \in 1 .. n + 1 : Matrix[k] = new \/ Preferred(new, Matrix[k])
      BY <2>3, <2>4, <2>5
    <2>7. n + 1 # 0
      OBVIOUS
    <2> HIDE DEF new
    <2>8. QED
      BY <2>2, <2>6, <2>7 DEF BestOf, new
  <1>7. QED
    BY <1>5, <1>6

LEMMA ValidatesKeeps == ASSUME ExperimentsInv, NEW r \in Runners, Validates(r) PROVE ExperimentsInv'
  <1> DEFINE record == runner[r].record
             n == Len(record.runs)
             result == Validated(Matrix[n + 1], record.runs)
             best == Better(Matrix[n + 1], runner[r].best)
             new == [record EXCEPT !.runs = Append(@, result)]
             row == [runner[r] EXCEPT !.at = "validating", !.record = new, !.best = best]
  <1>1. /\ runner[r] \in RunnerRow /\ runner[r].at = "validating" /\ UNCHANGED <<scores, marker, tested>>
        /\ runRecord' = [runRecord EXCEPT ![runner[r].id] = new] /\ runner' = [runner EXCEPT ![r] = row]
        /\ n + 1 <= Len(Matrix)
    BY DEF ExperimentsInv, ExperimentTypes, Validates, RecordsRun
  <1>2. Covers(record) /\ BestOf(runner[r].best, n) /\ record \in RunRecord /\ record.runs \in Seq(ExperimentRow)
    BY <1>1 DEF ExperimentsInv, MemoryInv, Validating, Covers, RunRecord
  <1>3. n \in Nat /\ n < Len(Matrix) /\ Matrix \in Seq(Nat) /\ n + 1 \in DOMAIN Matrix
    BY <1>1, <1>2, ExperimentConstants
  <1>4. best \in Experiments /\ BestOf(best, n + 1)
    BY <1>2, <1>3, BestGrows DEF ExperimentsInv
  <1>5. result \in ExperimentRow /\ result.experiment = Matrix[n + 1]
    <2>1. Matrix[n + 1] \in Experiments
      BY <1>3 DEF Experiments, ToSet
    <2>2. Metric(Matrix[n + 1]) \in Metrics
      BY <2>1 DEF ExperimentsInv, ExperimentTypes, Metric
    <2>3. QED
      BY <2>1, <2>2 DEF Validated, ExperimentRow
  <1> HIDE DEF result, best
  <1>6. /\ new \in RunRecord /\ new.runs = Append(record.runs, result) /\ new.status = record.status
    <2>1. Append(record.runs, result) \in Seq(ExperimentRow)
      BY <1>2, <1>5
    <2>2. QED
      BY <1>2, <2>1 DEF RunRecord
  <1>7. /\ Len(new.runs) = n + 1 /\ new.runs[n + 1] = result
        /\ \A k \in 1 .. n : new.runs[k] = record.runs[k]
    BY <1>2, <1>5, <1>6
  <1> HIDE DEF new
  <1>8. Covers(new)
    <2>1. \A k \in 1 .. n + 1 : k \in 1 .. n \/ k = n + 1
      BY <1>3
    <2>2. \A k \in 1 .. n + 1 : new.runs[k].experiment = Matrix[k]
      BY <1>2, <1>5, <1>7, <2>1 DEF Covers
    <2>3. QED
      BY <1>1, <1>2, <1>6, <1>7, <2>2 DEF Covers
  <1>9. /\ row \in RunnerRow /\ row.at = "validating" /\ row.record = new /\ row.id = runner[r].id /\ row.best = best
    BY <1>1, <1>4, <1>6 DEF RunnerRow, Phases
  <1> HIDE DEF row
  <1>10. Validating(row)
    BY <1>4, <1>7, <1>8, <1>9 DEF Validating
  <1>11. new.status = "running"
    BY <1>2, <1>6 DEF Covers
  <1>12. QED
    BY <1>1, <1>6, <1>9, <1>10, <1>11, RecordsKeep

LEMMA FreezesSelectionKeeps == ASSUME ExperimentsInv, NEW r \in Runners, FreezesSelection(r) PROVE ExperimentsInv'
  <1> DEFINE record == runner[r].record
             best == runner[r].best
             new == [record EXCEPT !.selected = best]
             row == [runner[r] EXCEPT !.at = "frozen", !.record = new, !.best = best]
  <1>1. /\ runner[r] \in RunnerRow /\ runner[r].at = "validating" /\ UNCHANGED <<scores, marker, tested>>
        /\ runRecord' = [runRecord EXCEPT ![runner[r].id] = new] /\ runner' = [runner EXCEPT ![r] = row]
        /\ Len(record.runs) = Len(Matrix)
    BY DEF ExperimentsInv, ExperimentTypes, FreezesSelection, RecordsRun
  <1>2. Covers(record) /\ BestOf(best, Len(Matrix)) /\ record \in RunRecord
    BY <1>1 DEF ExperimentsInv, MemoryInv, Validating, Covers
  <1>3. best \in Experiments \cup {NoExperiment}
    BY <1>1 DEF RunnerRow
  <1>4. new \in RunRecord /\ new.runs = record.runs /\ new.status = record.status /\ new.selected = best
    BY <1>2, <1>3 DEF RunRecord
  <1> HIDE DEF new
  <1>5. row \in RunnerRow /\ row.at = "frozen" /\ row.record = new /\ row.id = runner[r].id
    BY <1>1, <1>3, <1>4 DEF RunnerRow, Phases
  <1> HIDE DEF row
  <1>6. Frozen(row) /\ new.status = "running"
    BY <1>1, <1>2, <1>4, <1>5 DEF Frozen, Covers
  <1>7. QED
    BY <1>1, <1>4, <1>5, <1>6, RecordsKeep


LEMMA ReadsTestKeeps == ASSUME ExperimentsInv, NEW r \in Runners, ReadsTest(r) PROVE ExperimentsInv'
  <1> DEFINE e0 == runner[r].record.selected
  <1>1. /\ runner[r] \in RunnerRow /\ runner[r].at = "frozen" /\ runner \in [Runners -> RunnerRow]
        /\ UNCHANGED <<scores, marker, runRecord>> /\ Goes(r, "finishing")
        /\ tested' = tested \cup {[by |-> r, experiment |-> e0]}
    BY DEF ExperimentsInv, ExperimentTypes, ReadsTest
  <1>2. runner[r].id \in RunIds /\ marker = r /\ \A u \in Runners : u # r => runner[u].at \notin Holding
    BY <1>1 DEF ExperimentsInv, RootInv, Holding
  <1>3. tested = {} /\ \A id \in RunIds : runRecord[id] = NoRunRecord \/ runRecord[id].status # "passed"
    BY <1>1, <1>2, Untested DEF Holding
  <1>4. Frozen(runner[r]) /\ runner[r].record \in RunRecord /\ Stands(r, e0)
    BY <1>1 DEF ExperimentsInv, MemoryInv, Frozen, Covers, FrozenInv
  <1>5. PICK e \in Experiments \cup {NoExperiment} : e = e0
    BY <1>4 DEF RunRecord
  <1>6. PICK row \in RunnerRow :
           /\ runner' = [runner EXCEPT ![r] = row]
           /\ row.at = "finishing" /\ row.id = runner[r].id /\ row.existed = runner[r].existed
           /\ row.record = runner[r].record
    <2> DEFINE new == [runner[r] EXCEPT !.at = "finishing"]
    <2>1. /\ new \in RunnerRow /\ new.at = "finishing" /\ new.id = runner[r].id
          /\ new.existed = runner[r].existed /\ new.record = runner[r].record
      BY <1>1 DEF RunnerRow, Phases
    <2>2. runner' = [runner EXCEPT ![r] = new]
      BY <1>1 DEF Goes
    <2>3. QED
      BY <2>1, <2>2
  <1>7. \A u \in Runners : runner'[u] = IF u = r THEN row ELSE runner[u]
    BY <1>1, <1>6
  <1>8. ExperimentTypes'
    BY <1>1, <1>6 DEF ExperimentsInv, ExperimentTypes
  <1>9. RootInv'
    BY <1>1, <1>2, <1>6, <1>7 DEF ExperimentsInv, RootInv
  <1>10. MemoryInv'
    <2>1. ASSUME NEW u \in Runners, u # r
          PROVE  /\ runner'[u].at = "validating" => Validating(runner[u])'
                 /\ runner'[u].at \in {"frozen", "finishing"} => Frozen(runner[u])'
                 /\ runner'[u].at = "failing" => runner'[u].record \in RunRecord /\ ~ runner'[u].existed
      BY <1>1, <1>7, <2>1, SameBest DEF ExperimentsInv, MemoryInv, Validating, Frozen
    <2>2. /\ runner'[r].at = "finishing" /\ Frozen(runner[r])'
      BY <1>1, <1>4, <1>6, <1>7, SameBest DEF Frozen
    <2>3. QED
      BY <2>1, <2>2 DEF MemoryInv
  <1>11. \A id \in RunIds : Contended(id) => Contended(id)'
    BY <1>1, <1>6, Contends
  <1>12. Stands(r, e)'
    BY <1>1, <1>2, <1>4, <1>5, <1>6, <1>7, <1>11 DEF Stands
  <1>13. FrozenInv'
    BY <1>2, <1>4, <1>5, <1>6, <1>7, <1>12 DEF FrozenInv, Stands, Holding
  <1>14. TestInv'
    <2>1. ReadOnce(r, e)'
      <3>1. marker' = r /\ tested' = {[by |-> r, experiment |-> e]}
        BY <1>1, <1>2, <1>3, <1>5
      <3>2. BestOf(e, Len(Matrix))'
        BY <1>1, <1>4, <1>5, SameBest DEF Frozen
      <3>3. runner'[r].at = "finishing" /\ runner'[r].record.selected = e
        BY <1>5, <1>6, <1>7
      <3>4. QED
        BY <1>12, <3>1, <3>2, <3>3 DEF ReadOnce
    <2>2. tested' # {}
      BY <1>1
    <2>3. QED
      BY <2>1, <2>2 DEF TestInv
  <1>15. PassedInv'
    BY <1>1, <1>3 DEF PassedInv
  <1>16. QED
    BY <1>8, <1>9, <1>10, <1>13, <1>14, <1>15 DEF ExperimentsInv

\* The end of a run is recorded, by the one that has passed or by one that has failed.
LEMMA EndKeeps ==
    ASSUME ExperimentsInv, NEW r \in Runners, NEW row \in RunnerRow, runner' = [runner EXCEPT ![r] = row],
           runRecord' = [runRecord EXCEPT ![runner[r].id] = row.record], UNCHANGED <<scores, marker, tested>>,
           row.at = "done", row.id = runner[r].id, row.existed = runner[r].existed, row.record \in RunRecord,
           row.record.selected = runner[r].record.selected, row.record.runs = runner[r].record.runs,
           \/ runner[r].at = "finishing"
           \/ runner[r].at = "failing" /\ row.record.status = "failed"
    PROVE  ExperimentsInv'
  <1>1. /\ runner \in [Runners -> RunnerRow] /\ runRecord \in [RunIds -> RunRecord \cup {NoRunRecord}]
        /\ runner[r].id \in RunIds
    BY DEF ExperimentsInv, ExperimentTypes, RootInv
  <1>2. \A u \in Runners : runner'[u] = IF u = r THEN row ELSE runner[u]
    BY <1>1
  <1>3. \A id \in RunIds : runRecord'[id] = IF id = runner[r].id THEN row.record ELSE runRecord[id]
    BY <1>1
  <1>4. ExperimentTypes'
    BY <1>1 DEF ExperimentsInv, ExperimentTypes
  <1>5. RootInv'
    BY <1>1, <1>2 DEF ExperimentsInv, RootInv, Holding
  <1>6. MemoryInv'
    BY <1>2, SameBest DEF ExperimentsInv, MemoryInv, Validating, Frozen
  <1>7. \A id \in RunIds : Contended(id) => Contended(id)'
    BY Contends
  <1>8. marker = r \/ (runner[r].at = "failing" /\ Contended(runner[r].id))
    <2>1. CASE runner[r].at = "finishing"
      BY <2>1 DEF ExperimentsInv, RootInv, Holding
    <2>2. CASE runner[r].at = "failing"
      BY <2>2 DEF ExperimentsInv, MemoryInv, Contended
    <2>3. QED
      BY <2>1, <2>2
  <1>9. ASSUME NEW u \in Runners, u # r, marker = u, runner[u].at # "idle", NEW e, Stands(u, e)
        PROVE  Stands(u, e)'
    <2>1. runner'[u].id = runner[u].id /\ runner[u].id \in RunIds
      BY <1>2, <1>9 DEF ExperimentsInv, RootInv
    <2>2. CASE runner[u].id = runner[r].id
      BY <1>7, <1>8, <1>9, <2>1, <2>2 DEF Stands
    <2>3. CASE runner[u].id # runner[r].id
      BY <1>3, <1>7, <1>9, <2>1, <2>3 DEF Stands
    <2>4. QED
      BY <2>2, <2>3
  <1>10. FrozenInv'
    <2>1. ASSUME NEW u \in Runners, runner'[u].at \in {"frozen", "finishing"}
          PROVE  Stands(u, runner[u].record.selected)'
      <3>1. u # r /\ runner'[u] = runner[u] /\ runner[u].at \in {"frozen", "finishing"}
        BY <1>2, <2>1
      <3>2. marker = u
        BY <3>1 DEF ExperimentsInv, RootInv, Holding
      <3>3. PICK e : e = runner[u].record.selected
        OBVIOUS
      <3>4. Stands(u, e)'
        BY <1>9, <3>1, <3>2, <3>3 DEF ExperimentsInv, FrozenInv
      <3>5. QED
        BY <3>1, <3>3, <3>4 DEF Stands
    <2>2. QED
      BY <2>1 DEF FrozenInv
  <1>11. ASSUME NEW u \in Runners, NEW e \in Experiments \cup {NoExperiment}, ReadOnce(u, e)
         PROVE  ReadOnce(u, e)'
    <2>1. marker' = u /\ tested' = {[by |-> u, experiment |-> e]} /\ BestOf(e, Len(Matrix))'
      BY <1>11, SameBest DEF ReadOnce
    <2>2. CASE u # r
      <3>1. Stands(u, e)' /\ runner'[u] = runner[u] /\ runner[u].id \in RunIds
        BY <1>2, <1>9, <1>11, <2>2 DEF ReadOnce, ExperimentsInv, RootInv
      <3>2. runner'[u].at = "failing" => Contended(runner[u].id)' \/ runner'[u].record.selected = e
        BY <1>7, <1>11, <3>1 DEF ReadOnce
      <3>3. QED
        BY <1>11, <2>1, <3>1, <3>2 DEF ReadOnce
    <2>3. CASE u = r
      <3>1. runner'[u].at = "done" /\ runner'[u].id = runner[u].id
        BY <1>2, <2>3
      <3>2. Contended(runner[u].id) \/ row.record.selected = e
        BY <1>11, <2>3 DEF ReadOnce
      <3>3. Stands(u, e)'
        BY <1>1, <1>3, <1>7, <2>3, <3>1, <3>2 DEF Stands
      <3>4. QED
        BY <2>1, <3>1, <3>3 DEF ReadOnce
    <2>4. QED
      BY <2>2, <2>3
  <1>12. TestInv'
    BY <1>2, <1>11 DEF ExperimentsInv, TestInv
  <1>13. PassedInv'
    <2>1. ASSUME row.record.status = "passed"
          PROVE  /\ tested' = {[by |-> marker', experiment |-> row.record.selected]}
                 /\ Len(row.record.runs) = Len(Matrix)
                 /\ \A n \in 1 .. Len(Matrix) : row.record.runs[n].experiment = Matrix[n]
      <3>1. runner[r].at = "finishing"
        BY <2>1
      <3>2. Frozen(runner[r])
        BY <3>1 DEF ExperimentsInv, MemoryInv
      <3>3. PICK u \in Runners, e \in Experiments \cup {NoExperiment} : ReadOnce(u, e)
        BY <3>1 DEF ExperimentsInv, TestInv
      <3>4. marker = r
        BY <3>1 DEF ExperimentsInv, RootInv, Holding
      <3>5. u = r /\ tested = {[by |-> r, experiment |-> row.record.selected]}
        BY <3>1, <3>3, <3>4 DEF ReadOnce
      <3>6. QED
        BY <3>2, <3>4, <3>5 DEF Frozen, Covers
    <2>2. QED
      BY <1>3, <2>1 DEF ExperimentsInv, PassedInv
  <1>14. QED
    BY <1>4, <1>5, <1>6, <1>10, <1>12, <1>13 DEF ExperimentsInv

LEMMA EndsKeep == ASSUME ExperimentsInv, NEW r \in Runners, Passes(r) \/ MarksFailed(r) PROVE ExperimentsInv'
  <1> DEFINE record == runner[r].record
  <1>1. runner[r] \in RunnerRow /\ record \in RunRecord
    BY DEF ExperimentsInv, ExperimentTypes, MemoryInv, Frozen, Covers, Passes, MarksFailed
  <1>2. ASSUME NEW verdict \in {"passed", "failed"}, RecordsRun(r, [record EXCEPT !.status = verdict], runner[r].best, "done"),
               UNCHANGED <<scores, marker, tested>>,
               runner[r].at = "finishing" \/ (runner[r].at = "failing" /\ verdict = "failed")
        PROVE  ExperimentsInv'
    <2> DEFINE new == [record EXCEPT !.status = verdict]
               row == [runner[r] EXCEPT !.at = "done", !.record = new, !.best = runner[r].best]
    <2>1. runRecord' = [runRecord EXCEPT ![runner[r].id] = new] /\ runner' = [runner EXCEPT ![r] = row]
      BY <1>2 DEF RecordsRun
    <2>2. new \in RunRecord /\ new.status = verdict /\ new.selected = record.selected /\ new.runs = record.runs
      BY <1>1, <1>2 DEF RunRecord
    <2> HIDE DEF new
    <2>3. /\ row \in RunnerRow /\ row.at = "done" /\ row.record = new /\ row.id = runner[r].id
          /\ row.existed = runner[r].existed
      BY <1>1, <2>2 DEF RunnerRow, Phases
    <2> HIDE DEF row
    <2>4. QED
      BY <1>2, <2>1, <2>2, <2>3, EndKeeps
  <1>3. CASE Passes(r)
    BY <1>2, <1>3 DEF Passes
  <1>4. CASE MarksFailed(r)
    BY <1>2, <1>4 DEF MarksFailed
  <1>5. QED
    BY <1>3, <1>4

LEMMA ExperimentsInvInit == ExperimentsInit => ExperimentsInv
  <1> SUFFICES ASSUME ExperimentsInit PROVE ExperimentsInv
    OBVIOUS
  <1>1. ExperimentTypes
    BY DEF ExperimentsInit, ExperimentTypes, RunnerRow, Phases
  <1>2. RootInv /\ MemoryInv /\ FrozenInv /\ TestInv /\ PassedInv
    BY DEF ExperimentsInit, RootInv, MemoryInv, FrozenInv, TestInv, PassedInv, Holding
  <1>3. QED
    BY <1>1, <1>2 DEF ExperimentsInv

LEMMA ExperimentsInvNext == ExperimentsInv /\ [ExperimentsNext]_experimentVars => ExperimentsInv'
  <1> SUFFICES ASSUME ExperimentsInv, [ExperimentsNext]_experimentVars
               PROVE  ExperimentsInv'
    OBVIOUS
  <1>1. CASE ExperimentsNext
    BY <1>1, CallRunKeeps, MovesKeep, ClaimsKeep, OpensRecordKeeps, ValidatesKeeps, FreezesSelectionKeeps, ReadsTestKeeps,
         EndsKeep, RunRaisesKeeps DEF ExperimentsNext
  <1>2. CASE UNCHANGED experimentVars
    <2>1. UNCHANGED <<scores, marker, runRecord, runner, tested>>
      BY <1>2 DEF experimentVars
    <2>2. \A id : Contended(id)' <=> Contended(id)
      BY <2>1 DEF Contended
    <2>3. \A r, e : Stands(r, e)' <=> Stands(r, e)
      BY <2>1, <2>2 DEF Stands
    <2>4. \A r, e : ReadOnce(r, e)' <=> ReadOnce(r, e)
      BY <2>1, <2>2, <2>3, SameBest DEF ReadOnce
    <2>5. MemoryInv'
      BY <2>1, SameBest DEF ExperimentsInv, MemoryInv, Validating, Frozen
    <2>6. FrozenInv'
      BY <2>1, <2>2 DEF ExperimentsInv, FrozenInv, Stands
    <2>7. QED
      BY <2>1, <2>4, <2>5, <2>6 DEF ExperimentsInv, ExperimentTypes, RootInv, TestInv, PassedInv
  <1>3. QED
    BY <1>1, <1>2

\* The test split is read once, for the best of the whole matrix, which is on record by
\* then, and what is recorded as passed is that, for any matrix, metrics, runners and ends.
THEOREM TestSplitReadOnce == ExperimentsSpec => []TestedOnceAsSelected
  <1>1. ExperimentsInv => TestedOnceAsSelected
    <2> SUFFICES ASSUME ExperimentsInv PROVE TestedOnceAsSelected
      OBVIOUS
    <2>1. ASSUME NEW e, BestOf(e, Len(Matrix))
          PROVE  BestOfAll(e)
      <3>1. Matrix \in Seq(Nat) /\ \A f \in Experiments : \E k \in 1 .. Len(Matrix) : f = Matrix[k]
        BY ExperimentConstants DEF Experiments, ToSet
      <3>2. CASE Len(Matrix) = 0
        BY <3>1, <3>2 DEF BestOfAll
      <3>3. CASE Len(Matrix) # 0
        BY <2>1, <3>1, <3>3 DEF BestOf, BestOfAll
      <3>4. QED
        BY <3>2, <3>3
    <2>2. ASSUME NEW r \in Runners, NEW e \in Experiments \cup {NoExperiment}, ReadOnce(r, e)
          PROVE  /\ \A t, u \in tested : t = u
                 /\ \A t \in tested :
                       /\ BestOfAll(t.experiment)
                       /\ Contended(runner[t.by].id) \/ runRecord[runner[t.by].id].selected = t.experiment
      BY <2>1, <2>2 DEF ReadOnce, Stands
    <2>3. ASSUME NEW id \in RunIds, runRecord[id] # NoRunRecord, runRecord[id].status = "passed"
          PROVE  /\ tested = {[by |-> marker, experiment |-> runRecord[id].selected]}
                 /\ [n \in DOMAIN runRecord[id].runs |-> runRecord[id].runs[n].experiment] = Matrix
      <3>1. /\ tested = {[by |-> marker, experiment |-> runRecord[id].selected]}
            /\ Len(runRecord[id].runs) = Len(Matrix)
            /\ \A n \in 1 .. Len(Matrix) : runRecord[id].runs[n].experiment = Matrix[n]
        BY <2>3 DEF ExperimentsInv, PassedInv
      <3>2. runRecord[id].runs \in Seq(ExperimentRow)
        BY <2>3 DEF ExperimentsInv, ExperimentTypes, RunRecord
      <3>3. Matrix \in Seq(Nat)
        BY ExperimentConstants
      <3>4. DOMAIN runRecord[id].runs = 1 .. Len(Matrix) /\ Matrix = [n \in 1 .. Len(Matrix) |-> Matrix[n]]
        BY <3>1, <3>2, <3>3
      <3>5. QED
        BY <3>1, <3>4
    <2>4. CASE tested = {}
      BY <2>3, <2>4 DEF TestedOnceAsSelected
    <2>5. CASE tested # {}
      BY <2>2, <2>3, <2>5 DEF TestedOnceAsSelected, ExperimentsInv, TestInv
    <2>6. QED
      BY <2>4, <2>5
  <1>2. QED
    BY <1>1, ExperimentsInvInit, ExperimentsInvNext, PTL DEF ExperimentsSpec


-----------------------------------------------------------------------------
(* ModelActivation *)

\* The initial state satisfies the inductive invariant.
LEMMA InitIInv == Init => IInv
  <1> SUFFICES ASSUME Init PROVE IInv
    OBVIOUS
  <1> USE DEF Init
  <1>1. TypeOK
    <2>1. crashes \in 0 .. MaxCrashes
      BY ActivationConstants DEF ActivationConstants
    <2>2. request \in [Requests -> Request]
      BY DEF Request
    <2> QED
      BY <2>1, <2>2 DEF TypeOK
  <1>2. Won = {} /\ Active = {}
    BY DEF Won, Active
  <1>3. OneActive
    BY <1>2 DEF OneActive
  <1>4. HandlerInv
    BY DEF HandlerInv
  <1>5. ActivationsAccounted /\ ServedWasActivated
    BY <1>2 DEF ActivationsAccounted, ServedWasActivated, Won
  <1>6. ChainInv
    BY <1>2 DEF ChainInv
  <1> QED
    BY <1>1, <1>3, <1>4, <1>5, <1>6 DEF IInv

\* A step that leaves the models and the winners with their requests alone, and
\* puts nothing new in the slot, keeps the invariant if it keeps the types and
\* the handlers' part.
LEMMA QuietStep ==
    ASSUME IInv, TypeOK', HandlerInv',
           UNCHANGED status,
           Won' = Won,
           \A q \in Won : request'[q].model = request[q].model
                          /\ request'[q].expected = request[q].expected,
           slot' # NoModel => Published(slot')
    PROVE  IInv'
  <1>1. Active' = Active
    BY DEF Active
  <1>2. OneActive'
    BY <1>1 DEF IInv, OneActive
  <1>3. ActivationsAccounted'
    BY DEF IInv, ActivationsAccounted
  <1>4. ServedWasActivated'
    BY DEF IInv, ServedWasActivated, Published
  <1>5. ChainInv'
    BY <1>1 DEF IInv, ChainInv, Published
  <1> QED
    BY <1>2, <1>3, <1>4, <1>5 DEF IInv

\* Registration adds a READY model, which is nobody's current one.
LEMMA RegisterStep ==
    ASSUME IInv, NEW m \in Models, Register(m)
    PROVE  IInv'
  <1> USE DEF Register
  <1>1. TypeOK'
    BY DEF IInv, TypeOK
  <1>2. HandlerInv'
    BY DEF IInv, HandlerInv
  <1>3. \A n \in Models : /\ status'[n] = "active" <=> status[n] = "active"
                          /\ status'[n] = "archived" <=> status[n] = "archived"
    BY DEF IInv, TypeOK
  <1>4. Active' = Active /\ Won' = Won
    BY <1>3 DEF Active, Won
  <1>5. OneActive'
    BY <1>4 DEF IInv, OneActive
  <1>6. ActivationsAccounted'
    BY <1>3, <1>4 DEF IInv, ActivationsAccounted
  <1>7. ServedWasActivated'
    BY <1>3, <1>4, ActivationConstants DEF IInv, TypeOK, ServedWasActivated
  <1>8. ChainInv'
    <2>1. \A q \in Won : request[q].model \in Models /\ request[q].expected \in Models \cup {NoModel}
      BY DEF IInv, TypeOK, Request, Won, HandlerInv
    <2> QED
      BY <1>3, <1>4, <2>1 DEF IInv, ChainInv, Published
  <1> QED
    BY <1>1, <1>2, <1>5, <1>6, <1>7, <1>8 DEF IInv

\* The compare-and-swap: the former model is archived with the winner that put
\* it there, and the new winner is the only one to have expected it.
LEMMA ActivateStep ==
    ASSUME IInv, NEW q \in Requests, Activate(q)
    PROVE  IInv'
  <1> DEFINE m == request[q].model
  <1>1. /\ m \in Models
        /\ status[m] = "ready"
        /\ request[q].phase = "prepared"
        /\ attempt[q] = "started"
        /\ request[q].expected \in Current
    BY DEF IInv, HandlerInv, Activate, StillReady, ExpectsCurrent
  <1>2. \A n \in Models : status'[n] = IF n = m THEN "active"
                                       ELSE IF status[n] = "active" THEN "archived" ELSE status[n]
    BY DEF Activate, Promoted
  <1>3. /\ \A r \in Requests : attempt'[r] = IF r = q THEN "succeeded" ELSE attempt[r]
        /\ \A r \in Requests : /\ request'[r].model = request[r].model
                               /\ request'[r].expected = request[r].expected
                               /\ request'[r].phase = IF r = q THEN "committed"
                                                      ELSE request[r].phase
    BY DEF IInv, TypeOK, Request, Activate, Moves
  <1>4. Won' = Won \cup {q} /\ q \notin Won
    BY <1>1, <1>3 DEF Won
  <1>5. Active' = {m}
    BY <1>1, <1>2 DEF Active
  <1>6. TypeOK'
    <2>1. status' \in [Models -> {"absent", "ready", "active", "archived"}]
      BY DEF IInv, TypeOK, Activate, Promoted
    <2>2. request' \in [Requests -> Request]
      BY DEF IInv, TypeOK, Request, Activate, Moves
    <2> QED
      BY <2>1, <2>2 DEF IInv, TypeOK, Activate
  <1>7. OneActive'
    BY <1>5 DEF OneActive
  <1>8. HandlerInv'
    BY <1>3, <1>1 DEF IInv, HandlerInv
  <1>9. \A r \in Won : /\ request[r].model \in Models
                       /\ request[r].expected \in Models \cup {NoModel}
                       /\ Published(request[r].model)
    BY DEF IInv, TypeOK, Request, ChainInv, Won, HandlerInv
  <1>10. \A n \in Models : Published(n) => Published(n)'
    BY <1>2 DEF Published
  \* What q expected is the active model, or nothing and there were no winners.
  <1>11. /\ Won # {} => request[q].expected \in Active
         /\ Won = {} => request[q].expected \in Active \cup {NoModel}
    BY <1>1 DEF IInv, ChainInv, Current
  <1>12. \A r \in Won : request[r].expected # request[q].expected
    BY <1>11, ActivationConstants DEF IInv, ChainInv, Active
  <1>13. ActivationsAccounted'
    <2>1. \A r, s \in Won' : r # s => request'[r].expected # request'[s].expected
      BY <1>3, <1>4, <1>12 DEF IInv, ActivationsAccounted, Won
    <2>2. ASSUME NEW n \in Models
          PROVE  status'[n] \in {"active", "archived"}
                   <=> \E r \in Won' : request'[r].model = n
      <3>1. CASE n = m
        BY <1>2, <1>3, <1>4, <3>1
      <3>2. CASE n # m
        <4>1. status'[n] \in {"active", "archived"} <=> status[n] \in {"active", "archived"}
          BY <1>2, <3>2
        <4>2. (\E r \in Won' : request'[r].model = n) <=> \E r \in Won : request[r].model = n
          BY <1>3, <1>4, <3>2 DEF Won
        <4> QED
          BY <4>1, <4>2 DEF IInv, ActivationsAccounted
      <3> QED
        BY <3>1, <3>2
    <2> QED
      BY <2>1, <2>2 DEF ActivationsAccounted
  <1>14. \A r \in Won : request[r].model # m
    BY <1>1, <1>9 DEF Published
  <1>15. ServedWasActivated'
    <2>1. slot' = slot /\ slot \in Models \cup {NoModel}
      BY DEF IInv, TypeOK, Activate
    <2>2. slot' # NoModel => status'[slot'] \in {"active", "archived"}
      BY <1>2, <2>1 DEF IInv, ServedWasActivated
    <2>3. \A r, s \in Won' : r # s => request'[r].model # request'[s].model
      BY <1>3, <1>4, <1>14 DEF IInv, ServedWasActivated, Won
    <2> QED
      BY <2>2, <2>3 DEF ServedWasActivated
  <1>16. ChainInv'
    <2>1. ASSUME NEW r \in Won'
          PROVE  /\ Published(request[r].model)'
                 /\ request'[r].expected # NoModel => status'[request'[r].expected] = "archived"
      <3>1. CASE r = q
        <4>1. Published(request[r].model)'
          BY <1>1, <1>2, <1>3, <3>1 DEF Published
        <4>2. request[q].expected # NoModel =>
                 request[q].expected \in Models /\ status[request[q].expected] = "active"
          BY <1>11 DEF Active
        <4> QED
          BY <1>1, <1>2, <1>3, <3>1, <4>1, <4>2
      <3>2. CASE r \in Won
        <4>1. Published(request[r].model)'
          BY <1>3, <1>9, <1>10, <3>2 DEF Won, Published
        <4>2. request[r].expected # NoModel => status[request[r].expected] = "archived"
          BY <3>2 DEF IInv, ChainInv
        <4> QED
          BY <1>1, <1>2, <1>3, <1>9, <3>2, <4>1, <4>2 DEF Won
      <3> QED
        BY <1>4, <3>1, <3>2
    <2> QED
      BY <1>5, <2>1 DEF ChainInv
  <1> QED
    BY <1>6, <1>7, <1>8, <1>13, <1>15, <1>16 DEF IInv

\* The other steps of a handler.
LEMMA HandlerStep ==
    ASSUME IInv, NEW q \in Requests,
           \/ \E m \in Models, e \in Models \cup {NoModel} :
                 Prepare(q, m, e) \/ PrepareFails(q, m, e)
           \/ Refuse(q) \/ RecordFailure(q) \/ ActivateRaises(q) \/ Swap(q)
    PROVE  IInv'
  <1>1. CASE \E m \in Models, e \in Models \cup {NoModel} :
                 Prepare(q, m, e) \/ PrepareFails(q, m, e)
    <2>1. PICK m \in Models, e \in Models \cup {NoModel} :
                 Prepare(q, m, e) \/ PrepareFails(q, m, e)
      BY <1>1
    <2> USE <2>1 DEF Prepare, PrepareFails
    <2>2. TypeOK'
      BY DEF IInv, TypeOK, Request
    <2>3. HandlerInv'
      BY DEF IInv, TypeOK, HandlerInv
    <2>4. attempt[q] = "none"
      BY DEF IInv, HandlerInv
    <2>5. Won' = Won /\ q \notin Won
      BY <2>4 DEF IInv, TypeOK, Won
    <2>6. \A r \in Won : request'[r] = request[r]
      BY <2>5 DEF IInv, TypeOK, Won
    <2>7. slot' # NoModel => Published(slot')
      BY DEF IInv, ServedWasActivated, Published
    <2> QED
      BY <2>2, <2>3, <2>5, <2>6, <2>7, QuietStep
  <1>2. CASE Refuse(q) \/ RecordFailure(q) \/ ActivateRaises(q) \/ Swap(q)
    <2> USE <1>2 DEF Refuse, RecordFailure, ActivateRaises, Swap, Moves
    <2>1. TypeOK'
      BY DEF IInv, TypeOK, Request, HandlerInv
    <2>2. \A r \in Requests : /\ request'[r].model = request[r].model
                              /\ request'[r].expected = request[r].expected
                              /\ r # q => request'[r].phase = request[r].phase
      BY DEF IInv, TypeOK, Request
    <2>3. HandlerInv'
      <3>1. request'[q].phase \in {"refused", "over"}
        BY DEF IInv, TypeOK, Request
      <3>2. request'[q].phase = "refused" => attempt'[q] = "started"
        BY DEF IInv, TypeOK, Request, HandlerInv
      <3> QED
        BY <2>2, <3>1, <3>2 DEF IInv, TypeOK, HandlerInv
    <2>4. Won' = Won
      BY DEF IInv, TypeOK, HandlerInv, Won
    <2>5. slot' # NoModel => Published(slot')
      <3>1. CASE slot' = slot
        BY <3>1 DEF IInv, ServedWasActivated, Published
      <3>2. CASE Swap(q)
        <4>1. q \in Won /\ slot' = request[q].model /\ status' = status
          BY <3>2 DEF IInv, HandlerInv, Won
        <4> QED
          BY <4>1 DEF IInv, ChainInv, Published
      <3> QED
        BY <3>1, <3>2
    <2> QED
      BY <2>1, <2>2, <2>3, <2>4, <2>5, QuietStep DEF Won
  <1> QED
    BY <1>1, <1>2

\* The process dies or is started.
LEMMA ProcessStep ==
    ASSUME IInv, Crash \/ Start
    PROVE  IInv'
  <1>1. CASE Crash
    <2> USE <1>1 DEF Crash
    <2>1. \A q \in Requests : /\ request'[q].model = request[q].model
                              /\ request'[q].expected = request[q].expected
                              /\ \/ request'[q].phase = "over" /\ request[q].phase # "idle"
                                 \/ request'[q].phase = request[q].phase
      BY DEF IInv, TypeOK, Request, InFlight
    <2>2. TypeOK'
      <3>1. request' \in [Requests -> Request]
        BY DEF IInv, TypeOK, Request
      <3>2. crashes' \in 0 .. MaxCrashes
        BY ActivationConstants DEF ActivationConstants, IInv, TypeOK
      <3>3. up' \in BOOLEAN /\ slot' \in Models \cup {NoModel}
        OBVIOUS
      <3> QED
        BY <3>1, <3>2, <3>3 DEF IInv, TypeOK
    <2>3. HandlerInv'
      BY <2>1 DEF IInv, HandlerInv
    <2> QED
      BY <2>1, <2>2, <2>3, QuietStep DEF Won
  <1>2. CASE Start
    <2> USE <1>2 DEF Start
    <2>1. slot' \in Active \cup {NoModel}
      BY DEF Current
    <2>2. TypeOK'
      BY <2>1 DEF IInv, TypeOK, Active
    <2>3. HandlerInv'
      BY DEF IInv, HandlerInv
    <2>4. slot' # NoModel => Published(slot')
      BY <2>1 DEF Published, Active
    <2> QED
      BY <2>2, <2>3, <2>4, QuietStep DEF Won
  <1> QED
    BY <1>1, <1>2

\* Every step keeps the inductive invariant.
LEMMA NextIInv == IInv /\ [Next]_vars => IInv'
  <1> SUFFICES ASSUME IInv, [Next]_vars PROVE IInv'
    OBVIOUS
  <1>1. CASE \E m \in Models : Register(m)
    BY <1>1, RegisterStep
  <1>2. ASSUME NEW q \in Requests, Handler(q) PROVE IInv'
    BY <1>2, ActivateStep, HandlerStep DEF Handler
  <1>3. CASE Crash \/ Start
    BY <1>3, ProcessStep
  <1>4. CASE UNCHANGED vars
    BY <1>4 DEF vars, IInv, TypeOK, OneActive, Active, HandlerInv, ActivationsAccounted, Won,
                ServedWasActivated, ChainInv, Published
  <1> QED
    BY <1>1, <1>2, <1>3, <1>4 DEF Next

\* The inductive invariant holds in every reachable state.
LEMMA Invariance == Spec => []IInv
  BY InitIInv, NextIInv, PTL DEF Spec

\* Every reachable state is well typed.
THEOREM TypeCorrect == Spec => []TypeOK
  <1>1. IInv => TypeOK
    BY DEF IInv
  <1> QED
    BY <1>1, Invariance, PTL

\* However many activations race, at most one model is ACTIVE.
THEOREM SingleActive == Spec => []OneActive
  <1>1. IInv => OneActive
    BY DEF IInv
  <1> QED
    BY <1>1, Invariance, PTL

\* Activations form a chain in which each model was put by one recorded winner.
THEOREM ActivationChain == Spec => []ActivationsAccounted
  <1>1. IInv => ActivationsAccounted
    BY DEF IInv
  <1> QED
    BY <1>1, Invariance, PTL

\* The API serves only models whose activation has been committed.
THEOREM ServedOnlyActivated == Spec => []ServedWasActivated
  <1>1. IInv => ServedWasActivated
    BY DEF IInv
  <1> QED
    BY <1>1, Invariance, PTL

-----------------------------------------------------------------------------
(* ServingResources *)

\* What a handler has captured was whole when it was read.
HeldInv ==
    /\ held = [q \in Requests |-> held[q]]
    /\ \A q \in Requests :
          /\ held[q] # NoResource =>
                held[q].model \in Models /\ held[q].expected \in Models \cup {NoModel} /\ held[q].bundle = TRUE
          /\ request[q].phase \in {"prepared", "committed"} => held[q].bundle = TRUE /\ held[q].data = TRUE

ServesInv == slot # NoModel => serves.bundle = TRUE /\ serves.data = TRUE

\* The rows are typed and keep what operators have decided; a row that is not there yet is
\* made on line.
CatalogInv ==
    /\ catalog \in [Shelf -> CatalogRow \cup {NoRow}]
    /\ decided \in [Shelf -> BOOLEAN]
    /\ \A i \in Shelf : decided[i] = IF catalog[i] = NoRow THEN TRUE ELSE catalog[i].online

\* Every model that was ever activated is of the users that are mapped, and its items are there.
MappedInv ==
    \A m \in Models : Published(m) =>
        /\ CanSelect(m)
        /\ demo = SelectedUsers(m)
        /\ \A i \in DOMAIN Titles[DataOf[m]] : catalog[i] # NoRow

TitlesInv ==
    \A m \in Active : \A i \in DOMAIN Titles[DataOf[m]] : catalog[i].title = Titles[DataOf[m]][i]

ResourcesInv == IInv /\ HeldInv /\ ServesInv /\ CatalogInv /\ MappedInv /\ TitlesInv

-----------------------------------------------------------------------------

\* Every step is one of ModelActivation, or leaves its variables alone.
LEMMA StepIsActivation ==
    ASSUME HeldInv, [ResourcesNext]_resourceVars
    PROVE  [Next]_vars
  <1>1. CASE \E m \in Models : RegisterBundle(m)
    BY <1>1 DEF RegisterBundle, Next
  <1>2. ASSUME NEW q \in Requests, StageData(q)
        PROVE  Handler(q)
    BY <1>2 DEF StageData, HeldInv, Handler
  <1>3. ASSUME NEW q \in Requests, StagingFails(q)
        PROVE  Handler(q)
    BY <1>3 DEF StagingFails, HeldInv, Handler
  <1>4. ASSUME NEW q \in Requests, Integrate(q) \/ GiveUp(q) \/ Publish(q)
        PROVE  Handler(q)
    BY <1>4 DEF Integrate, GiveUp, Publish, Handler
  <1>5. ASSUME NEW q \in Requests, NEW m, NEW expected, StageBundle(q, m, expected)
        PROVE  UNCHANGED vars
    BY <1>5 DEF StageBundle
  <1>6. CASE ProcessDies \/ StartEmpty \/ RestoreActive
    BY <1>6 DEF ProcessDies, StartEmpty, RestoreActive, Next
  <1>7. CASE (\E file \in Models \cup Range(DataOf) : Damage(file)) \/ Repair \/ \E i \in Shelf : Decide(i)
    BY <1>7 DEF Damage, Repair, Decide
  <1>8. CASE UNCHANGED resourceVars
    BY <1>8 DEF resourceVars
  <1> QED
    BY <1>1, <1>2, <1>3, <1>4, <1>5, <1>6, <1>7, <1>8 DEF ResourcesNext, Next

\* What the step of a request does to the captured resources of all
LEMMA HeldStep ==
    ASSUME IInv, HeldInv, [ResourcesNext]_resourceVars
    PROVE  HeldInv'
  <1> USE DEF HeldInv
  <1>1. ASSUME NEW q \in Requests, NEW x, Holds(q, x),
               \A r \in Requests \ {q} : request'[r] = request[r],
               x # NoResource =>
                  x.model \in Models /\ x.expected \in Models \cup {NoModel} /\ x.bundle = TRUE,
               request'[q].phase \in {"prepared", "committed"} => x.bundle = TRUE /\ x.data = TRUE
        PROVE  HeldInv'
    BY <1>1 DEF Holds
  <1>2. ASSUME NEW q \in Requests, NEW m \in Models, NEW expected \in Models \cup {NoModel},
               StageBundle(q, m, expected)
        PROVE  HeldInv'
    <2> DEFINE x == [model |-> m, expected |-> expected, bundle |-> AsPublished(m), data |-> FALSE]
    <2>1. Holds(q, x) /\ UNCHANGED request /\ request[q].phase = "idle"
      BY <1>2 DEF StageBundle, vars
    <2>2. x.model = m /\ x.expected = expected /\ x.bundle = TRUE
      BY <1>2 DEF StageBundle, BundleLoads
    <2> HIDE DEF x
    <2> QED
      BY <1>1, <2>1, <2>2
  <1>3. ASSUME NEW q \in Requests, StageData(q)
        PROVE  HeldInv'
    <2> DEFINE m == held[q].model
               x == [model |-> m, expected |-> held[q].expected,
                     bundle |-> held[q].bundle, data |-> AsPublished(DataOf[m])]
    <2>1. Holds(q, x) /\ \A r \in Requests \ {q} : request'[r] = request[r]
      BY <1>3 DEF StageData, Prepare
    <2>2. m \in Models /\ held[q].expected \in Models \cup {NoModel} /\ held[q].bundle = TRUE
      BY <1>3 DEF StageData
    <2>3. x.model = m /\ x.expected = held[q].expected /\ x.bundle = TRUE /\ x.data = TRUE
      BY <1>3, <2>2 DEF StageData, DataLoads, Captured
    <2> HIDE DEF x
    <2> QED
      BY <1>1, <2>1, <2>2, <2>3
  <1>4. ASSUME NEW q \in Requests, StagingFails(q) \/ GiveUp(q) \/ Publish(q)
        PROVE  HeldInv'
    <2>1. /\ Holds(q, NoResource)
          /\ \A r \in Requests \ {q} : request'[r] = request[r]
          /\ request'[q].phase \in {"over", "refused"}
      BY <1>4 DEF StagingFails, GiveUp, Publish, PrepareFails, Refuse, RecordFailure, ActivateRaises,
                  Swap, Moves, IInv, TypeOK, Request
    <2> QED
      BY <1>1, <2>1
  <1>5. ASSUME NEW q \in Requests, Integrate(q)
        PROVE  HeldInv'
    <2>1. /\ UNCHANGED held
          /\ request[q].phase = "prepared"
          /\ \A r \in Requests \ {q} : request'[r] = request[r]
      BY <1>5 DEF Integrate, Activate, Moves
    <2> QED
      BY <2>1
  <1>6. CASE ProcessDies
    <2>1. held' = [q \in Requests |-> NoResource]
      BY <1>6 DEF ProcessDies
    <2>2. \A q \in Requests : request'[q].phase \notin {"prepared", "committed"}
      BY <1>6 DEF ProcessDies, Crash, InFlight, IInv, TypeOK, Request
    <2> QED
      BY <2>1, <2>2
  <1>7. CASE StartEmpty \/ RestoreActive
    BY <1>7 DEF StartEmpty, RestoreActive, Start
  <1>8. CASE \E m \in Models : RegisterBundle(m)
    BY <1>8 DEF RegisterBundle, Register
  <1>9. CASE \/ \E file \in Models \cup Range(DataOf) : Damage(file)
             \/ Repair
             \/ \E i \in Shelf : Decide(i)
             \/ UNCHANGED resourceVars
    BY <1>9 DEF Damage, Repair, Decide, resourceVars, vars
  <1> QED
    BY <1>2, <1>3, <1>4, <1>5, <1>6, <1>7, <1>8, <1>9 DEF ResourcesNext

LEMMA ServesStep ==
    ASSUME IInv, HeldInv, ServesInv, [ResourcesNext]_resourceVars
    PROVE  ServesInv'
  <1> USE DEF ServesInv
  <1>1. ASSUME NEW q \in Requests, Publish(q)
        PROVE  ServesInv'
    <2>1. held[q].bundle = TRUE /\ held[q].data = TRUE
      BY <1>1 DEF Publish, Swap, HeldInv
    <2> QED
      BY <1>1, <2>1 DEF Publish
  <1>2. CASE ProcessDies \/ StartEmpty \/ RestoreActive
    BY <1>2 DEF ProcessDies, Crash, StartEmpty, RestoreActive
  <1>3. ASSUME NEW q \in Requests,
               \/ \E m \in Models, expected \in Models \cup {NoModel} : StageBundle(q, m, expected)
               \/ StageData(q) \/ StagingFails(q) \/ Integrate(q) \/ GiveUp(q)
        PROVE  UNCHANGED <<slot, serves>>
    BY <1>3 DEF StageBundle, StageData, StagingFails, Integrate, GiveUp, Prepare, PrepareFails, Activate,
                Refuse, RecordFailure, ActivateRaises, vars
  <1>4. CASE \/ \E file \in Models \cup Range(DataOf) : Damage(file)
             \/ Repair
             \/ \E i \in Shelf : Decide(i)
             \/ \E m \in Models : RegisterBundle(m)
             \/ UNCHANGED resourceVars
    BY <1>4 DEF Damage, Repair, Decide, RegisterBundle, Register, resourceVars, vars
  <1> QED
    BY <1>1, <1>2, <1>3, <1>4 DEF ResourcesNext

-----------------------------------------------------------------------------
(* The rows *)

\* What a synchronization leaves behind, of whichever model
LEMMA SyncedRows ==
    ASSUME CatalogInv, NEW m \in Models
    PROVE  LET rows == Synced(m)
           IN /\ rows \in [Shelf -> CatalogRow \cup {NoRow}]
              /\ \A i \in Shelf :
                    /\ catalog[i] # NoRow => rows[i] # NoRow
                    /\ (IF rows[i] = NoRow THEN TRUE ELSE rows[i].online)
                          = (IF catalog[i] = NoRow THEN TRUE ELSE catalog[i].online)
              /\ \A i \in DOMAIN Titles[DataOf[m]] :
                    rows[i] # NoRow /\ rows[i].title = Titles[DataOf[m]][i]
  <1> DEFINE titles == Titles[DataOf[m]]
             rows == Synced(m)
             Made(i) == [title |-> titles[i], online |-> IF catalog[i] = NoRow THEN TRUE ELSE catalog[i].online]
  <1>1. \A i \in Shelf : rows[i] = IF i \notin DOMAIN titles THEN catalog[i] ELSE Made(i)
    BY DEF Synced
  <1>2. rows = [i \in Shelf |-> rows[i]]
    BY DEF Synced
  <1>3. ASSUME NEW i \in DOMAIN titles
        PROVE  i \in Shelf /\ Made(i) \in CatalogRow /\ Made(i).title = titles[i]
    <2>1. i \in Shelf
      BY ResourcesConstants DEF ResourcesConstants
    <2>2. titles[i] \in UNION {Range(Titles[d]) : d \in Range(DataOf)}
      <3>1. DataOf[m] \in Range(DataOf)
        BY ResourcesConstants DEF ResourcesConstants
      <3>2. titles[i] \in Range(titles)
        BY DEF Range
      <3> QED
        BY <3>1, <3>2
    <2>3. (IF catalog[i] = NoRow THEN TRUE ELSE catalog[i].online) \in BOOLEAN
      BY <2>1 DEF CatalogInv, CatalogRow
    <2> QED
      BY <2>1, <2>2, <2>3 DEF CatalogRow
  <1>4. \A i \in DOMAIN titles : Made(i) # NoRow
    BY <1>3, ResourcesConstants DEF ResourcesConstants
  <1>5. \A i : Made(i).online = IF catalog[i] = NoRow THEN TRUE ELSE catalog[i].online
    OBVIOUS
  <1> HIDE DEF rows, Made
  <1>6. \A i \in Shelf : rows[i] \in CatalogRow \cup {NoRow}
    BY <1>1, <1>3 DEF CatalogInv
  <1>7. \A i \in Shelf :
           /\ catalog[i] # NoRow => rows[i] # NoRow
           /\ (IF rows[i] = NoRow THEN TRUE ELSE rows[i].online)
                 = (IF catalog[i] = NoRow THEN TRUE ELSE catalog[i].online)
    BY <1>1, <1>4, <1>5
  <1>8. \A i \in DOMAIN titles : rows[i] # NoRow /\ rows[i].title = titles[i]
    BY <1>1, <1>3, <1>4
  <1> QED
    BY <1>2, <1>6, <1>7, <1>8 DEF rows

\* The part of the invariant that is about the database
RowsInv == CatalogInv /\ MappedInv /\ TitlesInv

\* A step that leaves the rows and what is published alone
LEMMA SameRows ==
    ASSUME RowsInv, UNCHANGED <<catalog, decided, demo>>,
           \A m \in Models : Published(m)' => Published(m),
           Active' \subseteq Active
    PROVE  RowsInv'
  BY DEF RowsInv, CatalogInv, MappedInv, TitlesInv

\* A synchronization with model m, by an activation of m or a restart
LEMMA SyncStep ==
    ASSUME RowsInv, NEW m \in Models, Syncs(m), UNCHANGED decided,
           \A n \in Models : Published(n)' => Published(n) \/ n = m,
           Active' \subseteq {m}
    PROVE  RowsInv'
  <1>1. catalog' = Synced(m) /\ demo' = SelectedUsers(m)
    BY DEF Syncs
  <1>2. CatalogInv'
    BY <1>1, SyncedRows DEF RowsInv, CatalogInv
  <1>3. /\ \A i \in Shelf : catalog[i] # NoRow => catalog'[i] # NoRow
        /\ \A i \in DOMAIN Titles[DataOf[m]] :
              catalog'[i] # NoRow /\ catalog'[i].title = Titles[DataOf[m]][i]
    BY <1>1, SyncedRows DEF RowsInv
  <1>4. MappedInv'
    <2> SUFFICES ASSUME NEW n \in Models, Published(n)'
                 PROVE  /\ CanSelect(n)
                        /\ demo' = SelectedUsers(n)
                        /\ \A i \in DOMAIN Titles[DataOf[n]] : catalog'[i] # NoRow
      BY DEF MappedInv
    <2>1. CASE n = m
      BY <1>1, <1>3, <2>1 DEF Syncs, Integrable
    <2>2. CASE Published(n)
      <3>1. /\ CanSelect(n)
            /\ demo = SelectedUsers(n)
            /\ \A i \in DOMAIN Titles[DataOf[n]] : catalog[i] # NoRow
        BY <2>2 DEF RowsInv, MappedInv
      <3>2. demo # Unmapped
        BY <3>1, ResourcesConstants DEF ResourcesConstants
      <3>3. demo' = SelectedUsers(n)
        BY <1>1, <3>1, <3>2 DEF Syncs, Integrable
      <3> QED
        BY <1>3, <3>1, <3>3, ResourcesConstants DEF ResourcesConstants
    <2> QED
      BY <2>1, <2>2
  <1>5. TitlesInv'
    BY <1>3 DEF TitlesInv
  <1> QED
    BY <1>2, <1>4, <1>5 DEF RowsInv

\* An operator changes one row, and only whether it is on line.
LEMMA DecideStep ==
    ASSUME RowsInv, NEW i \in Shelf, Decide(i)
    PROVE  RowsInv'
  <1> DEFINE row == [title |-> catalog[i].title, online |-> ~ catalog[i].online]
  <1>1. /\ catalog[i] # NoRow
        /\ catalog' = [catalog EXCEPT ![i] = row]
        /\ decided' = [decided EXCEPT ![i] = ~ decided[i]]
        /\ UNCHANGED <<status, demo>>
    BY DEF Decide, vars
  <1>2. catalog[i] \in CatalogRow /\ decided[i] = catalog[i].online
    BY <1>1 DEF RowsInv, CatalogInv
  <1>3. row \in CatalogRow /\ row.title = catalog[i].title /\ row.online = ~ decided[i]
    BY <1>2 DEF CatalogRow
  <1>4. row # NoRow
    BY <1>3, ResourcesConstants DEF ResourcesConstants
  <1> HIDE DEF row
  <1>5. \A j \in Shelf : catalog'[j] = IF j = i THEN row ELSE catalog[j]
    BY <1>1 DEF RowsInv, CatalogInv
  <1>6. CatalogInv'
    <2>1. catalog' \in [Shelf -> CatalogRow \cup {NoRow}]
      BY <1>1, <1>3 DEF RowsInv, CatalogInv
    <2>2. decided' \in [Shelf -> BOOLEAN]
      BY <1>1 DEF RowsInv, CatalogInv
    <2>3. decided'[i] = row.online /\ \A j \in Shelf \ {i} : decided'[j] = decided[j]
      BY <1>1, <1>3 DEF RowsInv, CatalogInv
    <2> QED
      BY <1>4, <1>5, <2>1, <2>2, <2>3 DEF RowsInv, CatalogInv
  <1>7. \A j \in Shelf : (catalog[j] # NoRow => catalog'[j] # NoRow) /\ catalog'[j].title = catalog[j].title
    BY <1>3, <1>4, <1>5
  <1>8. \A m \in Models : DOMAIN Titles[DataOf[m]] \subseteq Shelf
    BY ResourcesConstants DEF ResourcesConstants
  <1>9. MappedInv'
    BY <1>1, <1>7, <1>8 DEF RowsInv, MappedInv, Published
  <1>10. TitlesInv'
    BY <1>1, <1>7, <1>8 DEF RowsInv, TitlesInv, Active
  <1> QED
    BY <1>6, <1>9, <1>10 DEF RowsInv

LEMMA RowsStep ==
    ASSUME IInv, HeldInv, RowsInv, [ResourcesNext]_resourceVars
    PROVE  RowsInv'
  <1>1. ASSUME UNCHANGED <<status, catalog, decided, demo>>
        PROVE  RowsInv'
    BY <1>1, SameRows DEF Published, Active
  <1>2. CASE \E m \in Models : RegisterBundle(m)
    <2>1. PICK m \in Models : Register(m) /\ UNCHANGED <<catalog, decided, demo>>
      BY <1>2 DEF RegisterBundle
    <2>2. status' = [status EXCEPT ![m] = "ready"] /\ status \in [Models -> {"absent", "ready", "active", "archived"}]
      BY <2>1 DEF Register, IInv, TypeOK
    <2>3. Active' \subseteq Active /\ \A n \in Models : Published(n)' => Published(n)
      BY <2>2 DEF Active, Published
    <2> QED
      BY <2>1, <2>3, SameRows
  <1>3. ASSUME NEW q \in Requests, Integrate(q)
        PROVE  RowsInv'
    <2> DEFINE m == request[q].model
    <2>1. m \in Models /\ status' = Promoted(m) /\ Syncs(m) /\ UNCHANGED decided
      BY <1>3 DEF Integrate, Activate, IInv, HandlerInv
    <2>2. Active' \subseteq {m} /\ \A n \in Models : Published(n)' => Published(n) \/ n = m
      BY <2>1 DEF Promoted, Active, Published
    <2> QED
      BY <2>1, <2>2, SyncStep
  <1>4. CASE StartEmpty
    <2>1. /\ UNCHANGED <<status, catalog, decided>>
          /\ demo' = IF demo = Unseeded THEN Unmapped ELSE demo
      BY <1>4 DEF StartEmpty, Start
    <2>2. \A m \in Models : Published(m) => demo # Unseeded
      BY ResourcesConstants DEF ResourcesConstants, RowsInv, MappedInv
    <2>3. \A m \in Models : Published(m) => demo' = demo
      BY <2>1, <2>2
    <2> QED
      BY <2>1, <2>3 DEF RowsInv, CatalogInv, MappedInv, TitlesInv, Published, Active
  <1>5. CASE RestoreActive
    <2>1. slot' \in Active /\ Syncs(slot') /\ UNCHANGED <<status, decided>>
      BY <1>5 DEF RestoreActive, Start, Current
    <2>2. slot' \in Models /\ Active \subseteq {slot'}
      BY <2>1 DEF Active, IInv, OneActive
    <2>3. PICK m \in Models : Syncs(m) /\ Active \subseteq {m}
      BY <2>1, <2>2
    <2> QED
      BY <2>1, <2>3, SyncStep DEF Active, Published
  <1>6. ASSUME NEW q \in Requests,
               \/ \E m \in Models, expected \in Models \cup {NoModel} : StageBundle(q, m, expected)
               \/ StageData(q) \/ StagingFails(q) \/ GiveUp(q) \/ Publish(q)
        PROVE  UNCHANGED <<status, catalog, decided, demo>>
    BY <1>6 DEF StageBundle, StageData, StagingFails, GiveUp, Publish, Prepare, PrepareFails,
                Refuse, RecordFailure, ActivateRaises, Swap, vars
  <1>7. CASE \/ \E file \in Models \cup Range(DataOf) : Damage(file)
             \/ Repair
             \/ ProcessDies
             \/ UNCHANGED resourceVars
    BY <1>1, <1>7 DEF Damage, Repair, ProcessDies, Crash, resourceVars, vars
  <1>8. ASSUME NEW i \in Shelf, Decide(i)
        PROVE  RowsInv'
    BY <1>8, DecideStep
  <1> QED
    BY <1>1, <1>2, <1>3, <1>4, <1>5, <1>6, <1>7, <1>8 DEF ResourcesNext

-----------------------------------------------------------------------------

LEMMA InitResourcesInv == ResourcesInit => ResourcesInv
  <1> SUFFICES ASSUME ResourcesInit PROVE ResourcesInv
    OBVIOUS
  <1>1. IInv
    BY InitIInv DEF ResourcesInit
  <1>2. Active = {} /\ \A m \in Models : ~ Published(m)
    BY DEF ResourcesInit, Init, Active, Published
  <1>3. HeldInv
    BY DEF ResourcesInit, Init, HeldInv
  <1>4. ServesInv /\ CatalogInv
    BY DEF ResourcesInit, Init, ServesInv, CatalogInv
  <1> QED
    BY <1>1, <1>2, <1>3, <1>4 DEF ResourcesInv, MappedInv, TitlesInv

LEMMA ResourcesInvariance == ResourcesSpec => []ResourcesInv
  <1>1. ResourcesInv /\ [ResourcesNext]_resourceVars => ResourcesInv'
    <2> SUFFICES ASSUME ResourcesInv, [ResourcesNext]_resourceVars PROVE ResourcesInv'
      OBVIOUS
    <2>1. IInv'
      BY StepIsActivation, NextIInv DEF ResourcesInv
    <2>2. HeldInv' /\ ServesInv'
      BY HeldStep, ServesStep DEF ResourcesInv
    <2>3. RowsInv'
      BY RowsStep DEF ResourcesInv, RowsInv
    <2> QED
      BY <2>1, <2>2, <2>3 DEF ResourcesInv, RowsInv
  <1> QED
    BY <1>1, InitResourcesInv, PTL DEF ResourcesSpec

\* Files, rows and operators only narrow down when ModelActivation may take a step.
THEOREM ImplementsActivation == ResourcesSpec => Spec
  <1>1. ResourcesInit => Init
    BY DEF ResourcesInit
  <1>2. ResourcesInv /\ [ResourcesNext]_resourceVars => [Next]_vars
    BY StepIsActivation DEF ResourcesInv
  <1> QED
    BY <1>1, <1>2, ResourcesInvariance, PTL DEF ResourcesSpec, Spec

\* What is served is whole and fits the rows, the mapped users and the operators' decisions.
THEOREM ServedFits == ResourcesSpec => []ResourcesFit
  <1>1. ResourcesInv => ResourcesFit
    <2> SUFFICES ASSUME ResourcesInv PROVE ResourcesFit
      OBVIOUS
    <2>1. ASSUME slot # NoModel
          PROVE  /\ Verified(serves)
                 /\ demo = SelectedUsers(slot)
                 /\ \A i \in DOMAIN Titles[DataOf[slot]] : catalog[i] # NoRow
      <3>1. slot \in Models /\ Published(slot)
        BY <2>1 DEF ResourcesInv, IInv, TypeOK, ServedWasActivated, Published
      <3>2. Verified(serves)
        BY <2>1 DEF ResourcesInv, ServesInv, Verified
      <3> QED
        BY <3>1, <3>2 DEF ResourcesInv, MappedInv
    <2>2. ASSUME NEW m \in Active, NEW i \in DOMAIN Titles[DataOf[m]]
          PROVE  catalog[i] # NoRow /\ catalog[i].title = Titles[DataOf[m]][i]
      BY <2>2 DEF ResourcesInv, MappedInv, TitlesInv, Active, Published
    <2>3. \A i \in Shelf : catalog[i] # NoRow => catalog[i].online = decided[i]
      BY DEF ResourcesInv, CatalogInv
    <2> QED
      BY <2>1, <2>2, <2>3 DEF ResourcesFit
  <1> QED
    BY <1>1, ResourcesInvariance, PTL
==============================================================================
