----------------------------- MODULE MCSettling -----------------------------
(***************************************************************************)
(* Two waits that must end, one component in focus at a time: the calls a  *)
(* browser's event queue makes, which wait for each other in the API, and  *)
(* the training jobs that workers poll for.  They share no state; the      *)
(* component that is not in focus rests in its initial state.              *)
(***************************************************************************)
EXTENDS EventQueue, TrainingJobs

CONSTANTS s1, s2, w1, w2, t1, t2, m

\* Two events are enough for calls that wait for each other: the batch of both, and one of
\* them sent alone.
TwoSlots == {s1, s2}

TwoEvents == 1 .. 2

OneBatch == {1}

TwoWorkers == {w1, w2}

\* Two training jobs that may be of one content
TwoTrainings == {t1, t2}

OneVersion == {m}

-----------------------------------------------------------------------------

VARIABLE focus

settling == <<focus, vars, trainingVars>>

SettlingInit == focus \in {"events", "training"} /\ Init /\ TrainingInit

EventsNext == focus = "events" /\ Next /\ UNCHANGED <<focus, trainingVars>>

LearningNext == focus = "training" /\ TrainingNext /\ UNCHANGED <<focus, vars>>

SettlingNext == EventsNext \/ LearningNext

\* The fairness of each component, while it is in focus: that of FairSpec in EventQueue; and
\* workers keep making passes, and leases that nobody renews run out.
SettlingFairness ==
    /\ \A s \in Slots :
          /\ SF_vars(focus = "events" /\ Serve(s) /\ UNCHANGED queueVars)
          /\ WF_vars(focus = "events" /\ Conclude(s))
    /\ \A w \in Trainers : WF_trainingVars(focus = "training" /\ RunOnce(w))
    /\ \A r \in Trainings : WF_trainingVars(focus = "training" /\ Abandoned(r) /\ Lapse(r))

SettlingSpec == SettlingInit /\ [][SettlingNext]_settling /\ SettlingFairness
=============================================================================
