---------------------------- MODULE TrainingData ----------------------------
(***************************************************************************)
(* The datasets models are trained on (recsys/data): one built from the    *)
(* official files, and others built from a dataset and an export of the    *)
(* events.  A dataset is an immutable directory named by what it was built *)
(* from, which is why a version is a sequence here: the source, then every *)
(* export that was added.  load_model_data (recsys/models/data.py) decides *)
(* whether a model may be trained on it.                                   *)
(***************************************************************************)
EXTENDS Integers, Sequences, Bags, FiniteSetsExt

CONSTANTS
    Sources,     \* official files: sets of interactions [user, item, time]
    Catalog,     \* their items
    MinTrain,    \* split.min_train_interactions
    Happened,    \* the events by their id: [user, item, time, type, long]
    Exported,    \* event exports: [after, upto, complete]
    Mappings,    \* [positive, negative, end, validation, test, least, leastUsers]
    MaxDatasets,
    DataBuilders

Instants(rows) == {r.time : r \in rows}

ASSUME DataConstants ==
    /\ MinTrain \in Nat \ {0}
    /\ \A m \in Mappings : m.positive \cap m.negative = {} /\ "dwell" \notin m.positive \cup m.negative
    /\ \A m \in Mappings :
          \A t \in {m.end, m.validation[1], m.validation[2], m.test[1], m.test[2]} : t \in Nat
    /\ \A source \in Sources : IsFiniteSet(source) /\ Instants(source) \subseteq Nat
    /\ \A e \in Exported :
          e.after \in Nat /\ e.upto \in Nat /\ \A i \in e.after + 1 .. e.upto : Happened[i].time \in Nat

VARIABLES
    datasets,   \* the directories in place, by version
    building    \* each build_official_dataset or build_training_data

dataVars == <<datasets, building>>

-----------------------------------------------------------------------------
(* Rows *)

Only(bag, Test(_)) == [r \in {r \in DOMAIN bag : Test(r)} |-> bag[r]]

\* _range, of every split
Complete(d) == d.train # EmptyBag /\ d.validation # EmptyBag /\ d.test # EmptyBag

\* split_interactions, of one user: the last two instants, if enough is left to train on
Holdout(rows) ==
    LET last   == Max(Instants(rows))
        before == Max(Instants(rows) \ {last})
        left   == {r \in rows : r.time < before}
    IN IF Cardinality(Instants(rows)) < 3 \/ Cardinality(left) < MinTrain
       THEN [validation |-> {}, test |-> {}]
       ELSE [validation |-> {r \in rows : r.time = before}, test |-> {r \in rows : r.time = last}]

Users(rows) == {r.user : r \in rows}

HeldOut(source, split) ==
    UNION {Holdout({r \in source : r.user = u})[split] : u \in Users(source)}

\* build_official_dataset
FromSource(source) ==
    [train      |-> SetToBag(source \ (HeldOut(source, "validation") \cup HeldOut(source, "test"))),
     validation |-> SetToBag(HeldOut(source, "validation")),
     test       |-> SetToBag(HeldOut(source, "test")),
     purpose    |-> "base_official",
     windows    |-> <<>>,
     counts     |-> <<>>]

-----------------------------------------------------------------------------
(* Exports *)

Accepted(e) == {i \in e.after + 1 .. e.upto : Happened[i].item \in e.complete}

Rejected(e) == (e.after + 1 .. e.upto) \ Accepted(e)

\* The newest event that there is at the export (events/export.py)
Cutoff(e) == Max({0} \cup {Happened[i].time : i \in 1 .. e.upto})

\* validate_event_export: the catalog must agree with what the export knew of the items.
Admitted(e) ==
    /\ \A i \in Accepted(e) : Happened[i].item \in Catalog
    /\ \A i \in Rejected(e) : Happened[i].item \notin Catalog

\* _windows
Windows(e, m, purpose) ==
    IF purpose = "systems_only"
    THEN [end |-> Cutoff(e), validation |-> <<Cutoff(e), Cutoff(e)>>, test |-> <<Cutoff(e), Cutoff(e)>>]
    ELSE [end |-> m.end, validation |-> m.validation, test |-> m.test]

Within(t, window) == window[1] <= t /\ t < window[2]

Ordered(w) ==
    /\ w.end <= w.validation[1]
    /\ w.validation[1] < w.validation[2]
    /\ w.validation[2] <= w.test[1]
    /\ w.test[1] < w.test[2]

\* _assign_split
InSplit(i, split, purpose, w) ==
    LET t == Happened[i].time
    IN IF purpose = "systems_only" THEN split = "train"
       ELSE \/ split = "train" /\ t < w.end
            \/ split = "validation" /\ t >= w.end /\ Within(t, w.validation)
            \/ split = "test" /\ t >= w.end /\ Within(t, w.test)

\* _map_events: what counts as an interaction (label 1)
Positive(i, m) ==
    \/ Happened[i].type \in m.positive
    \/ Happened[i].type = "dwell" /\ Happened[i].long

Interaction(i) == [user |-> Happened[i].user, item |-> Happened[i].item, time |-> Happened[i].time]

\* As often as there are events of it
Signals(e, m, split, purpose, w) ==
    LET chosen == {i \in Accepted(e) : Positive(i, m) /\ InSplit(i, split, purpose, w)}
    IN [r \in {Interaction(i) : i \in chosen} |-> Cardinality({i \in chosen : Interaction(i) = r})]

\* (variant) The held out rows of the base are left behind.
EarlierOfTrain(base, end) == LET Before(r) == r.time < end IN Only(base.train, Before)

\* (variant) All of them are taken, those after the cutoff too.
EarlierOrLater(base, end) == base.train (+) base.validation (+) base.test

\* Every row of the base before the cutoff, whatever it was held out for
Earlier(base, end) ==
    LET Before(r) == r.time < end
    IN Only(base.train (+) base.validation (+) base.test, Before)

\* build_training_data
FromExport(base, e, m, purpose) ==
    LET w == Windows(e, m, purpose)
        Part(split) == Signals(e, m, split, purpose, w)
        quality == purpose = "quality_evaluation"
    IN [train      |-> Earlier(base, w.end) (+) Part("train"),
        validation |-> Part("validation"),
        test       |-> Part("test"),
        purpose    |-> purpose,
        windows    |-> w,
        counts     |->
           [validation_interactions |-> IF quality THEN BagCardinality(Part("validation")) ELSE 0,
            validation_users        |-> Cardinality(Users(DOMAIN Part("validation"))),
            test_interactions       |-> IF quality THEN BagCardinality(Part("test")) ELSE 0,
            test_users              |-> Cardinality(Users(DOMAIN Part("test")))]]

\* NOT_ENOUGH_HOLDOUT otherwise
Enough(d, m) ==
    /\ d.counts.validation_interactions >= m.least
    /\ d.counts.test_interactions >= m.least
    /\ d.counts.validation_users >= m.leastUsers
    /\ d.counts.test_users >= m.leastUsers

-----------------------------------------------------------------------------
(* Building *)

Unbuilt == [at |-> "idle"]

DataInit ==
    /\ datasets = [v \in {} |-> Unbuilt]
    /\ building = [b \in DataBuilders |-> Unbuilt]

\* The temporary directory is complete.
Written(b, version, d) ==
    /\ Cardinality(DOMAIN datasets) < MaxDatasets
    /\ building' = [building EXCEPT ![b] = [at |-> "written", version |-> version, dataset |-> d]]
    /\ UNCHANGED datasets

\* load_official rejects repeated rows and items that are not in the catalog.
BuildOfficial(b, source) ==
    /\ building[b].at = "idle"
    /\ \A r \in source : r.item \in Catalog
    /\ Complete(FromSource(source))
    /\ Written(b, <<source>>, FromSource(source))

BuildEvents(b, base, e, m, purpose) ==
    LET d == FromExport(datasets[base], e, m, purpose)
    IN /\ building[b].at = "idle"
       /\ Admitted(e)
       /\ purpose = "quality_evaluation" => Ordered(d.windows) /\ d.windows.test[2] <= Cutoff(e) /\ Enough(d, m)
       /\ d.train # EmptyBag
       /\ Written(b, Append(base, [export |-> e, mapping |-> m, purpose |-> purpose]), d)

Put(b) ==
    building' = [building EXCEPT ![b] = Unbuilt]

\* _publish: is the version there?  What is there is verified and must be the same.
LookFor(b) ==
    /\ building[b].at = "written"
    /\ UNCHANGED datasets
    /\ IF building[b].version \in DOMAIN datasets THEN Put(b) ELSE building' = [building EXCEPT ![b].at = "clear"]

\* The directory is renamed; if another builder was faster that is an error.
MoveIn(b) ==
    LET version == building[b].version
    IN /\ building[b].at = "clear"
       /\ datasets' = [v \in DOMAIN datasets \cup {version} |->
             IF v \in DOMAIN datasets THEN datasets[v] ELSE building[b].dataset]
       /\ Put(b)

\* The process dies; its temporary directory is nobody's.
BuilderDies(b) ==
    /\ building[b].at # "idle"
    /\ Put(b)
    /\ UNCHANGED datasets

DataNext ==
    \E b \in DataBuilders :
        \/ \E source \in Sources : BuildOfficial(b, source)
        \/ \E base \in DOMAIN datasets, e \in Exported, m \in Mappings,
              purpose \in {"systems_only", "quality_evaluation"} : BuildEvents(b, base, e, m, purpose)
        \/ LookFor(b) \/ MoveIn(b) \/ BuilderDies(b)

DataSpec == DataInit /\ [][DataNext]_dataVars

-----------------------------------------------------------------------------
(* Training on them *)

\* The counts of the holdout, by the names load_model_data looks for.
Counted(d, split) == IF split \in DOMAIN d.counts THEN d.counts[split] ELSE -1

\* load_model_data (then load_model_test_split): a quality evaluation has its windows checked.
Loadable(d) ==
    LET held == DOMAIN d.validation \cup DOMAIN d.test
    IN /\ d.train # EmptyBag
       /\ d.purpose # "systems_only" => d.validation # EmptyBag /\ d.test # EmptyBag
       /\ d.purpose = "quality_evaluation" =>
             /\ Ordered(d.windows)
             /\ \A r \in DOMAIN d.train : r.time < d.windows.end
             /\ \A r \in DOMAIN d.validation : Within(r.time, d.windows.validation)
             /\ \A r \in DOMAIN d.test : Within(r.time, d.windows.test)
             /\ Counted(d, "validation") = BagCardinality(d.validation)
             /\ Counted(d, "test") = BagCardinality(d.test)
       /\ Users(held) \subseteq Users(DOMAIN d.train)

-----------------------------------------------------------------------------
(* Properties *)

\* What a dataset holds out of a user comes after all it trains on of that user, and the
\* test after the validation, over any chain of exports, in whatever order they were added.
EvaluationUnseen ==
    \A v \in DOMAIN datasets :
        LET d == datasets[v]
            Follows(before, after) ==
                \A r \in DOMAIN before, s \in DOMAIN after : r.user = s.user => r.time < s.time
        IN Follows(d.train, d.validation) /\ Follows(d.train, d.test) /\ Follows(d.validation, d.test)

\* A chain of systems_only builds keeps every interaction as often as the files and the
\* exports hold it, as long as it precedes the cutoff of each later build.
LearnedAsOften ==
    \A v \in DOMAIN datasets :
        LET steps  == 2 .. Len(v)
            Kept(r, k) == \A j \in steps : j > k => r.time < Cutoff(v[j].export)
            Of(r, k)   == {i \in Accepted(v[k].export) : Positive(i, v[k].mapping) /\ Interaction(i) = r}
            Holds(r)   ==
                LET sets == {{k} \X Of(r, k) : k \in {k \in steps : Kept(r, k)}}
                IN Cardinality(UNION sets) + IF r \in v[1] /\ Kept(r, 1) THEN 1 ELSE 0
            learned == datasets[v].train (+) datasets[v].validation (+) datasets[v].test
        IN (\A k \in steps : v[k].purpose = "systems_only") =>
              \A r \in v[1] \cup {Interaction(i) : i \in DOMAIN Happened} :
                 (IF r \in DOMAIN learned THEN learned[r] ELSE 0) = Holds(r)

\* What passed the gate of the frozen holdout may be trained on: activation_eligible is TRUE,
\* unless a user it evaluates has no history.
QualityTrainable ==
    \A v \in DOMAIN datasets :
        LET d == datasets[v]
        IN /\ d.purpose = "quality_evaluation"
           /\ Users(DOMAIN d.validation \cup DOMAIN d.test) \subseteq Users(DOMAIN d.train)
           => Loadable(d)
=============================================================================
