----------------------------- MODULE MCServing -----------------------------
(***************************************************************************)
(* From the data to the page: datasets, training stages, the experiment    *)
(* matrix, the activation of models with their resources, the search index *)
(* and searches, feed snapshots, what they are made of, their pages and    *)
(* the feed in the browser.  What they share (who is on line, the active   *)
(* model) each module states for itself; a behaviour is one of the         *)
(* component in focus, and the others rest in an initial state.            *)
(***************************************************************************)
EXTENDS TrainingData, StageTraining, ExperimentMatrix, ServingResources, SearchIndex, SearchQueries,
        FeedSnapshots, FeedRanking, FeedPages, FeedView, TLC

CONSTANTS m1, m2, m3, q1, q2, d1, d2, ix, iy, iz, t1, w1, w2, h1, h2

\* Official files: users with enough history and others, rows of one instant; events of
\* both users, one of them twice in the same instant, a long and a short dwell; exports
\* that follow each other, overlap, are empty, or do not know an item.
Row(u, i, t) == [user |-> u, item |-> i, time |-> t]

Event(u, i, t, type, long) == [user |-> u, item |-> i, time |-> t, type |-> type, long |-> long]

MCSources ==
    {{Row("a", "x", 1), Row("a", "y", 2), Row("a", "x", 3), Row("a", "y", 3), Row("b", "x", 1), Row("b", "y", 4)},
     {Row("a", "x", 1), Row("a", "y", 1), Row("a", "x", 2), Row("b", "x", 1), Row("b", "y", 4)},
     {Row("a", "x", 1), Row("a", "y", 2), Row("a", "x", 4), Row("b", "y", 1), Row("b", "z", 2), Row("b", "x", 3)}}

MCCatalog == {"x", "y"}

MCHappened ==
    <<Event("a", "x", 3, "click", FALSE), Event("a", "y", 5, "dwell", TRUE),
      Event("b", "x", 5, "click", FALSE), Event("a", "x", 4, "click", FALSE),
      Event("b", "y", 6, "dwell", FALSE), Event("a", "x", 7, "not_interested", FALSE)>>

MCExported ==
    {[after |-> window[1], upto |-> window[2], complete |-> complete] :
        window \in {<<0, 2>>, <<0, 3>>, <<2, 4>>, <<4, 6>>, <<0, 6>>, <<4, 4>>},
        complete \in {{"x"}, {"x", "y"}}}

MCMappings ==
    {[positive |-> {"click"}, negative |-> {"not_interested"}, end |-> 4, validation |-> <<4, 5>>,
      test |-> <<5, 6>>, least |-> 1, leastUsers |-> 1]}

OneBuilder == {h1}

\* Four epochs, stopped after two without improvement
MCCurves == [1 .. 4 -> 1 .. 2]

\* Not in the order of their ids; the first two have one configuration.
MCMatrix == <<3, 1, 2>>

MCConfigOf == <<"base", "title", "base">>

ThreeModels == {m1, m2, m3}

TwoRequests == {q1, q2}

\* Two models of the same data, one of which does not know the first user; the data of the
\* third have one item of the two, under another title.
MCDataOf == (m1 :> d1) @@ (m2 :> d2) @@ (m3 :> d2)

MCBundleUsers == (m1 :> {1, 2, 3, 4}) @@ (m2 :> {1, 2, 3, 4}) @@ (m3 :> {2, 3, 4})

MCTitles == (d1 :> <<"old">>) @@ (d2 :> <<"new", "new">>)

MCSignature == (d1 :> <<1, 1, 2, 2>>) @@ (d2 :> <<1, 1, 2, 3>>)

BothData == {d1, d2}

TwoOnShelf == {1, 2}

OneItem == {1}

ThreeIndices == {ix, iy, iz}

Chain ==
    {[target |-> ix, expected |-> NoIndex], [target |-> iy, expected |-> ix], [target |-> iz, expected |-> iy]}

OneKey == {t1}

ItsItem == [k \in OneKey |-> {1}]

TwoIndexers == {w1, w2}

ThreeItems == {1, 2, 3}

TwoReaders == {h1, h2}

OnlyAligned == {TRUE}

\* Recalls that agree and that do not; a model that knows all items or two of them
MCRawScores ==
    {[s \in RecallSources |->
        CASE s = "dssm" -> <<3, 1, 2>> [] s = "explore" -> <<1, 2, 3>> [] s = "item_item_cf" -> <<0, 2, 1>>
          [] s = "popular" -> <<3, 2, 0>> [] s = "profile_title" -> <<0, 0, 1>>],
     [s \in RecallSources |->
        CASE s = "dssm" -> <<2, 2, 2>> [] s = "explore" -> <<3, 1, 2>> [] s = "item_item_cf" -> <<1, 0, 0>>
          [] s = "popular" -> <<1, 1, 3>> [] s = "profile_title" -> <<0, 1, 0>>]}

MCModelScores == {<<>>, <<10, 20, 30>>, <<30, 30>>}

MCTopic == <<1, 1, 2>>

MCLikeness == [p \in {1, 2} \X {1, 2} |-> IF p[1] = p[2] THEN 40 ELSE 30]

TwoRules == {1, 2}

ZeroOne == {0, 1}

OneTwo == {1, 2}

-----------------------------------------------------------------------------

VARIABLE focus

ServingInit ==
    /\ focus \in {"data", "stages", "experiments", "resources", "index", "queries", "snapshots", "ranking", "pages", "view"}
    /\ DataInit /\ StageInit /\ ExperimentsInit /\ ResourcesInit /\ SearchInit /\ QueryInit
    /\ FeedInit /\ RankingInit /\ PagesInit /\ ViewInit
    /\ focus = "stages" \/ curve = CHOOSE c \in [Names -> Curves] : TRUE
    /\ focus = "experiments" \/ scores = CHOOSE s \in [{ConfigOf[e] : e \in Experiments} -> Metrics] : TRUE

DataOnly ==
    /\ focus = "data" /\ DataNext
    /\ UNCHANGED <<focus, stageVars, experimentVars, resourceVars, searchVars, queryVars, feedVars, feed, pageVars, viewVars>>

StagesOnly ==
    /\ focus = "stages" /\ StageNext
    /\ UNCHANGED <<focus, dataVars, experimentVars, resourceVars, searchVars, queryVars, feedVars, feed, pageVars, viewVars>>

ExperimentsOnly ==
    /\ focus = "experiments" /\ ExperimentsNext
    /\ UNCHANGED <<focus, dataVars, stageVars, resourceVars, searchVars, queryVars, feedVars, feed, pageVars, viewVars>>

ResourcesOnly ==
    /\ focus = "resources" /\ ResourcesNext
    /\ UNCHANGED <<focus, dataVars, stageVars, experimentVars, searchVars, queryVars, feedVars, feed, pageVars, viewVars>>

IndexOnly ==
    /\ focus = "index" /\ SearchNext
    /\ UNCHANGED <<focus, dataVars, stageVars, experimentVars, resourceVars, queryVars, feedVars, feed, pageVars, viewVars>>

QueriesOnly ==
    /\ focus = "queries" /\ QueryNext
    /\ UNCHANGED <<focus, dataVars, stageVars, experimentVars, resourceVars, searchVars, feedVars, feed, pageVars, viewVars>>

SnapshotsOnly ==
    /\ focus = "snapshots" /\ FeedNext
    /\ UNCHANGED <<focus, dataVars, stageVars, experimentVars, resourceVars, searchVars, queryVars, feed, pageVars, viewVars>>

RankingOnly ==
    /\ focus = "ranking" /\ RankingNext
    /\ UNCHANGED <<focus, dataVars, stageVars, experimentVars, resourceVars, searchVars, queryVars, feedVars, pageVars, viewVars>>

PagesOnly ==
    /\ focus = "pages" /\ PagesNext
    /\ UNCHANGED <<focus, dataVars, stageVars, experimentVars, resourceVars, searchVars, queryVars, feedVars, feed, viewVars>>

ViewOnly ==
    /\ focus = "view" /\ ViewNext
    /\ UNCHANGED <<focus, dataVars, stageVars, experimentVars, resourceVars, searchVars, queryVars, feedVars, feed, pageVars>>

ServingNext ==
    \/ DataOnly \/ StagesOnly \/ ExperimentsOnly \/ ResourcesOnly \/ IndexOnly
    \/ QueriesOnly \/ SnapshotsOnly \/ RankingOnly \/ PagesOnly \/ ViewOnly

ServingSpec ==
    /\ ServingInit
    /\ [][ServingNext]_<<focus, dataVars, stageVars, experimentVars, resourceVars, searchVars, queryVars,
                        feedVars, feed, pageVars, viewVars>>
=============================================================================
