---------------------------- MODULE FeedRanking ----------------------------
(***************************************************************************)
(* What a new feed is made of (api/app/feeds/retrieval.py, ranking.py):    *)
(* the recall of each source, filtered and merged, ranked, thinned out by  *)
(* topic, diversified and interleaved with promotions.  Scores are whole   *)
(* numbers of 1/Unit; what the models compute is a parameter.              *)
(***************************************************************************)
EXTENDS Integers, Orderings

CONSTANTS
    Stock,        \* items, by id
    RawScores,    \* functions that give, for a source, the raw score of an item (0: not recalled)
    ModelScores,  \* what DeepFM may come to: functions on the items it knows
    Topic,        \* derived_title_topic of an item
    Likeness,     \* cosine of two title vectors, in 1/Unit; an item without a vector is not in its domain
    MaxPerTopic,
    TopN,         \* candidate_pool_size
    RuleIds,      \* of active promotion rules
    Priorities,
    Targets,      \* target positions
    NoTarget

RecallSources == {"dssm", "explore", "item_item_cf", "popular", "profile_title"}

\* Scores are finite (min_max), and topics and rules are of items.
ASSUME RankingConstants ==
    /\ IsFiniteSet(Stock) /\ Stock \subseteq Nat
    /\ \A raw \in RawScores, s \in RecallSources : raw[s] \in [Stock -> Int]
    /\ \A known \in ModelScores : \A i \in DOMAIN known : known[i] \in Int
    /\ \A p \in DOMAIN Likeness : Likeness[p] \in Int
    /\ IsFiniteSet(RuleIds) /\ RuleIds \subseteq Nat /\ Priorities \subseteq Int
    /\ Targets \subseteq Nat /\ NoTarget \notin Targets
    /\ MaxPerTopic \in Nat \ {0} /\ TopN \in Nat \ {0}

VARIABLE feed

-----------------------------------------------------------------------------

Unit == 40

Lowest(S) == CHOOSE x \in S : \A y \in S : x <= y
Highest(S) == CHOOSE x \in S : \A y \in S : x >= y

\* min_max
Normalized(score) ==
    LET values == {score[i] : i \in DOMAIN score}
        low    == Lowest(values)
        high   == Highest(values)
    IN [i \in DOMAIN score |-> IF high = low THEN Unit ELSE (Unit * (score[i] - low)) \div (high - low)]

\* Items by descending score, then by id
Ranked(score) ==
    LET Above(i, j) == score[i] > score[j] \/ (score[i] = score[j] /\ i < j)
    IN InOrder(DOMAIN score, Above)

Best(score) == Values(FirstOf(Ranked(score), TopN))

\* sorted(by_source): the order of the names
SourceRank(s) ==
    CASE s = "dssm" -> 1 [] s = "explore" -> 2 [] s = "item_item_cf" -> 3 [] s = "popular" -> 4 [] s = "profile_title" -> 5

\* What the active rules may be
RuleSets ==
    UNION {{{[id |-> r, item |-> rule[r].item, priority |-> rule[r].priority, target |-> rule[r].target] : r \in D} :
               rule \in [D -> [item : Stock, priority : Priorities, target : Targets \cup {NoTarget}]]} : D \in SUBSET RuleIds}

NoFeed == [at |-> "asked", recall |-> <<>>, order |-> <<>>, score |-> <<>>, rules |-> {}]

RankingInit == feed = NoFeed

-----------------------------------------------------------------------------
(* Recall *)

\* The sources that retrieve_candidates asks: "model" stands for an aligned bundle that knows
\* the user, "seeds" for recent items and an index of neighbours, "taste" for title preferences.
Asked(type, given) ==
    {s \in RecallSources :
        CASE s = "dssm"          -> type = "personalized" /\ "model" \in given
          [] s = "item_item_cf"  -> type = "personalized" /\ "seeds" \in given
          [] s = "profile_title" -> type = "personalized" /\ "taste" \in given
          [] s = "popular"       -> type \in {"personalized", "popular"}
          [] s = "explore"       -> type \in {"personalized", "explore"}}

\* Popular and explore rank the whole catalog, profile_title what of it has a token of the
\* user's; dssm and item_item_cf rank what the model knows, on line or not.
Recalled(source, raw, catalog) ==
    LET pool  == IF source \in {"dssm", "item_item_cf"} THEN Stock ELSE catalog
        known == {i \in pool : raw[i] > 0 \/ source \in {"popular", "explore"}}
        best  == Best([i \in known |-> raw[i]])
    IN [i \in best |-> raw[i]]

\* The recall, and what the reads after the cache leave of it: items that are on line and
\* that the user has neither seen nor refused.
Recalls ==
    /\ feed.at = "asked"
    /\ \E type \in {"personalized", "popular", "explore"}, given \in SUBSET {"model", "seeds", "taste"} :
       \E raw \in RawScores, catalog, left \in SUBSET Stock :
          LET kept(s) == LET rows == Recalled(s, raw[s], catalog) IN [i \in DOMAIN rows \ left |-> rows[i]]
          IN feed' = [feed EXCEPT !.at = "recalled", !.recall = [s \in Asked(type, given) |-> kept(s)]]

-----------------------------------------------------------------------------
(* Merging *)

Merge(recall) ==
    LET norm     == [s \in DOMAIN recall |-> Normalized(recall[s])]
        found    == UNION {DOMAIN recall[s] : s \in DOMAIN recall}
        of(i)    == {s \in DOMAIN recall : i \in DOMAIN recall[s]}
        \* The source in which the item stands best
        main(i)  == CHOOSE s \in of(i) : \A t \in of(i) \ {s} :
                       \/ norm[s][i] > norm[t][i]
                       \/ norm[s][i] = norm[t][i] /\ recall[s][i] > recall[t][i]
                       \/ norm[s][i] = norm[t][i] /\ recall[s][i] = recall[t][i] /\ SourceRank(s) < SourceRank(t)
        \* 0.05 more for each further source, and 1 at most
        score    == [i \in found |-> Lowest({Unit, norm[main(i)][i] + (Unit \div 20) * (Cardinality(of(i)) - 1)})]
        Above(i, j) ==
            \/ score[i] > score[j]
            \/ score[i] = score[j] /\ recall[main(i)][i] > recall[main(j)][j]
            \/ score[i] = score[j] /\ recall[main(i)][i] = recall[main(j)][j] /\ i < j
    IN [order |-> InOrder(found, Above), score |-> score]

Merges ==
    /\ feed.at = "recalled"
    /\ LET merged == Merge(feed.recall)
       IN feed' = [feed EXCEPT !.at = "merged", !.order = merged.order, !.score = merged.score]

-----------------------------------------------------------------------------
(* Ranking *)

Rank(order, i) == CHOOSE n \in DOMAIN order : order[n] = i

ByScore(order, score) ==
    LET Above(i, j) == score[i] > score[j] \/ (score[i] = score[j] /\ Rank(order, i) < Rank(order, j))
    IN InOrder(Values(order), Above)

\* topic_deduplicate: an item goes once MaxPerTopic of its topic have come before it.
TopicDeduplicate(order) ==
    LET counts(n) == Cardinality({m \in 1 .. n - 1 : Topic[order[m]] = Topic[order[n]]})
    IN At(order, {n \in DOMAIN order : counts(n) < MaxPerTopic})

Alike(i, chosen) ==
    LET likeness == {Likeness[<<i, j>>] : j \in {k \in chosen : <<i, k>> \in DOMAIN Likeness}}
    IN IF likeness = {} THEN 0 ELSE Highest(likeness)

\* mmr_rank with lambda 3/4, in 1/(4 Unit): the one that is worth most beside those chosen,
\* the earlier one of equals; an item without a vector is worth its own score.
Diversify(order, score) ==
    LET norm == Normalized([i \in Values(order) |-> score[i]])
        worth(i, chosen) == IF <<i, i>> \in DOMAIN Likeness THEN 3 * norm[i] - Alike(i, chosen) ELSE 4 * score[i]
        next(chosen) ==
            CHOOSE i \in Values(order) \ chosen : \A j \in Values(order) \ (chosen \cup {i}) :
                \/ worth(i, chosen) > worth(j, chosen)
                \/ worth(i, chosen) = worth(j, chosen) /\ Rank(order, i) < Rank(order, j)
        chosen[n \in 0 .. Len(order)] ==
            IF n = 0 THEN <<>> ELSE Append(chosen[n - 1], next(Values(chosen[n - 1])))
    IN chosen[Len(order)]

\* rank_candidates with the model or without it, and the two steps on top
Ranks ==
    /\ feed.at = "merged"
    /\ \E known \in ModelScores :   \* none: bundle, user or items unknown, or the model failed
          LET score   == [i \in DOMAIN feed.score |-> IF i \in DOMAIN known THEN known[i] ELSE feed.score[i]]
              natural == Diversify(TopicDeduplicate(ByScore(feed.order, score)), score)
          IN feed' = [feed EXCEPT !.at = "natural", !.order = natural, !.score = score]

-----------------------------------------------------------------------------
(* Promotions *)

\* By priority, a target before none, the smaller target, the rule's id
Precedes(p, q) ==
    \/ p.priority > q.priority
    \/ /\ p.priority = q.priority
       /\ \/ p.target # NoTarget /\ q.target = NoTarget
          \/ p.target # NoTarget /\ q.target # NoTarget /\ p.target < q.target
          \/ p.target = q.target /\ p.id < q.id

\* The first rule of each item that is on line
Selected(rules, online) ==
    {p \in rules : p.item \in online /\ \A q \in rules \ {p} : q.item = p.item => Precedes(p, q)}

\* (variant) A slot that is taken is taken again.
SlotsTaken(placements) == {[at |-> placements[n].target, item |-> placements[n].item] : n \in DOMAIN placements}

\* Each rule's slot: its target or the next one that is free.
Slots(placements) ==
    LET Free(slots, target) ==
            CHOOSE n \in target .. target + Cardinality(slots) :
                /\ \A s \in slots : s.at # n
                /\ \A m \in target .. n - 1 : \E s \in slots : s.at = m
        slots[n \in 0 .. Len(placements)] ==
            IF n = 0 THEN {}
            ELSE slots[n - 1]
                   \cup {[at |-> Free(slots[n - 1], placements[n].target), item |-> placements[n].item]}
    IN slots[Len(placements)]

\* The naturals around the slots; when there are no more of them the slots that are left
Woven(naturals, slots) ==
    LET due(w) == {s \in w.slots : s.at = Len(w.output)}
        natural(w) == [w EXCEPT !.output = Append(@, naturals[w.naturals + 1]), !.naturals = @ + 1]
        promoted(w, s) == [w EXCEPT !.output = Append(@, s.item), !.slots = @ \ {s}]
        woven[n \in 0 .. Len(naturals) + Cardinality(slots)] ==
            IF n = 0 THEN [output |-> <<>>, naturals |-> 0, slots |-> slots]
            ELSE LET w == woven[n - 1]
                 IN IF due(w) # {} THEN promoted(w, CHOOSE s \in due(w) : TRUE)
                    ELSE IF w.naturals < Len(naturals) THEN natural(w)
                    ELSE promoted(w, CHOOSE s \in w.slots : \A t \in w.slots : s.at <= t.at)
    IN woven[Len(naturals) + Cardinality(slots)].output

ApplyPromotions(natural, rules, online) ==
    LET selected == Selected(rules, online)
        targeted == InOrder({p \in selected : p.target # NoTarget}, Precedes)
        last     == InOrder({p \in selected : p.target = NoTarget}, Precedes)
    IN Woven(Without(natural, {p.item : p \in selected}), Slots(targeted)) \o [n \in DOMAIN last |-> last[n].item]

\* The rules of the feed, those of items that are on line; the recall is of no use any more.
Promotes ==
    /\ feed.at = "natural"
    /\ \E rules \in RuleSets, online \in {Stock} \cup {Stock \ {i} : i \in Stock} :
          feed' = [NoFeed EXCEPT !.at = "final", !.recall = feed.order, !.rules = {p \in rules : p.item \in online},
                      !.order = ApplyPromotions(feed.order, rules, online)]

Served == feed.at = "final" /\ feed' = NoFeed

RankingNext == Recalls \/ Merges \/ Ranks \/ Promotes \/ Served

RankingSpec == RankingInit /\ [][RankingNext]_feed

-----------------------------------------------------------------------------
(* Properties *)

Found == UNION {DOMAIN feed.recall[s] : s \in DOMAIN feed.recall}

\* The merged order is led by the items that lead a source: one that leads none and that no
\* second source confirms stands after them.
MergeStands ==
    LET at(i) == Rank(feed.order, i)
        leads(i) == \E s \in DOMAIN feed.recall :
                       i \in DOMAIN feed.recall[s] /\ \A j \in DOMAIN feed.recall[s] : feed.recall[s][i] >= feed.recall[s][j]
        lone(i)  == Cardinality({s \in DOMAIN feed.recall : i \in DOMAIN feed.recall[s]}) = 1
    IN /\ Values(feed.order) = Found /\ Len(feed.order) = Cardinality(Found)
       /\ \A i, j \in Found : leads(i) /\ ~ leads(j) /\ lone(j) => at(i) < at(j)

\* Of what was found nothing is lost on the way to the natural order but items of a topic of
\* which as many, scored as high, are kept.
NaturalStands ==
    LET peers(i) == {j \in Values(feed.order) : Topic[j] = Topic[i]}
    IN /\ Values(feed.order) \subseteq Found /\ Len(feed.order) = Cardinality(Values(feed.order))
       /\ \A i \in Found : Cardinality(peers(i)) <= MaxPerTopic
       /\ \A i \in Found \ Values(feed.order) :
             Cardinality({j \in peers(i) : feed.score[j] >= feed.score[i]}) = MaxPerTopic

\* Whatever rules compete for the same items and slots: the feed has every item once, those
\* promoted and those not, the latter in their natural order; and a promotion with a target
\* stands there, or behind promotions only that took the slots from there on, or is at the
\* end of a feed that is too short.
PromotionsStand ==
    LET at(i)     == Rank(feed.order, i) - 1
        items     == {p.item : p \in feed.rules}
        first(i)  == CHOOSE p \in feed.rules : p.item = i /\ \A q \in feed.rules \ {p} : q.item = i => Precedes(p, q)
        natural   == Without(feed.order, items)
        tail(n)   == {feed.order[m] : m \in n + 1 .. Len(feed.order)}
    IN /\ Len(feed.order) = Cardinality(Values(feed.order))
       /\ Values(feed.order) = items \cup Values(feed.recall)
       /\ natural = Without(feed.recall, items)
       /\ \A i \in items :
             LET target == first(i).target
             IN IF target = NoTarget THEN tail(at(i)) \subseteq {j \in items : first(j).target = NoTarget}
                ELSE IF at(i) >= target
                THEN \A n \in target .. at(i) - 1 : feed.order[n + 1] \in {j \in items : first(j).target # NoTarget}
                ELSE tail(at(i)) \subseteq items

\* What a feed is made of, after each of its steps: what the sources found is neither lost nor
\* doubled, nor moved past what the code ranks it by, by merging, thinning out or promoting.
FeedStands ==
    /\ feed.at = "merged" => MergeStands
    /\ feed.at = "natural" => NaturalStands
    /\ feed.at = "final" => PromotionsStand

=============================================================================
