--------------------------- MODULE SearchQueries ---------------------------
(***************************************************************************)
(* A search (api/app/search/service.py): Elasticsearch proposes item ids,  *)
(* which may be stale or repeated, PostgreSQL decides in a first session   *)
(* which of them stand, and fills the page in a second one; items and the  *)
(* user's account change in between.  Without Elasticsearch the second     *)
(* session fills the whole page.                                           *)
(***************************************************************************)
EXTENDS Orderings

CONSTANTS
    Matching,        \* items that match the query, in the order of the fallback (likes, views, id)
    PageLimit,      \* query.limit
    CandidateLimit  \* min(maximum_candidates, limit * oversample_factor)

ASSUME QueryConstants ==
    /\ IsFiniteSet(Matching) /\ Matching \subseteq Nat
    /\ PageLimit \in Nat \ {0} /\ CandidateLimit \in Nat

VARIABLES
    listed,   \* items that are on line
    account,  \* the principal is enabled
    query

queryVars == <<listed, account, query>>

-----------------------------------------------------------------------------

ListsUpTo(limit) == UNION {[1 .. n -> Matching] : n \in 0 .. limit}

HitLists == ListsUpTo(CandidateLimit)

NoQuery == [at |-> "idle", hits |-> <<>>, page |-> <<>>, always |-> {}, ever |-> {}, degraded |-> FALSE]

QueryTypeOK ==
    /\ listed \subseteq Matching
    /\ account \in BOOLEAN
    /\ query \in
          [at : {"idle", "hits", "authorized", "unavailable", "answered", "denied", "failed"},
           hits : HitLists,
           page : ListsUpTo(PageLimit),
           always : SUBSET Matching,   \* history: on line ever since the query came
           ever : SUBSET Matching,     \* history: on line at some time since
           degraded : BOOLEAN]

QueryInit ==
    /\ listed = Matching
    /\ account = TRUE
    /\ query = NoQuery

-----------------------------------------------------------------------------
(* The surroundings *)

Toggle(i) ==
    /\ listed' = IF i \in listed THEN listed \ {i} ELSE listed \cup {i}
    /\ query' = IF query.at = "idle" THEN query
                ELSE [query EXCEPT !.always = @ \cap listed', !.ever = @ \cup listed']
    /\ UNCHANGED account

AccountChanges ==
    /\ account' = ~ account
    /\ UNCHANGED <<listed, query>>

-----------------------------------------------------------------------------

\* The alias and the projection's hits, or ProjectionUnavailable
Proposes ==
    /\ query.at = "idle"
    /\ \/ \E hits \in HitLists :
             query' = [NoQuery EXCEPT !.at = "hits", !.hits = hits, !.always = listed, !.ever = listed]
       \/ query' = [NoQuery EXCEPT !.at = "unavailable", !.always = listed, !.ever = listed]
    /\ UNCHANGED <<listed, account>>

\* authorize_hits, and the selection up to the limit
Authorizes ==
    LET unique == Unique(query.hits)
        stand  == Among(unique, listed)
    IN /\ query.at = "hits"
       /\ query' =
             IF ~ account THEN [query EXCEPT !.at = "denied"]
             ELSE [query EXCEPT !.at = IF Len(stand) < PageLimit THEN "authorized" ELSE "answered",
                                !.page = FirstOf(stand, PageLimit),
                                !.degraded = Len(stand) < Len(unique)]
       /\ UNCHANGED <<listed, account>>

\* (variant) Only hits that were rejected are left out.
RestNothingExcluded == Ascending(listed)

\* Those on line that are not on the page yet, in the fallback's order
Rest == Ascending(listed \ Values(query.page))

\* fallback_search: the backfill, or the whole page
Fills ==
    /\ query.at \in {"authorized", "unavailable"}
    /\ query' =
          IF ~ account THEN [query EXCEPT !.at = "denied"]
          ELSE [query EXCEPT !.at = "answered",
                             !.page = FirstOf(query.page \o Rest, PageLimit),
                             !.degraded = @ \/ query.at = "unavailable" \/ Rest # <<>>]
    /\ UNCHANGED <<listed, account>>

\* AuthorityUnavailable: PostgreSQL does not answer, and nothing unverified is returned.
Fails ==
    /\ query.at \in {"hits", "authorized", "unavailable"}
    /\ query' = [query EXCEPT !.at = "failed"]
    /\ UNCHANGED <<listed, account>>

Answered ==
    /\ query.at \in {"answered", "denied", "failed"}
    /\ query' = NoQuery
    /\ UNCHANGED <<listed, account>>

QueryNext ==
    \/ \E i \in Matching : Toggle(i)
    \/ AccountChanges \/ Proposes \/ Authorizes \/ Fills \/ Fails \/ Answered

QuerySpec == QueryInit /\ [][QueryNext]_queryVars

-----------------------------------------------------------------------------
(* Properties *)

\* Whatever Elasticsearch proposes and whatever changes meanwhile, a page has no item twice,
\* none that was off line all along, and leaves out none that was on line all along unless
\* it is full; and one that is not called degraded is what Elasticsearch proposed.
PageStands ==
    query.at = "answered" =>
        LET shown == Values(query.page)
        IN /\ Cardinality(shown) = Len(query.page)
           /\ shown \subseteq query.ever
           /\ query.always \subseteq shown \/ Len(query.page) = PageLimit
           /\ query.degraded \/ query.page = FirstOf(Unique(query.hits), PageLimit)
=============================================================================
