------------------------------ MODULE FeedView ------------------------------
(***************************************************************************)
(* The feed as the browser shows it (apps/web/src/features/feed:           *)
(* useFeedController, useLoadMoreSentinel, FeedExperience) and the profile *)
(* beside it (useProfileController).  Several calls are under way at a     *)
(* time, are answered in any order and answer in any order; a generation   *)
(* tells those that still count.  A successful event of the user refreshes *)
(* the profile and, unless it is a dwell, the personalized feed.           *)
(***************************************************************************)
EXTENDS Naturals, Sequences, FiniteSets

CONSTANTS
    SnapshotRows,     \* rows of a snapshot
    PageRows,         \* and of a page
    MaxFirst,         \* bounds: of first pages asked for,
    MaxProfiles,      \* of profiles asked for when the button is pressed,
    MaxActs,          \* and of events of the user
    NoPosition

ASSUME ViewConstants ==
    /\ SnapshotRows \in Nat \ {0} /\ PageRows \in Nat \ {0}
    /\ MaxFirst \in Nat /\ MaxProfiles \in Nat /\ MaxActs \in Nat
    /\ NoPosition \notin Nat

VARIABLES
    view,       \* the feed controller
    calls,      \* getPage calls that have not arrived
    rail,       \* the profile controller
    railCalls,  \* getMyProfile calls that have not arrived
    acts,       \* events being sent
    kept        \* events kept by the server: all of them, those that change the feed

viewVars == <<view, calls, rail, railCalls, acts, kept>>

-----------------------------------------------------------------------------

FeedTypes == {"personalized", "popular"}

Rows(from) == [n \in 1 .. (IF from + PageRows > SnapshotRows THEN SnapshotRows - from ELSE PageRows) |-> from + n]

NextFrom(from) == IF from + PageRows >= SnapshotRows THEN NoPosition ELSE from + PageRows

\* FeedData before the first page; a snapshot goes by the number of the call that had it made.
NoData == [items |-> <<>>, snapshot |-> 0, cursor |-> NoPosition, made |-> 0]

\* getPage without a cursor, and with one of the data shown
FirstCall(gen, type, seen) == [gen |-> gen, type |-> type, snapshot |-> gen, from |-> NoPosition, seen |-> seen]

MoreCall(v) == [gen |-> v.gen, type |-> v.type, snapshot |-> v.data.snapshot, from |-> v.data.cursor, seen |-> 0]

ViewInit ==
    /\ view = [type |-> "personalized", data |-> NoData, gen |-> 1, more |-> FALSE, failed |-> "first",
               state  |-> "loading",
               missed |-> FALSE]    \* history: the last first page has failed
    /\ calls = {FirstCall(1, "personalized", 0)}
    /\ rail = [gen |-> 1, shown |-> 0, missed |-> FALSE]
    /\ railCalls = {[gen |-> 1, seen |-> 0]}
    /\ acts = {}
    /\ kept = [all |-> 0, telling |-> 0]

\* What a call may bring: "made" tells the events that the snapshot has seen, which is built
\* at some time between the call and its answer; a cursor leads on in its own snapshot.
PagesFor(call) ==
    IF call.from = NoPosition
    THEN {[snapshot |-> call.snapshot, made |-> made, rows |-> Rows(0), cursor |-> NextFrom(0)] :
             made \in call.seen .. kept.telling}
    ELSE {[snapshot |-> call.snapshot, made |-> 0, rows |-> Rows(call.from), cursor |-> NextFrom(call.from)]}

\* entriesFor, appendUnique: an entry tells the snapshot it came with.
Entries(page) == [n \in 1 .. Len(page.rows) |-> [of |-> page.snapshot, row |-> page.rows[n]]]

\* The n-th number of a set
Nth(numbers, n) == CHOOSE m \in numbers : Cardinality({k \in numbers : k < m}) = n - 1

Appended(entries, page) ==
    LET fresh == {n \in 1 .. Len(page.rows) : \A m \in 1 .. Len(entries) : entries[m].row # page.rows[n]}
    IN entries \o [n \in 1 .. Cardinality(fresh) |-> Entries(page)[Nth(fresh, n)]]

\* (variant) Every answer counts.
IsCurrentAlways(call) == TRUE

\* generation = generationRef.current
IsCurrent(call) == call.gen = view.gen

-----------------------------------------------------------------------------
(* useFeedController *)

\* requestFirst: of another feed nothing is retained.
Requested(type, retain) ==
    LET retained == retain /\ view.data.items # <<>>
    IN [view EXCEPT !.type = type, !.gen = @ + 1, !.more = FALSE, !.data = IF retain THEN @ ELSE NoData,
                    !.state = IF retained THEN "ready" ELSE "loading"]

RequestFirst(type, retain) ==
    /\ view.gen < MaxFirst
    /\ view' = Requested(type, retain)
    /\ calls' = calls \cup {FirstCall(view.gen + 1, type, kept.telling)}

SetFeedType(type) ==
    /\ type # view.type
    /\ RequestFirst(type, FALSE)
    /\ UNCHANGED <<rail, railCalls, acts, kept>>

RequestMore ==
    /\ view.data.cursor # NoPosition /\ ~ view.more
    /\ view' = [view EXCEPT !.more = TRUE]
    /\ calls' = calls \cup {MoreCall(view)}

\* The button or the sentinel
LoadMore ==
    /\ RequestMore
    /\ UNCHANGED <<rail, railCalls, acts, kept>>

Retry ==
    /\ view.state = "error"
    /\ IF view.failed = "more" THEN RequestMore ELSE RequestFirst(view.type, TRUE)
    /\ UNCHANGED <<rail, railCalls, acts, kept>>

Shown(items) == IF items = <<>> THEN "empty" ELSE "ready"

FirstPage(call, page) ==
    /\ call.from = NoPosition
    /\ view' = IF ~ IsCurrent(call) THEN view
               ELSE [view EXCEPT !.data = [items |-> Entries(page), snapshot |-> page.snapshot,
                                           cursor |-> page.cursor, made |-> page.made],
                                 !.state = Shown(page.rows), !.missed = FALSE]

FirstFails(call) ==
    /\ call.from = NoPosition
    /\ view' = IF ~ IsCurrent(call) THEN view
               ELSE [view EXCEPT !.failed = "first", !.state = "error", !.missed = TRUE]

\* (variant) The snapshot of the page is not looked at.
MismatchNever(page) == FALSE

Mismatch(page) == view.data.snapshot # 0 /\ page.snapshot # view.data.snapshot

\* A cursor that is not valid (any more) is given up.
MoreFailed(invalid) ==
    [view EXCEPT !.more = FALSE, !.state = "error", !.failed = IF invalid THEN "first" ELSE "more",
                 !.data = IF invalid THEN [@ EXCEPT !.cursor = NoPosition] ELSE @]

MorePage(call, page) ==
    /\ call.from # NoPosition
    /\ view' = IF ~ IsCurrent(call) THEN view
               ELSE IF Mismatch(page) THEN MoreFailed(TRUE)
               ELSE LET items == Appended(view.data.items, page)
                    IN [view EXCEPT !.more = FALSE, !.data.items = items, !.data.cursor = page.cursor, !.state = Shown(items)]

MoreFails(call, invalid) ==
    /\ call.from # NoPosition
    /\ view' = IF IsCurrent(call) THEN MoreFailed(invalid) ELSE view

Arrives(call) ==
    /\ calls' = calls \ {call}
    /\ \/ \E page \in PagesFor(call) : FirstPage(call, page) \/ MorePage(call, page)
       \/ FirstFails(call)
       \/ \E invalid \in BOOLEAN : MoreFails(call, invalid)
    /\ UNCHANGED <<rail, railCalls, acts, kept>>

-----------------------------------------------------------------------------
(* useProfileController *)

RefreshProfile ==
    /\ rail' = [rail EXCEPT !.gen = @ + 1, !.missed = FALSE]
    /\ railCalls' = railCalls \cup {[gen |-> rail.gen + 1, seen |-> kept.all]}

RailIsCurrent(call) == call.gen = rail.gen

ProfileAnswered(call) ==
    /\ railCalls' = railCalls \ {call}
    /\ rail' \in IF RailIsCurrent(call)
                 THEN {[rail EXCEPT !.shown = version, !.missed = FALSE] : version \in call.seen .. kept.all}
                      \cup {[rail EXCEPT !.missed = TRUE]}
                 ELSE {rail}
    /\ UNCHANGED <<view, calls, acts, kept>>

\* The button of the rail
RetryProfile ==
    /\ rail.missed
    /\ rail.gen < MaxProfiles
    /\ RefreshProfile
    /\ UNCHANGED <<view, calls, acts, kept>>

-----------------------------------------------------------------------------
(* FeedExperience *)

\* send: the feed of that moment is the one refreshAfterSuccess will look at.
Acts(telling) ==
    /\ kept.all + Cardinality(acts) < MaxActs
    /\ acts' = acts \cup {[n |-> CHOOSE n \in 1 .. MaxActs : \A act \in acts : act.n # n,
                           of |-> view.type, telling |-> telling, at |-> "sent"]}
    /\ UNCHANGED <<view, calls, rail, railCalls, kept>>

\* The call or its answer was lost and the user retries: it is the feed of the retry now.
SendsAgain(act) ==
    /\ acts' = (acts \ {act}) \cup {[act EXCEPT !.of = view.type]}
    /\ UNCHANGED <<view, calls, rail, railCalls, kept>>

TellsFeed(act) == act.telling /\ act.of = "personalized"

\* The server keeps the event (EventIngest)
Keeps(act) ==
    /\ act.at = "sent"
    /\ acts' = (acts \ {act}) \cup {[act EXCEPT !.at = "kept"]}
    /\ kept' = [all |-> kept.all + 1, telling |-> kept.telling + (IF TellsFeed(act) THEN 1 ELSE 0)]
    /\ UNCHANGED <<view, calls, rail, railCalls>>

\* Accepted, or a duplicate once it is sent again
Succeeds(act) ==
    /\ act.at = "kept"
    /\ acts' = acts \ {act}
    /\ RefreshProfile
    /\ IF TellsFeed(act) THEN RequestFirst(view.type, TRUE) ELSE UNCHANGED <<view, calls>>
    /\ UNCHANGED kept

TurnedDown(act) ==
    /\ act.at = "sent"
    /\ acts' = acts \ {act}
    /\ UNCHANGED <<view, calls, rail, railCalls, kept>>

ViewNext ==
    \/ \E type \in FeedTypes : SetFeedType(type)
    \/ LoadMore
    \/ Retry
    \/ RetryProfile
    \/ \E call \in calls : Arrives(call)
    \/ \E call \in railCalls : ProfileAnswered(call)
    \/ \E telling \in BOOLEAN : Acts(telling)
    \/ \E act \in acts : SendsAgain(act) \/ Keeps(act) \/ Succeeds(act) \/ TurnedDown(act)

ViewSpec == ViewInit /\ [][ViewNext]_viewVars

-----------------------------------------------------------------------------
(* Properties *)

ViewTypeOK ==
    /\ view.gen \in 1 .. MaxFirst /\ view.type \in FeedTypes /\ view.state \in {"loading", "ready", "empty", "error"}
    /\ view.data.cursor \in 0 .. SnapshotRows \cup {NoPosition}
    /\ \A call \in calls : call.gen <= view.gen

\* However feeds are changed, refreshed and scrolled while answers are under way: what is
\* shown are the first rows of one snapshot, none left out and none twice, the cursor leads
\* to the next row, and who waits for more, or for a first page, has a call that will tell.
OneSnapshotShown ==
    /\ view.data.items = [n \in 1 .. Len(view.data.items) |-> [of |-> view.data.snapshot, row |-> n]]
    /\ view.data.cursor \in {Len(view.data.items), NoPosition}
    /\ view.more => \E call \in calls : IsCurrent(call) /\ call.from # NoPosition
    /\ view.state = "loading" => \E call \in calls : IsCurrent(call) /\ call.from = NoPosition

\* Once nothing is under way, the profile tells every event that was kept, and the
\* personalized feed was made after the last one that was sent from it, unless the last call
\* for it has failed.
OwnEventsFollowed ==
    (\A call \in calls : ~ IsCurrent(call)) /\ (\A call \in railCalls : ~ RailIsCurrent(call)) /\ acts = {} =>
        /\ rail.missed \/ rail.shown = kept.all
        /\ view.type = "personalized" => view.missed \/ view.data.made = kept.telling
=============================================================================
