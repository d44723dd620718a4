----------------------------- MODULE FeedPages -----------------------------
(***************************************************************************)
(* The pages of one snapshot (api/app/feeds/service.py, cursor.py and the  *)
(* SnapshotService of api/app/events): each answer carries a signed cursor *)
(* for the next page, which the client may use when it likes, as often as  *)
(* it likes, from several tabs, while items go off line and come back.     *)
(***************************************************************************)
EXTENDS Naturals, FiniteSets, FiniteSetsExt

CONSTANTS
    SnapshotLength,   \* rows, at positions 0 .. SnapshotLength - 1
    PageLimits,       \* limits that are asked for
    Tabs,             \* requests served at the same time
    NoCursor

ASSUME PageConstants == SnapshotLength \in Nat /\ PageLimits \subseteq Nat \ {0}

VARIABLES
    onShelf,    \* positions whose item is on line
    reading,    \* the account is enabled and the snapshot has not expired
    tab,        \* the requests in progress
    cursors     \* that were handed out

pageVars == <<onShelf, reading, tab, cursors>>

-----------------------------------------------------------------------------

Positions == 0 .. SnapshotLength - 1

Cursor ==
    [offset : 0 .. SnapshotLength, scan : 0 .. SnapshotLength,
     given : SUBSET Positions,    \* history: the positions delivered on the way to this cursor,
     passed : SUBSET Positions]   \* and those that were off line when a page passed them

FirstCursor == [offset |-> 0, scan |-> 0, given |-> {}, passed |-> {}]

NoPage == [cursor |-> NoCursor, rows |-> {}, next |-> NoCursor]

Page == [cursor : Cursor \cup {NoCursor}, rows : SUBSET Positions, next : Cursor \cup {NoCursor}]

PagesTypeOK ==
    /\ onShelf \subseteq Positions
    /\ reading \in BOOLEAN
    /\ tab \in [Tabs -> Page]
    /\ cursors \subseteq Cursor

PagesInit ==
    /\ onShelf = Positions   \* create_snapshot refuses other items
    /\ reading = TRUE
    /\ tab = [h \in Tabs |-> NoPage]
    /\ cursors = {FirstCursor}

-----------------------------------------------------------------------------

ShelfChanges(p) ==
    /\ onShelf' = IF p \in onShelf THEN onShelf \ {p} ELSE onShelf \cup {p}
    /\ UNCHANGED <<reading, tab, cursors>>

\* The account is disabled, or the snapshot expires.
ReadingEnds ==
    /\ reading
    /\ reading' = FALSE
    /\ UNCHANGED <<onShelf, tab, cursors>>

\* (variant) The rows that were passed over are not counted.
ScanOfRows(c, rows) == c.scan + Cardinality(rows)

\* next_scan_offset of a page that is full
ScanAfter(c, rows) == Max(rows) + 1

\* The first n of the positions in there
FirstRows(there, n) == {p \in there : Cardinality({q \in there : q < p}) < n}

\* The cursor to the page after these rows
CursorAfter(c, rows) ==
    [offset |-> c.offset + Cardinality(rows), scan |-> ScanAfter(c, rows),
     given |-> c.given \cup rows,
     passed |-> c.passed \cup (c.scan .. Max(rows) \ onShelf)]

\* _page_from_snapshot: the first rows on line from the cursor on, and whether any is left.
Selects(h) ==
    /\ tab[h] = NoPage
    /\ reading
    /\ \E c \in cursors, limit \in PageLimits :
          LET there == {p \in onShelf : p >= c.scan}
              rows  == FirstRows(there, limit)
          IN tab' = [tab EXCEPT ![h] =
                [cursor |-> c, rows |-> rows,
                 next |-> IF Cardinality(there) <= limit THEN NoCursor ELSE CursorAfter(c, rows)]]
    /\ UNCHANGED <<onShelf, reading, cursors>>

\* record_page, which looks at the account and at every item once more: the exposures and
\* impressions are committed and the answer is given, or nothing is.  The expiry is compared
\* with the instant at which the request began: reading may have ended since then and the
\* page be recorded all the same.
RecordsPage(h) ==
    /\ tab[h] # NoPage
    /\ \/ cursors' = IF tab[h].rows \subseteq onShelf /\ tab[h].next # NoCursor
                     THEN cursors \cup {tab[h].next} ELSE cursors
       \/ ~ reading /\ cursors' = cursors
    /\ tab' = [tab EXCEPT ![h] = NoPage]
    /\ UNCHANGED <<onShelf, reading>>

PagesNext ==
    \/ \E p \in Positions : ShelfChanges(p)
    \/ ReadingEnds
    \/ \E h \in Tabs : Selects(h) \/ RecordsPage(h)

PagesSpec == PagesInit /\ [][PagesNext]_pageVars

-----------------------------------------------------------------------------
(* Properties *)

\* Whatever goes off line and comes back between and during the pages, and however cursors
\* are used again: who follows the cursors has got every row up to the cursor once, at
\* positions that are counted without a gap, but for those that were off line as they passed.
CursorsMissNothing ==
    \A c \in cursors :
        /\ c.given \cup c.passed = 0 .. c.scan - 1
        /\ c.given \cap c.passed = {}
        /\ c.offset = Cardinality(c.given)
=============================================================================
