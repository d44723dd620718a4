--------------------------- MODULE AnalyticsExport ---------------------------
(***************************************************************************)
(* The export of events for analytics (recsys/analytics): collect reads    *)
(* the newest event's id, the rows up to it and their counts in three      *)
(* statements of a READ COMMITTED transaction that locks nothing; publish  *)
(* writes them as an immutable export that names its parent.  The exports  *)
(* of one window form a chain, each beginning where its parent ends.       *)
(***************************************************************************)
EXTENDS EventLog, Sequences

CONSTANT MaxExports   \* bound on the chain

VARIABLES
    chain,   \* published exports, the initial one first
    collect  \* the export at hand; its part `visible' is history: the rows that were
             \* committed when the cutoff was taken

vars == <<logVars, chain, collect>>

NoCollect == [step |-> "idle", previous |-> 0, cutoff |-> 0, rows |-> {}, visible |-> {}]

Init ==
    /\ LogInit
    /\ chain = << >>
    /\ collect = NoCollect

Write(w) ==
    /\ Insert(w) \/ CommitEvents(w) \/ Discard(w)
    /\ UNCHANGED <<chain, collect>>

\* The caller of a follow-up export gives the cutoff of its parent.
Parent == IF chain = << >> THEN 0 ELSE chain[Len(chain)].cutoff

\* select max(events.id)
TakeCutoff ==
    /\ collect.step = "idle"
    /\ Len(chain) < MaxExports
    /\ collect' = [step |-> "cutoff", previous |-> Parent,
                   cutoff |-> IF committed = {} THEN Parent ELSE Newest,
                   rows |-> {}, visible |-> committed]
    /\ UNCHANGED <<logVars, chain>>

ReadRows ==
    /\ collect.step = "cutoff"
    /\ collect' = [collect EXCEPT !.step = "rows", !.rows = Between(collect.previous, collect.cutoff)]
    /\ UNCHANGED <<logVars, chain>>

\* The grouped counts; publish refuses a snapshot whose rows they do not match.
CountAndPublish ==
    /\ collect.step = "rows"
    /\ chain' = IF Cardinality(Between(collect.previous, collect.cutoff)) # Cardinality(collect.rows)
                THEN chain
                ELSE Append(chain, [previous |-> collect.previous, cutoff |-> collect.cutoff,
                                    rows |-> collect.rows, visible |-> collect.visible])
    /\ collect' = NoCollect
    /\ UNCHANGED logVars

Next ==
    \/ \E w \in Writers : Write(w)
    \/ TakeCutoff
    \/ ReadRows
    \/ CountAndPublish

Spec == Init /\ [][Next]_vars

-----------------------------------------------------------------------------
(* Properties *)

Exported(i) == UNION {chain[j].rows : j \in 1 .. i}

\* A row committed after an export's cutoff was captured is in a follow-up export: what
\* was committed when an export captured its cutoff is in that export or one before it
\* (docs/analytics-hive-compatible.md, late arrivals).
LateArrivalsFollow == \A i \in DOMAIN chain : chain[i].visible \subseteq Exported(i)
=============================================================================
