------------------------------ MODULE EventLog ------------------------------
(***************************************************************************)
(* The events table as its readers see it: ids are drawn from a sequence   *)
(* when a row is inserted (events/service.py) and become visible when the  *)
(* transaction of the request commits, in any order, or never.             *)
(***************************************************************************)
EXTENDS Naturals, FiniteSets

CONSTANTS
    Writers,   \* requests that insert events
    MaxId      \* bound on the ids drawn

ASSUME LogConstants == MaxId \in Nat

VARIABLES
    lastId,     \* of the sequence of events.id
    inserted,   \* ids each open transaction has inserted
    committed   \* ids of the rows that are visible

logVars == <<lastId, inserted, committed>>

Ids == 1 .. MaxId

LogTypeOK ==
    /\ lastId \in 0 .. MaxId
    /\ inserted \in [Writers -> SUBSET (1 .. lastId)]
    /\ committed \subseteq 1 .. lastId
    /\ \A w \in Writers : inserted[w] \cap committed = {}

LogInit ==
    /\ lastId = 0
    /\ inserted = [w \in Writers |-> {}]
    /\ committed = {}

Insert(w) ==
    /\ lastId < MaxId
    /\ lastId' = lastId + 1
    /\ inserted' = [inserted EXCEPT ![w] = @ \cup {lastId + 1}]
    /\ UNCHANGED committed

CommitEvents(w) ==
    /\ inserted[w] # {}
    /\ committed' = committed \cup inserted[w]
    /\ inserted' = [inserted EXCEPT ![w] = {}]
    /\ UNCHANGED lastId

\* A savepoint or the transaction is undone; the sequence does not go back.
Discard(w) ==
    /\ inserted[w] # {}
    /\ inserted' = [inserted EXCEPT ![w] = {}]
    /\ UNCHANGED <<lastId, committed>>

\* select max(events.id)
Newest == IF committed = {} THEN 0 ELSE CHOOSE i \in committed : \A j \in committed : j <= i

Between(previous, cutoff) == {i \in committed : previous < i /\ i <= cutoff}
=============================================================================
