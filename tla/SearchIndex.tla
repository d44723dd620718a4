---------------------------- MODULE SearchIndex ----------------------------
(***************************************************************************)
(* The search projection (api/app/search/): physical indexes and the read  *)
(* alias of Elasticsearch, the build registry and incremental receipts of  *)
(* PostgreSQL, and the full and incremental indexers that change both with *)
(* no transaction over the two.  An item's state is its version, and it is *)
(* online at the odd ones; a document is the version it was written from,  *)
(* one of an even version being a document that is not there.              *)
(***************************************************************************)
EXTENDS Naturals, FiniteSets

CONSTANTS
    Items,
    Indices,      \* physical indexes
    NoIndex,
    Reindexes,    \* FullReindexSpec: [target, expected]
    TaskKeys,     \* of IncrementalIndexSpec
    Touched,      \* item_ids of each key
    Indexers,     \* processes that run a search task
    NoIndexer,
    MaxVersion    \* bound: of an item

ASSUME SearchConstants ==
    /\ NoIndex \notin Indices \cup TaskKeys
    /\ NoIndexer \notin Indexers
    /\ \A s \in Reindexes : s.target \in Indices /\ s.expected \in (Indices \cup {NoIndex}) \ {s.target}
    /\ Touched \in [TaskKeys -> SUBSET Items]
    /\ MaxVersion \in Nat

VARIABLES
    version,    \* of each item
    index,      \* physical indexes: whether it is there, its documents
    alias,      \* the read alias' targets
    build,      \* search_index_builds
    active,     \* search_index_registry.active_physical_index
    receipts,   \* search_incremental_receipts
    indexer,    \* the runs in progress
    lock        \* the advisory lock's holder

searchVars == <<version, index, alias, build, active, receipts, indexer, lock>>

-----------------------------------------------------------------------------

Documents == [Items -> 0 .. MaxVersion]

NoDocuments == [i \in Items |-> 0]

Online(v) == v % 2 = 1

Count(docs) == Cardinality({i \in Items : Online(docs[i])})

\* The targets of an alias that is on one index, or on none
Sole(x) == {x} \ {NoIndex}

NoBuild == [recorded |-> FALSE, expected |-> NoIndex, docs |-> NoDocuments]

NoRun ==
    [at |-> "idle", target |-> NoIndex, expected |-> NoIndex, key |-> NoIndex, docs |-> NoDocuments, resumed |-> FALSE,
     crowded |-> FALSE]

SearchTypeOK ==
    /\ version \in [Items -> 1 .. MaxVersion]
    /\ index \in [Indices -> [there : BOOLEAN, docs : Documents]]
    /\ alias \subseteq Indices
    /\ build \in [Indices -> [recorded : BOOLEAN, expected : Indices \cup {NoIndex}, docs : Documents]]
    /\ active \in Indices \cup {NoIndex}
    /\ receipts \subseteq TaskKeys
    /\ indexer \in [Indexers ->
          [at : {"idle", "starts", "reads", "writes", "counts", "activates", "looks", "switches", "verifies", "marks",
                 "resolves", "changes", "compares", "records"},
           target : Indices \cup {NoIndex},    \* the index that is built, or the alias' before the changes
           expected : Indices \cup {NoIndex},  \* the index that is followed, or the one that gets the changes
           key : TaskKeys \cup {NoIndex},      \* of an incremental task
           docs : Documents,                   \* what was read of the authority, 0 for nothing
           resumed : BOOLEAN,                  \* a recorded build is taken up
           crowded : BOOLEAN]]                 \* history: it has lost the lock, or ran beside one that had
    /\ lock \in Indexers \cup {NoIndexer}

SearchInit ==
    /\ version = [i \in Items |-> 1]
    /\ index = [x \in Indices |-> [there |-> FALSE, docs |-> NoDocuments]]
    /\ alias = {}
    /\ build = [x \in Indices |-> NoBuild]
    /\ active = NoIndex
    /\ receipts = {}
    /\ indexer = [w \in Indexers |-> NoRun]
    /\ lock = NoIndexer

-----------------------------------------------------------------------------
(* The surroundings *)

\* An operation takes the item off line or back.
ItemChanges(i) ==
    /\ version[i] < MaxVersion
    /\ version' = [version EXCEPT ![i] = @ + 1]
    /\ UNCHANGED <<index, alias, build, active, receipts, indexer, lock>>

Stops(w) ==
    /\ indexer' = [indexer EXCEPT ![w] = NoRun]
    /\ lock' = IF lock = w THEN NoIndexer ELSE lock

\* A crash, or a request to Elasticsearch or PostgreSQL that fails: the task is an error,
\* and may be submitted again.
Breaks(w) ==
    /\ indexer[w].at # "idle"
    /\ Stops(w)
    /\ UNCHANGED <<version, index, alias, build, active, receipts>>

\* The connection that holds the lock is lost, and the runner goes on; a request that timed
\* out and is carried out later comes to the same.
LosesLock(w) ==
    /\ lock = w
    /\ lock' = NoIndexer
    /\ indexer' = [indexer EXCEPT ![w].crowded = TRUE]
    /\ UNCHANGED <<version, index, alias, build, active, receipts>>

-----------------------------------------------------------------------------
(* PostgresSerializedRunner *)

\* (variant) The lock is asked for and not waited for.
FreeAnyway == TRUE

Free == lock = NoIndexer

Begins(w, run) ==
    indexer' = [indexer EXCEPT ![w] = [run EXCEPT !.at = "starts", !.crowded = \E v \in Indexers : indexer[v].crowded]]

Starts(w) ==
    /\ indexer[w].at = "idle"
    /\ Free
    /\ lock' = w
    /\ \/ \E s \in Reindexes : Begins(w, [NoRun EXCEPT !.target = s.target, !.expected = s.expected])
       \/ \E k \in TaskKeys \ receipts :   \* one with a receipt is answered and changes nothing
             Begins(w, [NoRun EXCEPT !.key = k])
    /\ UNCHANGED <<version, index, alias, build, active, receipts>>

Turns(w, run) == indexer' = [indexer EXCEPT ![w] = run] /\ UNCHANGED lock

GoesOn(w, at) == Turns(w, [indexer[w] EXCEPT !.at = at])

-----------------------------------------------------------------------------
(* FullReindexer *)

Target(w) == indexer[w].target

\* _validate_manifest: the fingerprint covers the target and the index it follows.
SameBuild(w) == build[Target(w)].expected = indexer[w].expected

\* (variant) Whatever stands under the target's name is taken up.
BuiltIfThere(w) == index[Target(w)].there

Built(w) == build[Target(w)].recorded

\* What run decides before it writes; a conflict stops it.
Decides(w) ==
    LET x == Target(w)
    IN /\ indexer[w].at = "starts" /\ indexer[w].key = NoIndex
       /\ \/ /\ alias = {x}   \* _reconcile_activated
             /\ IF Built(w) /\ SameBuild(w) /\ Count(index[x].docs) = Count(build[x].docs)
                THEN GoesOn(w, "marks") ELSE Stops(w)
             /\ UNCHANGED index
          \/ /\ alias # {x} /\ alias = Sole(indexer[w].expected)
             /\ \/ /\ Built(w)
                   /\ IF SameBuild(w)
                      THEN Turns(w, [indexer[w] EXCEPT !.at = "activates", !.resumed = TRUE])
                      ELSE Stops(w)
                   /\ UNCHANGED index
                \/ /\ ~ Built(w) /\ ~ index[x].there
                   /\ index' = [index EXCEPT ![x].there = TRUE]
                   /\ GoesOn(w, "reads")
                \/ ~ Built(w) /\ index[x].there /\ Stops(w) /\ UNCHANGED index
          \/ alias # {x} /\ alias # Sole(indexer[w].expected) /\ Stops(w) /\ UNCHANGED index
       /\ UNCHANGED <<version, alias, build, active, receipts>>

\* iter_online_documents, one statement.
Reads(w) ==
    /\ indexer[w].at = "reads"
    /\ Turns(w, [indexer[w] EXCEPT !.at = "writes", !.docs = version])
    /\ UNCHANGED <<version, index, alias, build, active, receipts>>

\* What a bulk request leaves that carried out those of "done".
Applied(docs, changes, done) == [i \in Items |-> IF i \in done THEN changes[i] ELSE docs[i]]

\* All batches, or those before one that fails, as whole or in part.
Writes(w) ==
    /\ indexer[w].at = "writes"
    /\ \E done \in SUBSET {i \in Items : Online(indexer[w].docs[i])} :
          LET absent == {i \in Items : ~ Online(indexer[w].docs[i])}
          IN /\ index' = [index EXCEPT ![Target(w)].docs = Applied(@, indexer[w].docs, done \cup absent)]
             /\ IF done \cup absent = Items THEN GoesOn(w, "counts") ELSE Stops(w)
    /\ UNCHANGED <<version, alias, build, active, receipts>>

\* The count, and record_build, refused to a second record of the index.
Counts(w) ==
    LET x == Target(w)
    IN /\ indexer[w].at = "counts"
       /\ IF Count(index[x].docs) = Count(indexer[w].docs) /\ ~ build[x].recorded
          THEN /\ build' = [build EXCEPT ![x] =
                     [recorded |-> TRUE, expected |-> indexer[w].expected, docs |-> indexer[w].docs]]
               /\ GoesOn(w, "activates")
          ELSE Stops(w) /\ UNCHANGED build
       /\ UNCHANGED <<version, index, alias, active, receipts>>

\* _activate: the count, then what switch_alias looks up, asks for and looks up again.
Activates(w) ==
    /\ indexer[w].at = "activates"
    /\ IF Count(index[Target(w)].docs) = Count(build[Target(w)].docs) THEN GoesOn(w, "looks") ELSE Stops(w)
    /\ UNCHANGED <<version, index, alias, build, active, receipts>>

LooksUp(w) ==
    /\ indexer[w].at = "looks"
    /\ IF alias = Sole(indexer[w].expected) THEN GoesOn(w, "switches") ELSE Stops(w)
    /\ UNCHANGED <<version, index, alias, build, active, receipts>>

\* update_aliases, in one request: to take the alias from an index that does not have it is
\* no error, and the other one gets it all the same.
Switches(w) ==
    /\ indexer[w].at = "switches"
    /\ alias' = (alias \ {indexer[w].expected}) \cup {Target(w)}
    /\ GoesOn(w, "verifies")
    /\ UNCHANGED <<version, index, build, active, receipts>>

Verifies(w) ==
    /\ indexer[w].at = "verifies"
    /\ IF alias = {Target(w)} THEN GoesOn(w, "marks") ELSE Stops(w)
    /\ UNCHANGED <<version, index, alias, build, active, receipts>>

\* (variant) The index that is active is not looked at.
MayMarkAlways(w) == build[Target(w)].recorded

MayMark(w) == build[Target(w)].recorded /\ active \in {NoIndex, Target(w), indexer[w].expected}

\* mark_active, in one transaction
Marks(w) ==
    /\ indexer[w].at = "marks"
    /\ active' = IF MayMark(w) THEN Target(w) ELSE active
    /\ Stops(w)
    /\ UNCHANGED <<version, index, alias, build, receipts>>

-----------------------------------------------------------------------------
(* IncrementalIndexer *)

\* The alias, then the items that are touched, as they are now.
ReadsItems(w) ==
    /\ indexer[w].at = "starts" /\ indexer[w].key # NoIndex
    /\ \/ \E x \in Indices :
             /\ alias = {x}
             /\ Turns(w, [indexer[w] EXCEPT !.at = "resolves", !.target = x,
                   !.docs = [i \in Items |-> IF i \in Touched[indexer[w].key] THEN version[i] ELSE 0]])
       \/ (\A x \in Indices : alias # {x}) /\ Stops(w)
    /\ UNCHANGED <<version, index, alias, build, active, receipts>>

\* bulk_apply finds the index behind the alias once more,
Resolves(w) ==
    /\ indexer[w].at = "resolves"
    /\ \/ \E x \in Indices : alias = {x} /\ Turns(w, [indexer[w] EXCEPT !.at = "changes", !.expected = x])
       \/ (\A x \in Indices : alias # {x}) /\ Stops(w)
    /\ UNCHANGED <<version, index, alias, build, active, receipts>>

\* and changes that index, as a whole or in part.
Changes(w) ==
    LET touched == Touched[indexer[w].key]
    IN /\ indexer[w].at = "changes"
       /\ \E done \in SUBSET touched :
             /\ index' = [index EXCEPT ![indexer[w].expected].docs = Applied(@, indexer[w].docs, done)]
             /\ IF done = touched THEN GoesOn(w, "compares") ELSE Stops(w)
       /\ UNCHANGED <<version, alias, build, active, receipts>>

\* The alias is compared with what it was.
Compares(w) ==
    /\ indexer[w].at = "compares"
    /\ IF alias = {Target(w)} THEN GoesOn(w, "records") ELSE Stops(w)
    /\ UNCHANGED <<version, index, alias, build, active, receipts>>

\* record_incremental, refused unless the index is the registry's active one
Records(w) ==
    /\ indexer[w].at = "records"
    /\ receipts' = IF build[Target(w)].recorded /\ active = Target(w) THEN receipts \cup {indexer[w].key} ELSE receipts
    /\ Stops(w)
    /\ UNCHANGED <<version, index, alias, build, active>>

-----------------------------------------------------------------------------

SearchNext ==
    \/ \E i \in Items : ItemChanges(i)
    \/ \E w \in Indexers :
          \/ Starts(w) \/ Breaks(w) \/ LosesLock(w)
          \/ Decides(w) \/ Reads(w) \/ Writes(w) \/ Counts(w)
          \/ Activates(w) \/ LooksUp(w) \/ Switches(w) \/ Verifies(w) \/ Marks(w)
          \/ ReadsItems(w) \/ Resolves(w) \/ Changes(w) \/ Compares(w) \/ Records(w)

SearchSpec == SearchInit /\ [][SearchNext]_searchVars

-----------------------------------------------------------------------------
(* Properties *)

\* A search never meets a half-built index: whatever stops a reindex, and even if the lock
\* is lost, the alias' targets were written completely and have their build record.
AliasIsComplete == \A x \in alias : build[x].recorded /\ \A i \in Items : index[x].docs[i] > 0

\* The version of each item that a search may find; an alias of several targets is refused.
Serves(i) == IF \E x \in Indices : alias = {x} THEN index[CHOOSE x \in Indices : alias = {x}].docs[i] ELSE 0

\* What a search finds of an item never gets older or out of reach, unless two ran at once
\* for a lost lock, or a build recorded before a crash is activated afterwards: its documents are
\* those of the day it was recorded, whatever incremental tasks have changed since.
NeverServesOlder ==
    [][\A i \in Items : Serves(i)' < Serves(i) =>
          \E w \in Indexers : indexer[w].crowded \/ (indexer[w].at = "switches" /\ indexer[w].resumed)]_searchVars

\* What holds x, and whatever each index in it was built to follow
Traces(x) ==
    {T \in SUBSET (Indices \cup {NoIndex}) : x \in T /\ \A y \in T \ {NoIndex} : build[y].expected \in T}

\* The indexes that the alias had passed through when it came to x
Passed(x) == {y \in Indices \cup {NoIndex} : \A T \in Traces(x) : y \in T}

\* Alias and registry are changed one after the other, by runs that stop in between and are
\* repeated.  The alias moves from the one index that another was built to follow to that one
\* alone; only where two ran at once for a lost lock may a switch come late, and add an index that
\* was replaced to the one in its place.  The registry never goes back to an index that was
\* replaced, not even then, and is never ahead of all that has the alias.
RegistryFollowsAlias ==
    [][/\ alias' # alias =>
             \/ \E w \in Indexers : indexer[w].crowded
             \/ \E x \in Indices : alias' = {x} /\ alias = Sole(build[x].expected)
       /\ active' # active => active \in Passed(active') /\ \E x \in alias' : active' \in Passed(x)]_searchVars
=============================================================================
