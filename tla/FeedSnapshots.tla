--------------------------- MODULE FeedSnapshots ---------------------------
(***************************************************************************)
(* The first page of a feed (api/app/feeds/service.py): a request reads    *)
(* the user's authority, gets the candidates through the versioned cache   *)
(* (api/app/cache/runtime.py: Redis, and the process' own memory when Redis*)
(* fails), reads the catalog and the promotions again and creates an       *)
(* immutable snapshot.  Every read sees what is committed by then, and     *)
(* other transactions commit in between.  Content is told apart by the     *)
(* generations it was computed from.                                       *)
(***************************************************************************)
EXTENDS Naturals

CONSTANTS
    Readers,      \* requests of one user and feed, served at the same time
    MaxProfile,   \* bounds: of profile versions,
    MaxModel,     \* of models activated,
    MaxOps,       \* of operations applied,
    MaxCommits,   \* and of the three together
    Alignments,   \* whether the slot may hold the active model's resources: a set of BOOLEANs
    NoValue

ASSUME SnapshotConstants ==
    /\ MaxProfile \in Nat /\ MaxModel \in Nat /\ MaxOps \in Nat /\ MaxCommits \in Nat
    /\ Alignments \subseteq BOOLEAN

VARIABLES
    committed,        \* what is committed: profile version, active model, count of operations, account
    redis,      \* cached candidates by key
    memory,     \* the process' own copy
    reader      \* the requests, and at the end what their snapshot was made of

feedVars == <<committed, redis, memory, reader>>

-----------------------------------------------------------------------------

Authority == [profile : 0 .. MaxProfile, model : 0 .. MaxModel, ops : 0 .. MaxOps]

Keys == [profile : 0 .. MaxProfile, model : 0 .. MaxModel, ops : 0 .. MaxOps, aligned : Alignments]

\* Candidates: the profile whose recent items were the seeds, the model and whether its
\* resources were loaded, and the operations that the catalog showed.
Candidates == [seeds : 0 .. MaxProfile, model : 0 .. MaxModel, aligned : Alignments, catalog : 0 .. MaxOps]

Read == [profile |-> committed.profile, model |-> committed.model, ops |-> committed.ops]

NoReader ==
    [at |-> "idle", seen |-> NoValue, aligned |-> TRUE, key |-> NoValue, value |-> NoValue, catalog |-> 0, promotions |-> 0]

FeedTypeOK ==
    /\ committed \in [profile : 0 .. MaxProfile, model : 0 .. MaxModel, ops : 0 .. MaxOps, enabled : BOOLEAN]
    /\ redis \in [Keys -> Candidates \cup {NoValue}]
    /\ memory \in [Keys -> Candidates \cup {NoValue}]
    /\ reader \in [Readers ->
          [at : {"idle", "keys", "looks", "hit", "loads", "stores", "cached", "filtered", "ranked", "checked", "created"},
           seen : Authority \cup {NoValue},
           aligned : BOOLEAN,   \* the serving slot holds the active model's resources
           key : Keys \cup {NoValue},
           value : Candidates \cup {NoValue},
           catalog : 0 .. MaxOps,       \* operations shown by the catalog after the cache,
           promotions : 0 .. MaxOps]]   \* and by the promotions

FeedInit ==
    /\ committed = [profile |-> 0, model |-> 0, ops |-> 0, enabled |-> TRUE]
    /\ redis = [k \in Keys |-> NoValue]
    /\ memory = [k \in Keys |-> NoValue]
    /\ reader = [h \in Readers |-> NoReader]

-----------------------------------------------------------------------------
(* The surroundings *)

Rested == committed.profile + committed.model + committed.ops < MaxCommits

\* An event of the user, an activation, an operation, a change of the account
Commits ==
    /\ \/ committed.profile < MaxProfile /\ Rested /\ committed' = [committed EXCEPT !.profile = @ + 1]
       \/ committed.model < MaxModel /\ Rested /\ committed' = [committed EXCEPT !.model = @ + 1]
       \/ committed.ops < MaxOps /\ Rested /\ committed' = [committed EXCEPT !.ops = @ + 1]
       \/ committed' = [committed EXCEPT !.enabled = ~ @]
    /\ UNCHANGED <<redis, memory, reader>>

\* A time to live ends; the process is started anew.
Expires(k) ==
    /\ \/ redis[k] # NoValue /\ redis' = [redis EXCEPT ![k] = NoValue] /\ UNCHANGED memory
       \/ memory[k] # NoValue /\ memory' = [memory EXCEPT ![k] = NoValue] /\ UNCHANGED redis
    /\ UNCHANGED <<committed, reader>>

-----------------------------------------------------------------------------
(* The versioned cache *)

Step(h, next) == reader' = [reader EXCEPT ![h] = next]

Refused(h) == Step(h, NoReader)

\* get_page: the slot, then _authority_state
Asks(h) ==
    /\ reader[h].at = "idle"
    /\ \E aligned \in Alignments : Step(h, [NoReader EXCEPT !.at = "keys", !.seen = Read, !.aligned = aligned])
    /\ UNCHANGED <<committed, redis, memory>>

\* (variant) The operations are left out.
SameGenerationOfModel(h) == committed.model = reader[h].seen.model

\* _assert_same_generation.  The account and the profile of both sides are one and the same
\* object of the session, which the second read refreshes: they never differ.
SameGeneration(h) == committed.model = reader[h].seen.model /\ committed.ops = reader[h].seen.ops

\* The callback "authority", and its validation
Authorized(h) == SameGeneration(h) /\ committed.enabled

KeyNow(h) == [profile |-> committed.profile, model |-> committed.model, ops |-> committed.ops, aligned |-> reader[h].aligned]

MakesKey(h) ==
    /\ reader[h].at = "keys"
    /\ IF Authorized(h) THEN Step(h, [reader[h] EXCEPT !.at = "looks", !.key = KeyNow(h)]) ELSE Refused(h)
    /\ UNCHANGED <<committed, redis, memory>>

\* Redis, or the process' memory if it fails.  An entry that is no JSON is removed and loaded
\* anew, one that is no list of candidates is removed and the cache asked again.
Looks(h) ==
    LET k == reader[h].key
        finds(store) == Step(h, IF store[k] = NoValue THEN [reader[h] EXCEPT !.at = "loads"]
                                ELSE [reader[h] EXCEPT !.at = "hit", !.value = store[k]])
    IN /\ reader[h].at = "looks"
       /\ \/ (finds(redis) \/ finds(memory)) /\ UNCHANGED <<redis, memory>>
          \/ /\ redis[k] # NoValue
             /\ redis' = [redis EXCEPT ![k] = NoValue]
             /\ memory' = [memory EXCEPT ![k] = NoValue]
             /\ \E at \in {"loads", "keys"} : Step(h, [reader[h] EXCEPT !.at = at])
       /\ UNCHANGED committed

\* (variant) Only the account is looked at again.
ConfirmedAccount(h) == committed.enabled

\* The second call of "authority" must come to the key's generations.
Confirmed(h) == Authorized(h) /\ KeyNow(h) = reader[h].key

Hits(h) ==
    /\ reader[h].at = "hit"
    /\ IF Confirmed(h) THEN Step(h, [reader[h] EXCEPT !.at = "cached"]) ELSE Refused(h)
    /\ UNCHANGED <<committed, redis, memory>>

\* The loader: retrieve_candidates over the catalog of committed, from the seeds and model read first
Loads(h) ==
    /\ reader[h].at = "loads"
    /\ Step(h, [reader[h] EXCEPT !.at = "stores", !.value =
          [seeds |-> reader[h].seen.profile, model |-> reader[h].seen.model, aligned |-> reader[h].aligned,
           catalog |-> committed.ops]])
    /\ UNCHANGED <<committed, redis, memory>>

Stores(h) ==
    /\ reader[h].at = "stores"
    /\ IF Confirmed(h)
       THEN /\ Step(h, [reader[h] EXCEPT !.at = "cached"])
            /\ memory' = [memory EXCEPT ![reader[h].key] = reader[h].value]
            /\ \/ redis' = [redis EXCEPT ![reader[h].key] = reader[h].value]
               \/ UNCHANGED redis   \* Redis fails
       ELSE Refused(h) /\ UNCHANGED <<redis, memory>>
    /\ UNCHANGED committed

-----------------------------------------------------------------------------
(* The snapshot *)

\* The catalog is read again, whatever the cache returned.
Filters(h) ==
    /\ reader[h].at = "cached"
    /\ Step(h, [reader[h] EXCEPT !.at = "filtered", !.catalog = committed.ops])
    /\ UNCHANGED <<committed, redis, memory>>

\* FeedRanking, with the promotions of now
RanksAndPromotes(h) ==
    /\ reader[h].at = "filtered"
    /\ Step(h, [reader[h] EXCEPT !.at = "ranked", !.promotions = committed.ops])
    /\ UNCHANGED <<committed, redis, memory>>

ChecksAgain(h) ==
    /\ reader[h].at = "ranked"
    /\ IF SameGeneration(h) THEN Step(h, [reader[h] EXCEPT !.at = "checked"]) ELSE Refused(h)
    /\ UNCHANGED <<committed, redis, memory>>

\* create_snapshot, refused if an item is off line by now; the account is read again before
\* the page is recorded (FeedPages).
Creates(h) ==
    /\ reader[h].at = "checked"
    /\ \/ committed.enabled /\ Step(h, [reader[h] EXCEPT !.at = "created"])
       \/ (committed.ops # reader[h].seen.ops \/ ~ committed.enabled) /\ Refused(h)
    /\ UNCHANGED <<committed, redis, memory>>

Answers(h) ==
    /\ reader[h].at = "created"
    /\ Step(h, NoReader)
    /\ UNCHANGED <<committed, redis, memory>>

-----------------------------------------------------------------------------

FeedNext ==
    \/ Commits
    \/ \E k \in Keys : Expires(k)
    \/ \E h \in Readers :
          \/ Asks(h) \/ MakesKey(h) \/ Looks(h) \/ Hits(h) \/ Loads(h) \/ Stores(h)
          \/ Filters(h) \/ RanksAndPromotes(h) \/ ChecksAgain(h) \/ Creates(h) \/ Answers(h)

FeedSpec == FeedInit /\ [][FeedNext]_feedVars

-----------------------------------------------------------------------------
(* Properties *)

\* What is cached under a key, by whichever request, was computed from the model and the
\* catalog of the generations in the key, and from no later profile.
CacheHoldsItsKey ==
    \A k \in Keys : \A value \in {redis[k], memory[k]} \ {NoValue} :
        /\ value.model = k.model /\ value.aligned = k.aligned /\ value.catalog = k.ops
        /\ value.seeds <= k.profile

\* However many operations and activations are committed while it is built, and whoever
\* computed its candidates, a snapshot is of one model, and its candidates, catalog and
\* promotions show the same operations.
SnapshotOfOneGeneration ==
    \A h \in Readers : reader[h].at = "created" =>
        /\ reader[h].value.model = reader[h].seen.model
        /\ {reader[h].value.catalog, reader[h].catalog, reader[h].promotions} = {reader[h].seen.ops}
=============================================================================
