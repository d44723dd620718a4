-------------------------- MODULE ServedViews_proofs --------------------------
(***************************************************************************)
(* Proofs about what users are served that is derived from the database:   *)
(* the snapshot of a feed, for any number of readers, versions, models and *)
(* operations, the search projection, for any number of items, indexes,    *)
(* tasks and indexers, the pages of a snapshot and what a browser shows of *)
(* it, for any lengths, limits and numbers of calls and events.            *)
(***************************************************************************)
EXTENDS FeedSnapshots, SearchIndex, FeedPages, FeedView,
        FiniteSetTheorems, SequenceTheorems, WellFoundedInduction, TLAPS

-----------------------------------------------------------------------------
(* Snapshots: what each reader may rely on at its point of the request.    *)
(* The versions that are committed only grow, so what was read of them     *)
(* bounds them from below, and what was read later lies in between.        *)

Versions == [profile : Nat, model : Nat, ops : Nat, enabled : BOOLEAN]

\* Candidates are those of a key
Matches(value, key) ==
    /\ value.model = key.model
    /\ value.aligned = key.aligned
    /\ value.catalog = key.ops
    /\ value.seeds <= key.profile

ReaderRow ==
    [at : {"idle", "keys", "looks", "hit", "loads", "stores", "cached", "filtered", "ranked", "checked", "created"},
     seen : Authority \cup {NoValue},
     aligned : BOOLEAN,
     key : Keys \cup {NoValue},
     value : Candidates \cup {NoValue},
     catalog : 0 .. MaxOps,
     promotions : 0 .. MaxOps]

Past(c, v) == c.profile <= v.profile /\ c.model <= v.model /\ c.ops <= v.ops

Keyed == {"looks", "hit", "loads", "stores", "cached", "filtered", "ranked", "checked", "created"}

Got == {"hit", "cached", "filtered", "ranked", "checked", "created"}

\* Of a reader, the versions committed being v
ReaderInv(r, v) ==
    /\ r.at # "idle" => r.seen \in Authority /\ Past(r.seen, v) /\ r.aligned \in Alignments
    /\ r.at \in Keyed =>
          /\ r.key \in Keys
          /\ r.key.model = r.seen.model /\ r.key.ops = r.seen.ops /\ r.key.aligned = r.aligned
          /\ r.seen.profile <= r.key.profile
    /\ r.at = "stores" =>
          /\ r.value \in Candidates
          /\ r.value.model = r.seen.model /\ r.value.aligned = r.aligned /\ r.value.seeds = r.seen.profile
          /\ r.seen.ops <= r.value.catalog /\ r.value.catalog <= v.ops
    /\ r.at \in Got => r.value \in Candidates /\ Matches(r.value, r.key)
    /\ r.at \in {"filtered", "ranked"} => r.seen.ops <= r.catalog /\ r.catalog <= v.ops
    /\ r.at = "ranked" => r.seen.ops <= r.promotions /\ r.promotions <= v.ops
    /\ r.at \in {"checked", "created"} => r.catalog = r.seen.ops /\ r.promotions = r.seen.ops

CacheInv == \A k \in Keys : \A store \in {redis, memory} : store[k] # NoValue => Matches(store[k], k)

SnapshotInv == FeedTypeOK /\ CacheInv /\ \A h \in Readers : ReaderInv(reader[h], committed)

Readable(r) == r \in ReaderRow /\ ReaderInv(r, committed)

LEMMA ReaderTypes ==
    ASSUME FeedTypeOK
    PROVE  reader \in [Readers -> ReaderRow] /\ committed \in Versions
  BY SnapshotConstants DEF FeedTypeOK, ReaderRow, Versions

\* Nothing a reader relies on is lost when more is committed.
LEMMA LaterVersions ==
    ASSUME NEW r \in ReaderRow, NEW v \in Versions, NEW w \in Versions, ReaderInv(r, v),
           v.profile <= w.profile, v.model <= w.model, v.ops <= w.ops
    PROVE  ReaderInv(r, w)
  <1>1. r.at # "idle" => Past(r.seen, w)
    BY SnapshotConstants DEF ReaderInv, Past, Versions, Authority
  <1>2. r.at = "stores" => r.value.catalog <= w.ops
    BY SnapshotConstants DEF ReaderInv, Versions, Candidates
  <1>3. r.at \in {"filtered", "ranked"} => r.catalog <= w.ops
    BY SnapshotConstants DEF ReaderInv, Versions, ReaderRow
  <1>4. r.at = "ranked" => r.promotions <= w.ops
    BY SnapshotConstants DEF ReaderInv, Versions, ReaderRow
  <1> QED
    BY <1>1, <1>2, <1>3, <1>4 DEF ReaderInv

\* One reader's step, with the versions as they are
LEMMA ReaderStep ==
    ASSUME SnapshotInv, NEW h \in Readers, NEW next, Readable(next), Step(h, next), UNCHANGED committed
    PROVE  reader' \in [Readers -> ReaderRow] /\ \A g \in Readers : ReaderInv(reader'[g], committed')
  <1>1. reader \in [Readers -> ReaderRow]
    BY ReaderTypes DEF SnapshotInv
  <1>2. \A g \in Readers : reader'[g] = IF g = h THEN next ELSE reader[g]
    BY <1>1 DEF Step
  <1> QED
    BY <1>1, <1>2 DEF Step, SnapshotInv, Readable

\* A step of one reader that leaves the versions alone
ReadersKept == reader' \in [Readers -> ReaderRow] /\ \A h \in Readers : ReaderInv(reader'[h], committed')

LEMMA IdleReader == Readable(NoReader)
  BY SnapshotConstants DEF Readable, ReaderRow, NoReader, ReaderInv, Keyed, Got

LEMMA AsksKeeps == ASSUME SnapshotInv, NEW h \in Readers, Asks(h) PROVE ReadersKept
  <1>1. PICK aligned \in Alignments : Step(h, [NoReader EXCEPT !.at = "keys", !.seen = Read, !.aligned = aligned])
    BY DEF Asks
  <1> DEFINE next == [NoReader EXCEPT !.at = "keys", !.seen = Read, !.aligned = aligned]
  <1>2. Read \in Authority /\ Past(Read, committed)
    BY SnapshotConstants DEF SnapshotInv, FeedTypeOK, Read, Authority, Past
  <1>3. NoReader \in ReaderRow
    BY IdleReader DEF Readable
  <1>4. next \in ReaderRow
    BY <1>2, <1>3, SnapshotConstants DEF ReaderRow
  <1>5. ReaderInv(next, committed)
    BY <1>2, <1>3 DEF ReaderRow, ReaderInv, Keyed, Got
  <1> QED
    BY <1>1, <1>4, <1>5, ReaderStep DEF Asks, Readable, ReadersKept

LEMMA MakesKeyKeeps == ASSUME SnapshotInv, NEW h \in Readers, MakesKey(h) PROVE ReadersKept
  <1> DEFINE r == reader[h]
             next == [r EXCEPT !.at = "looks", !.key = KeyNow(h)]
  <1>1. r \in ReaderRow /\ ReaderInv(r, committed) /\ committed \in Versions
    BY ReaderTypes DEF SnapshotInv
  <1>2. CASE Authorized(h)
    <2>1. /\ r.seen \in Authority /\ Past(r.seen, committed) /\ r.aligned \in Alignments
          /\ committed.model = r.seen.model /\ committed.ops = r.seen.ops
      BY <1>1, <1>2 DEF MakesKey, ReaderInv, Authorized, SameGeneration
    <2>2. KeyNow(h) \in Keys
      BY <2>1, SnapshotConstants DEF SnapshotInv, FeedTypeOK, KeyNow, Keys
    <2>3. next \in ReaderRow
      BY <1>1, <2>2 DEF ReaderRow
    <2>4. ReaderInv(next, committed)
      BY <1>1, <2>1, <2>2 DEF ReaderInv, ReaderRow, KeyNow, Past, Keyed, Got
    <2> QED
      BY <1>2, <2>3, <2>4, ReaderStep DEF MakesKey, Readable, ReadersKept
  <1>3. CASE ~ Authorized(h)
    BY <1>3, IdleReader, ReaderStep DEF MakesKey, Refused, ReadersKept
  <1> QED
    BY <1>2, <1>3

LEMMA LooksKeeps == ASSUME SnapshotInv, NEW h \in Readers, Looks(h) PROVE ReadersKept
  <1> DEFINE r == reader[h]
             k == r.key
  <1>1. r \in ReaderRow /\ ReaderInv(r, committed)
    BY ReaderTypes DEF SnapshotInv
  <1>2. k \in Keys /\ r.at = "looks"
    BY <1>1 DEF Looks, ReaderInv, Keyed
  <1>3. ASSUME NEW place \in {"loads", "keys"}
        PROVE  Readable([r EXCEPT !.at = place])
    BY <1>1, <1>2 DEF Readable, ReaderInv, ReaderRow, Keyed, Got
  <1>4. ASSUME NEW store \in {redis, memory}, store[k] # NoValue
        PROVE  Readable([r EXCEPT !.at = "hit", !.value = store[k]])
    <2>1. store[k] \in Candidates /\ Matches(store[k], k)
      BY <1>2, <1>4 DEF SnapshotInv, CacheInv, FeedTypeOK
    <2> QED
      BY <1>1, <1>2, <2>1 DEF Readable, ReaderInv, ReaderRow, Keyed, Got
  <1>5. PICK next : Step(h, next) /\ Readable(next)
    BY <1>2, <1>3, <1>4 DEF Looks
  <1> QED
    BY <1>5, ReaderStep DEF Looks, ReadersKept

LEMMA HitsKeeps == ASSUME SnapshotInv, NEW h \in Readers, Hits(h) PROVE ReadersKept
  <1> DEFINE r == reader[h]
  <1>1. r \in ReaderRow /\ ReaderInv(r, committed)
    BY ReaderTypes DEF SnapshotInv
  <1>2. Readable([r EXCEPT !.at = "cached"])
    BY <1>1 DEF Hits, Readable, ReaderInv, ReaderRow, Keyed, Got
  <1> QED
    BY <1>2, IdleReader, ReaderStep DEF Hits, Refused, ReadersKept

LEMMA LoadsKeeps == ASSUME SnapshotInv, NEW h \in Readers, Loads(h) PROVE ReadersKept
  <1> DEFINE r == reader[h]
             value == [seeds |-> r.seen.profile, model |-> r.seen.model, aligned |-> r.aligned, catalog |-> committed.ops]
             next == [r EXCEPT !.at = "stores", !.value = value]
  <1>1. r \in ReaderRow /\ ReaderInv(r, committed) /\ committed \in Versions
    BY ReaderTypes DEF SnapshotInv
  <1>2. r.seen \in Authority /\ Past(r.seen, committed) /\ r.aligned \in Alignments /\ r.at = "loads"
    BY <1>1 DEF Loads, ReaderInv
  <1>3. value \in Candidates
    BY <1>2 DEF SnapshotInv, FeedTypeOK, Candidates, Authority
  <1>4. next \in ReaderRow
    BY <1>1, <1>3 DEF ReaderRow
  <1>5. next.value.catalog <= committed.ops
    BY <1>1 DEF ReaderRow, Versions
  <1>6. ReaderInv(next, committed)
    BY <1>1, <1>2, <1>3, <1>5 DEF ReaderInv, ReaderRow, Past, Keyed, Got
  <1> QED
    BY <1>4, <1>6, ReaderStep DEF Loads, Readable, ReadersKept

\* What was loaded before the second look at the authority is of the key, if the key is
\* still that of now: the catalogue's operations were read in between.
LEMMA LoadedMatches ==
    ASSUME SnapshotInv, NEW h \in Readers, reader[h].at = "stores", Confirmed(h)
    PROVE  /\ reader[h].key \in Keys /\ reader[h].value \in Candidates
           /\ Matches(reader[h].value, reader[h].key)
  <1> DEFINE r == reader[h]
  <1>1. r \in ReaderRow /\ ReaderInv(r, committed) /\ committed \in Versions
    BY ReaderTypes DEF SnapshotInv
  <1>2. committed.ops = r.seen.ops
    BY DEF Confirmed, Authorized, SameGeneration
  <1>3. /\ r.key \in Keys /\ r.value \in Candidates
        /\ r.value.model = r.key.model /\ r.value.aligned = r.key.aligned /\ r.value.seeds <= r.key.profile
        /\ r.seen.ops <= r.value.catalog /\ r.value.catalog <= committed.ops /\ r.key.ops = r.seen.ops
    BY <1>1 DEF ReaderInv, Keyed
  <1>4. r.value.catalog = r.key.ops
    BY <1>1, <1>2, <1>3, SnapshotConstants DEF Candidates, Versions
  <1> QED
    BY <1>3, <1>4 DEF Matches

LEMMA StoresKeeps == ASSUME SnapshotInv, NEW h \in Readers, Stores(h) PROVE ReadersKept
  <1> DEFINE r == reader[h]
  <1>1. r \in ReaderRow /\ ReaderInv(r, committed)
    BY ReaderTypes DEF SnapshotInv
  <1>2. CASE Confirmed(h)
    <2>1. Readable([r EXCEPT !.at = "cached"])
      BY <1>1, <1>2, LoadedMatches DEF Stores, Readable, ReaderInv, ReaderRow, Keyed, Got
    <2> QED
      BY <1>2, <2>1, ReaderStep DEF Stores, ReadersKept
  <1>3. CASE ~ Confirmed(h)
    BY <1>3, IdleReader, ReaderStep DEF Stores, Refused, ReadersKept
  <1> QED
    BY <1>2, <1>3

LEMMA FiltersKeeps == ASSUME SnapshotInv, NEW h \in Readers, Filters(h) PROVE ReadersKept
  <1> DEFINE r == reader[h]
             next == [r EXCEPT !.at = "filtered", !.catalog = committed.ops]
  <1>1. r \in ReaderRow /\ ReaderInv(r, committed) /\ committed \in Versions
    BY ReaderTypes DEF SnapshotInv
  <1>2. next \in ReaderRow
    BY <1>1 DEF SnapshotInv, FeedTypeOK, ReaderRow
  <1>3. committed.ops <= committed.ops
    BY <1>1 DEF Versions
  <1>4. ReaderInv(next, committed)
    BY <1>1, <1>3 DEF Filters, ReaderInv, ReaderRow, Past, Keyed, Got
  <1> QED
    BY <1>2, <1>4, ReaderStep DEF Filters, Readable, ReadersKept

LEMMA PromotesKeeps == ASSUME SnapshotInv, NEW h \in Readers, RanksAndPromotes(h) PROVE ReadersKept
  <1> DEFINE r == reader[h]
             next == [r EXCEPT !.at = "ranked", !.promotions = committed.ops]
  <1>1. r \in ReaderRow /\ ReaderInv(r, committed) /\ committed \in Versions
    BY ReaderTypes DEF SnapshotInv
  <1>2. next \in ReaderRow
    BY <1>1 DEF SnapshotInv, FeedTypeOK, ReaderRow
  <1>3. committed.ops <= committed.ops
    BY <1>1 DEF Versions
  <1>4. ReaderInv(next, committed)
    BY <1>1, <1>3 DEF RanksAndPromotes, ReaderInv, ReaderRow, Past, Keyed, Got
  <1> QED
    BY <1>2, <1>4, ReaderStep DEF RanksAndPromotes, Readable, ReadersKept

\* The operations are those read first, so they were the same at every reading in between.
LEMMA ChecksKeeps == ASSUME SnapshotInv, NEW h \in Readers, ChecksAgain(h) PROVE ReadersKept
  <1> DEFINE r == reader[h]
             next == [r EXCEPT !.at = "checked"]
  <1>1. r \in ReaderRow /\ ReaderInv(r, committed) /\ committed \in Versions
    BY ReaderTypes DEF SnapshotInv
  <1>2. CASE SameGeneration(h)
    <2>1. r.catalog = committed.ops /\ r.promotions = committed.ops /\ r.seen.ops = committed.ops
      <3>1. /\ r.seen.ops = committed.ops
            /\ r.seen.ops <= r.catalog /\ r.catalog <= committed.ops
            /\ r.seen.ops <= r.promotions /\ r.promotions <= committed.ops
        BY <1>1, <1>2 DEF ChecksAgain, SameGeneration, ReaderInv
      <3>2. r.catalog \in Nat /\ r.promotions \in Nat /\ committed.ops \in Nat
        BY <1>1, SnapshotConstants DEF ReaderRow, Versions
      <3> QED
        BY <3>1, <3>2
    <2>2. next \in ReaderRow
      BY <1>1 DEF ReaderRow
    <2>3. ReaderInv(next, committed)
      BY <1>1, <2>1 DEF ChecksAgain, ReaderInv, ReaderRow, Keyed, Got
    <2> QED
      BY <1>2, <2>2, <2>3, ReaderStep DEF ChecksAgain, Readable, ReadersKept
  <1>3. CASE ~ SameGeneration(h)
    BY <1>3, IdleReader, ReaderStep DEF ChecksAgain, Refused, ReadersKept
  <1> QED
    BY <1>2, <1>3

LEMMA CreatesKeeps == ASSUME SnapshotInv, NEW h \in Readers, Creates(h) PROVE ReadersKept
  <1> DEFINE r == reader[h]
  <1>1. r \in ReaderRow /\ ReaderInv(r, committed)
    BY ReaderTypes DEF SnapshotInv
  <1>2. Readable([r EXCEPT !.at = "created"])
    BY <1>1 DEF Creates, Readable, ReaderInv, ReaderRow, Keyed, Got
  <1> QED
    BY <1>2, IdleReader, ReaderStep DEF Creates, Refused, ReadersKept

\* An entry is written by a reader that has confirmed its key, or goes.
LEMMA StoresCaches == ASSUME SnapshotInv, NEW h \in Readers, Stores(h) PROVE CacheInv' /\ FeedTypeOK'
  <1> DEFINE r == reader[h]
  <1>1. ReadersKept
    BY StoresKeeps
  <1>2. UNCHANGED committed
    BY DEF Stores
  <1>3. redis' \in [Keys -> Candidates \cup {NoValue}] /\ memory' \in [Keys -> Candidates \cup {NoValue}] /\ CacheInv'
    <2>1. CASE UNCHANGED <<redis, memory>>
      BY <2>1 DEF SnapshotInv, FeedTypeOK, CacheInv
    <2>2. CASE Confirmed(h)
      <3>1. r.key \in Keys /\ r.value \in Candidates /\ Matches(r.value, r.key)
        BY <2>2, LoadedMatches DEF Stores
      <3>2. ASSUME NEW old \in {redis, memory}, NEW new, new = [old EXCEPT ![r.key] = r.value]
            PROVE  /\ new \in [Keys -> Candidates \cup {NoValue}]
                   /\ \A k \in Keys : new[k] # NoValue => Matches(new[k], k)
        BY <3>1, <3>2 DEF SnapshotInv, FeedTypeOK, CacheInv
      <3>3. ASSUME NEW old \in {redis, memory}
            PROVE  \A k \in Keys : old[k] # NoValue => Matches(old[k], k)
        BY DEF SnapshotInv, CacheInv
      <3> QED
        BY <2>2, <3>2, <3>3 DEF Stores, CacheInv, SnapshotInv, FeedTypeOK
    <2> QED
      BY <2>1, <2>2 DEF Stores
  <1> QED
    BY <1>1, <1>2, <1>3 DEF ReadersKept, SnapshotInv, FeedTypeOK, ReaderRow

LEMMA LooksCaches == ASSUME SnapshotInv, NEW h \in Readers, Looks(h) PROVE CacheInv' /\ FeedTypeOK'
  <1> DEFINE k == reader[h].key
  <1>1. ReadersKept /\ UNCHANGED committed
    BY LooksKeeps DEF Looks
  <1>2. redis' \in {redis, [redis EXCEPT ![k] = NoValue]} /\ memory' \in {memory, [memory EXCEPT ![k] = NoValue]}
    BY DEF Looks
  <1>3. redis' \in [Keys -> Candidates \cup {NoValue}] /\ memory' \in [Keys -> Candidates \cup {NoValue}]
    BY <1>2 DEF SnapshotInv, FeedTypeOK
  <1>4. CacheInv'
    BY <1>2 DEF SnapshotInv, FeedTypeOK, CacheInv
  <1> QED
    BY <1>1, <1>3, <1>4 DEF ReadersKept, SnapshotInv, FeedTypeOK, ReaderRow

LEMMA SnapshotInvInit == FeedInit => SnapshotInv
  <1> SUFFICES ASSUME FeedInit PROVE SnapshotInv
    OBVIOUS
  <1>1. FeedTypeOK
    BY SnapshotConstants DEF FeedInit, FeedTypeOK, NoReader
  <1>2. CacheInv
    BY DEF FeedInit, CacheInv
  <1>3. ASSUME NEW h \in Readers
        PROVE  ReaderInv(reader[h], committed)
    BY DEF FeedInit, NoReader, ReaderInv, Keyed, Got
  <1> QED
    BY <1>1, <1>2, <1>3 DEF SnapshotInv

LEMMA SnapshotInvNext == SnapshotInv /\ [FeedNext]_feedVars => SnapshotInv'
  <1> SUFFICES ASSUME SnapshotInv, [FeedNext]_feedVars PROVE SnapshotInv'
    OBVIOUS
  <1>1. CASE Commits
    <2>1. /\ committed' \in [profile : 0 .. MaxProfile, model : 0 .. MaxModel, ops : 0 .. MaxOps, enabled : BOOLEAN]
          /\ committed.profile <= committed'.profile /\ committed.model <= committed'.model /\ committed.ops <= committed'.ops
      <3>1. /\ committed \in [profile : 0 .. MaxProfile, model : 0 .. MaxModel, ops : 0 .. MaxOps, enabled : BOOLEAN]
            /\ committed.profile \in 0 .. MaxProfile /\ committed.model \in 0 .. MaxModel /\ committed.ops \in 0 .. MaxOps
        BY DEF SnapshotInv, FeedTypeOK
      <3>2. CASE committed.profile < MaxProfile /\ committed' = [committed EXCEPT !.profile = @ + 1]
        BY <3>1, <3>2, SnapshotConstants
      <3>3. CASE committed.model < MaxModel /\ committed' = [committed EXCEPT !.model = @ + 1]
        BY <3>1, <3>3, SnapshotConstants
      <3>4. CASE committed.ops < MaxOps /\ committed' = [committed EXCEPT !.ops = @ + 1]
        BY <3>1, <3>4, SnapshotConstants
      <3>5. CASE committed' = [committed EXCEPT !.enabled = ~ @]
        <4> DEFINE enabled == ~ committed.enabled
        <4>1. enabled \in BOOLEAN /\ committed' = [committed EXCEPT !.enabled = enabled]
          BY <3>5
        <4> HIDE DEF enabled
        <4> QED
          BY <3>1, <4>1, SnapshotConstants
      <3> QED
        BY <1>1, <3>2, <3>3, <3>4, <3>5 DEF Commits
    <2>2. reader \in [Readers -> ReaderRow] /\ committed \in Versions /\ committed' \in Versions
      BY <2>1, ReaderTypes, SnapshotConstants DEF SnapshotInv, Versions
    <2>3. ASSUME NEW h \in Readers
          PROVE  ReaderInv(reader[h], committed')
      BY <2>1, <2>2, LaterVersions DEF SnapshotInv
    <2> QED
      BY <1>1, <2>1, <2>3 DEF Commits, SnapshotInv, FeedTypeOK, CacheInv
  <1>2. ASSUME NEW k \in Keys, Expires(k)
        PROVE  SnapshotInv'
    BY <1>2 DEF Expires, SnapshotInv, FeedTypeOK, CacheInv
  <1>3. ASSUME NEW h \in Readers, Stores(h)
        PROVE  SnapshotInv'
    BY <1>3, StoresKeeps, StoresCaches DEF SnapshotInv, ReadersKept
  <1>4. ASSUME NEW h \in Readers, Looks(h)
        PROVE  SnapshotInv'
    BY <1>4, LooksKeeps, LooksCaches DEF SnapshotInv, ReadersKept
  <1>5. ASSUME ReadersKept, UNCHANGED <<committed, redis, memory>>
        PROVE  SnapshotInv'
    BY <1>5 DEF ReadersKept, SnapshotInv, FeedTypeOK, CacheInv, ReaderRow
  <1>6. ASSUME NEW h \in Readers,
               Asks(h) \/ MakesKey(h) \/ Hits(h) \/ Loads(h) \/ Filters(h) \/ RanksAndPromotes(h)
               \/ ChecksAgain(h) \/ Creates(h) \/ Answers(h)
        PROVE  SnapshotInv'
    <2>1. CASE Asks(h)
      BY <2>1, <1>5, AsksKeeps DEF Asks
    <2>2. CASE MakesKey(h)
      BY <2>2, <1>5, MakesKeyKeeps DEF MakesKey
    <2>3. CASE Hits(h)
      BY <2>3, <1>5, HitsKeeps DEF Hits
    <2>4. CASE Loads(h)
      BY <2>4, <1>5, LoadsKeeps DEF Loads
    <2>5. CASE Filters(h)
      BY <2>5, <1>5, FiltersKeeps DEF Filters
    <2>6. CASE RanksAndPromotes(h)
      BY <2>6, <1>5, PromotesKeeps DEF RanksAndPromotes
    <2>7. CASE ChecksAgain(h)
      BY <2>7, <1>5, ChecksKeeps DEF ChecksAgain
    <2>8. CASE Creates(h)
      BY <2>8, <1>5, CreatesKeeps DEF Creates
    <2>9. CASE Answers(h)
      BY <2>9, <1>5, IdleReader, ReaderStep DEF Answers, ReadersKept
    <2> QED
      BY <1>6, <2>1, <2>2, <2>3, <2>4, <2>5, <2>6, <2>7, <2>8, <2>9
  <1>7. CASE UNCHANGED feedVars
    BY <1>7 DEF feedVars, SnapshotInv, FeedTypeOK, CacheInv
  <1> QED
    BY <1>1, <1>2, <1>3, <1>4, <1>6, <1>7 DEF FeedNext

LEMMA SnapshotInvariant == FeedSpec => []SnapshotInv
  BY SnapshotInvInit, SnapshotInvNext, PTL DEF FeedSpec

\* What is cached under a key, by any of any number of requests and whatever is committed
\* between their reads, was computed from the model and the catalogue of the key's
\* generations and from no later profile (get_or_load of cache/runtime.py).
THEOREM CacheKeysTrue == FeedSpec => []CacheHoldsItsKey
  <1>1. SnapshotInv => CacheHoldsItsKey
    BY DEF SnapshotInv, CacheInv, CacheHoldsItsKey, Matches
  <1> QED
    BY <1>1, SnapshotInvariant, PTL

\* A snapshot that is created is of the model its request began with, and its candidates,
\* catalogue and promotions show the same operations (get_page of feeds/service.py).
THEOREM SnapshotsOfOneGeneration == FeedSpec => []SnapshotOfOneGeneration
  <1>1. SnapshotInv => SnapshotOfOneGeneration
    <2> SUFFICES ASSUME SnapshotInv, NEW h \in Readers, reader[h].at = "created"
                 PROVE  /\ reader[h].value.model = reader[h].seen.model
                        /\ {reader[h].value.catalog, reader[h].catalog, reader[h].promotions} = {reader[h].seen.ops}
      BY DEF SnapshotOfOneGeneration
    <2>1. ReaderInv(reader[h], committed)
      BY DEF SnapshotInv
    <2>2. /\ reader[h].value.model = reader[h].seen.model
          /\ reader[h].value.catalog = reader[h].seen.ops
          /\ reader[h].catalog = reader[h].seen.ops /\ reader[h].promotions = reader[h].seen.ops
      BY <2>1 DEF ReaderInv, Matches, Keyed, Got
    <2> QED
      BY <2>2
  <1> QED
    BY <1>1, SnapshotInvariant, PTL

-----------------------------------------------------------------------------
(* The search index.  Documents are only ever written over by documents of *)
(* a version, so an index that is complete stays so; and a build, once     *)
(* recorded, is not recorded again, so what an index followed is settled.  *)

RunRow ==
    [at : {"idle", "starts", "reads", "writes", "counts", "activates", "looks", "switches", "verifies", "marks",
           "resolves", "changes", "compares", "records"},
     target : Indices \cup {NoIndex},
     expected : Indices \cup {NoIndex},
     key : TaskKeys \cup {NoIndex},
     docs : [Items -> Nat],
     resumed : BOOLEAN,
     crowded : BOOLEAN]

SearchTypes ==
    /\ version \in [Items -> Nat \ {0}]
    /\ index \in [Indices -> [there : BOOLEAN, docs : [Items -> Nat]]]
    /\ alias \subseteq Indices
    /\ build \in [Indices -> [recorded : BOOLEAN, expected : Indices \cup {NoIndex}, docs : [Items -> Nat]]]
    /\ active \in Indices \cup {NoIndex}
    /\ indexer \in [Indexers -> RunRow]

\* Indexes that have a document of every item
Whole == {x \in Indices : \A i \in Items : index[x].docs[i] > 0}

\* Passed, of any state of the builds
TracesIn(b, x) ==
    {T \in SUBSET (Indices \cup {NoIndex}) : x \in T /\ \A y \in T \ {NoIndex} : b[y].expected \in T}

PassedIn(b, x) == {y \in Indices \cup {NoIndex} : \A T \in TracesIn(b, x) : y \in T}

\* What the targets of an alias have passed through
WayIn(b, a) == {NoIndex} \cup UNION {PassedIn(b, x) : x \in a}

\* Of a run, with the indexes that are whole, the builds and what the alias has passed through
RunInv(r, whole, b, passed) ==
    /\ r.at = "starts" /\ r.key = NoIndex => r.target \in Indices
    /\ r.at \in {"reads", "writes", "counts", "activates", "looks", "switches", "verifies", "marks"} => r.target \in Indices
    /\ r.at \in {"resolves", "changes"} => r.key \in TaskKeys /\ \A i \in Touched[r.key] : r.docs[i] > 0
    /\ r.at = "changes" => r.expected \in Indices
    /\ r.at = "writes" => \A i \in Items : r.docs[i] > 0
    /\ r.at = "counts" => r.target \in whole
    /\ r.at \in {"activates", "looks", "switches", "verifies", "marks"} =>
          b[r.target].recorded /\ b[r.target].expected = r.expected
    /\ r.at = "switches" => r.expected \in passed
    /\ r.at = "marks" => r.target \in passed

\* What the alias passed through was recorded and came from no index, and the registry's
\* index is among it.
TraceInv(b, a, reg) ==
    /\ reg \in WayIn(b, a)
    /\ \A y \in WayIn(b, a) : NoIndex \in PassedIn(b, y) /\ (y = NoIndex \/ b[y].recorded)

SearchInv ==
    /\ SearchTypes
    /\ \A x \in Indices : build[x].recorded => x \in Whole
    /\ TraceInv(build, alias, active)
    /\ \A w \in Indexers : RunInv(indexer[w], Whole, build, WayIn(build, alias))

-----------------------------------------------------------------------------
(* What an index was built to follow *)

\* PassedIn is itself closed, and the smallest closed set.
LEMMA PassedIsTrace ==
    ASSUME NEW b, NEW x \in Indices \cup {NoIndex},
           \A y \in Indices : b[y].expected \in Indices \cup {NoIndex}
    PROVE  PassedIn(b, x) \in TracesIn(b, x)
<1>1. \A y \in PassedIn(b, x) \ {NoIndex} : b[y].expected \in PassedIn(b, x)
    BY DEF PassedIn, TracesIn
<1>2. QED
    BY <1>1 DEF PassedIn, TracesIn

LEMMA PassedIsLeast ==
    ASSUME NEW b, NEW x, NEW T \in TracesIn(b, x)
    PROVE  PassedIn(b, x) \subseteq T
BY DEF PassedIn

\* An index on the way was itself built on a part of the way.
LEMMA PassedOfPassed ==
    ASSUME NEW b, NEW x \in Indices \cup {NoIndex}, NEW y \in PassedIn(b, x),
           \A z \in Indices : b[z].expected \in Indices \cup {NoIndex}
    PROVE  PassedIn(b, y) \subseteq PassedIn(b, x)
<1>1. PassedIn(b, x) \in TracesIn(b, x)
    BY PassedIsTrace
<1>2. PassedIn(b, x) \in TracesIn(b, y)
    BY <1>1 DEF TracesIn
<1>3. QED
    BY <1>2, PassedIsLeast

\* The way is the same in builds that agree on every index on it.
LEMMA PassedAgree ==
    ASSUME NEW b, NEW c, NEW x \in Indices \cup {NoIndex},
           \A y \in Indices : b[y].expected \in Indices \cup {NoIndex},
           \A y \in Indices : c[y].expected \in Indices \cup {NoIndex},
           \A y \in PassedIn(b, x) \ {NoIndex} : c[y].expected = b[y].expected
    PROVE  PassedIn(c, x) = PassedIn(b, x)
<1> DEFINE P == PassedIn(b, x)
           Q == PassedIn(c, x)
<1>1. P \in TracesIn(b, x) /\ Q \in TracesIn(c, x)
    BY PassedIsTrace
<1>2. P \in TracesIn(c, x)
    BY <1>1 DEF TracesIn
<1>3. Q \subseteq P
    BY <1>2, PassedIsLeast
<1>4. Q \in TracesIn(b, x)
    BY <1>1, <1>3 DEF TracesIn
<1>5. P \subseteq Q
    BY <1>4, PassedIsLeast
<1>6. QED
    BY <1>3, <1>5

\* The first step of the way
LEMMA PassedNext ==
    ASSUME NEW b, NEW x \in Indices, x # NoIndex,
           \A y \in Indices : b[y].expected \in Indices \cup {NoIndex}
    PROVE  PassedIn(b, x) = {x} \cup PassedIn(b, b[x].expected)
<1> DEFINE a == b[x].expected
<1>1. PassedIn(b, a) \in TracesIn(b, a) /\ PassedIn(b, x) \in TracesIn(b, x)
    BY PassedIsTrace
<1>2. {x} \cup PassedIn(b, a) \in TracesIn(b, x)
    BY <1>1 DEF TracesIn
<1>3. a \in PassedIn(b, x) /\ x \in PassedIn(b, x)
    BY <1>1 DEF TracesIn
<1>4. PassedIn(b, a) \subseteq PassedIn(b, x)
    BY <1>3, PassedOfPassed
<1>5. QED
    BY <1>2, <1>3, <1>4, PassedIsLeast

LEMMA WayOfWay ==
    ASSUME NEW b, NEW a \in SUBSET Indices, NEW y \in WayIn(b, a),
           \A z \in Indices : b[z].expected \in Indices \cup {NoIndex}
    PROVE  PassedIn(b, y) \subseteq WayIn(b, a)
<1>1. CASE y = NoIndex
    <2>1. {NoIndex} \in TracesIn(b, NoIndex)
        BY DEF TracesIn
    <2>2. QED
        BY <1>1, <2>1, PassedIsLeast DEF WayIn
<1>2. CASE y # NoIndex
    <2>1. PICK x \in a : y \in PassedIn(b, x)
        BY <1>2 DEF WayIn
    <2>2. PassedIn(b, y) \subseteq PassedIn(b, x)
        BY <2>1, PassedOfPassed
    <2>3. QED
        BY <2>2 DEF WayIn
<1>3. QED
    BY <1>1, <1>2

-----------------------------------------------------------------------------
(* Search: a step moves one run, and takes nothing away that another one   *)
(* relies on.                                                              *)

\* Nothing of the indexes, the builds and the way of the alias is lost.
Grows ==
    /\ Whole \subseteq Whole'
    /\ \A x \in Indices : build[x].recorded => build'[x] = build[x]
    /\ WayIn(build, alias) \subseteq WayIn(build', alias')

Fits(run) == run \in RunRow /\ RunInv(run, Whole, build, WayIn(build, alias))

RunsKept ==
    /\ indexer' \in [Indexers -> RunRow]
    /\ \A w \in Indexers : RunInv(indexer'[w], Whole', build', WayIn(build', alias'))

Indexed == <<index, alias, build, active>>

LEMMA RunKept ==
    ASSUME NEW r \in RunRow, NEW b, NEW c, NEW whole, NEW more, NEW passed, NEW further,
           RunInv(r, whole, b, passed), whole \subseteq more, passed \subseteq further,
           \A x \in Indices : b[x].recorded => c[x] = b[x]
    PROVE  RunInv(r, more, c, further)
<1>1. r.at \in {"activates", "looks", "switches", "verifies", "marks"} =>
         c[r.target].recorded /\ c[r.target].expected = r.expected
    BY DEF RunInv
<1>2. QED
    BY <1>1 DEF RunInv

LEMMA RunMoves ==
    ASSUME SearchInv, Grows, NEW w \in Indexers, NEW run \in RunRow, indexer' = [indexer EXCEPT ![w] = run],
           RunInv(run, Whole', build', WayIn(build', alias'))
    PROVE  RunsKept
<1>1. indexer \in [Indexers -> RunRow]
    BY DEF SearchInv, SearchTypes
<1>2. ASSUME NEW v \in Indexers
      PROVE  RunInv(indexer'[v], Whole', build', WayIn(build', alias'))
    <2>1. CASE v = w
        BY <1>1, <2>1
    <2>2. CASE v # w
        <3>1. indexer'[v] = indexer[v] /\ indexer[v] \in RunRow
            BY <1>1, <2>2
        <3>2. RunInv(indexer[v], Whole, build, WayIn(build, alias))
            BY DEF SearchInv
        <3>3. RunInv(indexer[v], Whole', build', WayIn(build', alias'))
            BY <3>1, <3>2, RunKept DEF Grows
        <3>4. QED
            BY <3>1, <3>3
    <2>3. QED
        BY <2>1, <2>2
<1>3. QED
    BY <1>1, <1>2 DEF RunsKept

LEMMA IdleRun == Fits(NoRun) /\ \A whole, b, passed : RunInv(NoRun, whole, b, passed)
<1>1. NoRun \in RunRow
    BY DEF NoRun, RunRow, NoDocuments
<1>2. NoRun.at = "idle"
    BY DEF NoRun
<1>3. QED
    BY <1>1, <1>2 DEF Fits, RunInv

\* A step that changes none of what is indexed
LEMMA OnlyTheRun ==
    ASSUME SearchInv, UNCHANGED Indexed, version' \in [Items -> Nat \ {0}], NEW w \in Indexers, NEW run,
           indexer' = [indexer EXCEPT ![w] = run], Fits(run)
    PROVE  SearchInv'
<1>1. Whole' = Whole /\ build' = build /\ WayIn(build', alias') = WayIn(build, alias)
    BY DEF Indexed, Whole
<1>2. Grows
    BY <1>1 DEF Grows
<1>3. RunsKept
    BY <1>1, <1>2, RunMoves DEF Fits
<1>4. QED
    BY <1>1, <1>3 DEF SearchInv, SearchTypes, TraceInv, RunsKept, Indexed

LEMMA TheRun ==
    ASSUME SearchInv, NEW w \in Indexers
    PROVE  indexer[w] \in RunRow /\ RunInv(indexer[w], Whole, build, WayIn(build, alias))
BY DEF SearchInv, SearchTypes

LEMMA ItemChangesKeeps == ASSUME SearchInv, NEW i \in Items, ItemChanges(i) PROVE SearchInv'
<1>1. version' \in [Items -> Nat \ {0}]
    BY DEF ItemChanges, SearchInv, SearchTypes
<1>2. Whole' = Whole /\ build' = build /\ WayIn(build', alias') = WayIn(build, alias)
    BY DEF ItemChanges, Whole
<1>3. QED
    BY <1>1, <1>2 DEF ItemChanges, SearchInv, SearchTypes, TraceInv

LEMMA StopsKeeps ==
    ASSUME SearchInv, NEW w \in Indexers, Stops(w), UNCHANGED Indexed, UNCHANGED version
    PROVE  SearchInv'
BY OnlyTheRun, IdleRun DEF Stops, SearchInv, SearchTypes

LEMMA StartsKeeps == ASSUME SearchInv, NEW w \in Indexers, Starts(w) PROVE SearchInv'
<1>1. NoRun \in RunRow
    BY IdleRun DEF Fits
<1>2. ASSUME NEW r \in RunRow, r.key # NoIndex \/ r.target \in Indices, Begins(w, r)
      PROVE  SearchInv'
    <2> DEFINE flag == \E v \in Indexers : indexer[v].crowded
               run == [r EXCEPT !.at = "starts", !.crowded = flag]
    <2>1. flag \in BOOLEAN
        OBVIOUS
    <2> HIDE DEF flag
    <2>2. run \in RunRow /\ run.at = "starts" /\ run.key = r.key /\ run.target = r.target
        BY <2>1 DEF RunRow
    <2> HIDE DEF run
    <2>3. Fits(run)
        BY <1>2, <2>2 DEF Fits, RunInv
    <2>4. indexer' = [indexer EXCEPT ![w] = run]
        BY <1>2 DEF Begins, run, flag
    <2>5. QED
        BY <2>3, <2>4, OnlyTheRun DEF Starts, Indexed, SearchInv, SearchTypes
<1>3. ASSUME NEW s \in Reindexes, Begins(w, [NoRun EXCEPT !.target = s.target, !.expected = s.expected])
      PROVE  SearchInv'
    <2>1. s.target \in Indices /\ s.expected \in Indices \cup {NoIndex}
        BY SearchConstants
    <2>2. [NoRun EXCEPT !.target = s.target, !.expected = s.expected] \in RunRow
        BY <1>1, <2>1 DEF RunRow
    <2>3. [NoRun EXCEPT !.target = s.target, !.expected = s.expected].target = s.target
        BY <1>1 DEF RunRow
    <2>4. QED
        BY <1>2, <1>3, <2>1, <2>2, <2>3
<1>4. ASSUME NEW k \in TaskKeys, Begins(w, [NoRun EXCEPT !.key = k])
      PROVE  SearchInv'
    <2>1. [NoRun EXCEPT !.key = k] \in RunRow /\ [NoRun EXCEPT !.key = k].key = k
        BY <1>1 DEF RunRow
    <2>2. QED
        BY <1>2, <1>4, <2>1, SearchConstants
<1>5. QED
    BY <1>3, <1>4 DEF Starts

LEMMA BreaksKeeps == ASSUME SearchInv, NEW w \in Indexers, Breaks(w) PROVE SearchInv'
BY StopsKeeps DEF Breaks, Indexed

LEMMA LosesLockKeeps == ASSUME SearchInv, NEW w \in Indexers, LosesLock(w) PROVE SearchInv'
<1> DEFINE run == [indexer[w] EXCEPT !.crowded = TRUE]
<1>1. indexer[w] \in RunRow /\ RunInv(indexer[w], Whole, build, WayIn(build, alias))
    BY TheRun
<1>2. run \in RunRow
    BY <1>1 DEF RunRow
<1>3. /\ run.at = indexer[w].at /\ run.target = indexer[w].target /\ run.expected = indexer[w].expected
      /\ run.key = indexer[w].key /\ run.docs = indexer[w].docs
    BY <1>1 DEF RunRow
<1>4. indexer' = [indexer EXCEPT ![w] = run]
    BY DEF LosesLock
<1> HIDE DEF run
<1>5. Fits(run)
    BY <1>1, <1>2, <1>3 DEF Fits, RunInv
<1>6. QED
    BY <1>4, <1>5, OnlyTheRun DEF LosesLock, Indexed, SearchInv, SearchTypes

\* A run goes on to its next request, or stops.
LEMMA GoesOnKeeps ==
    ASSUME SearchInv, UNCHANGED Indexed, UNCHANGED version, NEW w \in Indexers, indexer[w] \in RunRow,
           NEW at \in {"looks", "switches", "verifies", "marks", "compares", "records"}, GoesOn(w, at),
           RunInv([indexer[w] EXCEPT !.at = at], Whole, build, WayIn(build, alias))
    PROVE  SearchInv'
<1> DEFINE run == [indexer[w] EXCEPT !.at = at]
<1>1. run \in RunRow
    BY DEF RunRow
<1>2. indexer' = [indexer EXCEPT ![w] = run]
    BY DEF GoesOn, Turns
<1>3. Fits(run)
    BY <1>1 DEF Fits
<1> HIDE DEF run
<1>4. QED
    BY <1>2, <1>3, OnlyTheRun DEF SearchInv, SearchTypes

LEMMA ReadsKeeps == ASSUME SearchInv, NEW w \in Indexers, Reads(w) PROVE SearchInv'
<1> DEFINE run == [indexer[w] EXCEPT !.at = "writes", !.docs = version]
<1>1. indexer[w] \in RunRow /\ RunInv(indexer[w], Whole, build, WayIn(build, alias))
    BY TheRun
<1>2. version \in [Items -> Nat \ {0}]
    BY DEF SearchInv, SearchTypes
<1>3. version \in [Items -> Nat] /\ \A i \in Items : version[i] > 0
    BY <1>2
<1>4. run \in RunRow /\ run.at = "writes" /\ run.docs = version /\ run.target = indexer[w].target
    BY <1>1, <1>3 DEF RunRow
<1>5. indexer' = [indexer EXCEPT ![w] = run]
    BY DEF Reads, Turns
<1> HIDE DEF run
<1>6. Fits(run)
    BY <1>1, <1>3, <1>4 DEF Reads, Fits, RunInv
<1>7. QED
    BY <1>2, <1>5, <1>6, OnlyTheRun DEF Reads, Indexed

LEMMA ReadsItemsKeeps == ASSUME SearchInv, NEW w \in Indexers, ReadsItems(w) PROVE SearchInv'
<1> DEFINE now == [i \in Items |-> IF i \in Touched[indexer[w].key] THEN version[i] ELSE 0]
<1>1. indexer[w] \in RunRow
    BY TheRun
<1>2. version \in [Items -> Nat \ {0}]
    BY DEF SearchInv, SearchTypes
<1>3. indexer[w].key \in TaskKeys
    BY <1>1 DEF ReadsItems, RunRow
<1>4. now \in [Items -> Nat] /\ \A i \in Touched[indexer[w].key] : now[i] > 0
    BY <1>2, <1>3, SearchConstants
<1>5. CASE Stops(w)
    BY <1>5, StopsKeeps DEF ReadsItems, Indexed
<1>6. ASSUME NEW x \in Indices, Turns(w, [indexer[w] EXCEPT !.at = "resolves", !.target = x, !.docs = now])
      PROVE  SearchInv'
    <2> HIDE DEF now
    <2> DEFINE run == [indexer[w] EXCEPT !.at = "resolves", !.target = x, !.docs = now]
    <2>1. run \in RunRow /\ run.at = "resolves" /\ run.docs = now /\ run.key = indexer[w].key
        BY <1>1, <1>4, <1>6 DEF RunRow
    <2>2. indexer' = [indexer EXCEPT ![w] = run]
        BY <1>6 DEF Turns
    <2> HIDE DEF run
    <2>3. Fits(run)
        BY <1>3, <1>4, <2>1 DEF Fits, RunInv
    <2>4. QED
        BY <1>2, <2>2, <2>3, OnlyTheRun DEF ReadsItems, Indexed
<1>7. QED
    BY <1>5, <1>6 DEF ReadsItems

LEMMA ResolvesKeeps == ASSUME SearchInv, NEW w \in Indexers, Resolves(w) PROVE SearchInv'
<1>1. indexer[w] \in RunRow /\ RunInv(indexer[w], Whole, build, WayIn(build, alias))
    BY TheRun
<1>2. CASE Stops(w)
    BY <1>2, StopsKeeps DEF Resolves, Indexed
<1>3. ASSUME NEW x \in Indices, Turns(w, [indexer[w] EXCEPT !.at = "changes", !.expected = x])
      PROVE  SearchInv'
    <2> DEFINE run == [indexer[w] EXCEPT !.at = "changes", !.expected = x]
    <2>1. /\ run \in RunRow /\ run.at = "changes" /\ run.expected = x
          /\ run.docs = indexer[w].docs /\ run.key = indexer[w].key
        BY <1>1, <1>3 DEF RunRow
    <2>2. indexer' = [indexer EXCEPT ![w] = run]
        BY <1>3 DEF Turns
    <2> HIDE DEF run
    <2>3. Fits(run)
        BY <1>1, <2>1 DEF Fits, RunInv, Resolves
    <2>4. QED
        BY <2>2, <2>3, OnlyTheRun DEF Resolves, Indexed, SearchInv, SearchTypes
<1>4. QED
    BY <1>2, <1>3 DEF Resolves

LEMMA ComparesKeeps == ASSUME SearchInv, NEW w \in Indexers, Compares(w) PROVE SearchInv'
<1>1. indexer[w] \in RunRow
    BY TheRun
<1>2. CASE Stops(w)
    BY <1>2, StopsKeeps DEF Compares, Indexed
<1>3. CASE GoesOn(w, "records")
    <2>1. [indexer[w] EXCEPT !.at = "records"].at = "records"
        BY <1>1 DEF RunRow
    <2>2. RunInv([indexer[w] EXCEPT !.at = "records"], Whole, build, WayIn(build, alias))
        BY <2>1 DEF RunInv
    <2>3. QED
        BY <1>1, <1>3, <2>2, GoesOnKeeps DEF Compares, Indexed
<1>4. QED
    BY <1>2, <1>3 DEF Compares

LEMMA RecordsKeeps == ASSUME SearchInv, NEW w \in Indexers, Records(w) PROVE SearchInv'
BY StopsKeeps DEF Records, Indexed

\* The alias came to its own targets last.
LEMMA AliasPassed == ASSUME NEW x \in Indices, x \in alias PROVE x \in WayIn(build, alias)
BY DEF PassedIn, TracesIn, WayIn

LEMMA SoleTarget == \A x \in Indices : Sole(x) = {x}
BY SearchConstants DEF Sole

LEMMA SoleNone == Sole(NoIndex) = {}
BY DEF Sole

LEMMA DecidesKeeps == ASSUME SearchInv, NEW w \in Indexers, Decides(w) PROVE SearchInv'
<1> DEFINE r == indexer[w]
           x == Target(w)
<1>1. r \in RunRow /\ RunInv(r, Whole, build, WayIn(build, alias))
    BY TheRun
<1>2. x \in Indices /\ x = r.target
    BY <1>1 DEF Decides, Target, RunInv
<1>3. version \in [Items -> Nat \ {0}]
    BY DEF SearchInv, SearchTypes
<1>4. CASE Stops(w) /\ UNCHANGED index
    BY <1>4, StopsKeeps DEF Decides, Indexed
<1>5. CASE alias = {x} /\ Built(w) /\ SameBuild(w) /\ GoesOn(w, "marks") /\ UNCHANGED index
    <2> DEFINE run == [r EXCEPT !.at = "marks"]
    <2>1. run \in RunRow /\ run.at = "marks" /\ run.target = x /\ run.expected = r.expected
        BY <1>1, <1>2 DEF RunRow
    <2>2. indexer' = [indexer EXCEPT ![w] = run]
        BY <1>5 DEF GoesOn, Turns
    <2> HIDE DEF run
    <2>3. Fits(run)
        BY <1>2, <1>5, <2>1, AliasPassed DEF Fits, RunInv, Built, SameBuild, Target
    <2>4. QED
        BY <1>3, <1>5, <2>2, <2>3, OnlyTheRun DEF Decides, Indexed
<1>6. CASE /\ Built(w) /\ SameBuild(w) /\ UNCHANGED index
           /\ Turns(w, [r EXCEPT !.at = "activates", !.resumed = TRUE])
    <2> DEFINE run == [r EXCEPT !.at = "activates", !.resumed = TRUE]
    <2>1. run \in RunRow /\ run.at = "activates" /\ run.target = x /\ run.expected = r.expected
        BY <1>1, <1>2 DEF RunRow
    <2>2. indexer' = [indexer EXCEPT ![w] = run]
        BY <1>6 DEF Turns
    <2> HIDE DEF run
    <2>3. Fits(run)
        BY <1>2, <1>6, <2>1 DEF Fits, RunInv, Built, SameBuild, Target
    <2>4. QED
        BY <1>3, <1>6, <2>2, <2>3, OnlyTheRun DEF Decides, Indexed
<1>7. CASE index' = [index EXCEPT ![x].there = TRUE] /\ GoesOn(w, "reads")
    <2> DEFINE run == [r EXCEPT !.at = "reads"]
    <2>1. run \in RunRow /\ run.at = "reads" /\ run.target = x
        BY <1>1, <1>2 DEF RunRow
    <2>2. indexer' = [indexer EXCEPT ![w] = run]
        BY <1>7 DEF GoesOn, Turns
    <2> HIDE DEF run
    <2>3. RunInv(run, Whole', build', WayIn(build', alias'))
        BY <1>2, <2>1 DEF RunInv
    <2>4. index \in [Indices -> [there : BOOLEAN, docs : [Items -> Nat]]]
        BY DEF SearchInv, SearchTypes
    <2>5. /\ index' \in [Indices -> [there : BOOLEAN, docs : [Items -> Nat]]]
          /\ \A y \in Indices : index'[y].docs = index[y].docs
        BY <1>2, <1>7, <2>4
    <2>6. Whole' = Whole /\ UNCHANGED <<version, alias, build, active>>
        BY <2>5 DEF Whole, Decides
    <2>7. RunsKept
        BY <2>1, <2>2, <2>3, <2>6, RunMoves DEF Grows
    <2>8. QED
        BY <2>5, <2>6, <2>7 DEF SearchInv, SearchTypes, TraceInv, RunsKept
<1>8. QED
    BY <1>4, <1>5, <1>6, <1>7 DEF Decides

LEMMA MarksKeeps == ASSUME SearchInv, NEW w \in Indexers, Marks(w) PROVE SearchInv'
<1>1. indexer[w] \in RunRow /\ RunInv(indexer[w], Whole, build, WayIn(build, alias))
    BY TheRun
<1>2. Target(w) \in Indices /\ Target(w) \in WayIn(build, alias)
    BY <1>1 DEF Marks, RunInv, Target
<1>3. active' \in Indices \cup {NoIndex} /\ active' \in WayIn(build, alias)
    BY <1>2 DEF Marks, SearchInv, SearchTypes, TraceInv
<1>4. UNCHANGED <<version, index, alias, build>>
    BY DEF Marks
<1>5. Whole' = Whole
    BY <1>4 DEF Whole
<1>6. RunsKept
    BY <1>4, <1>5, RunMoves, IdleRun DEF Marks, Stops, Grows, Fits
<1>7. QED
    BY <1>3, <1>4, <1>5, <1>6 DEF SearchInv, SearchTypes, TraceInv, RunsKept

\* A bulk request writes documents of items that are there or leaves what was.
LEMMA DocsWritten ==
    ASSUME SearchInv, NEW x \in Indices, NEW docs \in [Items -> Nat], NEW done,
           \A i \in Items : i \in done => docs[i] > 0,
           index' = [index EXCEPT ![x].docs = Applied(@, docs, done)]
    PROVE  /\ index' \in [Indices -> [there : BOOLEAN, docs : [Items -> Nat]]]
           /\ Whole \subseteq Whole'
           /\ Items \subseteq done => x \in Whole'
<1> DEFINE new == Applied(index[x].docs, docs, done)
<1>1. index \in [Indices -> [there : BOOLEAN, docs : [Items -> Nat]]]
    BY DEF SearchInv, SearchTypes
<1>2. new \in [Items -> Nat] /\ \A i \in Items : new[i] = IF i \in done THEN docs[i] ELSE index[x].docs[i]
    BY <1>1 DEF Applied
<1>3. index' = [index EXCEPT ![x].docs = new]
    OBVIOUS
<1> HIDE DEF new
<1>4. index' \in [Indices -> [there : BOOLEAN, docs : [Items -> Nat]]]
    BY <1>1, <1>2, <1>3
<1>5. \A y \in Indices : index'[y].docs = IF y = x THEN new ELSE index[y].docs
    BY <1>1, <1>3
<1>6. ASSUME NEW y \in Whole
      PROVE  y \in Whole'
    BY <1>2, <1>5 DEF Whole
<1>7. ASSUME Items \subseteq done
      PROVE  x \in Whole'
    BY <1>2, <1>5, <1>7 DEF Whole
<1>8. QED
    BY <1>4, <1>6, <1>7

\* A step that only writes documents
LEMMA OnlyDocuments ==
    ASSUME SearchInv, UNCHANGED <<version, alias, build, active>>, NEW w \in Indexers, NEW run \in RunRow,
           index' \in [Indices -> [there : BOOLEAN, docs : [Items -> Nat]]], Whole \subseteq Whole',
           indexer' = [indexer EXCEPT ![w] = run], RunInv(run, Whole', build, WayIn(build, alias))
    PROVE  SearchInv'
<1>1. RunsKept
    BY RunMoves DEF Grows
<1>2. \A x \in Indices : build'[x].recorded => x \in Whole'
    BY DEF SearchInv
<1>3. QED
    BY <1>1, <1>2 DEF SearchInv, SearchTypes, TraceInv, RunsKept

LEMMA WritesKeeps == ASSUME SearchInv, NEW w \in Indexers, Writes(w) PROVE SearchInv'
<1> DEFINE r == indexer[w]
           x == Target(w)
           run == [r EXCEPT !.at = "counts"]
           absent == {i \in Items : ~ Online(r.docs[i])}
<1>1. r \in RunRow /\ RunInv(r, Whole, build, WayIn(build, alias))
    BY TheRun
<1>2. x \in Indices /\ r.docs \in [Items -> Nat] /\ \A i \in Items : r.docs[i] > 0
    BY <1>1 DEF Writes, Target, RunInv, RunRow
<1>3. run \in RunRow /\ run.at = "counts" /\ run.target = x
    BY <1>1 DEF RunRow, Target
<1>4. PICK done \in SUBSET {i \in Items : Online(r.docs[i])} :
         /\ index' = [index EXCEPT ![x].docs = Applied(@, r.docs, done \cup absent)]
         /\ IF done \cup absent = Items THEN GoesOn(w, "counts") ELSE Stops(w)
    BY DEF Writes
<1>5. /\ index' \in [Indices -> [there : BOOLEAN, docs : [Items -> Nat]]]
      /\ Whole \subseteq Whole'
      /\ Items \subseteq done \cup absent => x \in Whole'
    BY <1>2, <1>4, DocsWritten
<1>6. CASE done \cup absent = Items
    <2>1. indexer' = [indexer EXCEPT ![w] = run]
        BY <1>4, <1>6 DEF GoesOn, Turns
    <2> HIDE DEF run
    <2>2. RunInv(run, Whole', build, WayIn(build, alias))
        BY <1>2, <1>3, <1>5, <1>6 DEF RunInv
    <2>3. QED
        BY <1>3, <1>5, <2>1, <2>2, OnlyDocuments DEF Writes
<1>7. CASE done \cup absent # Items
    BY <1>4, <1>5, <1>7, IdleRun, OnlyDocuments DEF Writes, Stops, Fits
<1>8. QED
    BY <1>6, <1>7

\* The request goes to the index that was found, wherever the alias points by now.
LEMMA ChangesKeeps == ASSUME SearchInv, NEW w \in Indexers, Changes(w) PROVE SearchInv'
<1> DEFINE r == indexer[w]
           touched == Touched[r.key]
           run == [r EXCEPT !.at = "compares"]
<1>1. r \in RunRow /\ RunInv(r, Whole, build, WayIn(build, alias))
    BY TheRun
<1>2. r.expected \in Indices /\ r.docs \in [Items -> Nat] /\ \A i \in touched : r.docs[i] > 0
    BY <1>1 DEF Changes, RunInv, RunRow
<1>3. run \in RunRow /\ run.at = "compares"
    BY <1>1 DEF RunRow
<1>4. PICK done \in SUBSET touched :
         /\ index' = [index EXCEPT ![r.expected].docs = Applied(@, r.docs, done)]
         /\ IF done = touched THEN GoesOn(w, "compares") ELSE Stops(w)
    BY DEF Changes
<1>5. index' \in [Indices -> [there : BOOLEAN, docs : [Items -> Nat]]] /\ Whole \subseteq Whole'
    BY <1>2, <1>4, DocsWritten
<1>6. CASE done = touched
    <2>1. indexer' = [indexer EXCEPT ![w] = run]
        BY <1>4, <1>6 DEF GoesOn, Turns
    <2> HIDE DEF run
    <2>2. RunInv(run, Whole', build, WayIn(build, alias))
        BY <1>3 DEF RunInv
    <2>3. QED
        BY <1>3, <1>5, <2>1, <2>2, OnlyDocuments DEF Changes
<1>7. CASE done # touched
    BY <1>4, <1>5, <1>7, IdleRun, OnlyDocuments DEF Changes, Stops, Fits
<1>8. QED
    BY <1>6, <1>7

\* A build is recorded of an index that has none, so that no way of an alias changes.
LEMMA CountsKeeps == ASSUME SearchInv, NEW w \in Indexers, Counts(w) PROVE SearchInv'
<1> DEFINE r == indexer[w]
           x == Target(w)
           run == [r EXCEPT !.at = "activates"]
           row == [recorded |-> TRUE, expected |-> r.expected, docs |-> r.docs]
<1>1. r \in RunRow /\ RunInv(r, Whole, build, WayIn(build, alias))
    BY TheRun
<1>2. x \in Indices /\ x \in Whole
    BY <1>1 DEF Counts, Target, RunInv
<1>3. CASE Stops(w) /\ UNCHANGED build
    BY <1>3, StopsKeeps DEF Counts, Indexed
<1>4. CASE ~ build[x].recorded /\ build' = [build EXCEPT ![x] = row] /\ GoesOn(w, "activates")
    <2>1. UNCHANGED <<version, index, alias, active>> /\ Whole' = Whole
        BY DEF Counts, Whole
    <2>2. build \in [Indices -> [recorded : BOOLEAN, expected : Indices \cup {NoIndex}, docs : [Items -> Nat]]]
        BY DEF SearchInv, SearchTypes
    <2>3. /\ build' \in [Indices -> [recorded : BOOLEAN, expected : Indices \cup {NoIndex}, docs : [Items -> Nat]]]
          /\ \A y \in Indices : build'[y] = IF y = x THEN row ELSE build[y]
        BY <1>1, <1>2, <1>4, <2>2 DEF RunRow
    <2>4. ASSUME NEW a \in Indices \cup {NoIndex}, \A y \in PassedIn(build, a) : y = NoIndex \/ build[y].recorded
          PROVE  PassedIn(build', a) = PassedIn(build, a)
        <3>1. ASSUME NEW y \in PassedIn(build, a) \ {NoIndex}
              PROVE  build'[y].expected = build[y].expected
            <4>1. y \in Indices /\ build[y].recorded
                BY <2>4 DEF PassedIn
            <4>2. QED
                BY <1>4, <2>3, <4>1
        <3>2. \A y \in Indices : build[y].expected \in Indices \cup {NoIndex}
            BY <2>2
        <3>3. \A y \in Indices : build'[y].expected \in Indices \cup {NoIndex}
            BY <2>3
        <3> HIDE DEF row
        <3>4. QED
            BY <3>1, <3>2, <3>3, PassedAgree
    <2>5. \A x0 \in alias : PassedIn(build', x0) = PassedIn(build, x0)
        <3>1. \A x0 \in alias : x0 \in Indices \cup {NoIndex} /\ PassedIn(build, x0) \subseteq WayIn(build, alias)
            BY DEF WayIn, SearchInv, SearchTypes
        <3>2. QED
            BY <2>4, <3>1 DEF SearchInv, TraceInv
    <2>6. WayIn(build', alias') = WayIn(build, alias)
        BY <2>1, <2>5 DEF WayIn
    <2>16. ASSUME NEW y \in WayIn(build, alias)
          PROVE  /\ NoIndex \in PassedIn(build', y)
                 /\ y = NoIndex \/ build'[y].recorded
        <3>1. y \in Indices \cup {NoIndex} /\ NoIndex \in PassedIn(build, y) /\ (y = NoIndex \/ build[y].recorded)
            BY DEF SearchInv, TraceInv, PassedIn, WayIn
        <3>2. alias \subseteq Indices /\ \A z \in Indices : build[z].expected \in Indices \cup {NoIndex}
            BY <2>2 DEF SearchInv, SearchTypes
        <3>3. PassedIn(build, y) \subseteq WayIn(build, alias)
            BY <3>2, WayOfWay
        <3>4. PassedIn(build', y) = PassedIn(build, y)
            BY <2>4, <3>1, <3>3 DEF SearchInv, TraceInv
        <3>5. QED
            BY <2>3, <3>1, <3>4
    <2>7. TraceInv(build', alias', active')
        BY <2>1, <2>6, <2>16 DEF TraceInv, SearchInv
    <2>8. \A y \in Indices : build'[y].recorded => y \in Whole'
        BY <1>2, <2>1, <2>3 DEF SearchInv
    <2>9. Grows
        BY <1>4, <2>1, <2>3, <2>6 DEF Grows
    <2>10. run \in RunRow /\ run.at = "activates" /\ run.target = x /\ run.expected = r.expected
        BY <1>1 DEF RunRow, Target
    <2>11. indexer' = [indexer EXCEPT ![w] = run]
        BY <1>4 DEF GoesOn, Turns
    <2>12. build'[x].recorded /\ build'[x].expected = r.expected
        BY <1>2, <2>3
    <2> HIDE DEF run
    <2>13. RunInv(run, Whole', build', WayIn(build', alias'))
        BY <1>2, <2>10, <2>12 DEF RunInv
    <2>14. RunsKept
        BY <2>9, <2>10, <2>11, <2>13, RunMoves
    <2>15. QED
        BY <2>1, <2>3, <2>7, <2>8, <2>14 DEF SearchInv, SearchTypes, RunsKept
<1>5. QED
    BY <1>3, <1>4 DEF Counts

LEMMA ActivatesKeeps == ASSUME SearchInv, NEW w \in Indexers, Activates(w) PROVE SearchInv'
<1> DEFINE run == [indexer[w] EXCEPT !.at = "looks"]
<1>1. indexer[w] \in RunRow /\ RunInv(indexer[w], Whole, build, WayIn(build, alias))
    BY TheRun
<1>2. CASE Stops(w)
    BY <1>2, StopsKeeps DEF Activates, Indexed
<1>3. CASE GoesOn(w, "looks")
    <2>1. run.at = "looks" /\ run.target = indexer[w].target /\ run.expected = indexer[w].expected
        BY <1>1 DEF RunRow
    <2>2. RunInv(run, Whole, build, WayIn(build, alias))
        BY <1>1, <2>1 DEF RunInv, Activates
    <2>3. QED
        BY <1>1, <1>3, <2>2, GoesOnKeeps DEF Activates, Indexed
<1>4. QED
    BY <1>2, <1>3 DEF Activates

\* The alias is on what the run is to follow.
LEMMA LooksUpKeeps == ASSUME SearchInv, NEW w \in Indexers, LooksUp(w) PROVE SearchInv'
<1> DEFINE run == [indexer[w] EXCEPT !.at = "switches"]
<1>1. indexer[w] \in RunRow /\ RunInv(indexer[w], Whole, build, WayIn(build, alias))
    BY TheRun
<1>2. CASE Stops(w)
    BY <1>2, StopsKeeps DEF LooksUp, Indexed
<1>3. CASE GoesOn(w, "switches") /\ alias = Sole(indexer[w].expected)
    <2>1. run.at = "switches" /\ run.target = indexer[w].target /\ run.expected = indexer[w].expected
        BY <1>1 DEF RunRow
    <2>2. indexer[w].expected \in WayIn(build, alias)
        <3>1. CASE indexer[w].expected = NoIndex
            BY <3>1 DEF WayIn
        <3>2. CASE indexer[w].expected \in Indices
            BY <1>3, <3>2, SoleTarget, AliasPassed
        <3>3. QED
            BY <1>1, <3>1, <3>2 DEF RunRow
    <2>3. RunInv(run, Whole, build, WayIn(build, alias))
        BY <1>1, <2>1, <2>2 DEF RunInv, LooksUp
    <2>4. QED
        BY <1>1, <1>3, <2>3, GoesOnKeeps DEF LooksUp, Indexed
<1>4. QED
    BY <1>2, <1>3 DEF LooksUp

LEMMA VerifiesKeeps == ASSUME SearchInv, NEW w \in Indexers, Verifies(w) PROVE SearchInv'
<1> DEFINE run == [indexer[w] EXCEPT !.at = "marks"]
<1>1. indexer[w] \in RunRow /\ RunInv(indexer[w], Whole, build, WayIn(build, alias))
    BY TheRun
<1>2. CASE Stops(w)
    BY <1>2, StopsKeeps DEF Verifies, Indexed
<1>3. CASE GoesOn(w, "marks") /\ alias = {Target(w)}
    <2>1. run.at = "marks" /\ run.target = indexer[w].target /\ run.expected = indexer[w].expected
        BY <1>1 DEF RunRow
    <2>2. indexer[w].target \in Indices /\ indexer[w].target \in WayIn(build, alias)
        BY <1>1, <1>3, AliasPassed DEF RunInv, Verifies, Target
    <2>3. RunInv(run, Whole, build, WayIn(build, alias))
        BY <1>1, <2>1, <2>2 DEF RunInv, Verifies
    <2>4. QED
        BY <1>1, <1>3, <2>3, GoesOnKeeps DEF Verifies, Indexed
<1>4. QED
    BY <1>2, <1>3 DEF Verifies

\* The index that is switched to was built to follow the one that the alias is taken from, or was taken
\* from before: the way of all targets gets longer by this index.
LEMMA WayGetsLonger ==
    ASSUME SearchInv, NEW w \in Indexers, Switches(w)
    PROVE  /\ Target(w) \in Indices /\ build[Target(w)].recorded
           /\ WayIn(build, alias') = WayIn(build, alias) \cup {Target(w)}
           /\ PassedIn(build, Target(w)) \subseteq WayIn(build, alias')
<1> DEFINE x == Target(w)
           e == indexer[w].expected
<1>1. RunInv(indexer[w], Whole, build, WayIn(build, alias))
    BY TheRun
<1>2. /\ x \in Indices /\ build[x].recorded /\ build[x].expected = e
      /\ e \in WayIn(build, alias)
    BY <1>1 DEF RunInv, Target, Switches
<1>3. alias \subseteq Indices /\ \A y \in Indices : build[y].expected \in Indices \cup {NoIndex}
    BY DEF SearchInv, SearchTypes
<1>4. PassedIn(build, x) = {x} \cup PassedIn(build, e)
    BY <1>2, <1>3, PassedNext, SearchConstants
<1>5. PassedIn(build, e) \subseteq WayIn(build, alias)
    BY <1>2, <1>3, WayOfWay
<1>6. alias' = (alias \ {e}) \cup {x}
    BY DEF Switches
<1> HIDE DEF x, e
<1>7. WayIn(build, alias') \subseteq WayIn(build, alias) \cup {x}
    BY <1>4, <1>5, <1>6 DEF WayIn
<1>8. WayIn(build, alias) \subseteq WayIn(build, alias')
    BY <1>4, <1>6 DEF WayIn
<1>9. PassedIn(build, x) \subseteq WayIn(build, alias')
    BY <1>6 DEF WayIn
<1>10. QED
    BY <1>2, <1>4, <1>7, <1>8, <1>9 DEF x

LEMMA SwitchesKeeps == ASSUME SearchInv, NEW w \in Indexers, Switches(w) PROVE SearchInv'
<1> DEFINE r == indexer[w]
           x == Target(w)
           run == [r EXCEPT !.at = "verifies"]
<1>1. r \in RunRow /\ RunInv(r, Whole, build, WayIn(build, alias))
    BY TheRun
<1>2. /\ x \in Indices /\ build[x].recorded
      /\ WayIn(build, alias') = WayIn(build, alias) \cup {x}
      /\ PassedIn(build, x) \subseteq WayIn(build, alias')
    BY WayGetsLonger
<1>3. UNCHANGED <<version, index, build, active>> /\ Whole' = Whole
    BY DEF Switches, Whole
<1>4. run \in RunRow /\ run.at = "verifies" /\ run.target = x /\ run.expected = r.expected
    BY <1>1 DEF RunRow, Target
<1>5. indexer' = [indexer EXCEPT ![w] = run]
    BY DEF Switches, GoesOn, Turns
<1> HIDE DEF run
<1>6. build[x].expected = r.expected
    BY <1>1 DEF RunInv, Target, Switches
<1>7. RunInv(run, Whole', build', WayIn(build', alias'))
    BY <1>2, <1>3, <1>4, <1>6 DEF RunInv
<1>8. RunsKept
    BY <1>2, <1>3, <1>4, <1>5, <1>7, RunMoves DEF Grows
<1>9. NoIndex \in PassedIn(build, x)
    <2>1. \A y \in Indices : build[y].expected \in Indices \cup {NoIndex}
        BY DEF SearchInv, SearchTypes
    <2>2. PassedIn(build, x) = {x} \cup PassedIn(build, r.expected)
        BY <1>2, <1>6, <2>1, PassedNext, SearchConstants
    <2>3. r.expected \in WayIn(build, alias)
        BY <1>1 DEF RunInv, Switches
    <2>4. QED
        BY <2>2, <2>3 DEF SearchInv, TraceInv
<1>10. TraceInv(build', alias', active')
    BY <1>2, <1>3, <1>9 DEF SearchInv, TraceInv
<1>11. alias' \subseteq Indices
    BY <1>2 DEF Switches, SearchInv, SearchTypes
<1>12. QED
    BY <1>3, <1>8, <1>10, <1>11 DEF SearchInv, SearchTypes, RunsKept

LEMMA SearchInvInit == SearchInit => SearchInv
<1> SUFFICES ASSUME SearchInit PROVE SearchInv
    OBVIOUS
<1>1. SearchTypes
    <2>1. NoDocuments \in [Items -> Nat]
        BY DEF NoDocuments
    <2>2. NoBuild \in [recorded : BOOLEAN, expected : Indices \cup {NoIndex}, docs : [Items -> Nat]]
        BY <2>1 DEF NoBuild
    <2>3. QED
        BY <2>1, <2>2, IdleRun DEF SearchInit, SearchTypes, Fits
<1>2. \A x \in Indices : ~ build[x].recorded
    BY DEF SearchInit, NoBuild
<1>3. PassedIn(build, NoIndex) = {NoIndex}
    BY DEF PassedIn, TracesIn
<1>4. TraceInv(build, alias, active)
    BY <1>3 DEF SearchInit, TraceInv, WayIn
<1>5. \A w \in Indexers : RunInv(indexer[w], Whole, build, WayIn(build, alias))
    BY IdleRun DEF SearchInit
<1>6. QED
    BY <1>1, <1>2, <1>4, <1>5 DEF SearchInv

LEMMA SearchInvNext == SearchInv /\ [SearchNext]_searchVars => SearchInv'
<1> SUFFICES ASSUME SearchInv, [SearchNext]_searchVars PROVE SearchInv'
    OBVIOUS
<1>1. CASE UNCHANGED searchVars
    <2>1. Whole' = Whole
        BY <1>1 DEF searchVars, Whole
    <2>2. QED
        BY <1>1, <2>1 DEF searchVars, SearchInv, SearchTypes, TraceInv
<1>2. CASE SearchNext
    BY <1>2, ItemChangesKeeps, StartsKeeps, BreaksKeeps, LosesLockKeeps, DecidesKeeps, ReadsKeeps, WritesKeeps,
       CountsKeeps, ActivatesKeeps, LooksUpKeeps, SwitchesKeeps, VerifiesKeeps, MarksKeeps, ReadsItemsKeeps,
       ResolvesKeeps, ChangesKeeps, ComparesKeeps, RecordsKeeps DEF SearchNext
<1>3. QED
    BY <1>1, <1>2

LEMMA SearchInvAlways == SearchSpec => []SearchInv
BY SearchInvInit, SearchInvNext, PTL DEF SearchSpec

\* A search never meets a half-built index, for any number of indexes, tasks and runs and
\* without the lock being needed: a run activates only what is recorded, and records only what it
\* wrote completely.
THEOREM SearchMeetsCompleteIndexes == SearchSpec => []AliasIsComplete
<1>1. SearchInv => AliasIsComplete
    BY AliasPassed, SearchConstants DEF SearchInv, SearchTypes, TraceInv, AliasIsComplete, Whole
<1>2. QED
    BY <1>1, SearchInvAlways, PTL

LEMMA PassedNow == \A x : Passed(x) = PassedIn(build, x)
BY DEF Passed, Traces, PassedIn, TracesIn

-----------------------------------------------------------------------------
(* What is served does not get older *)

LEMMA TheOne == \A a : \A x \in Indices : a = {x} => (CHOOSE y \in Indices : a = {y}) = x
OBVIOUS

LEMMA ServesOne ==
    ASSUME NEW x \in Indices, alias = {x}
    PROVE  \A i : Serves(i) = index[x].docs[i]
BY TheOne DEF Serves

LEMMA ServesNone ==
    ASSUME \A x \in Indices : alias # {x}
    PROVE  \A i : Serves(i) = 0
BY DEF Serves

\* Of a run: what it is going to write or to activate is not older than what is served.
News(r) ==
    /\ r.at \in {"reads", "writes", "counts"} => r.target \notin alias
    /\ r.at = "writes" => \A i \in Items : Serves(i) <= r.docs[i]
    /\ r.at = "counts" \/ (r.at \in {"activates", "looks", "switches"} /\ ~ r.resumed) =>
          \A i \in Items : Serves(i) <= index[r.target].docs[i]
    /\ r.at = "switches" => alias = Sole(r.expected)
    /\ r.at \in {"resolves", "changes"} => \A i \in Touched[r.key] : Serves(i) <= r.docs[i]

\* A run that has not lost the lock, nor began beside one that had, is the only one.
AloneInv(w) ==
    ~ indexer[w].crowded /\ indexer[w].at # "idle" =>
        /\ lock = w
        /\ \A v \in Indexers : v # w => indexer[v].at = "idle"
        /\ News(indexer[w])

PastInv ==
    /\ \A i \in Items : \A x \in Indices : index[x].docs[i] <= version[i]
    /\ \A i \in Items : \A w \in Indexers : indexer[w].docs[i] <= version[i]

NewsInv == SearchInv /\ PastInv /\ \A w \in Indexers : AloneInv(w)

Excused == \E w \in Indexers : indexer[w].crowded \/ (indexer[w].at = "switches" /\ indexer[w].resumed)

GoesForward == \A i \in Items : Serves(i)' < Serves(i) => Excused

NewsStep == NewsInv' /\ GoesForward

\* The documents that a step leaves in the indexes, and those its run has at hand
PastKept(run) ==
    /\ \A i \in Items : version[i] <= version'[i]
    /\ \A i \in Items : \A x \in Indices : index'[x].docs[i] <= version'[i]
    /\ \A i \in Items : run.docs[i] <= version'[i]

LEMMA NewsTypes ==
    ASSUME NewsInv
    PROVE  /\ version \in [Items -> Nat]
           /\ \A x \in Indices : index[x].docs \in [Items -> Nat]
           /\ indexer \in [Indexers -> RunRow] /\ \A w \in Indexers : indexer[w].docs \in [Items -> Nat]
           /\ \A i \in Items : Serves(i) \in Nat /\ Serves(i) <= version[i]
<1>1. SearchTypes
    BY DEF NewsInv, SearchInv
<1>2. /\ \A i \in Items : version[i] \in Nat
      /\ \A x \in Indices : index[x].docs \in [Items -> Nat]
      /\ indexer \in [Indexers -> RunRow]
    BY <1>1 DEF SearchTypes
<1>3. \A w \in Indexers : indexer[w].docs \in [Items -> Nat]
    BY <1>2 DEF RunRow
<1>4. ASSUME NEW i \in Items
      PROVE  Serves(i) \in Nat /\ Serves(i) <= version[i]
    <2>1. CASE \A x \in Indices : alias # {x}
        BY <1>2, <2>1, ServesNone
    <2>2. ASSUME NEW x \in Indices, alias = {x}
          PROVE  Serves(i) \in Nat /\ Serves(i) <= version[i]
        <3>1. index[x].docs[i] \in Nat /\ index[x].docs[i] <= version[i]
            BY <1>2 DEF NewsInv, PastInv
        <3>2. QED
            BY <2>2, <3>1, ServesOne
    <2>3. QED
        BY <2>1, <2>2
<1>5. version \in [Items -> Nat]
    BY <1>1 DEF SearchTypes
<1>6. QED
    BY <1>2, <1>3, <1>4, <1>5

\* A step of one run that is under way
LEMMA OneMoves ==
    ASSUME NewsInv, SearchInv', NEW w \in Indexers, indexer[w].at # "idle",
           NEW run \in RunRow, indexer' = [indexer EXCEPT ![w] = run], PastKept(run),
           run.at # "idle" /\ ~ run.crowded => ~ indexer[w].crowded /\ lock' = lock /\ News(run)'
    PROVE  NewsInv'
<1>1. indexer \in [Indexers -> RunRow]
    BY NewsTypes
<1>2. \A v \in Indexers : indexer'[v] = IF v = w THEN run ELSE indexer[v]
    BY <1>1
<1>3. PastInv'
    <2>1. ASSUME NEW i \in Items, NEW v \in Indexers
          PROVE  indexer'[v].docs[i] <= version'[i]
        <3>1. CASE v = w
            BY <1>2, <3>1 DEF PastKept
        <3>2. CASE v # w
            <4>1. indexer[v].docs[i] \in Nat /\ version[i] \in Nat /\ version'[i] \in Nat
                BY NewsTypes DEF SearchInv, SearchTypes
            <4>2. indexer[v].docs[i] <= version[i] /\ version[i] <= version'[i]
                BY DEF PastKept, NewsInv, PastInv
            <4>3. indexer[v].docs[i] <= version'[i]
                BY <4>1, <4>2
            <4>4. QED
                BY <1>2, <3>2, <4>3
        <3>3. QED
            BY <3>1, <3>2
    <2>2. QED
        BY <2>1 DEF PastInv, PastKept
<1>4. ASSUME NEW v \in Indexers
      PROVE  AloneInv(v)'
    <2>1. CASE v = w
        BY <1>2, <2>1 DEF AloneInv, NewsInv
    <2>2. CASE v # w
        BY <1>2, <2>2 DEF AloneInv, NewsInv
    <2>3. QED
        BY <2>1, <2>2
<1>5. QED
    BY <1>3, <1>4 DEF NewsInv

\* A step after which the same is served
LEMMA SameServed ==
    ASSUME NewsInv, \A i \in Items : Serves(i)' = Serves(i)
    PROVE  GoesForward
<1>1. \A i \in Items : Serves(i) \in Nat
    BY NewsTypes
<1>2. QED
    BY <1>1 DEF GoesForward

\* A run that has not changed what is indexed and goes on as "run"
LEMMA OnlyItMoves ==
    ASSUME NewsInv, SearchInv', NEW w \in Indexers, indexer[w].at # "idle",
           NEW run \in RunRow, indexer' = [indexer EXCEPT ![w] = run], UNCHANGED <<version, index, alias>>,
           \A i \in Items : run.docs[i] <= version[i],
           run.at # "idle" /\ ~ run.crowded => ~ indexer[w].crowded /\ lock' = lock /\ News(run)
    PROVE  NewsStep
<1>1. \A i : Serves(i)' = Serves(i)
    BY DEF Serves
<1>2. News(run) => News(run)'
    BY <1>1 DEF News
<1>3. PastKept(run)
    BY NewsTypes DEF PastKept, NewsInv, PastInv
<1>4. QED
    BY <1>1, <1>2, <1>3, OneMoves, SameServed DEF NewsStep

LEMMA ItStops ==
    ASSUME NewsInv, SearchInv', NEW w \in Indexers, indexer[w].at # "idle", Stops(w),
           UNCHANGED <<version, index, alias>>
    PROVE  NewsStep
<1>1. NoRun \in RunRow /\ NoRun.at = "idle"
    BY IdleRun DEF Fits, NoRun
<1>2. \A i \in Items : NoRun.docs[i] = 0
    BY DEF NoRun, NoDocuments
<1>3. \A i \in Items : NoRun.docs[i] <= version[i]
    BY <1>2, NewsTypes
<1>4. QED
    BY <1>1, <1>3, OnlyItMoves DEF Stops

\* The run goes on to its next request.
LEMMA ItGoesOn ==
    ASSUME NewsInv, SearchInv', NEW w \in Indexers, indexer[w].at # "idle",
           NEW at \in {"activates", "looks", "switches", "verifies", "marks", "compares", "records"}, GoesOn(w, at),
           UNCHANGED <<version, index, alias>>,
           ~ indexer[w].crowded => News([indexer[w] EXCEPT !.at = at])
    PROVE  NewsStep
<1> DEFINE run == [indexer[w] EXCEPT !.at = at]
<1>1. indexer[w] \in RunRow
    BY NewsTypes
<1>2. run \in RunRow /\ run.docs = indexer[w].docs /\ run.crowded = indexer[w].crowded
    BY <1>1 DEF RunRow
<1>3. indexer' = [indexer EXCEPT ![w] = run] /\ lock' = lock
    BY DEF GoesOn, Turns
<1>4. \A i \in Items : run.docs[i] <= version[i]
    BY <1>2 DEF NewsInv, PastInv
<1> HIDE DEF run
<1>5. ~ run.crowded => ~ indexer[w].crowded /\ News(run)
    BY <1>2 DEF run
<1>6. QED
    BY <1>2, <1>3, <1>4, <1>5, OnlyItMoves

LEMMA NewsItemChanges == ASSUME NewsInv, SearchInv', NEW i \in Items, ItemChanges(i) PROVE NewsStep
<1>1. /\ UNCHANGED <<index, alias, indexer, lock>> /\ version' = [version EXCEPT ![i] = @ + 1]
      /\ version \in [Items -> Nat]
    BY NewsTypes DEF ItemChanges
<1>2. \A k \in Items : version[k] \in Nat /\ version'[k] \in Nat /\ version[k] <= version'[k]
    BY <1>1
<1>3. PastInv'
    <2>1. ASSUME NEW k \in Items, NEW n \in Nat, n <= version[k]
          PROVE  n <= version'[k]
        BY <1>2, <2>1
    <2>2. QED
        BY <1>1, <2>1, NewsTypes DEF NewsInv, PastInv
<1>4. \A k : Serves(k)' = Serves(k)
    BY <1>1 DEF Serves
<1>5. \A w \in Indexers : AloneInv(w)'
    BY <1>1, <1>4 DEF NewsInv, AloneInv, News
<1>6. QED
    BY <1>3, <1>4, <1>5, SameServed DEF NewsStep, NewsInv

\* A run that finds the lock free is alone, or marked for those that have lost it.
LEMMA NewsStarts == ASSUME NewsInv, SearchInv', NEW w \in Indexers, Starts(w) PROVE NewsStep
<1>1. /\ lock = NoIndexer /\ lock' = w /\ indexer[w].at = "idle" /\ UNCHANGED <<version, index, alias>>
      /\ indexer \in [Indexers -> RunRow]
    BY NewsTypes DEF Starts, Free
<1> DEFINE flag == \E v \in Indexers : indexer[v].crowded
<1>2. PICK run \in RunRow :
         /\ indexer' = [indexer EXCEPT ![w] = run]
         /\ run.at = "starts" /\ run.crowded = flag /\ run.docs = NoDocuments
    <2>1. NoRun \in RunRow /\ NoRun.docs = NoDocuments
        BY IdleRun DEF Fits, NoRun
    <2>2. PICK r \in RunRow : r.docs = NoDocuments /\ Begins(w, r)
        <3>1. ASSUME NEW s \in Reindexes, Begins(w, [NoRun EXCEPT !.target = s.target, !.expected = s.expected])
              PROVE  \E r \in RunRow : r.docs = NoDocuments /\ Begins(w, r)
            <4>1. s.target \in Indices /\ s.expected \in Indices \cup {NoIndex}
                BY SearchConstants
            <4>2. /\ [NoRun EXCEPT !.target = s.target, !.expected = s.expected] \in RunRow
                  /\ [NoRun EXCEPT !.target = s.target, !.expected = s.expected].docs = NoDocuments
                BY <2>1, <4>1 DEF RunRow
            <4>3. QED
                BY <3>1, <4>2
        <3>2. ASSUME NEW k \in TaskKeys, Begins(w, [NoRun EXCEPT !.key = k])
              PROVE  \E r \in RunRow : r.docs = NoDocuments /\ Begins(w, r)
            <4>1. [NoRun EXCEPT !.key = k] \in RunRow /\ [NoRun EXCEPT !.key = k].docs = NoDocuments
                BY <2>1 DEF RunRow
            <4>2. QED
                BY <3>2, <4>1
        <3>3. QED
            BY <3>1, <3>2 DEF Starts
    <2> DEFINE run == [r EXCEPT !.at = "starts", !.crowded = flag]
    <2>3. flag \in BOOLEAN
        OBVIOUS
    <2> HIDE DEF flag
    <2>4. run \in RunRow /\ run.at = "starts" /\ run.crowded = flag /\ run.docs = NoDocuments
        BY <2>2, <2>3 DEF RunRow
    <2>5. indexer' = [indexer EXCEPT ![w] = run]
        BY <2>2 DEF Begins, flag
    <2>6. QED
        BY <2>4, <2>5
<1>3. \A v \in Indexers : indexer'[v] = IF v = w THEN run ELSE indexer[v]
    BY <1>1, <1>2
<1>4. \A v \in Indexers : v # w => indexer[v].crowded \/ indexer[v].at = "idle"
    BY <1>1, SearchConstants DEF NewsInv, AloneInv
<1>5. ASSUME NEW v \in Indexers
      PROVE  AloneInv(v)'
    <2>1. CASE v = w
        <3>1. ASSUME ~ run.crowded
              PROVE  \A u \in Indexers : u # w => indexer'[u].at = "idle"
            BY <1>2, <1>3, <1>4, <3>1
        <3>2. News(run)'
            BY <1>2 DEF News
        <3>3. QED
            BY <1>1, <1>3, <2>1, <3>1, <3>2 DEF AloneInv
    <2>2. CASE v # w
        BY <1>3, <1>4, <2>2 DEF AloneInv
    <2>3. QED
        BY <2>1, <2>2
<1>6. PastInv'
    <2>1. \A i \in Items : NoDocuments[i] <= version[i]
        BY NewsTypes DEF NoDocuments
    <2>2. QED
        BY <1>1, <1>2, <1>3, <2>1 DEF NewsInv, PastInv
<1>7. \A i \in Items : Serves(i)' = Serves(i)
    BY <1>1 DEF Serves
<1>8. QED
    BY <1>5, <1>6, <1>7, SameServed DEF NewsStep, NewsInv

\* Who loses the lock is marked for it.
LEMMA NewsLosesLock == ASSUME NewsInv, SearchInv', NEW w \in Indexers, LosesLock(w) PROVE NewsStep
<1> DEFINE run == [indexer[w] EXCEPT !.crowded = TRUE]
<1>1. /\ UNCHANGED <<version, index, alias>> /\ lock = w /\ indexer' = [indexer EXCEPT ![w] = run]
      /\ indexer \in [Indexers -> RunRow]
    BY NewsTypes DEF LosesLock
<1>2. run.crowded /\ run.docs = indexer[w].docs
    BY <1>1 DEF RunRow
<1>3. \A v \in Indexers : indexer'[v] = IF v = w THEN run ELSE indexer[v]
    BY <1>1
<1> HIDE DEF run
<1>4. \A v \in Indexers : v # w => indexer[v].crowded \/ indexer[v].at = "idle"
    BY <1>1 DEF NewsInv, AloneInv
<1>5. \A v \in Indexers : AloneInv(v)'
    BY <1>2, <1>3, <1>4 DEF AloneInv
<1>6. PastInv'
    BY <1>1, <1>2, <1>3 DEF NewsInv, PastInv
<1>7. \A i \in Items : Serves(i)' = Serves(i)
    BY <1>1 DEF Serves
<1>8. QED
    BY <1>5, <1>6, <1>7, SameServed DEF NewsStep, NewsInv

LEMMA NewsReads == ASSUME NewsInv, SearchInv', NEW w \in Indexers, Reads(w) PROVE NewsStep
<1> DEFINE run == [indexer[w] EXCEPT !.at = "writes", !.docs = version]
<1>1. /\ UNCHANGED <<version, index, alias, lock>> /\ indexer' = [indexer EXCEPT ![w] = run]
      /\ indexer[w] \in RunRow /\ indexer[w].at = "reads" /\ version \in [Items -> Nat]
    BY NewsTypes DEF Reads, Turns
<1>2. /\ run \in RunRow /\ run.at = "writes" /\ run.docs = version /\ run.target = indexer[w].target
      /\ run.crowded = indexer[w].crowded
    BY <1>1 DEF RunRow
<1> HIDE DEF run
<1>3. ~ indexer[w].crowded => News(run)
    BY <1>1, <1>2, NewsTypes DEF NewsInv, AloneInv, News
<1>4. \A i \in Items : run.docs[i] <= version[i]
    BY <1>1, <1>2
<1>5. QED
    BY <1>1, <1>2, <1>3, <1>4, OnlyItMoves

LEMMA NewsReadsItems == ASSUME NewsInv, SearchInv', NEW w \in Indexers, ReadsItems(w) PROVE NewsStep
<1> DEFINE now == [i \in Items |-> IF i \in Touched[indexer[w].key] THEN version[i] ELSE 0]
<1>1. /\ UNCHANGED <<version, index, alias>>
      /\ indexer[w] \in RunRow /\ indexer[w].at = "starts" /\ version \in [Items -> Nat]
    BY NewsTypes DEF ReadsItems
<1>2. Touched[indexer[w].key] \subseteq Items
    BY <1>1, SearchConstants DEF ReadsItems, RunRow
<1>3. /\ now \in [Items -> Nat] /\ \A i \in Items : now[i] <= version[i]
      /\ \A i \in Touched[indexer[w].key] : now[i] = version[i]
    BY <1>1, <1>2
<1>4. CASE Stops(w)
    BY <1>1, <1>4, ItStops
<1>5. ASSUME NEW x \in Indices, Turns(w, [indexer[w] EXCEPT !.at = "resolves", !.target = x, !.docs = now])
      PROVE  NewsStep
    <2> HIDE DEF now
    <2> DEFINE run == [indexer[w] EXCEPT !.at = "resolves", !.target = x, !.docs = now]
    <2>1. /\ run \in RunRow /\ run.at = "resolves" /\ run.docs = now /\ run.key = indexer[w].key
          /\ run.crowded = indexer[w].crowded
        BY <1>1, <1>3, <1>5 DEF RunRow
    <2>2. indexer' = [indexer EXCEPT ![w] = run] /\ UNCHANGED lock
        BY <1>5 DEF Turns
    <2> HIDE DEF run
    <2>3. News(run)
        BY <1>2, <1>3, <2>1, NewsTypes DEF News
    <2>4. QED
        BY <1>1, <1>3, <2>1, <2>2, <2>3, OnlyItMoves
<1>6. QED
    BY <1>4, <1>5 DEF ReadsItems

LEMMA NewsResolves == ASSUME NewsInv, SearchInv', NEW w \in Indexers, Resolves(w) PROVE NewsStep
<1>1. /\ UNCHANGED <<version, index, alias>> /\ indexer[w] \in RunRow /\ indexer[w].at = "resolves"
    BY NewsTypes DEF Resolves
<1>2. \A i \in Items : indexer[w].docs[i] <= version[i]
    BY DEF NewsInv, PastInv
<1>3. CASE Stops(w)
    BY <1>1, <1>3, ItStops
<1>4. ASSUME NEW x \in Indices, Turns(w, [indexer[w] EXCEPT !.at = "changes", !.expected = x])
      PROVE  NewsStep
    <2> DEFINE run == [indexer[w] EXCEPT !.at = "changes", !.expected = x]
    <2>1. /\ run \in RunRow /\ run.at = "changes" /\ run.docs = indexer[w].docs /\ run.key = indexer[w].key
          /\ run.crowded = indexer[w].crowded
        BY <1>1, <1>4 DEF RunRow
    <2>2. indexer' = [indexer EXCEPT ![w] = run] /\ UNCHANGED lock
        BY <1>4 DEF Turns
    <2> HIDE DEF run
    <2>3. ~ indexer[w].crowded => News(run)
        BY <1>1, <2>1 DEF NewsInv, AloneInv, News
    <2>4. QED
        BY <1>1, <1>2, <2>1, <2>2, <2>3, OnlyItMoves
<1>5. QED
    BY <1>3, <1>4 DEF Resolves

LEMMA NewsDecides == ASSUME NewsInv, SearchInv', NEW w \in Indexers, Decides(w) PROVE NewsStep
<1> DEFINE r == indexer[w]
           x == Target(w)
<1>1. /\ UNCHANGED <<version, alias>> /\ r \in RunRow /\ r.at = "starts" /\ r.at # "idle"
      /\ index \in [Indices -> [there : BOOLEAN, docs : [Items -> Nat]]]
    BY NewsTypes DEF Decides, NewsInv, SearchInv, SearchTypes
<1>2. \A i \in Items : r.docs[i] <= version[i]
    BY DEF NewsInv, PastInv
<1>3. CASE Stops(w) /\ UNCHANGED index
    BY <1>1, <1>3, ItStops
<1>4. CASE GoesOn(w, "marks") /\ UNCHANGED index
    <2> DEFINE run == [r EXCEPT !.at = "marks"]
    <2>1. /\ run \in RunRow /\ run.at = "marks" /\ run.docs = r.docs /\ run.crowded = r.crowded
        BY <1>1 DEF RunRow
    <2>2. indexer' = [indexer EXCEPT ![w] = run] /\ UNCHANGED lock
        BY <1>4 DEF GoesOn, Turns
    <2> HIDE DEF run
    <2>3. News(run)
        BY <2>1 DEF News
    <2>4. QED
        BY <1>1, <1>2, <1>4, <2>1, <2>2, <2>3, OnlyItMoves
<1>5. CASE Turns(w, [r EXCEPT !.at = "activates", !.resumed = TRUE]) /\ UNCHANGED index
    <2> DEFINE run == [r EXCEPT !.at = "activates", !.resumed = TRUE]
    <2>1. /\ run \in RunRow /\ run.at = "activates" /\ run.resumed /\ run.docs = r.docs /\ run.crowded = r.crowded
        BY <1>1 DEF RunRow
    <2>2. indexer' = [indexer EXCEPT ![w] = run] /\ UNCHANGED lock
        BY <1>5 DEF Turns
    <2> HIDE DEF run
    <2>3. News(run)
        BY <2>1 DEF News
    <2>4. QED
        BY <1>1, <1>2, <1>5, <2>1, <2>2, <2>3, OnlyItMoves
<1>6. CASE /\ alias # {x} /\ alias = Sole(r.expected)
           /\ index' = [index EXCEPT ![x].there = TRUE] /\ GoesOn(w, "reads")
    <2>1. PICK run \in RunRow :
             /\ indexer' = [indexer EXCEPT ![w] = run]
             /\ run.at = "reads" /\ run.target = x /\ run.docs = r.docs /\ run.crowded = r.crowded
        <3> DEFINE new == [r EXCEPT !.at = "reads"]
        <3>1. new \in RunRow /\ new.at = "reads" /\ new.target = x /\ new.docs = r.docs /\ new.crowded = r.crowded
            BY <1>1 DEF RunRow, Target
        <3>2. indexer' = [indexer EXCEPT ![w] = new]
            BY <1>6 DEF GoesOn, Turns
        <3>3. QED
            BY <3>1, <3>2
    <2>2. lock' = lock
        BY <1>6 DEF GoesOn, Turns
    <2>3. \A y \in Indices : index'[y].docs = index[y].docs
        BY <1>1, <1>6
    <2>4. \A i \in Items : Serves(i)' = Serves(i)
        BY <1>1, <2>3 DEF Serves, NewsInv, SearchInv, SearchTypes
    <2>9. x \notin alias
        BY <1>6 DEF Sole
    <2>5. News(run)'
        BY <1>1, <2>1, <2>9 DEF News
    <2>6. PastKept(run)
        BY <1>1, <1>2, <2>1, <2>3, NewsTypes DEF PastKept, NewsInv, PastInv
    <2>7. ~ run.crowded => ~ indexer[w].crowded
        BY <2>1
    <2>8. QED
        BY <1>1, <2>1, <2>2, <2>4, <2>5, <2>6, <2>7, OneMoves, SameServed DEF NewsStep
<1>7. QED
    BY <1>3, <1>4, <1>5, <1>6 DEF Decides

\* A run that writes to the index x leaves in it documents that it has at hand, or what was there.
LEMMA NewsWritten ==
    ASSUME NewsInv, NEW w \in Indexers, NEW x \in Indices, NEW done,
           index' = [index EXCEPT ![x].docs = Applied(@, indexer[w].docs, done)], UNCHANGED version
    PROVE  /\ \A i \in Items : index'[x].docs[i] = IF i \in done THEN indexer[w].docs[i] ELSE index[x].docs[i]
           /\ \A y \in Indices : y # x => index'[y].docs = index[y].docs
           /\ \A i \in Items : \A y \in Indices : index'[y].docs[i] <= version'[i]
<1>1. index \in [Indices -> [there : BOOLEAN, docs : [Items -> Nat]]]
    BY DEF NewsInv, SearchInv, SearchTypes
<1> DEFINE new == Applied(index[x].docs, indexer[w].docs, done)
<1>2. \A i \in Items : new[i] = IF i \in done THEN indexer[w].docs[i] ELSE index[x].docs[i]
    BY DEF Applied
<1>3. index' = [index EXCEPT ![x].docs = new]
    OBVIOUS
<1> HIDE DEF new
<1>4. index'[x].docs = new /\ \A y \in Indices : y # x => index'[y].docs = index[y].docs
    BY <1>1, <1>3
<1>5. QED
    BY <1>2, <1>4 DEF NewsInv, PastInv

LEMMA NewsWrites == ASSUME NewsInv, SearchInv', NEW w \in Indexers, Writes(w) PROVE NewsStep
<1> DEFINE r == indexer[w]
           x == Target(w)
           absent == {i \in Items : ~ Online(r.docs[i])}
<1>1. /\ UNCHANGED <<version, alias>> /\ r \in RunRow /\ r.at = "writes"
      /\ x \in Indices /\ x = r.target
    BY TheRun DEF Writes, NewsInv, RunInv, Target
<1>2. PICK done \in SUBSET {i \in Items : Online(r.docs[i])} :
         /\ index' = [index EXCEPT ![x].docs = Applied(@, r.docs, done \cup absent)]
         /\ IF done \cup absent = Items THEN GoesOn(w, "counts") ELSE Stops(w)
    BY DEF Writes
<1>3. /\ \A i \in Items : index'[x].docs[i] = IF i \in done \cup absent THEN r.docs[i] ELSE index[x].docs[i]
      /\ \A y \in Indices : y # x => index'[y].docs = index[y].docs
      /\ \A i \in Items : \A y \in Indices : index'[y].docs[i] <= version'[i]
    BY <1>1, <1>2, NewsWritten
<1>4. ~ r.crowded => x \notin alias /\ \A i \in Items : Serves(i) <= r.docs[i]
    BY <1>1 DEF NewsInv, AloneInv, News
<1>5. x \notin alias => \A i \in Items : Serves(i)' = Serves(i)
    BY <1>1, <1>3 DEF Serves, NewsInv, SearchInv, SearchTypes
<1>6. GoesForward
    <2>1. CASE r.crowded
        BY <2>1 DEF GoesForward, Excused
    <2>2. CASE ~ r.crowded
        BY <1>4, <1>5, <2>2, SameServed
    <2>3. QED
        BY <2>1, <2>2
<1>8. version \in [Items -> Nat] /\ \A i \in Items : r.docs[i] <= version'[i] /\ version[i] <= version'[i]
    <2>1. version \in [Items -> Nat]
        BY NewsTypes
    <2>2. QED
        BY <1>1, <2>1 DEF NewsInv, PastInv
<1>9. CASE done \cup absent = Items
    <2>1. PICK run \in RunRow :
             /\ indexer' = [indexer EXCEPT ![w] = run]
             /\ run.at = "counts" /\ run.target = x /\ run.docs = r.docs /\ run.crowded = r.crowded
        <3> DEFINE new == [r EXCEPT !.at = "counts"]
        <3>1. new \in RunRow /\ new.at = "counts" /\ new.target = x /\ new.docs = r.docs /\ new.crowded = r.crowded
            BY <1>1 DEF RunRow
        <3>2. indexer' = [indexer EXCEPT ![w] = new]
            BY <1>2, <1>9 DEF GoesOn, Turns
        <3>3. QED
            BY <3>1, <3>2
    <2>2. lock' = lock
        BY <1>2, <1>9 DEF GoesOn, Turns
    <2>3. \A i \in Items : index'[x].docs[i] = r.docs[i]
        BY <1>3, <1>9
    <2>4. ~ r.crowded => News(run)'
        BY <1>1, <1>4, <1>5, <2>1, <2>3 DEF News
    <2>5. PastKept(run)
        BY <1>3, <1>8, <2>1 DEF PastKept
    <2>6. r.at # "idle"
        BY <1>1
    <2>7. QED
        BY <1>1, <1>6, <2>1, <2>2, <2>4, <2>5, <2>6, OneMoves DEF NewsStep
<1>10. CASE done \cup absent # Items
    <2>1. indexer' = [indexer EXCEPT ![w] = NoRun]
        BY <1>2, <1>10 DEF Stops
    <2>2. NoRun \in RunRow /\ NoRun.at = "idle" /\ \A i \in Items : NoRun.docs[i] = 0
        BY IdleRun DEF Fits, NoRun, NoDocuments
    <2>3. PastKept(NoRun)
        BY <1>1, <1>3, <1>8, <2>2 DEF PastKept
    <2>4. QED
        BY <1>1, <1>6, <2>1, <2>2, <2>3, OneMoves DEF NewsStep
<1>11. QED
    BY <1>9, <1>10

LEMMA NewsChanges == ASSUME NewsInv, SearchInv', NEW w \in Indexers, Changes(w) PROVE NewsStep
<1> DEFINE r == indexer[w]
           touched == Touched[r.key]
<1>1. /\ UNCHANGED <<version, alias>> /\ r \in RunRow /\ r.at = "changes"
      /\ r.expected \in Indices
    BY NewsTypes, TheRun DEF Changes, NewsInv, RunInv
<1>2. PICK done \in SUBSET touched :
         /\ index' = [index EXCEPT ![r.expected].docs = Applied(@, r.docs, done)]
         /\ IF done = touched THEN GoesOn(w, "compares") ELSE Stops(w)
    BY DEF Changes
<1>3. version \in [Items -> Nat] /\ \A i \in Items : r.docs[i] <= version'[i] /\ version[i] <= version'[i]
    <2>1. version \in [Items -> Nat]
        BY NewsTypes
    <2>2. QED
        BY <1>1, <2>1 DEF NewsInv, PastInv
<1>4. /\ \A i \in Items : index'[r.expected].docs[i] = IF i \in done THEN r.docs[i] ELSE index[r.expected].docs[i]
      /\ \A y \in Indices : y # r.expected => index'[y].docs = index[y].docs
      /\ \A i \in Items : \A y \in Indices : index'[y].docs[i] <= version'[i]
    BY <1>1, <1>2, NewsWritten
<1>5. GoesForward
    <2>1. CASE r.crowded
        BY <2>1 DEF GoesForward, Excused
    <2>2. CASE ~ r.crowded
        <3>1. \A i \in touched : Serves(i) <= r.docs[i]
            BY <1>1, <2>2 DEF NewsInv, AloneInv, News
        <3>2. ASSUME NEW i \in Items
              PROVE  ~ (Serves(i)' < Serves(i))
            <4>1. Serves(i) \in Nat /\ r.docs[i] \in Nat
                BY NewsTypes
            <4>2. Serves(i)' = Serves(i) \/ (i \in touched /\ Serves(i)' = r.docs[i])
                <5>1. CASE \A x \in Indices : alias # {x}
                    BY <1>1, <5>1 DEF Serves
                <5>2. ASSUME NEW x \in Indices, alias = {x}
                      PROVE  Serves(i)' = Serves(i) \/ (i \in touched /\ Serves(i)' = r.docs[i])
                    <6>1. Serves(i) = index[x].docs[i] /\ Serves(i)' = index'[x].docs[i]
                        BY <1>1, <5>2, TheOne DEF Serves
                    <6>2. QED
                        BY <1>2, <1>4, <6>1
                <5>3. QED
                    BY <5>1, <5>2
            <4>3. QED
                BY <3>1, <4>1, <4>2
        <3>3. QED
            BY <3>2 DEF GoesForward
    <2>3. QED
        BY <2>1, <2>2
<1>6. r.at # "idle"
    BY <1>1
<1>7. CASE done = touched
    <2>1. PICK run \in RunRow :
             /\ indexer' = [indexer EXCEPT ![w] = run]
             /\ run.at = "compares" /\ run.docs = r.docs /\ run.crowded = r.crowded
        <3> DEFINE new == [r EXCEPT !.at = "compares"]
        <3>1. new \in RunRow /\ new.at = "compares" /\ new.docs = r.docs /\ new.crowded = r.crowded
            BY <1>1 DEF RunRow
        <3>2. indexer' = [indexer EXCEPT ![w] = new]
            BY <1>2, <1>7 DEF GoesOn, Turns
        <3>3. QED
            BY <3>1, <3>2
    <2>2. lock' = lock
        BY <1>2, <1>7 DEF GoesOn, Turns
    <2>3. News(run)'
        BY <2>1 DEF News
    <2>4. PastKept(run)
        BY <1>3, <1>4, <2>1 DEF PastKept
    <2>5. QED
        BY <1>1, <1>5, <1>6, <2>1, <2>2, <2>3, <2>4, OneMoves DEF NewsStep
<1>8. CASE done # touched
    <2>1. indexer' = [indexer EXCEPT ![w] = NoRun]
        BY <1>2, <1>8 DEF Stops
    <2>2. NoRun \in RunRow /\ NoRun.at = "idle" /\ \A i \in Items : NoRun.docs[i] = 0
        BY IdleRun DEF Fits, NoRun, NoDocuments
    <2>3. PastKept(NoRun)
        BY <1>1, <1>3, <1>4, <2>2 DEF PastKept
    <2>4. QED
        BY <1>1, <1>5, <2>1, <2>2, <2>3, OneMoves DEF NewsStep
<1>9. QED
    BY <1>7, <1>8

LEMMA NewsCounts == ASSUME NewsInv, SearchInv', NEW w \in Indexers, Counts(w) PROVE NewsStep
<1> DEFINE r == indexer[w]
           run == [r EXCEPT !.at = "activates"]
<1>1. /\ UNCHANGED <<version, index, alias>> /\ r \in RunRow /\ r.at = "counts"
      /\ \A i \in Items : r.docs[i] <= version[i]
    BY NewsTypes DEF Counts, NewsInv, PastInv
<1>2. CASE Stops(w)
    BY <1>1, <1>2, ItStops
<1>3. CASE GoesOn(w, "activates")
    <2>1. /\ run \in RunRow /\ run.at = "activates" /\ run.target = r.target /\ run.docs = r.docs
          /\ run.crowded = r.crowded
        BY <1>1 DEF RunRow
    <2>2. indexer' = [indexer EXCEPT ![w] = run] /\ UNCHANGED lock
        BY <1>3 DEF GoesOn, Turns
    <2> HIDE DEF run
    <2>3. ~ r.crowded => News(run)
        BY <1>1, <2>1 DEF NewsInv, AloneInv, News
    <2>4. QED
        BY <1>1, <2>1, <2>2, <2>3, OnlyItMoves
<1>4. QED
    BY <1>2, <1>3 DEF Counts

LEMMA NewsActivates == ASSUME NewsInv, SearchInv', NEW w \in Indexers, Activates(w) PROVE NewsStep
<1> DEFINE run == [indexer[w] EXCEPT !.at = "looks"]
<1>1. UNCHANGED <<version, index, alias>> /\ indexer[w] \in RunRow /\ indexer[w].at = "activates"
    BY NewsTypes DEF Activates
<1>2. CASE Stops(w)
    BY <1>1, <1>2, ItStops
<1>3. CASE GoesOn(w, "looks")
    <2>1. run.at = "looks" /\ run.target = indexer[w].target /\ run.resumed = indexer[w].resumed
        BY <1>1 DEF RunRow
    <2>2. ~ indexer[w].crowded => News(run)
        BY <1>1, <2>1 DEF NewsInv, AloneInv, News
    <2>3. QED
        BY <1>1, <1>3, <2>2, ItGoesOn
<1>4. QED
    BY <1>2, <1>3 DEF Activates

LEMMA NewsLooksUp == ASSUME NewsInv, SearchInv', NEW w \in Indexers, LooksUp(w) PROVE NewsStep
<1> DEFINE run == [indexer[w] EXCEPT !.at = "switches"]
<1>1. UNCHANGED <<version, index, alias>> /\ indexer[w] \in RunRow /\ indexer[w].at = "looks"
    BY NewsTypes DEF LooksUp
<1>2. CASE Stops(w)
    BY <1>1, <1>2, ItStops
<1>3. CASE GoesOn(w, "switches") /\ alias = Sole(indexer[w].expected)
    <2>1. /\ run.at = "switches" /\ run.target = indexer[w].target /\ run.resumed = indexer[w].resumed
          /\ run.expected = indexer[w].expected
        BY <1>1 DEF RunRow
    <2>2. ~ indexer[w].crowded => News(run)
        BY <1>1, <1>3, <2>1 DEF NewsInv, AloneInv, News
    <2>3. QED
        BY <1>1, <1>3, <2>2, ItGoesOn
<1>4. QED
    BY <1>2, <1>3 DEF LooksUp

\* The alias of a run that is alone is still on what it has looked up.
LEMMA NewsSwitches == ASSUME NewsInv, SearchInv', NEW w \in Indexers, Switches(w) PROVE NewsStep
<1> DEFINE r == indexer[w]
<1>1. /\ UNCHANGED <<version, index>> /\ r \in RunRow /\ r.at = "switches"
      /\ \A i \in Items : r.docs[i] <= version[i]
    BY NewsTypes DEF Switches, NewsInv, PastInv
<1>2. alias' = (alias \ {r.expected}) \cup {Target(w)} /\ GoesOn(w, "verifies")
    BY DEF Switches
<1>3. PICK run \in RunRow :
         /\ indexer' = [indexer EXCEPT ![w] = run]
         /\ run.at = "verifies" /\ run.docs = r.docs /\ run.crowded = r.crowded
    <2> DEFINE new == [r EXCEPT !.at = "verifies"]
    <2>1. new \in RunRow /\ new.at = "verifies" /\ new.docs = r.docs /\ new.crowded = r.crowded
        BY <1>1 DEF RunRow
    <2>2. indexer' = [indexer EXCEPT ![w] = new]
        BY <1>2 DEF GoesOn, Turns
    <2>3. QED
        BY <2>1, <2>2
<1>4. lock' = lock /\ r.at # "idle"
    BY <1>1, <1>2 DEF GoesOn, Turns
<1>5. News(run)'
    BY <1>3 DEF News
<1>6. PastKept(run)
    BY <1>1, <1>3, NewsTypes DEF PastKept, NewsInv, PastInv
<1>7. GoesForward
    <2>1. CASE r.crowded \/ r.resumed
        BY <1>1, <2>1 DEF GoesForward, Excused
    <2>2. CASE ~ r.crowded /\ ~ r.resumed
        <3>1. \A i \in Items : Serves(i) <= index[r.target].docs[i]
            BY <1>1, <2>2 DEF NewsInv, AloneInv, News
        <3>2. r.target \in Indices /\ r.target # NoIndex
            BY <1>1, TheRun, SearchConstants DEF NewsInv, RunInv
        <3>3. \A i \in Items : Serves(i)' = index[r.target].docs[i]
            <4>1. alias = Sole(r.expected)
                BY <1>1, <2>2 DEF NewsInv, AloneInv, News
            <4>2. alias' = {r.target}
                BY <1>2, <4>1 DEF Sole, Target
            <4>3. QED
                BY <1>1, <3>2, <4>2, TheOne DEF Serves
        <3>4. ASSUME NEW i \in Items
              PROVE  ~ (Serves(i)' < Serves(i))
            <4>1. Serves(i) \in Nat /\ index[r.target].docs[i] \in Nat
                BY <3>2, NewsTypes
            <4>2. QED
                BY <3>1, <3>3, <4>1
        <3>5. QED
            BY <3>4 DEF GoesForward
    <2>3. QED
        BY <2>1, <2>2
<1>8. QED
    BY <1>1, <1>3, <1>4, <1>5, <1>6, <1>7, OneMoves DEF NewsStep

LEMMA NewsLooksAgain ==
    ASSUME NewsInv, SearchInv', NEW w \in Indexers, Verifies(w) \/ Compares(w)
    PROVE  NewsStep
<1>1. /\ UNCHANGED <<version, index, alias>> /\ indexer[w] \in RunRow /\ indexer[w].at # "idle"
    BY NewsTypes DEF Verifies, Compares
<1>2. CASE Stops(w)
    BY <1>1, <1>2, ItStops
<1>3. ASSUME NEW at \in {"marks", "records"}, GoesOn(w, at)
      PROVE  NewsStep
    <2>1. [indexer[w] EXCEPT !.at = at].at = at
        BY <1>1 DEF RunRow
    <2>2. News([indexer[w] EXCEPT !.at = at])
        BY <2>1 DEF News
    <2>3. QED
        BY <1>1, <1>3, <2>2, ItGoesOn
<1>4. QED
    BY <1>2, <1>3 DEF Verifies, Compares

LEMMA NewsEnds ==
    ASSUME NewsInv, SearchInv', NEW w \in Indexers, Breaks(w) \/ Marks(w) \/ Records(w)
    PROVE  NewsStep
BY ItStops DEF Breaks, Marks, Records

LEMMA NewsNext == NewsInv /\ [SearchNext]_searchVars => NewsInv' /\ [GoesForward]_searchVars
<1> SUFFICES ASSUME NewsInv, [SearchNext]_searchVars
             PROVE  NewsInv' /\ [GoesForward]_searchVars
    OBVIOUS
<1>1. SearchInv'
    BY SearchInvNext DEF NewsInv
<1>2. CASE SearchNext
    <2>1. NewsStep
        BY <1>1, <1>2, NewsItemChanges, NewsStarts, NewsLosesLock, NewsReads, NewsReadsItems, NewsDecides, NewsWrites,
           NewsResolves, NewsChanges, NewsCounts, NewsActivates, NewsLooksUp, NewsSwitches, NewsLooksAgain,
           NewsEnds DEF SearchNext
    <2>2. QED
        BY <2>1 DEF NewsStep
<1>3. CASE UNCHANGED searchVars
    BY <1>1, <1>3 DEF searchVars, NewsInv, PastInv, AloneInv, News, Serves
<1>4. QED
    BY <1>2, <1>3

LEMMA NewsInvInit == SearchInit => NewsInv
<1>1. ASSUME SearchInit
      PROVE  PastInv /\ \A w \in Indexers : AloneInv(w)
    BY <1>1 DEF SearchInit, PastInv, AloneInv, NoRun, NoDocuments
<1>2. QED
    BY <1>1, SearchInvInit DEF NewsInv

\* What a search finds of an item does not get older, for any indexes, items, tasks and runs,
\* but for runs without the lock and builds from before a crash.
THEOREM SearchGoesForward == SearchSpec => NeverServesOlder
<1>1. [GoesForward]_searchVars =>
         [\A i \in Items : Serves(i)' < Serves(i) =>
             \E w \in Indexers : indexer[w].crowded \/ (indexer[w].at = "switches" /\ indexer[w].resumed)]_searchVars
    BY DEF GoesForward, Excused
<1>2. QED
    BY <1>1, NewsInvInit, NewsNext, PTL DEF SearchSpec, NeverServesOlder

LEMMA FollowsStep ==
    ASSUME NewsInv, SearchNext
    PROVE  /\ alias' # alias =>
                 \/ \E w \in Indexers : indexer[w].crowded
                 \/ \E x \in Indices : alias' = {x} /\ alias = Sole(build[x].expected)
           /\ active' # active =>
                 active \in Passed(active') /\ \E x \in alias' : active' \in Passed(x)
<1>1. ASSUME NEW w \in Indexers, Switches(w), ~ indexer[w].crowded
      PROVE  \E x \in Indices : alias' = {x} /\ alias = Sole(build[x].expected)
    <2>1. /\ Target(w) \in Indices /\ build[Target(w)].expected = indexer[w].expected
        BY <1>1, TheRun DEF NewsInv, RunInv, Target, Switches
    <2>2. alias = Sole(indexer[w].expected)
        BY <1>1 DEF NewsInv, AloneInv, News, Switches
    <2>3. alias' = {Target(w)}
        BY <1>1, <2>2 DEF Switches, Sole
    <2>4. QED
        BY <2>1, <2>2, <2>3
<1>2. ASSUME NEW w \in Indexers, Marks(w), active' # active
      PROVE  active \in Passed(active') /\ \E x \in alias' : active' \in Passed(x)
    <2>1. /\ MayMark(w) /\ active' = Target(w) /\ alias' = alias /\ build' = build
          /\ RunInv(indexer[w], Whole, build, WayIn(build, alias)) /\ indexer[w].at = "marks"
        BY <1>2, TheRun DEF Marks, NewsInv
    <2>2. /\ Target(w) \in WayIn(build, alias) /\ Target(w) \in Indices
          /\ build[Target(w)].expected = indexer[w].expected
        BY <2>1 DEF RunInv, Target
    <2>3. NoIndex \in PassedIn(build, Target(w))
        BY <2>2 DEF NewsInv, SearchInv, TraceInv
    <2>4. PassedIn(build, Target(w)) \in TracesIn(build, Target(w))
        BY <2>2, PassedIsTrace DEF NewsInv, SearchInv, SearchTypes
    <2>5. Target(w) \in PassedIn(build, Target(w)) /\ indexer[w].expected \in PassedIn(build, Target(w))
        BY <2>2, <2>4, SearchConstants DEF TracesIn
    <2>6. active \in Passed(active')
        BY <2>1, <2>3, <2>5, PassedNow DEF MayMark
    <2>7. \E x \in alias : Target(w) \in PassedIn(build, x)
        BY <2>2, SearchConstants DEF WayIn
    <2>8. QED
        BY <2>1, <2>6, <2>7, PassedNow
<1>3. alias' # alias => \E w \in Indexers : Switches(w)
    BY DEF SearchNext, ItemChanges, Starts, Breaks, LosesLock, Decides, Reads, Writes, Counts, Activates, LooksUp, Verifies,
           Marks, ReadsItems, Resolves, Changes, Compares, Records
<1>4. active' # active => \E w \in Indexers : Marks(w)
    BY DEF SearchNext, ItemChanges, Starts, Breaks, LosesLock, Decides, Reads, Writes, Counts, Activates, LooksUp, Switches,
           Verifies, ReadsItems, Resolves, Changes, Compares, Records
<1>5. QED
    BY <1>1, <1>2, <1>3, <1>4

\* While no run has lost the lock the alias only moves from one index to one that was built to follow it; and
\* even after a switch that came late for a lost lock the registry neither goes back to an index
\* that was replaced nor is ahead of all that has the alias: for any indexes, items, tasks and runs.
THEOREM RegistryAndAliasGoOn == SearchSpec => RegistryFollowsAlias
<1>1. NewsInv /\ [SearchNext]_searchVars =>
         [/\ alias' # alias =>
                \/ \E w \in Indexers : indexer[w].crowded
                \/ \E x \in Indices : alias' = {x} /\ alias = Sole(build[x].expected)
          /\ active' # active => active \in Passed(active') /\ \E x \in alias' : active' \in Passed(x)]_searchVars
    BY FollowsStep
<1>2. QED
    BY <1>1, NewsInvInit, NewsNext, PTL DEF SearchSpec, RegistryFollowsAlias

-----------------------------------------------------------------------------
(* FeedPages: the cursors that are on their way to a client are as good as *)
(* those that were handed out.                                             *)

\* Who holds the cursor has got every row before it or met it off line, and none twice.
Sound(c) ==
    /\ c.given \cup c.passed = 0 .. c.scan - 1
    /\ c.given \cap c.passed = {}
    /\ c.offset = Cardinality(c.given)

PagesInv ==
    /\ PagesTypeOK
    /\ \A c \in cursors : Sound(c)
    /\ \A h \in Tabs : tab[h].next # NoCursor => Sound(tab[h].next)

\* A set of positions that is not empty has a first and a last one.
LEMMA FirstPosition ==
    ASSUME NEW S \in SUBSET Nat, S # {}
    PROVE  \E n \in S : \A m \in S : n <= m
  <1>1. PICK n \in S : \A m \in S : ~ (<<m, n>> \in OpToRel(<, Nat))
    BY NatLessThanWellFounded, WFMin
  <1>2. \A m \in S : ~ (m < n)
    BY <1>1 DEF OpToRel
  <1> QED
    BY <1>2

LEMMA LastPosition ==
    ASSUME NEW S \in SUBSET Positions, S # {}
    PROVE  Max(S) \in S /\ \A m \in S : m <= Max(S)
  <1> DEFINE turned == {SnapshotLength - n : n \in S}
  <1>1. \A n \in S : n \in Nat /\ SnapshotLength - n \in Nat
    BY PageConstants DEF Positions
  <1>2. turned \in SUBSET Nat /\ turned # {}
    BY <1>1
  <1>3. PICK t \in turned : \A u \in turned : t <= u
    <2> HIDE DEF turned
    <2> QED
      BY <1>2, FirstPosition
  <1>4. PICK last \in S : t = SnapshotLength - last
    BY <1>3
  <1>5. \A m \in S : m <= last
    <2> TAKE m \in S
    <2>1. t <= SnapshotLength - m
      BY <1>3
    <2> QED
      BY <1>1, <1>4, <2>1, PageConstants
  <1>6. \E x \in S : \A y \in S : x >= y
    BY <1>1, <1>5
  <1> QED
    BY <1>1, <1>6 DEF Max

\* The first rows from a position on, n of them at the most, are those up to the last of them.
LEMMA FirstAreAll ==
    ASSUME NEW there \in SUBSET Positions, there # {}, NEW n \in Nat \ {0}
    PROVE  /\ FirstRows(there, n) # {}
           /\ FirstRows(there, n) \subseteq there
           /\ Max(FirstRows(there, n)) \in FirstRows(there, n)
           /\ FirstRows(there, n) = {p \in there : p <= Max(FirstRows(there, n))}
  <1> DEFINE rows == FirstRows(there, n)
             Before(p) == {q \in there : q < p}
  <1>1. IsFiniteSet(there) /\ there \in SUBSET Nat
    <2>1. IsFiniteSet(Positions) /\ Positions \in SUBSET Nat
      <3>1. 0 \in Int /\ SnapshotLength - 1 \in Int
        BY PageConstants
      <3> QED
        BY <3>1, FS_Interval DEF Positions
    <2> QED
      BY <2>1, FS_Subset
  <1>2. rows = {p \in there : Cardinality(Before(p)) < n}
    BY DEF FirstRows
  <1>3. \A p, q \in there : p < q => Cardinality(Before(p)) <= Cardinality(Before(q))
    <2> TAKE p, q \in there
    <2> HAVE p < q
    <2>1. Before(p) \subseteq Before(q)
      <3>1. \A r \in there : r \in Nat
        BY <1>1
      <3>2. \A r \in there : r < p => r < q
        BY <3>1
      <3> QED
        BY <3>2
    <2>2. IsFiniteSet(Before(q))
      BY <1>1, FS_Subset
    <2> HIDE DEF Before
    <2> QED
      BY <2>1, <2>2, FS_Subset
  <1>4. \A p \in there : Cardinality(Before(p)) \in Nat
    <2> TAKE p \in there
    <2>1. IsFiniteSet(Before(p))
      BY <1>1, FS_Subset
    <2> HIDE DEF Before
    <2> QED
      BY <2>1, FS_CardinalityType
  <1>5. rows # {}
    <2>1. PICK first \in there : \A p \in there : first <= p
      BY <1>1, FirstPosition
    <2>2. Before(first) = {}
      <3>1. \A p \in there : p \in Nat
        BY <1>1
      <3>2. \A p \in there : ~ (p < first)
        BY <2>1, <3>1
      <3> QED
        BY <3>2
    <2>3. Cardinality(Before(first)) = 0
      BY <2>2, FS_EmptySet
    <2> QED
      BY <1>2, <2>3
  <1>6. rows \subseteq there
    BY <1>2
  <1>7. Max(rows) \in rows /\ \A p \in rows : p <= Max(rows)
    <2> HIDE DEF rows
    <2> QED
      BY <1>5, <1>6, LastPosition
  <1>8. \A p \in there : p <= Max(rows) => p \in rows
    <2> DEFINE last == Max(rows)
    <2> TAKE p \in there
    <2> HAVE p <= last
    <2>1. last \in there /\ Cardinality(Before(last)) < n
      BY <1>2, <1>7
    <2> HIDE DEF last, rows, Before
    <2>2. CASE p = last
      BY <1>2, <2>1, <2>2
    <2>3. CASE p # last
      <3>1. p < last
        BY <1>1, <2>1, <2>3
      <3>2. Cardinality(Before(p)) <= Cardinality(Before(last))
        BY <1>3, <2>1, <3>1
      <3> QED
        BY <1>2, <1>4, <2>1, <3>2
    <2> QED
      BY <2>2, <2>3
  <1> HIDE DEF rows
  <1>9. rows = {p \in there : p <= Max(rows)}
    BY <1>6, <1>7, <1>8
  <1> QED
    BY <1>5, <1>6, <1>7, <1>9 DEF rows

\* The cursor after a page: the page has all that is on line from the cursor to its last row.
LEMMA SoundAfter ==
    ASSUME NEW c \in Cursor, Sound(c), onShelf \subseteq Positions, NEW limit \in PageLimits,
           Cardinality({p \in onShelf : p >= c.scan}) > limit
    PROVE  LET next == CursorAfter(c, FirstRows({p \in onShelf : p >= c.scan}, limit))
           IN next \in Cursor /\ Sound(next)
  <1> DEFINE there == {p \in onShelf : p >= c.scan}
             rows == FirstRows(there, limit)
             last == Max(rows)
             given == c.given \cup rows
             passed == c.passed \cup (c.scan .. last \ onShelf)
  <1>1. limit \in Nat \ {0} /\ SnapshotLength \in Nat
    BY PageConstants
  <1>2. c.scan \in 0 .. SnapshotLength /\ c.given \in SUBSET Positions /\ c.passed \in SUBSET Positions
    BY DEF Cursor
  <1>3. there \in SUBSET Positions
    OBVIOUS
  <1>4. there # {}
    <2>1. ASSUME there = {} PROVE FALSE
      <3>1. Cardinality(there) = 0
        BY <2>1, FS_EmptySet
      <3> QED
        BY <1>1, <3>1
    <2> QED
      BY <2>1
  <1>5. last \in rows /\ rows \subseteq there /\ rows = {p \in there : p <= last}
    <2> HIDE DEF there
    <2> QED
      BY <1>1, <1>3, <1>4, FirstAreAll
  <1>6. rows \in SUBSET Positions /\ last \in 0 .. SnapshotLength - 1 /\ c.scan <= last
    BY <1>3, <1>5 DEF Positions
  <1>7. rows = (c.scan .. last) \cap onShelf
    <2> HIDE DEF rows, last
    <2>1. \A p \in onShelf : p \in Nat
      BY <1>1 DEF Positions
    <2>2. rows = {p \in onShelf : p >= c.scan /\ p <= last}
      BY <1>5
    <2>3. c.scan \in Nat /\ last \in Nat
      BY <1>2, <1>6
    <2>4. {p \in onShelf : p >= c.scan /\ p <= last} = (c.scan .. last) \cap onShelf
      BY <2>1, <2>3
    <2> QED
      BY <2>2, <2>4
  <1> HIDE DEF last, rows, there
  <1>8. given \cup passed = 0 .. last
    <2>1. c.given \cup c.passed = 0 .. c.scan - 1
      BY DEF Sound
    <2>2. given \cup passed = (0 .. c.scan - 1) \cup (c.scan .. last)
      BY <1>7, <2>1
    <2> QED
      BY <1>2, <1>6, <2>2
  <1>9. given \cap passed = {}
    <2>1. c.given \cup c.passed = 0 .. c.scan - 1 /\ c.given \cap c.passed = {}
      BY DEF Sound
    <2>2. c.given \cap (c.scan .. last) = {} /\ c.passed \cap (c.scan .. last) = {}
      BY <1>2, <1>6, <2>1
    <2> QED
      BY <1>7, <2>1, <2>2
  <1>10. given \in SUBSET Positions /\ passed \in SUBSET Positions
    <2>1. c.scan .. last \subseteq Positions
      BY <1>1, <1>2, <1>6 DEF Positions
    <2> QED
      BY <1>2, <1>6, <2>1
  <1>11. Cardinality(given) = c.offset + Cardinality(rows) /\ Cardinality(given) \in 0 .. SnapshotLength
    <2>1. IsFiniteSet(Positions) /\ Cardinality(Positions) = SnapshotLength
      <3>1. 0 \in Int /\ SnapshotLength - 1 \in Int
        BY <1>1
      <3> QED
        BY <1>1, <3>1, FS_Interval DEF Positions
    <2>2. IsFiniteSet(rows) /\ IsFiniteSet(c.given) /\ IsFiniteSet(given)
      BY <1>2, <1>6, <1>10, <2>1, FS_Subset
    <2>3. Cardinality(given) \in Nat /\ Cardinality(c.given) \in Nat /\ Cardinality(rows) \in Nat
      BY <2>2, FS_CardinalityType
    <2>4. Cardinality(given) <= SnapshotLength
      BY <1>10, <2>1, FS_Subset
    <2>5. c.given \cap rows = {}
      <3>1. c.given \subseteq 0 .. c.scan - 1
        BY DEF Sound
      <3> QED
        BY <1>2, <1>6, <1>7, <3>1
    <2>6. Cardinality(given) = Cardinality(c.given) + Cardinality(rows) - Cardinality(c.given \cap rows)
      BY <2>2, FS_Union
    <2>7. Cardinality(c.given \cap rows) = 0
      BY <2>5, FS_EmptySet
    <2>8. c.offset = Cardinality(c.given)
      BY DEF Sound
    <2> QED
      BY <1>1, <2>3, <2>4, <2>6, <2>7, <2>8
  <1> DEFINE next == CursorAfter(c, rows)
  <1>12. next = [offset |-> Cardinality(given), scan |-> last + 1, given |-> given, passed |-> passed]
    BY <1>11 DEF CursorAfter, ScanAfter, last
  <1> HIDE DEF given, passed
  <1>13. next \in Cursor
    <2>1. last + 1 \in 0 .. SnapshotLength
      BY <1>1, <1>6
    <2> HIDE DEF next
    <2> QED
      BY <1>10, <1>11, <1>12, <2>1 DEF Cursor
  <1>14. Sound(next)
    <2>1. (last + 1) - 1 = last
      BY <1>6
    <2> HIDE DEF next
    <2> QED
      BY <1>8, <1>9, <1>12, <2>1 DEF Sound
  <1> QED
    BY <1>13, <1>14 DEF next, rows, there

LEMMA InitPages == PagesInit => PagesInv
  <1> SUFFICES ASSUME PagesInit PROVE PagesInv
    OBVIOUS
  <1>1. Sound(FirstCursor)
    <2>1. Cardinality({}) = 0
      BY FS_EmptySet
    <2>2. 0 .. 0 - 1 = {}
      OBVIOUS
    <2> QED
      BY <2>1, <2>2 DEF Sound, FirstCursor
  <1>2. FirstCursor \in Cursor
    BY PageConstants DEF FirstCursor, Cursor
  <1>3. NoPage \in Page
    BY DEF NoPage, Page
  <1>4. PagesTypeOK
    BY <1>2, <1>3 DEF PagesInit, PagesTypeOK
  <1>5. NoPage.next = NoCursor
    BY DEF NoPage
  <1> QED
    BY <1>1, <1>4, <1>5 DEF PagesInit, PagesInv

LEMMA PagesStep == PagesInv /\ [PagesNext]_pageVars => PagesInv'
  <1> SUFFICES ASSUME PagesInv, [PagesNext]_pageVars PROVE PagesInv'
    OBVIOUS
  <1>1. /\ onShelf \subseteq Positions /\ reading \in BOOLEAN /\ tab \in [Tabs -> Page]
        /\ cursors \subseteq Cursor
    BY DEF PagesInv, PagesTypeOK
  <1>2. ASSUME NEW p \in Positions, ShelfChanges(p) PROVE PagesInv'
    <2>1. (onShelf \subseteq Positions)'
      BY <1>1, <1>2 DEF ShelfChanges
    <2> QED
      BY <1>2, <2>1 DEF PagesInv, PagesTypeOK, ShelfChanges
  <1>3. CASE ReadingEnds
    BY <1>3 DEF PagesInv, PagesTypeOK, ReadingEnds
  <1>4. ASSUME NEW h \in Tabs, Selects(h) PROVE PagesInv'
    <2>1. PICK c \in cursors, limit \in PageLimits :
             LET there == {p \in onShelf : p >= c.scan}
                 rows  == FirstRows(there, limit)
             IN tab' = [tab EXCEPT ![h] =
                   [cursor |-> c, rows |-> rows,
                    next |-> IF Cardinality(there) <= limit THEN NoCursor ELSE CursorAfter(c, rows)]]
      BY <1>4 DEF Selects
    <2> DEFINE there == {p \in onShelf : p >= c.scan}
               rows == FirstRows(there, limit)
               next == IF Cardinality(there) <= limit THEN NoCursor ELSE CursorAfter(c, rows)
    <2>2. UNCHANGED <<onShelf, reading, cursors>>
      BY <1>4 DEF Selects
    <2>3. next # NoCursor => next \in Cursor /\ Sound(next)
      <3>1. ASSUME ~ (Cardinality(there) <= limit) PROVE CursorAfter(c, rows) \in Cursor /\ Sound(CursorAfter(c, rows))
        <4>1. c \in Cursor /\ Sound(c)
          BY <1>1 DEF PagesInv
        <4>2. IsFiniteSet(there)
          <5>1. IsFiniteSet(Positions)
            <6>1. 0 \in Int /\ SnapshotLength - 1 \in Int
              BY PageConstants
            <6> QED
              BY <6>1, FS_Interval DEF Positions
          <5> QED
            BY <1>1, <5>1, FS_Subset
        <4>3. Cardinality(there) \in Nat /\ limit \in Nat
          <5> HIDE DEF there
          <5> QED
            BY <4>2, FS_CardinalityType, PageConstants
        <4>4. Cardinality(there) > limit
          <5> HIDE DEF there
          <5> QED
            BY <3>1, <4>3
        <4> QED
          BY <1>1, <4>1, <4>4, SoundAfter
      <3> QED
        BY <3>1
    <2>4. rows \in SUBSET Positions
      BY <1>1 DEF FirstRows
    <2>5. tab' = [tab EXCEPT ![h] = [cursor |-> c, rows |-> rows, next |-> next]]
      BY <2>1
    <2> HIDE DEF rows, next
    <2>6. [cursor |-> c, rows |-> rows, next |-> next] \in Page
      BY <1>1, <2>3, <2>4 DEF Page
    <2>7. PagesTypeOK'
      BY <1>1, <2>2, <2>5, <2>6 DEF PagesTypeOK
    <2>8. ASSUME NEW g \in Tabs, tab'[g].next # NoCursor PROVE Sound(tab'[g].next)
      <3>1. CASE g = h
        BY <1>1, <2>3, <2>5, <2>8, <3>1
      <3>2. CASE g # h
        BY <1>1, <2>5, <2>8, <3>2 DEF PagesInv
      <3> QED
        BY <3>1, <3>2
    <2> QED
      BY <2>2, <2>7, <2>8 DEF PagesInv
  <1>5. ASSUME NEW h \in Tabs, RecordsPage(h) PROVE PagesInv'
    <2>1. /\ tab' = [tab EXCEPT ![h] = NoPage]
          /\ \/ cursors' = cursors
             \/ tab[h].next # NoCursor /\ cursors' = cursors \cup {tab[h].next}
          /\ UNCHANGED <<onShelf, reading>>
      BY <1>5 DEF RecordsPage
    <2>2. NoPage \in Page /\ NoPage.next = NoCursor
      BY DEF NoPage, Page
    <2>3. tab[h].next \in Cursor \cup {NoCursor}
      BY <1>1 DEF Page
    <2>4. PagesTypeOK'
      BY <1>1, <2>1, <2>2, <2>3 DEF PagesTypeOK
    <2>5. \A c \in cursors' : Sound(c)
      BY <2>1 DEF PagesInv
    <2>6. ASSUME NEW g \in Tabs, tab'[g].next # NoCursor PROVE Sound(tab'[g].next)
      BY <1>1, <2>1, <2>2, <2>6 DEF PagesInv
    <2> QED
      BY <2>4, <2>5, <2>6 DEF PagesInv
  <1>6. CASE UNCHANGED pageVars
    BY <1>6 DEF PagesInv, PagesTypeOK, pageVars
  <1> QED
    BY <1>2, <1>3, <1>4, <1>5, <1>6 DEF PagesNext

\* Whoever pages through a snapshot gets every row that was on line as its page passed it,
\* once and with positions counted without a gap, however items go off line and come back and
\* cursors are used again, for any length, limits and tabs (_page_from_snapshot, record_page).
THEOREM CursorsAreSound == PagesSpec => [] CursorsMissNothing
  <1>1. PagesInv => CursorsMissNothing
    BY DEF PagesInv, CursorsMissNothing, Sound
  <1> QED
    BY <1>1, InitPages, PagesStep, PTL DEF PagesSpec

-----------------------------------------------------------------------------
(* The feed and the profile in the browser *)

\* Records by their fields: a page's rows and the places of cursors do not matter here.
ViewTypes ==
    /\ view.gen \in Nat /\ kept \in [all : Nat, telling : Nat]
    /\ DOMAIN view = {"type", "data", "gen", "more", "failed", "state", "missed"}
    /\ DOMAIN view.data = {"items", "snapshot", "cursor", "made"}
    /\ rail \in [gen : Nat, shown : Nat, missed : BOOLEAN]
    /\ railCalls \subseteq [gen : Nat, seen : Nat]
    /\ \A act \in acts : DOMAIN act = {"n", "of", "telling", "at"}
    /\ \A call \in calls : call.gen \in Nat /\ call.seen \in Nat

IsFirst(call) == IsCurrent(call) /\ call.from = NoPosition

\* A generation asks once, and those asked for are not ahead of their controller.
AskedOnce ==
    /\ \A call \in calls : call.gen <= view.gen
    /\ \A c, d \in calls : c.from = NoPosition /\ d.from = NoPosition /\ c.gen = d.gen => c = d
    /\ \A call \in railCalls : call.gen <= rail.gen
    /\ \A c, d \in railCalls : c.gen = d.gen => c = d

\* Unless an event is kept whose success has not been heard, what the profile shows, or
\* will be told by the call that counts, has every event that was kept, ...
RailInv ==
    (\A act \in acts : act.at # "kept") =>
        /\ \A call \in railCalls : RailIsCurrent(call) => call.seen = kept.all
        /\ (\A call \in railCalls : ~ RailIsCurrent(call)) => rail.missed \/ rail.shown = kept.all

\* ... and the personalized feed has every one that tells for it.
FeedInv ==
    (\A act \in acts : act.at = "kept" => ~ TellsFeed(act)) /\ view.type = "personalized" =>
        /\ \A call \in calls : IsFirst(call) => call.seen = kept.telling
        /\ (\A call \in calls : ~ IsFirst(call)) => view.missed \/ view.data.made = kept.telling

FollowInv == ViewTypes /\ AskedOnce /\ RailInv /\ FeedInv

Entry == [of : Nat, row : Nat]

IsMore(call) == IsCurrent(call) /\ call.from # NoPosition

\* What is shown is the beginning of its snapshot, and the cursor leads to the next row.
RowsInv ==
    LET data == view.data
    IN /\ view.gen \in Nat \ {0} /\ data.snapshot \in 0 .. view.gen
       /\ data.items \in Seq(Entry)
       /\ \A n \in 1 .. Len(data.items) : data.items[n] = [of |-> data.snapshot, row |-> n]
       /\ data.cursor = NoPosition
          \/ (data.cursor = Len(data.items) /\ data.cursor \in 1 .. SnapshotRows - 1 /\ data.snapshot # 0)

\* At most one call for more counts, and it follows on what is shown unless a first page
\* came in between; as long as one is to come, all that is shown is of an older snapshot.
CallsInv ==
    /\ \A call \in calls : IsMore(call) =>
          /\ view.more /\ view.data.snapshot # 0
          /\ call.snapshot \in Nat /\ call.from \in 1 .. SnapshotRows - 1
          /\ call.snapshot = view.data.snapshot => call.from = Len(view.data.items)
          /\ \A other \in calls : IsMore(other) => other = call
    /\ \A call \in calls : IsFirst(call) =>
          /\ call.snapshot = view.gen /\ view.data.snapshot # view.gen
          /\ \A other \in calls : IsMore(other) => other.snapshot # view.gen

\* Who waits has a call that will tell.
WaitInv ==
    /\ view.more => \E call \in calls : IsMore(call)
    /\ view.state = "loading" => \E call \in calls : IsFirst(call)

ShownInv == RowsInv /\ CallsInv /\ WaitInv

ViewFields == {"type", "data", "gen", "more", "failed", "state", "missed"}

DataFields == {"items", "snapshot", "cursor", "made"}

\* A step of the feed controller that asks for no first page and takes none over
SameFeed ==
    /\ view'.gen = view.gen /\ view'.type = view.type
    /\ view'.missed = view.missed /\ view'.data.made = view.data.made
    /\ DOMAIN view' = ViewFields /\ DOMAIN view'.data = DataFields

LEMMA MoreAsked == ASSUME FollowInv, RequestMore PROVE SameFeed
  BY DEF RequestMore, SameFeed, FollowInv, ViewTypes, ViewFields, DataFields

LEMMA MoreRefused == ASSUME FollowInv, NEW invalid \in BOOLEAN, view' = MoreFailed(invalid) PROVE SameFeed
  BY DEF MoreFailed, SameFeed, FollowInv, ViewTypes, ViewFields, DataFields

LEMMA SameView == ASSUME FollowInv, view' = view PROVE SameFeed
  BY DEF SameFeed, FollowInv, ViewTypes, ViewFields, DataFields

LEMMA MoreArrived == ASSUME FollowInv, NEW call, NEW page, MorePage(call, page) PROVE SameFeed
  BY SameView, MoreRefused DEF MorePage, SameFeed, FollowInv, ViewTypes, ViewFields, DataFields

\* The profile's part, by what a step does to its calls and to the events
LEMMA RailStays ==
    ASSUME FollowInv, UNCHANGED <<rail, railCalls, kept>>,
           (\A act \in acts' : act.at # "kept") => (\A act \in acts : act.at # "kept")
    PROVE  RailInv'
  BY DEF FollowInv, RailInv, RailIsCurrent

\* The feed's part, when no first page is asked for or taken over
LEMMA FeedStays ==
    ASSUME FollowInv, SameFeed, kept' = kept, \A call \in calls : call.from = NoPosition => call \in calls' \/ ~ IsCurrent(call),
           \A call \in calls' : call.from = NoPosition => call \in calls,
           (\A act \in acts' : act.at = "kept" => ~ TellsFeed(act)) => (\A act \in acts : act.at = "kept" => ~ TellsFeed(act))
    PROVE  FeedInv'
  BY DEF FollowInv, FeedInv, SameFeed, IsFirst, IsCurrent

LEMMA FirstAsked ==
    ASSUME FollowInv, NEW type, NEW retain \in BOOLEAN, RequestFirst(type, retain), kept' = kept
    PROVE  /\ view'.gen \in Nat /\ DOMAIN view' = ViewFields /\ DOMAIN view'.data = DataFields
           /\ \A call \in calls' : call.gen \in Nat /\ call.seen \in Nat /\ call.gen <= view'.gen
           /\ \A c, d \in calls' : c.from = NoPosition /\ d.from = NoPosition /\ c.gen = d.gen => c = d
           /\ FeedInv'
  <1> DEFINE new == FirstCall(view.gen + 1, type, kept.telling)
  <1>1. /\ view.gen \in Nat /\ kept.telling \in Nat /\ calls' = calls \cup {new}
        /\ \A call \in calls : call.gen \in Nat /\ call.seen \in Nat /\ call.gen <= view.gen
    BY DEF FollowInv, ViewTypes, AskedOnce, RequestFirst
  <1>2. view'.gen = view.gen + 1 /\ DOMAIN view' = ViewFields /\ DOMAIN view'.data = DataFields
    BY DEF RequestFirst, Requested, FollowInv, ViewTypes, ViewFields, DataFields, NoData
  <1>3. new.gen = view.gen + 1 /\ new.seen = kept.telling /\ new.from = NoPosition
    BY DEF FirstCall
  <1> HIDE DEF new
  <1>4. \A call \in calls' : call = new \/ (call \in calls /\ call.gen # view.gen + 1)
    BY <1>1
  <1>5. \A call \in calls' : call.gen \in Nat /\ call.seen \in Nat /\ call.gen <= view'.gen
    BY <1>1, <1>2, <1>3, <1>4
  <1>6. \A c, d \in calls' : c.from = NoPosition /\ d.from = NoPosition /\ c.gen = d.gen => c = d
    BY <1>3, <1>4 DEF FollowInv, AskedOnce
  <1>7. FeedInv'
    <2>1. new \in calls' /\ \A call \in calls' : call.gen = view'.gen => call = new
      BY <1>1, <1>2, <1>4
    <2>2. kept'.telling = kept.telling
      OBVIOUS
    <2>3. \A call \in calls' : call.gen = view'.gen /\ call.from = NoPosition => call.seen = kept'.telling
      BY <1>3, <2>1, <2>2
    <2>4. \E call \in calls' : call.gen = view'.gen /\ call.from = NoPosition
      BY <1>2, <1>3, <2>1
    <2>5. QED
      BY <2>3, <2>4 DEF FeedInv, IsFirst, IsCurrent
  <1>8. QED
    BY <1>1, <1>2, <1>5, <1>6, <1>7

\* First pages are asked for, by the user's choice or retry.
LEMMA AsksKeep ==
    ASSUME FollowInv, NEW type, NEW retain \in BOOLEAN, RequestFirst(type, retain), UNCHANGED <<rail, railCalls, acts, kept>>
    PROVE  FollowInv'
  <1>1. RailInv'
    BY RailStays
  <1>2. QED
    BY <1>1, FirstAsked DEF FollowInv, ViewTypes, AskedOnce, ViewFields, DataFields

LEMMA MoreKeeps == ASSUME FollowInv, RequestMore, UNCHANGED <<rail, railCalls, acts, kept>> PROVE FollowInv'
  <1> DEFINE new == MoreCall(view)
  <1>1. calls' = calls \cup {new} /\ SameFeed
    BY MoreAsked DEF RequestMore
  <1>2. new.gen = view.gen /\ new.seen = 0 /\ new.from # NoPosition
    BY DEF MoreCall, RequestMore
  <1> HIDE DEF new
  <1>3. \A call \in calls' : call.from = NoPosition => call \in calls
    BY <1>1, <1>2
  <1>4. FeedInv'
    BY <1>1, <1>3, FeedStays
  <1>5. RailInv'
    BY RailStays
  <1>6. AskedOnce'
    BY <1>1, <1>2, <1>3 DEF FollowInv, ViewTypes, AskedOnce, SameFeed
  <1>7. ViewTypes'
    BY <1>1, <1>2 DEF FollowInv, ViewTypes, SameFeed, ViewFields, DataFields
  <1>8. QED
    BY <1>4, <1>5, <1>6, <1>7 DEF FollowInv

LEMMA UserKeeps ==
    ASSUME FollowInv, Retry \/ LoadMore \/ \E type \in FeedTypes : SetFeedType(type)
    PROVE  FollowInv'
  <1>1. PICK type : type = view.type
    OBVIOUS
  <1>2. RequestFirst(view.type, TRUE) => RequestFirst(type, TRUE)
    BY <1>1
  <1>3. QED
    BY <1>2, AsksKeep, MoreKeeps DEF Retry, LoadMore, SetFeedType

LEMMA ArrivesKeeps == ASSUME FollowInv, NEW call \in calls, Arrives(call) PROVE FollowInv'
  <1>1. calls' = calls \ {call} /\ UNCHANGED <<rail, railCalls, acts, kept>>
    BY DEF Arrives
  <1>2. RailInv'
    BY <1>1, RailStays
  <1>3. \A c \in calls' : c \in calls
    BY <1>1
  <1>4. ASSUME SameFeed, FeedInv'
        PROVE  FollowInv'
    BY <1>1, <1>2, <1>3, <1>4 DEF FollowInv, ViewTypes, AskedOnce, SameFeed, ViewFields, DataFields
  <1>5. CASE call.from # NoPosition
    <2>1. SameFeed
      BY <1>5, MoreArrived, MoreRefused, SameView DEF Arrives, FirstPage, FirstFails, MoreFails
    <2>2. FeedInv'
      BY <1>1, <1>5, <2>1, FeedStays
    <2>3. QED
      BY <1>4, <2>1, <2>2
  <1>6. CASE call.from = NoPosition /\ ~ IsCurrent(call)
    <2>1. SameFeed
      BY <1>6, SameView DEF Arrives, FirstPage, FirstFails, MorePage, MoreFails
    <2>2. FeedInv'
      BY <1>1, <1>6, <2>1, FeedStays
    <2>3. QED
      BY <1>4, <2>1, <2>2
  <1>7. CASE call.from = NoPosition /\ IsCurrent(call)
    <2>1. /\ view'.gen = view.gen /\ view'.type = view.type
          /\ DOMAIN view' = ViewFields /\ DOMAIN view'.data = DataFields
          /\ view'.missed \/ view'.data.made \in call.seen .. kept.telling
      <3>1. CASE FirstFails(call)
        BY <1>7, <3>1 DEF FirstFails, FollowInv, ViewTypes, ViewFields, DataFields
      <3>2. ASSUME NEW page \in PagesFor(call), FirstPage(call, page)
            PROVE  /\ view'.gen = view.gen /\ view'.type = view.type
                   /\ DOMAIN view' = ViewFields /\ DOMAIN view'.data = DataFields
                   /\ view'.data.made \in call.seen .. kept.telling
        <4>1. page.made \in call.seen .. kept.telling
          BY <1>7 DEF PagesFor
        <4> HIDE DEF PagesFor
        <4>2. QED
          BY <1>7, <3>2, <4>1 DEF FirstPage, FollowInv, ViewTypes, ViewFields, DataFields
      <3>3. QED
        BY <1>7, <3>1, <3>2 DEF Arrives, MorePage, MoreFails
    <2>2. FeedInv'
      <3>1. ASSUME \A act \in acts : act.at = "kept" => ~ TellsFeed(act), view.type = "personalized"
            PROVE  view'.missed \/ view'.data.made = kept.telling
        <4>1. call.seen = kept.telling /\ kept.telling \in Nat
          BY <1>7, <3>1 DEF FollowInv, FeedInv, IsFirst, ViewTypes
        <4>2. QED
          BY <2>1, <4>1
      <3>2. \A c \in calls' : ~ (c.gen = view'.gen /\ c.from = NoPosition)
        BY <1>1, <1>7, <2>1 DEF FollowInv, AskedOnce, IsCurrent
      <3>3. QED
        BY <1>1, <2>1, <3>1, <3>2 DEF FeedInv, IsFirst, IsCurrent
    <2>3. AskedOnce'
      BY <1>1, <1>3, <2>1 DEF FollowInv, AskedOnce
    <2>4. ViewTypes'
      BY <1>1, <1>3, <2>1 DEF FollowInv, ViewTypes, ViewFields, DataFields
    <2>5. QED
      BY <1>2, <2>2, <2>3, <2>4 DEF FollowInv
  <1>8. QED
    BY <1>5, <1>6, <1>7

\* An answer for the profile: that of the call that counts is the only one.
LEMMA ProfileAnsweredKeeps == ASSUME FollowInv, NEW call \in railCalls, ProfileAnswered(call) PROVE FollowInv'
  <1>1. /\ UNCHANGED <<view, calls, acts, kept>> /\ railCalls' = railCalls \ {call}
        /\ rail \in [gen : Nat, shown : Nat, missed : BOOLEAN] /\ railCalls \subseteq [gen : Nat, seen : Nat]
        /\ kept \in [all : Nat, telling : Nat]
    BY DEF ProfileAnswered, FollowInv, ViewTypes
  <1>2. /\ rail' \in [gen : Nat, shown : Nat, missed : BOOLEAN] /\ rail'.gen = rail.gen
        /\ IF RailIsCurrent(call) THEN rail'.missed \/ rail'.shown \in call.seen .. kept.all ELSE rail' = rail
    <2>1. CASE ~ RailIsCurrent(call)
      BY <1>1, <2>1 DEF ProfileAnswered
    <2>2. CASE RailIsCurrent(call) /\ rail' = [rail EXCEPT !.missed = TRUE]
      BY <1>1, <2>2
    <2>3. ASSUME NEW told \in call.seen .. kept.all, rail' = [rail EXCEPT !.shown = told, !.missed = FALSE]
          PROVE  /\ rail' \in [gen : Nat, shown : Nat, missed : BOOLEAN] /\ rail'.gen = rail.gen
                 /\ rail'.shown \in call.seen .. kept.all
      <3>1. told \in Nat
        BY <1>1
      <3>2. QED
        BY <1>1, <2>3, <3>1
    <2>4. QED
      BY <2>1, <2>2, <2>3 DEF ProfileAnswered
  <1>3. RailInv'
    <2> SUFFICES ASSUME \A act \in acts : act.at # "kept"
                 PROVE  /\ \A c \in railCalls' : c.gen = rail.gen => c.seen = kept.all
                        /\ (\A c \in railCalls' : c.gen # rail.gen) => rail'.missed \/ rail'.shown = kept.all
      BY <1>1, <1>2 DEF RailInv, RailIsCurrent
    <2>1. \A c \in railCalls : c.gen = rail.gen => c.seen = kept.all
      BY DEF FollowInv, RailInv, RailIsCurrent
    <2>2. CASE RailIsCurrent(call)
      <3>1. call.seen = kept.all /\ kept.all \in Nat
        BY <1>1, <2>1, <2>2 DEF RailIsCurrent
      <3>2. rail'.missed \/ rail'.shown = kept.all
        BY <1>2, <2>2, <3>1
      <3>3. QED
        BY <1>1, <2>1, <3>2
    <2>3. CASE ~ RailIsCurrent(call)
      BY <1>1, <1>2, <2>1, <2>3 DEF FollowInv, RailInv, RailIsCurrent
    <2>4. QED
      BY <2>2, <2>3
  <1>4. FeedInv'
    BY <1>1, SameView, FeedStays
  <1>5. AskedOnce'
    BY <1>1, <1>2 DEF FollowInv, AskedOnce
  <1>6. ViewTypes'
    BY <1>1, <1>2 DEF FollowInv, ViewTypes
  <1>7. QED
    BY <1>3, <1>4, <1>5, <1>6 DEF FollowInv

LEMMA ActsKeeps == ASSUME FollowInv, NEW telling \in BOOLEAN, Acts(telling) PROVE FollowInv'
  <1> DEFINE new == [n |-> CHOOSE n \in 1 .. MaxActs : \A act \in acts : act.n # n,
                     of |-> view.type, telling |-> telling, at |-> "sent"]
  <1>1. acts' = acts \cup {new} /\ UNCHANGED <<view, calls, rail, railCalls, kept>>
    BY DEF Acts
  <1>2. new.at = "sent" /\ DOMAIN new = {"n", "of", "telling", "at"}
    OBVIOUS
  <1> HIDE DEF new
  <1>3. RailInv'
    BY <1>1, <1>2, RailStays
  <1>4. FeedInv'
    BY <1>1, <1>2, SameView, FeedStays
  <1>5. QED
    BY <1>1, <1>2, <1>3, <1>4 DEF FollowInv, ViewTypes, AskedOnce

LEMMA KeepsKeeps == ASSUME FollowInv, NEW act \in acts, Keeps(act) PROVE FollowInv'
  <1> DEFINE new == [act EXCEPT !.at = "kept"]
             more == IF TellsFeed(act) THEN 1 ELSE 0
  <1>1. /\ act.at = "sent" /\ acts' = (acts \ {act}) \cup {new} /\ UNCHANGED <<view, calls, rail, railCalls>>
        /\ kept' = [all |-> kept.all + 1, telling |-> kept.telling + more]
    BY DEF Keeps
  <1>2. /\ new.at = "kept" /\ DOMAIN new = {"n", "of", "telling", "at"}
        /\ new.of = act.of /\ new.telling = act.telling
    BY DEF FollowInv, ViewTypes
  <1>3. TellsFeed(new) <=> TellsFeed(act)
    BY <1>2 DEF TellsFeed
  <1>4. more \in Nat
    OBVIOUS
  <1> HIDE DEF new, more
  <1>5. kept' \in [all : Nat, telling : Nat]
    BY <1>1, <1>4 DEF FollowInv, ViewTypes
  <1>6. new \in acts'
    BY <1>1
  <1>7. RailInv'
    BY <1>2, <1>6 DEF RailInv
  <1>8. FeedInv'
    <2>1. CASE TellsFeed(act)
      <3>1. \E a \in acts' : a.at = "kept" /\ TellsFeed(a)
        BY <1>2, <1>3, <1>6, <2>1
      <3>2. QED
        BY <3>1 DEF FeedInv, TellsFeed
    <2>2. CASE ~ TellsFeed(act)
      <3>1. kept'.telling = kept.telling
        BY <1>1, <2>2 DEF more, FollowInv, ViewTypes
      <3>2. \A a \in acts : a.at = "kept" => a \in acts'
        BY <1>1
      <3>3. QED
        BY <1>1, <3>1, <3>2 DEF FollowInv, FeedInv, IsFirst, IsCurrent, TellsFeed
    <2>3. QED
      BY <2>1, <2>2
  <1>9. QED
    BY <1>1, <1>2, <1>5, <1>7, <1>8 DEF FollowInv, ViewTypes, AskedOnce

LEMMA TurnedDownKeeps == ASSUME FollowInv, NEW act \in acts, TurnedDown(act) PROVE FollowInv'
  <1>1. act.at = "sent" /\ acts' = acts \ {act} /\ UNCHANGED <<view, calls, rail, railCalls, kept>>
    BY DEF TurnedDown
  <1>2. RailInv'
    BY <1>1, RailStays
  <1>3. FeedInv'
    BY <1>1, SameView, FeedStays
  <1>4. QED
    BY <1>1, <1>2, <1>3 DEF FollowInv, ViewTypes, AskedOnce

\* The profile is asked for again.
LEMMA ProfileAsked ==
    ASSUME FollowInv, RefreshProfile, kept' = kept
    PROVE  /\ rail' \in [gen : Nat, shown : Nat, missed : BOOLEAN]
           /\ railCalls' \subseteq [gen : Nat, seen : Nat]
           /\ \A c \in railCalls' : c.gen <= rail'.gen
           /\ \A c, d \in railCalls' : c.gen = d.gen => c = d
           /\ RailInv'
  <1> DEFINE new == [gen |-> rail.gen + 1, seen |-> kept.all]
  <1>1. /\ kept' = kept /\ kept \in [all : Nat, telling : Nat]
        /\ rail \in [gen : Nat, shown : Nat, missed : BOOLEAN] /\ railCalls \subseteq [gen : Nat, seen : Nat]
        /\ rail' = [rail EXCEPT !.gen = @ + 1, !.missed = FALSE] /\ railCalls' = railCalls \cup {new}
    BY DEF RefreshProfile, FollowInv, ViewTypes
  <1>2. /\ rail' \in [gen : Nat, shown : Nat, missed : BOOLEAN] /\ rail'.gen = rail.gen + 1
        /\ railCalls' \subseteq [gen : Nat, seen : Nat]
    <2>1. rail.gen \in Nat /\ rail.gen + 1 \in Nat /\ kept.all \in Nat
      BY <1>1
    <2>2. rail' = [gen |-> rail.gen + 1, shown |-> rail.shown, missed |-> FALSE] /\ rail.shown \in Nat
      BY <1>1
    <2>3. new \in [gen : Nat, seen : Nat]
      BY <2>1
    <2>4. railCalls' \subseteq [gen : Nat, seen : Nat]
      BY <1>1, <2>3
    <2>5. QED
      BY <2>1, <2>2, <2>4
  <1>3. new.gen = rail.gen + 1 /\ new.seen = kept.all
    OBVIOUS
  <1> HIDE DEF new
  <1>4. \A c \in railCalls' : c = new \/ (c \in railCalls /\ c.gen <= rail.gen /\ c.gen # rail.gen + 1)
    <2>1. \A c \in railCalls : c.gen <= rail.gen /\ c.gen \in Nat /\ rail.gen \in Nat
      BY <1>1 DEF FollowInv, AskedOnce
    <2>2. QED
      BY <1>1, <2>1
  <1>5. /\ \A c \in railCalls' : c.gen <= rail'.gen
        /\ \A c, d \in railCalls' : c.gen = d.gen => c = d
    <2>1. \A c \in railCalls' : c.gen <= rail'.gen
      <3>1. ASSUME NEW c \in railCalls'
            PROVE  c.gen <= rail.gen + 1
        BY <1>1, <1>2, <1>3, <1>4
      <3>2. QED
        BY <1>2, <3>1
    <2>2. QED
      BY <1>3, <1>4, <2>1 DEF FollowInv, AskedOnce
  <1>6. RailInv'
    <2>1. new \in railCalls' /\ \A c \in railCalls' : c.gen = rail'.gen => c = new
      BY <1>1, <1>2, <1>4
    <2>2. QED
      BY <1>1, <1>2, <1>3, <2>1 DEF RailInv, RailIsCurrent
  <1>7. QED
    BY <1>2, <1>5, <1>6

LEMMA RetryProfileKeeps == ASSUME FollowInv, RetryProfile PROVE FollowInv'
  <1>1. RefreshProfile /\ UNCHANGED <<view, calls, acts, kept>>
    BY DEF RetryProfile
  <1>2. FeedInv'
    BY <1>1, SameView, FeedStays
  <1>3. QED
    BY <1>1, <1>2, ProfileAsked DEF FollowInv, ViewTypes, AskedOnce

\* A retry from the personalized feed tells it, and the other feeds are not looked at.
LEMMA SendsAgainKeeps == ASSUME FollowInv, NEW act \in acts, SendsAgain(act) PROVE FollowInv'
  <1> DEFINE new == [act EXCEPT !.of = view.type]
  <1>1. acts' = (acts \ {act}) \cup {new} /\ UNCHANGED <<view, calls, rail, railCalls, kept>>
    BY DEF SendsAgain
  <1>2. /\ new.at = act.at /\ DOMAIN new = {"n", "of", "telling", "at"}
        /\ new.of = view.type /\ new.telling = act.telling
    BY DEF FollowInv, ViewTypes
  <1> HIDE DEF new
  <1>3. new \in acts'
    BY <1>1
  <1>4. RailInv'
    BY <1>1, <1>2, <1>3, RailStays
  <1>5. CASE view.type = "personalized"
    <2>1. TellsFeed(act) => TellsFeed(new)
      BY <1>2, <1>5 DEF TellsFeed
    <2>2. (\A a \in acts' : a.at = "kept" => ~ TellsFeed(a)) => (\A a \in acts : a.at = "kept" => ~ TellsFeed(a))
      BY <1>1, <1>2, <1>3, <2>1
    <2>3. FeedInv'
      BY <1>1, <2>2, SameView, FeedStays
    <2>4. QED
      BY <1>1, <1>2, <1>4, <2>3 DEF FollowInv, ViewTypes, AskedOnce
  <1>6. CASE view.type # "personalized"
    <2>1. FeedInv'
      BY <1>1, <1>6 DEF FeedInv
    <2>2. QED
      BY <1>1, <1>2, <1>4, <2>1 DEF FollowInv, ViewTypes, AskedOnce
  <1>7. QED
    BY <1>5, <1>6

\* A success that is heard: both are asked for again, or the profile alone.
LEMMA SucceedsKeeps == ASSUME FollowInv, NEW act \in acts, Succeeds(act) PROVE FollowInv'
  <1>1. acts' = acts \ {act} /\ kept' = kept /\ RefreshProfile
    BY DEF Succeeds
  <1>2. /\ rail' \in [gen : Nat, shown : Nat, missed : BOOLEAN]
        /\ railCalls' \subseteq [gen : Nat, seen : Nat]
    BY <1>1, ProfileAsked
  <1>3. /\ \A c \in railCalls' : c.gen <= rail'.gen
        /\ \A c, d \in railCalls' : c.gen = d.gen => c = d
    BY <1>1, ProfileAsked
  <1>4. RailInv'
    BY <1>1, ProfileAsked
  <1>5. CASE TellsFeed(act)
    <2>1. PICK type : type = view.type
      OBVIOUS
    <2>2. RequestFirst(type, TRUE)
      BY <1>5, <2>1 DEF Succeeds
    <2>3. QED
      BY <1>1, <1>2, <1>3, <1>4, <2>2, FirstAsked DEF FollowInv, ViewTypes, AskedOnce, ViewFields, DataFields
  <1>6. CASE ~ TellsFeed(act)
    <2>1. UNCHANGED <<view, calls>>
      BY <1>6 DEF Succeeds
    <2>2. (\A a \in acts' : a.at = "kept" => ~ TellsFeed(a)) => (\A a \in acts : a.at = "kept" => ~ TellsFeed(a))
      BY <1>1, <1>6
    <2>3. FeedInv'
      BY <1>1, <2>1, <2>2, SameView, FeedStays
    <2>4. QED
      BY <1>1, <1>2, <1>3, <1>4, <2>1, <2>3 DEF FollowInv, ViewTypes, AskedOnce
  <1>7. QED
    BY <1>5, <1>6

LEMMA FollowInvNext == FollowInv /\ [ViewNext]_viewVars => FollowInv'
  <1> SUFFICES ASSUME FollowInv, [ViewNext]_viewVars
               PROVE  FollowInv'
    OBVIOUS
  <1>1. CASE ViewNext
    BY <1>1, UserKeeps, ArrivesKeeps, ProfileAnsweredKeeps, ActsKeeps, KeepsKeeps, SucceedsKeeps, TurnedDownKeeps,
        RetryProfileKeeps, SendsAgainKeeps DEF ViewNext
  <1>2. CASE UNCHANGED viewVars
    BY <1>2 DEF viewVars, FollowInv, ViewTypes, AskedOnce, RailInv, RailIsCurrent, FeedInv, IsFirst, IsCurrent
  <1>3. QED
    BY <1>1, <1>2

LEMMA FollowInit == ViewInit => FollowInv
  <1> SUFFICES ASSUME ViewInit PROVE FollowInv
    OBVIOUS
  <1>1. ViewTypes
    BY DEF ViewInit, ViewTypes, NoData, FirstCall
  <1>2. AskedOnce
    BY DEF ViewInit, AskedOnce, FirstCall
  <1>3. RailInv /\ FeedInv
    BY DEF ViewInit, RailInv, RailIsCurrent, FeedInv, IsFirst, IsCurrent, FirstCall
  <1>4. QED
    BY <1>1, <1>2, <1>3 DEF FollowInv

\* Once all is answered, profile and personalized feed tell every event that was kept, for
\* any number of events, calls and switches and any order of their answers.
THEOREM EventsFollowed == ViewSpec => []OwnEventsFollowed
  <1>1. FollowInv => OwnEventsFollowed
    BY DEF FollowInv, RailInv, FeedInv, IsFirst, OwnEventsFollowed
  <1>2. QED
    BY <1>1, FollowInit, FollowInvNext, PTL DEF ViewSpec

-----------------------------------------------------------------------------
(* What the browser shows of a snapshot *)

\* A function on 1 .. k is the sequence of k elements.
LEMMA SequenceOf ==
    ASSUME NEW S, NEW k \in Nat, NEW f, DOMAIN f = 1 .. k, f \in [1 .. k -> S]
    PROVE  f \in Seq(S) /\ Len(f) = k
  <1>1. f \in Seq(S)
    OBVIOUS
  <1>2. Len(f) \in Nat /\ DOMAIN f = 1 .. Len(f)
    BY <1>1
  <1> QED
    BY <1>1, <1>2

\* The n-th of the numbers up to k is n.
LEMMA NthOfAll ==
    ASSUME NEW k \in Nat
    PROVE  Cardinality(1 .. k) = k /\ \A n \in 1 .. k : Nth(1 .. k, n) = n
  <1>1. ASSUME NEW m \in 1 .. k PROVE Cardinality({j \in 1 .. k : j < m}) = m - 1
    <2>1. {j \in 1 .. k : j < m} = 1 .. m - 1
      OBVIOUS
    <2>2. 1 \in Int /\ m - 1 \in Int /\ m - 1 >= 0
      OBVIOUS
    <2>3. Cardinality(1 .. m - 1) = m - 1
      BY <2>2, FS_Interval
    <2> QED
      BY <2>1, <2>3
  <1>2. Cardinality(1 .. k) = k
    <2>1. 1 \in Int /\ k \in Int
      OBVIOUS
    <2> QED
      BY <2>1, FS_Interval
  <1>3. ASSUME NEW n \in 1 .. k PROVE Nth(1 .. k, n) = n
    <2>1. \A m \in 1 .. k : Cardinality({j \in 1 .. k : j < m}) = n - 1 <=> m = n
      BY <1>1
    <2> DEFINE S == 1 .. k
    <2>2. n \in S /\ \A m \in S : Cardinality({j \in S : j < m}) = n - 1 <=> m = n
      BY <2>1
    <2> HIDE DEF S
    <2>3. Nth(S, n) = n
      BY <2>2 DEF Nth
    <2> QED
      BY <2>3 DEF S
  <1> QED
    BY <1>2, <1>3

\* The rows of a page follow on its cursor, and its own cursor on them.
LEMMA RowsOf ==
    ASSUME NEW from \in Nat, from < SnapshotRows
    PROVE  \E k \in Nat \ {0} :
              /\ Rows(from) = [n \in 1 .. k |-> from + n]
              /\ Len(Rows(from)) = k
              /\ NextFrom(from) = NoPosition
                 \/ (NextFrom(from) = from + k /\ from + k \in 1 .. SnapshotRows - 1)
  <1> DEFINE k == IF from + PageRows > SnapshotRows THEN SnapshotRows - from ELSE PageRows
  <1>1. k \in Nat \ {0}
    BY ViewConstants
  <1>2. Rows(from) = [n \in 1 .. k |-> from + n]
    BY DEF Rows
  <1>3. NextFrom(from) = NoPosition \/ (NextFrom(from) = from + k /\ from + k \in 1 .. SnapshotRows - 1)
    BY ViewConstants DEF NextFrom
  <1> HIDE DEF k
  <1>4. Len(Rows(from)) = k
    <2> DEFINE rows == [n \in 1 .. k |-> from + n]
    <2>1. DOMAIN rows = 1 .. k /\ rows \in [1 .. k -> Nat]
      BY <1>1
    <2> HIDE DEF rows
    <2>2. Len(rows) = k
      BY <1>1, <2>1, SequenceOf
    <2> QED
      BY <1>2, <2>2 DEF rows
  <1> QED
    BY <1>1, <1>2, <1>3, <1>4

\* The entries of the first page are the first rows.
LEMMA FirstEntries ==
    ASSUME NEW page, NEW s \in Nat, page.snapshot = s, page.rows = Rows(0), page.cursor = NextFrom(0)
    PROVE  LET items == Entries(page)
           IN /\ items \in Seq(Entry)
              /\ \A n \in 1 .. Len(items) : items[n] = [of |-> s, row |-> n]
              /\ page.cursor = NoPosition
                 \/ (page.cursor = Len(items) /\ page.cursor \in 1 .. SnapshotRows - 1)
  <1>1. 0 \in Nat /\ 0 < SnapshotRows
    BY ViewConstants
  <1>2. PICK k \in Nat \ {0} :
           /\ Rows(0) = [n \in 1 .. k |-> 0 + n] /\ Len(Rows(0)) = k
           /\ NextFrom(0) = NoPosition \/ (NextFrom(0) = 0 + k /\ 0 + k \in 1 .. SnapshotRows - 1)
    BY <1>1, RowsOf
  <1> DEFINE items == Entries(page)
  <1>3. items = [n \in 1 .. k |-> [of |-> s, row |-> n]]
    BY <1>2 DEF Entries
  <1>4. DOMAIN items = 1 .. k /\ items \in [1 .. k -> Entry]
    BY <1>3 DEF Entry
  <1>5. items \in Seq(Entry) /\ Len(items) = k
    <2> HIDE DEF items
    <2> QED
      BY <1>4, SequenceOf
  <1>6. \A n \in 1 .. Len(items) : items[n] = [of |-> s, row |-> n]
    BY <1>3, <1>5
  <1> QED
    BY <1>2, <1>5, <1>6

\* Those of a page that follows on what is shown are appended, and none of them was shown.
LEMMA MoreEntries ==
    ASSUME NEW entries \in Seq(Entry), NEW s \in Nat, Len(entries) < SnapshotRows,
           \A n \in 1 .. Len(entries) : entries[n] = [of |-> s, row |-> n],
           NEW page, page.snapshot = s, page.rows = Rows(Len(entries)), page.cursor = NextFrom(Len(entries))
    PROVE  LET items == Appended(entries, page)
           IN /\ items \in Seq(Entry)
              /\ \A n \in 1 .. Len(items) : items[n] = [of |-> s, row |-> n]
              /\ page.cursor = NoPosition
                 \/ (page.cursor = Len(items) /\ page.cursor \in 1 .. SnapshotRows - 1)
  <1> DEFINE from == Len(entries)
             fresh == {n \in 1 .. Len(page.rows) : \A m \in 1 .. Len(entries) : entries[m].row # page.rows[n]}
             added == [n \in 1 .. Cardinality(fresh) |-> Entries(page)[Nth(fresh, n)]]
             items == entries \o added
  <1>1. from \in Nat /\ from < SnapshotRows
    OBVIOUS
  <1>2. PICK k \in Nat \ {0} :
           /\ Rows(from) = [n \in 1 .. k |-> from + n] /\ Len(Rows(from)) = k
           /\ NextFrom(from) = NoPosition \/ (NextFrom(from) = from + k /\ from + k \in 1 .. SnapshotRows - 1)
    <2> HIDE DEF from
    <2> QED
      BY <1>1, RowsOf
  <1>3. fresh = 1 .. k
    <2>1. \A n \in 1 .. k : page.rows[n] = from + n
      BY <1>2
    <2>2. \A m \in 1 .. from : entries[m].row = m
      <3> TAKE m \in 1 .. from
      <3>1. entries[m] = [of |-> s, row |-> m]
        OBVIOUS
      <3> QED
        BY <3>1
    <2>3. \A n \in 1 .. k, m \in 1 .. from : entries[m].row # page.rows[n]
      BY <1>1, <2>1, <2>2
    <2>4. Len(page.rows) = k
      BY <1>2
    <2> QED
      BY <2>3, <2>4
  <1>4. Entries(page) = [n \in 1 .. k |-> [of |-> s, row |-> from + n]]
    BY <1>2 DEF Entries
  <1>5. added = [n \in 1 .. k |-> [of |-> s, row |-> from + n]]
    <2>1. Cardinality(fresh) = k /\ \A n \in 1 .. k : Nth(fresh, n) = n
      BY <1>3, NthOfAll
    <2> HIDE DEF fresh, from
    <2> QED
      BY <1>4, <2>1
  <1>6. DOMAIN added = 1 .. k /\ added \in [1 .. k -> Entry]
    <2>1. \A n \in 1 .. k : [of |-> s, row |-> from + n] \in Entry
      BY <1>1 DEF Entry
    <2> HIDE DEF added
    <2> QED
      BY <1>5, <2>1
  <1>7. added \in Seq(Entry) /\ Len(added) = k
    <2> HIDE DEF added
    <2> QED
      BY <1>6, SequenceOf
  <1>8. /\ items \in Seq(Entry) /\ Len(items) = from + k
        /\ \A n \in 1 .. from : items[n] = entries[n]
        /\ \A n \in from + 1 .. from + k : items[n] = added[n - from]
    <2> HIDE DEF added
    <2> QED
      BY <1>1, <1>7
  <1>9. \A n \in 1 .. Len(items) : items[n] = [of |-> s, row |-> n]
    <2> TAKE n \in 1 .. Len(items)
    <2>1. CASE n \in 1 .. from
      <3> HIDE DEF items
      <3> QED
        BY <1>8, <2>1
    <2>2. CASE n \in from + 1 .. from + k
      <3>1. n - from \in 1 .. k /\ from + (n - from) = n
        BY <1>1, <2>2
      <3>2. added[n - from] = [of |-> s, row |-> n]
        <4> HIDE DEF added, from
        <4> QED
          BY <1>5, <3>1
      <3> HIDE DEF items, added
      <3> QED
        BY <1>8, <2>2, <3>2
    <2>3. n \in 1 .. from \/ n \in from + 1 .. from + k
      <3> HIDE DEF items
      <3> QED
        BY <1>1, <1>8
    <2> QED
      BY <2>1, <2>2, <2>3
  <1>10. Appended(entries, page) = items
    BY DEF Appended
  <1> HIDE DEF items
  <1>11. page.cursor = NoPosition \/ (page.cursor = Len(items) /\ page.cursor \in 1 .. SnapshotRows - 1)
    BY <1>2, <1>8
  <1> QED
    BY <1>8, <1>9, <1>10, <1>11

\* The rows are followed by what a step does to the data and the generation.
LEMMA RowsStay ==
    ASSUME RowsInv, view'.gen \in Nat, view'.gen >= view.gen, view'.data = view.data
    PROVE  RowsInv'
  <1>1. view.gen \in Nat \ {0} /\ view.data.snapshot \in 0 .. view.gen
    BY DEF RowsInv
  <1>2. view'.gen \in Nat \ {0} /\ view'.data.snapshot \in 0 .. view'.gen
    BY <1>1
  <1> QED
    BY <1>2 DEF RowsInv

\* A call that no longer counts
LEMMA LateArrives ==
    ASSUME ShownInv, NEW call, ~ IsCurrent(call), view' = view, calls' = calls \ {call}
    PROVE  ShownInv'
  <1>1. \A c : IsMore(c)' = IsMore(c) /\ IsFirst(c)' = IsFirst(c)
    BY DEF IsMore, IsFirst, IsCurrent
  <1>2. RowsInv'
    BY DEF ShownInv, RowsInv
  <1>3. CallsInv'
    BY <1>1 DEF ShownInv, CallsInv
  <1>4. WaitInv'
    BY <1>1 DEF ShownInv, WaitInv, IsMore, IsFirst
  <1> QED
    BY <1>2, <1>3, <1>4 DEF ShownInv

LEMMA ShownFirstAsked ==
    ASSUME FollowInv, ShownInv, NEW type, NEW retain \in BOOLEAN, RequestFirst(type, retain)
    PROVE  ShownInv'
  <1> DEFINE new == FirstCall(view.gen + 1, type, kept.telling)
  <1>1. calls' = calls \cup {new} /\ \A call \in calls : call.gen \in Nat /\ call.gen <= view.gen
    BY DEF FollowInv, ViewTypes, AskedOnce, RequestFirst
  <1>2. view.gen \in Nat \ {0} /\ view.data.snapshot \in 0 .. view.gen
    BY DEF ShownInv, RowsInv
  <1>3. view'.gen = view.gen + 1 /\ view'.more = FALSE /\ view'.data = IF retain THEN view.data ELSE NoData
    BY DEF RequestFirst, Requested, FollowInv, ViewTypes
  <1>4. new.gen = view.gen + 1 /\ new.snapshot = view.gen + 1 /\ new.from = NoPosition
    BY DEF FirstCall
  <1> HIDE DEF new
  <1>5. RowsInv'
    <2>1. CASE retain
      BY <1>2, <1>3, <2>1, RowsStay DEF ShownInv
    <2>2. CASE ~ retain
      <3>1. view'.data = NoData
        BY <1>3, <2>2
      <3>2. /\ NoData.snapshot = 0 /\ NoData.cursor = NoPosition
            /\ NoData.items = <<>> /\ <<>> \in Seq(Entry) /\ Len(<<>>) = 0
        BY DEF NoData
      <3>3. view'.gen \in Nat \ {0} /\ 0 \in 0 .. view'.gen /\ 1 .. 0 = {}
        BY <1>2, <1>3
      <3> QED
        BY <3>1, <3>2, <3>3 DEF RowsInv
    <2> QED
      BY <2>1, <2>2
  <1>6. \A call \in calls' : call.gen = view'.gen => call = new
    BY <1>1, <1>2, <1>3
  <1>7. view'.data.snapshot # view'.gen
    BY <1>2, <1>3 DEF NoData
  <1>8. CallsInv'
    BY <1>3, <1>4, <1>6, <1>7 DEF CallsInv, IsMore, IsFirst, IsCurrent
  <1>9. WaitInv'
    BY <1>1, <1>3, <1>4 DEF WaitInv, IsFirst, IsCurrent
  <1> QED
    BY <1>5, <1>8, <1>9 DEF ShownInv

LEMMA ShownMoreAsked == ASSUME FollowInv, ShownInv, RequestMore PROVE ShownInv'
  <1> DEFINE new == MoreCall(view)
  <1>1. /\ calls' = calls \cup {new} /\ view.data.cursor # NoPosition /\ ~ view.more
        /\ view'.more = TRUE /\ view'.gen = view.gen /\ view'.data = view.data /\ view'.state = view.state
    BY DEF RequestMore, FollowInv, ViewTypes
  <1>2. new.gen = view.gen /\ new.snapshot = view.data.snapshot /\ new.from = view.data.cursor
    BY DEF MoreCall
  <1>3. /\ view.gen \in Nat /\ view.data.snapshot \in Nat /\ view.data.snapshot # 0
        /\ new.from = Len(view.data.items) /\ new.from \in 1 .. SnapshotRows - 1
    BY <1>1, <1>2 DEF ShownInv, RowsInv
  <1> HIDE DEF new
  <1>4. \A c : IsMore(c)' = IsMore(c) /\ IsFirst(c)' = IsFirst(c)
    BY <1>1 DEF IsMore, IsFirst, IsCurrent
  <1>5. IsMore(new) /\ ~ IsFirst(new) /\ \A call \in calls : ~ IsMore(call)
    BY <1>1, <1>2 DEF IsMore, IsFirst, IsCurrent, ShownInv, CallsInv
  <1>6. RowsInv'
    BY <1>1, <1>3, RowsStay DEF ShownInv
  <1>7. CallsInv'
    <2>1. \A call \in calls' : IsMore(call) => call = new
      BY <1>1, <1>5
    <2>2. \A call \in calls' : IsFirst(call) => call.snapshot = view.gen /\ view.data.snapshot # view.gen
      BY <1>1, <1>5 DEF ShownInv, CallsInv
    <2> QED
      BY <1>1, <1>2, <1>3, <1>4, <2>1, <2>2 DEF CallsInv
  <1>8. WaitInv'
    BY <1>1, <1>4, <1>5 DEF ShownInv, WaitInv
  <1> QED
    BY <1>6, <1>7, <1>8 DEF ShownInv

\* The answer to the first page
LEMMA ShownFirstPage ==
    ASSUME FollowInv, ShownInv, NEW call \in calls, calls' = calls \ {call},
           NEW page \in PagesFor(call), FirstPage(call, page)
    PROVE  ShownInv'
  <1>1. CASE ~ IsCurrent(call)
    BY <1>1, LateArrives DEF FirstPage
  <1>2. CASE IsCurrent(call)
    <2>1. IsFirst(call) /\ call.from = NoPosition
      BY <1>2 DEF FirstPage, IsFirst
    <2>2. /\ call.snapshot = view.gen
          /\ \A other \in calls : IsMore(other) => other.snapshot # view.gen
          /\ \A other \in calls : IsFirst(other) => other = call
      BY <2>1 DEF ShownInv, CallsInv, FollowInv, AskedOnce, IsFirst, IsCurrent
    <2>3. page.snapshot = call.snapshot /\ page.rows = Rows(0) /\ page.cursor = NextFrom(0)
      BY <2>1 DEF PagesFor
    <2>4. /\ view'.gen = view.gen /\ view'.more = view.more /\ view'.state = Shown(page.rows)
          /\ view'.data = [items |-> Entries(page), snapshot |-> page.snapshot,
                           cursor |-> page.cursor, made |-> page.made]
      BY <1>2 DEF FirstPage, FollowInv, ViewTypes
    <2>5. view'.data.items = Entries(page) /\ view'.data.snapshot = view.gen /\ view'.data.cursor = page.cursor
      BY <2>2, <2>3, <2>4
    <2>6. view.gen \in Nat \ {0}
      BY DEF ShownInv, RowsInv
    <2>7. \A c : IsMore(c)' = IsMore(c) /\ IsFirst(c)' = IsFirst(c)
      BY <2>4 DEF IsMore, IsFirst, IsCurrent
    <2>8. RowsInv'
      <3> DEFINE items == Entries(page)
      <3>1. /\ items \in Seq(Entry)
            /\ \A n \in 1 .. Len(items) : items[n] = [of |-> view.gen, row |-> n]
            /\ page.cursor = NoPosition \/ (page.cursor = Len(items) /\ page.cursor \in 1 .. SnapshotRows - 1)
        BY <2>2, <2>3, <2>6, FirstEntries
      <3> HIDE DEF items
      <3>2. view'.data.items = items
        BY <2>5 DEF items
      <3>3. view'.gen = view.gen /\ view.gen \in 0 .. view.gen
        BY <2>4, <2>6
      <3> QED
        BY <2>5, <2>6, <3>1, <3>2, <3>3 DEF RowsInv
    <2>9. CallsInv'
      <3>1. \A other \in calls' : ~ IsFirst(other)
        BY <2>2
      <3>2. view.gen # 0
        BY <2>6
      <3> QED
        BY <2>2, <2>4, <2>5, <2>7, <3>1, <3>2 DEF ShownInv, CallsInv
    <2>10. WaitInv'
      <3>1. ~ IsMore(call)
        BY <2>1 DEF IsMore
      <3>2. view'.state # "loading"
        BY <2>4 DEF Shown
      <3> QED
        BY <2>4, <2>7, <3>1, <3>2 DEF ShownInv, WaitInv
    <2> QED
      BY <2>8, <2>9, <2>10 DEF ShownInv
  <1> QED
    BY <1>1, <1>2

LEMMA ShownFirstFails ==
    ASSUME FollowInv, ShownInv, NEW call \in calls, calls' = calls \ {call}, FirstFails(call)
    PROVE  ShownInv'
  <1>1. CASE ~ IsCurrent(call)
    BY <1>1, LateArrives DEF FirstFails
  <1>2. CASE IsCurrent(call)
    <2>1. /\ view'.gen = view.gen /\ view'.more = view.more /\ view'.data = view.data
          /\ view'.state # "loading"
      BY <1>2 DEF FirstFails, FollowInv, ViewTypes
    <2>2. view.gen \in Nat
      BY DEF ShownInv, RowsInv
    <2>3. \A c : IsMore(c)' = IsMore(c) /\ IsFirst(c)' = IsFirst(c)
      BY <2>1 DEF IsMore, IsFirst, IsCurrent
    <2>4. ~ IsMore(call)
      BY DEF FirstFails, IsMore
    <2>5. RowsInv'
      BY <2>1, <2>2, RowsStay DEF ShownInv
    <2>6. CallsInv'
      BY <2>1, <2>3 DEF ShownInv, CallsInv
    <2>7. WaitInv'
      BY <2>1, <2>3, <2>4 DEF ShownInv, WaitInv
    <2> QED
      BY <2>5, <2>6, <2>7 DEF ShownInv
  <1> QED
    BY <1>1, <1>2

\* A call for more that has failed, or whose answer is of another snapshot
LEMMA ShownMoreFailed ==
    ASSUME FollowInv, ShownInv, NEW call \in calls, calls' = calls \ {call}, IsMore(call),
           NEW invalid \in BOOLEAN, view' = MoreFailed(invalid)
    PROVE  ShownInv'
  <1>1. /\ view'.gen = view.gen /\ view'.more = FALSE /\ view'.state # "loading"
        /\ view'.data = IF invalid THEN [view.data EXCEPT !.cursor = NoPosition] ELSE view.data
    BY DEF MoreFailed, FollowInv, ViewTypes
  <1>2. /\ view'.data.snapshot = view.data.snapshot /\ view'.data.items = view.data.items
        /\ view'.data.cursor = view.data.cursor \/ view'.data.cursor = NoPosition
    BY <1>1 DEF FollowInv, ViewTypes
  <1>3. \A c : IsMore(c)' = IsMore(c) /\ IsFirst(c)' = IsFirst(c)
    BY <1>1 DEF IsMore, IsFirst, IsCurrent
  <1>4. \A other \in calls' : ~ IsMore(other)
    BY DEF ShownInv, CallsInv
  <1>5. RowsInv'
    BY <1>1, <1>2 DEF ShownInv, RowsInv
  <1>6. CallsInv'
    BY <1>1, <1>2, <1>3, <1>4 DEF ShownInv, CallsInv
  <1>7. WaitInv'
    BY <1>1 DEF WaitInv
  <1> QED
    BY <1>5, <1>6, <1>7 DEF ShownInv

LEMMA ShownMoreFails ==
    ASSUME FollowInv, ShownInv, NEW call \in calls, calls' = calls \ {call},
           NEW invalid \in BOOLEAN, MoreFails(call, invalid)
    PROVE  ShownInv'
  <1>1. CASE ~ IsCurrent(call)
    BY <1>1, LateArrives DEF MoreFails
  <1>2. CASE IsCurrent(call)
    BY <1>2, ShownMoreFailed DEF MoreFails, IsMore
  <1> QED
    BY <1>1, <1>2

\* The answer for more: it follows on what is shown, or it is of another snapshot.
LEMMA ShownMorePage ==
    ASSUME FollowInv, ShownInv, NEW call \in calls, calls' = calls \ {call},
           NEW page \in PagesFor(call), MorePage(call, page)
    PROVE  ShownInv'
  <1>1. CASE ~ IsCurrent(call)
    BY <1>1, LateArrives DEF MorePage
  <1>2. CASE IsCurrent(call) /\ Mismatch(page)
    BY <1>2, ShownMoreFailed DEF MorePage, IsMore
  <1>3. CASE IsCurrent(call) /\ ~ Mismatch(page)
    <2> DEFINE shown == view.data.items
               items == Appended(shown, page)
    <2>1. IsMore(call) /\ call.from # NoPosition
      BY <1>3 DEF MorePage, IsMore
    <2>2. page.snapshot = call.snapshot /\ page.rows = Rows(call.from) /\ page.cursor = NextFrom(call.from)
      BY <2>1 DEF PagesFor
    <2>3. /\ view.data.snapshot # 0 /\ call.from \in 1 .. SnapshotRows - 1
          /\ call.snapshot = view.data.snapshot => call.from = Len(shown)
          /\ \A other \in calls' : ~ IsMore(other)
      BY <2>1 DEF ShownInv, CallsInv
    <2>4. page.snapshot = view.data.snapshot /\ call.from = Len(shown)
      BY <1>3, <2>2, <2>3 DEF Mismatch
    <2>5. /\ view'.gen = view.gen /\ view'.more = FALSE /\ view'.state = Shown(items)
          /\ view'.data.items = items /\ view'.data.cursor = page.cursor
          /\ view'.data.snapshot = view.data.snapshot
      BY <1>3 DEF MorePage, FollowInv, ViewTypes
    <2>6. /\ view.gen \in Nat \ {0} /\ view.data.snapshot \in 0 .. view.gen /\ shown \in Seq(Entry)
          /\ \A n \in 1 .. Len(shown) : shown[n] = [of |-> view.data.snapshot, row |-> n]
      BY DEF ShownInv, RowsInv
    <2>7. \A c : IsMore(c)' = IsMore(c) /\ IsFirst(c)' = IsFirst(c)
      BY <2>5 DEF IsMore, IsFirst, IsCurrent
    <2>8. /\ items \in Seq(Entry)
          /\ \A n \in 1 .. Len(items) : items[n] = [of |-> view.data.snapshot, row |-> n]
          /\ page.cursor = NoPosition \/ (page.cursor = Len(items) /\ page.cursor \in 1 .. SnapshotRows - 1)
      <3>1. view.data.snapshot \in Nat /\ Len(shown) < SnapshotRows
        BY <2>3, <2>4, <2>6, ViewConstants
      <3> HIDE DEF shown
      <3> QED
        BY <2>2, <2>4, <2>6, <3>1, MoreEntries
    <2> HIDE DEF items
    <2>9. RowsInv'
      BY <2>3, <2>5, <2>6, <2>8 DEF RowsInv
    <2>10. CallsInv'
      BY <2>3, <2>5, <2>7 DEF ShownInv, CallsInv
    <2>11. WaitInv'
      BY <2>5 DEF WaitInv, Shown
    <2> QED
      BY <2>9, <2>10, <2>11 DEF ShownInv
  <1> QED
    BY <1>1, <1>2, <1>3

LEMMA ShownInit == ViewInit => ShownInv
  <1> SUFFICES ASSUME ViewInit PROVE ShownInv
    OBVIOUS
  <1> DEFINE new == FirstCall(1, "personalized", 0)
  <1>1. /\ calls = {new} /\ view.gen = 1 /\ view.data = NoData /\ view.more = FALSE
    BY DEF ViewInit
  <1>2. new.gen = 1 /\ new.snapshot = 1 /\ new.from = NoPosition
    BY DEF FirstCall
  <1>3. NoData.snapshot = 0 /\ NoData.cursor = NoPosition /\ NoData.items = <<>> /\ <<>> \in Seq(Entry) /\ Len(<<>>) = 0
    BY DEF NoData
  <1> HIDE DEF new
  <1>4. IsFirst(new) /\ ~ IsMore(new)
    BY <1>1, <1>2 DEF IsFirst, IsMore, IsCurrent
  <1>5. RowsInv
    <2>1. 0 \in 0 .. 1 /\ 1 .. 0 = {}
      OBVIOUS
    <2> QED
      BY <1>1, <1>3, <2>1 DEF RowsInv
  <1>6. CallsInv
    BY <1>1, <1>2, <1>3, <1>4 DEF CallsInv
  <1>7. WaitInv
    BY <1>1, <1>4 DEF WaitInv
  <1> QED
    BY <1>5, <1>6, <1>7 DEF ShownInv

LEMMA ShownStep == FollowInv /\ ShownInv /\ [ViewNext]_viewVars => ShownInv'
  <1> SUFFICES ASSUME FollowInv, ShownInv, [ViewNext]_viewVars PROVE ShownInv'
    OBVIOUS
  <1>1. CASE UNCHANGED <<view, calls>>
    BY <1>1 DEF ShownInv, RowsInv, CallsInv, WaitInv, IsMore, IsFirst, IsCurrent
  <1>2. ASSUME NEW type \in FeedTypes, SetFeedType(type) PROVE ShownInv'
    BY <1>2, ShownFirstAsked DEF SetFeedType
  <1>3. CASE LoadMore
    BY <1>3, ShownMoreAsked DEF LoadMore
  <1>4. CASE Retry
    BY <1>4, ShownFirstAsked, ShownMoreAsked DEF Retry
  <1>5. ASSUME NEW call \in calls, Arrives(call) PROVE ShownInv'
    BY <1>5, ShownFirstPage, ShownFirstFails, ShownMorePage, ShownMoreFails DEF Arrives
  <1>6. ASSUME NEW act \in acts, Succeeds(act) PROVE ShownInv'
    BY <1>1, <1>6, ShownFirstAsked DEF Succeeds
  <1>7. CASE \E call \in railCalls : ProfileAnswered(call)
    BY <1>1, <1>7 DEF ProfileAnswered
  <1>8. CASE \/ \E telling \in BOOLEAN : Acts(telling)
             \/ \E act \in acts : SendsAgain(act) \/ Keeps(act) \/ TurnedDown(act)
             \/ RetryProfile
    BY <1>1, <1>8 DEF Acts, SendsAgain, Keeps, TurnedDown, RetryProfile
  <1>9. CASE UNCHANGED viewVars
    BY <1>1, <1>9 DEF viewVars
  <1> QED
    BY <1>2, <1>3, <1>4, <1>5, <1>6, <1>7, <1>8, <1>9 DEF ViewNext

\* However feeds are changed, refreshed and scrolled while answers are under way, what is
\* shown are the first rows of one snapshot in order and who waits has a call that will tell,
\* for any length of snapshots and pages (useFeedController).
THEOREM OneSnapshotIsShown == ViewSpec => [] OneSnapshotShown
  <1>1. ShownInv => OneSnapshotShown
    <2> SUFFICES ASSUME ShownInv PROVE OneSnapshotShown
      OBVIOUS
    <2> DEFINE items == view.data.items
               same == [n \in 1 .. Len(items) |-> [of |-> view.data.snapshot, row |-> n]]
    <2>1. items \in Seq(Entry) /\ \A n \in 1 .. Len(items) : items[n] = [of |-> view.data.snapshot, row |-> n]
      BY DEF ShownInv, RowsInv
    <2>2. items = same
      <3>1. items = [n \in 1 .. Len(items) |-> items[n]]
        BY <2>1
      <3> HIDE DEF items
      <3> QED
        BY <2>1, <3>1
    <2>3. view.data.cursor \in {Len(view.data.items), NoPosition}
      BY DEF ShownInv, RowsInv
    <2> QED
      BY <2>2, <2>3 DEF OneSnapshotShown, ShownInv, WaitInv, IsMore, IsFirst
  <1>2. FollowInv /\ ShownInv /\ [ViewNext]_viewVars => (FollowInv /\ ShownInv)'
    BY FollowInvNext, ShownStep
  <1> QED
    BY <1>1, <1>2, FollowInit, ShownInit, PTL DEF ViewSpec
==============================================================================
