---------------------------- MODULE Events_proofs ----------------------------
(***************************************************************************)
(* Proofs about events: the client's queue and the API that it sends them  *)
(* to, for any number of events, batches, requests at once and faults, and *)
(* the export of what is stored, for any number of requests, ids,          *)
(* watermarks and exporters.                                               *)
(***************************************************************************)
EXTENDS EventQueue, EventExport, FiniteSetTheorems, WellFoundedInduction, TLAPS

-----------------------------------------------------------------------------
(* The queue and the API: their inductive invariant                        *)

\* What a request has inserted and counted: all but the item at hand, between its insert
\* and the change of the profile
Counted(r) == IF r.phase = "profile" THEN r.inserted \ {Oldest(r.todo)} ELSE r.inserted

\* What it is still to insert
Pending(r) == IF r.phase = "profile" THEN r.todo \ {Oldest(r.todo)} ELSE r.todo

\* Results that are true of the events st that are stored and those dis that were dismissed
ResultsInv(results, st, dis) ==
    \A e \in Events :
        /\ results[e] \in {"accepted", "duplicate"} => e \in st
        /\ results[e] = "rejected" => e \in Mismatched \cup dis

\* Of a request: what it has inserted is new, its copy of the profile counts that and what
\* is stored, and its results will be true once it has committed.
RowInv(r, st, dis) ==
    /\ r.phase \in {"arrived", "item", "profile"} =>
          r.todo # {} /\ (r.batch = NoBatch => r.todo \subseteq {Oldest(r.todo)})
    /\ r.phase \notin {"item", "profile", "closing"} => r.inserted = {} /\ ~ r.locked
    /\ r.inserted \cap st = {}
    /\ Pending(r) \cap r.inserted = {}
    /\ r.phase = "profile" => Oldest(r.todo) \in r.inserted
    /\ ~ r.locked => Counted(r) = {}
    /\ r.locked => \A e \in Events : r.profile[e] = IF e \in st \cup Counted(r) THEN 1 ELSE 0
    /\ ResultsInv(r.results, st \cup Counted(r), dis)

\* The unique index and the lock of the profile's row keep requests apart.
Apart ==
    \A s, t \in Slots : s # t =>
        /\ tx[s].inserted \cap tx[t].inserted = {}
        /\ ~ (tx[s].locked /\ tx[t].locked)

IngestInv ==
    /\ IngestTypeOK
    /\ \A s \in Slots : RowInv(tx[s], stored, dismissed)
    /\ Apart
    /\ \A b \in Batches : ResultsInv(receipt[b], stored, dismissed)
    /\ CountedOnce

\* Of a call c and its request r: what the request refuses is all that was sent.
CallInv(c, r, dis) ==
    c # NoCall =>
       /\ r.phase = "arrived" => c.events \subseteq r.todo
       /\ r.phase \in {"item", "profile"} /\ r.batch = NoBatch => c.events \subseteq r.todo
       /\ r.phase = "refused" => c.events \subseteq Mismatched \cup dis

QueueInv ==
    /\ record \in [Events -> Record]
    /\ batchIds \subseteq [events : SUBSET Events, id : Batches]
    /\ call \in [Slots -> [events : SUBSET Events, batch : Batches \cup {NoBatch}]]
    /\ \A s \in Slots : CallInv(call[s], tx[s], dismissed)
    /\ SettledIsTrue

-----------------------------------------------------------------------------
(* The rows of the requests                                                *)

LEMMA OldestIs ==
    ASSUME NEW S \in SUBSET Nat, S # {}
    PROVE  Oldest(S) \in S /\ \A e \in S : Oldest(S) <= e
<1>1. PICK x \in S : \A y \in S : ~ (<<y, x>> \in OpToRel(<, Nat))
    BY NatLessThanWellFounded, WFMin
<1>2. \A y \in S : ~ (y < x)
    BY <1>1 DEF OpToRel
<1>3. \A y \in S : x <= y
    BY <1>2
<1>4. QED
    BY <1>3 DEF Oldest

LEMMA TheRow ==
    ASSUME IngestInv, NEW s \in Slots
    PROVE  tx[s] \in Tx /\ RowInv(tx[s], stored, dismissed) /\ stored \subseteq Events /\ dismissed \subseteq Events
BY DEF IngestInv, IngestTypeOK

LEMMA ItemAtHand ==
    ASSUME NEW r \in Tx, r.todo # {}
    PROVE  Oldest(r.todo) \in r.todo /\ Oldest(r.todo) \in Events
<1>1. r.todo \subseteq Events /\ r.todo \in SUBSET Nat
    BY IngestConstants DEF Tx
<1>2. QED
    BY <1>1, OldestIs

LEMMA NoTxIs ==
    /\ NoTx \in Tx /\ NoTx.phase = "idle" /\ NoTx.todo = {} /\ NoTx.inserted = {} /\ NoTx.locked = FALSE
    /\ NoTx.results = NoResults /\ NoTx.batch = NoBatch
    /\ NoResults \in Results /\ \A e \in Events : NoResults[e] = "none"
<1>1. NoResults \in Results /\ \A e \in Events : NoResults[e] = "none"
    BY DEF NoResults, Results
<1>2. NoTx \in Tx
    BY <1>1 DEF NoTx, Tx
<1>3. QED
    BY <1>1, <1>2 DEF NoTx

\* A request that has ended, or not begun
LEMMA ClosedRow ==
    ASSUME NEW results \in Results, NEW phase \in {"idle", "answered", "refused", "failed"}, NEW st, NEW dis,
           ResultsInv(results, st, dis), NEW next,
           next = [NoTx EXCEPT !.phase = phase, !.results = results]
    PROVE  /\ next \in Tx /\ next.phase = phase /\ next.inserted = {} /\ next.locked = FALSE
           /\ RowInv(next, st, dis)
<1>1. /\ next \in Tx /\ next.phase = phase /\ next.inserted = {} /\ next.locked = FALSE
      /\ next.results = results /\ next.todo = {}
    BY NoTxIs DEF Tx
<1>2. Counted(next) = {}
    BY <1>1 DEF Counted
<1>3. ResultsInv(next.results, st \cup Counted(next), dis)
    BY <1>1, <1>2
<1>4. QED
    BY <1>1, <1>2, <1>3 DEF RowInv

LEMMA EndedRow ==
    ASSUME NEW r \in Tx, NEW e \in Events, NEW outcome \in Outcomes
    PROVE  LET next == Ended(r, e, outcome)
           IN /\ next \in Tx
              /\ next.inserted = r.inserted /\ next.locked = r.locked /\ next.profile = r.profile
              /\ next.batch = r.batch /\ next.todo = r.todo \ {e}
              /\ next.results = [r.results EXCEPT ![e] = outcome]
              /\ next.phase \in {"item", "closing"} /\ (next.phase = "item" => r.todo \ {e} # {})
<1> DEFINE rest == r.todo \ {e}
           results == [r.results EXCEPT ![e] = outcome]
           phase == IF rest = {} THEN "closing" ELSE "item"
<1>1. rest \subseteq Events /\ results \in Results /\ phase \in {"item", "closing"} /\ (phase = "item" => rest # {})
    BY DEF Tx, Results
<1>2. Ended(r, e, outcome) = [r EXCEPT !.results = results, !.todo = rest, !.phase = phase]
    BY DEF Ended
<1> HIDE DEF rest, results, phase
<1> DEFINE next == [r EXCEPT !.results = results, !.todo = rest, !.phase = phase]
<1>3. /\ next \in Tx
      /\ next.inserted = r.inserted /\ next.locked = r.locked /\ next.profile = r.profile
      /\ next.batch = r.batch /\ next.todo = rest /\ next.results = results /\ next.phase = phase
    BY <1>1 DEF Tx
<1>4. QED
    BY <1>1, <1>2, <1>3 DEF rest, results

-----------------------------------------------------------------------------
(* The API: a step moves one request, and leaves the others what they rely *)
(* on.                                                                     *)

LEMMA RequestMoves ==
    ASSUME IngestInv, UNCHANGED <<stored, profile, receipt>>, NEW s \in Slots, NEW next \in Tx, Turn(s, next),
           faults' \in 0 .. MaxFaults, dismissed \subseteq dismissed', dismissed' \subseteq Events,
           RowInv(next, stored, dismissed'),
           \A t \in Slots : t # s => next.inserted \cap tx[t].inserted = {} /\ ~ (next.locked /\ tx[t].locked)
    PROVE  IngestInv'
<1>1. tx \in [Slots -> Tx]
    BY DEF IngestInv, IngestTypeOK
<1>2. tx' \in [Slots -> Tx] /\ \A t \in Slots : tx'[t] = IF t = s THEN next ELSE tx[t]
    BY <1>1 DEF Turn
<1>3. IngestTypeOK'
    BY <1>2 DEF IngestInv, IngestTypeOK
<1>4. ASSUME NEW t \in Slots
      PROVE  RowInv(tx'[t], stored', dismissed')
    <2>1. RowInv(tx[t], stored, dismissed')
        BY TheRow DEF RowInv, ResultsInv
    <2>2. QED
        BY <1>2, <2>1
<1>5. Apart'
    BY <1>2 DEF IngestInv, Apart
<1>6. \A b \in Batches : ResultsInv(receipt'[b], stored', dismissed')
    BY DEF IngestInv, ResultsInv
<1>7. CountedOnce'
    BY DEF IngestInv, CountedOnce
<1>8. QED
    BY <1>3, <1>4, <1>5, <1>6, <1>7 DEF IngestInv

\* A request that ends with nothing, or is answered with what is stored
LEMMA RequestCloses ==
    ASSUME IngestInv, UNCHANGED <<stored, profile, receipt>>, NEW s \in Slots,
           faults' \in 0 .. MaxFaults, dismissed \subseteq dismissed', dismissed' \subseteq Events,
           NEW phase \in {"idle", "answered", "refused", "failed"}, Turn(s, [NoTx EXCEPT !.phase = phase])
    PROVE  IngestInv'
<1> DEFINE next == [NoTx EXCEPT !.phase = phase, !.results = NoResults]
<1>1. next = [NoTx EXCEPT !.phase = phase]
    BY NoTxIs DEF Tx
<1>2. ResultsInv(NoResults, stored, dismissed') /\ NoResults \in Results
    BY NoTxIs DEF ResultsInv
<1>3. Turn(s, next) /\ next = [NoTx EXCEPT !.phase = phase, !.results = NoResults]
    BY <1>1
<1> HIDE DEF next
<1>4. next \in Tx /\ next.inserted = {} /\ next.locked = FALSE /\ RowInv(next, stored, dismissed')
    BY <1>2, <1>3, ClosedRow
<1>5. QED
    BY <1>3, <1>4, RequestMoves

LEMMA Faults == IngestInv => faults \in 0 .. MaxFaults /\ (faults < MaxFaults => faults + 1 \in 0 .. MaxFaults)
BY IngestConstants DEF IngestInv, IngestTypeOK

LEMMA BeginBatchKeeps == ASSUME IngestInv, NEW s \in Slots, BeginBatch(s) PROVE IngestInv'
<1> DEFINE r == tx[s]
<1>1. r \in Tx /\ RowInv(r, stored, dismissed) /\ dismissed \subseteq Events
    BY TheRow
<1>2. r.phase = "arrived" /\ r.batch \in Batches /\ UNCHANGED <<stored, profile, receipt, faults, dismissed>>
    BY <1>1 DEF BeginBatch, Tx
<1>3. r.inserted = {} /\ r.locked = FALSE /\ Counted(r) = {}
    BY <1>1, <1>2 DEF RowInv, Counted, Tx
<1>4. CASE Turn(s, [r EXCEPT !.results = receipt[r.batch], !.phase = "answered"])
    <2> DEFINE next == [r EXCEPT !.results = receipt[r.batch], !.phase = "answered"]
    <2>1. receipt[r.batch] \in Results /\ ResultsInv(receipt[r.batch], stored, dismissed)
        BY <1>2 DEF IngestInv, IngestTypeOK
    <2>2. /\ next \in Tx /\ next.phase = "answered" /\ next.inserted = {} /\ next.locked = FALSE
          /\ next.results = receipt[r.batch]
        BY <1>1, <1>3, <2>1 DEF Tx
    <2> HIDE DEF next
    <2>3. Counted(next) = {}
        BY <2>2 DEF Counted
    <2>4. RowInv(next, stored, dismissed)
        BY <2>1, <2>2, <2>3 DEF RowInv
    <2>5. QED
        BY <1>1, <1>2, <1>4, <2>2, <2>4, RequestMoves, Faults DEF next
<1>5. CASE GoesOn(s, "item")
    <2> DEFINE next == [r EXCEPT !.phase = "item"]
    <2>1. /\ next \in Tx /\ next.phase = "item" /\ next.inserted = {} /\ next.locked = FALSE
          /\ next.results = r.results /\ next.todo = r.todo /\ next.batch = r.batch
        BY <1>1, <1>3 DEF Tx
    <2>2. Turn(s, next)
        BY <1>5 DEF GoesOn
    <2> HIDE DEF next
    <2>3. Counted(next) = {} /\ Pending(next) \cap next.inserted = {}
        BY <2>1 DEF Counted
    <2>4. RowInv(next, stored, dismissed)
        BY <1>1, <1>2, <1>3, <2>1, <2>3 DEF RowInv
    <2>5. QED
        BY <1>1, <1>2, <2>1, <2>2, <2>4, RequestMoves, Faults
<1>6. QED
    BY <1>4, <1>5 DEF BeginBatch

LEMMA BeginSingleKeeps == ASSUME IngestInv, NEW s \in Slots, BeginSingle(s) PROVE IngestInv'
<1> DEFINE r == tx[s]
           next == [r EXCEPT !.phase = "item"]
<1>1. r \in Tx /\ RowInv(r, stored, dismissed) /\ dismissed \subseteq Events
    BY TheRow
<1>2. r.phase = "arrived" /\ UNCHANGED <<stored, profile, receipt, faults, dismissed>> /\ Turn(s, next)
    BY DEF BeginSingle, GoesOn
<1>3. r.inserted = {} /\ r.locked = FALSE /\ Counted(r) = {}
    BY <1>1, <1>2 DEF RowInv, Counted, Tx
<1>4. /\ next \in Tx /\ next.phase = "item" /\ next.inserted = {} /\ next.locked = FALSE
      /\ next.results = r.results /\ next.todo = r.todo /\ next.batch = r.batch
    BY <1>1, <1>3 DEF Tx
<1> HIDE DEF next
<1>5. Counted(next) = {} /\ Pending(next) \cap next.inserted = {}
    BY <1>4 DEF Counted
<1>6. RowInv(next, stored, dismissed)
    BY <1>1, <1>2, <1>3, <1>4, <1>5 DEF RowInv
<1>7. QED
    BY <1>1, <1>2, <1>4, <1>6, RequestMoves, Faults

LEMMA DenyKeeps == ASSUME IngestInv, NEW s \in Slots, Deny(s) PROVE IngestInv'
<1>1. tx[s] \in Tx /\ dismissed \subseteq Events
    BY TheRow
<1>2. dismissed' \subseteq Events /\ dismissed \subseteq dismissed'
    BY <1>1 DEF Deny, Tx
<1>3. QED
    BY <1>2, RequestCloses, Faults DEF Deny

\* An item of a batch that ends with no insert
LEMMA AnswerKeeps ==
    ASSUME IngestInv, UNCHANGED <<stored, profile, receipt>>, NEW s \in Slots, tx[s].phase = "item",
           faults' \in 0 .. MaxFaults, dismissed \subseteq dismissed', dismissed' \subseteq Events,
           NEW outcome \in {"duplicate", "rejected"}, Answer(s, outcome),
           outcome = "duplicate" => AtHand(s) \in stored,
           outcome = "rejected" => AtHand(s) \in Mismatched \cup dismissed'
    PROVE  IngestInv'
<1> DEFINE r == tx[s]
           e == AtHand(s)
           next == Ended(r, e, outcome)
<1>1. r \in Tx /\ RowInv(r, stored, dismissed)
    BY TheRow
<1>2. e \in Events /\ e \in r.todo
    BY <1>1, ItemAtHand DEF RowInv, AtHand
<1>3. /\ next \in Tx
      /\ next.inserted = r.inserted /\ next.locked = r.locked /\ next.profile = r.profile
      /\ next.batch = r.batch /\ next.todo = r.todo \ {e}
      /\ next.results = [r.results EXCEPT ![e] = outcome]
      /\ next.phase \in {"item", "closing"} /\ (next.phase = "item" => r.todo \ {e} # {})
    <2>1. outcome \in Outcomes
        BY DEF Outcomes
    <2>2. QED
        BY <1>1, <1>2, <2>1, EndedRow
<1>4. Turn(s, next)
    BY DEF Answer
<1> HIDE DEF next
<1>5. Counted(r) = r.inserted /\ Counted(next) = r.inserted /\ Pending(r) = r.todo /\ Pending(next) = next.todo
    BY <1>3 DEF Counted, Pending
<1>6. ResultsInv(next.results, stored \cup Counted(next), dismissed')
    <2>1. r.results \in Results /\ ResultsInv(r.results, stored \cup Counted(r), dismissed)
        BY <1>1 DEF Tx, RowInv
    <2>2. QED
        BY <1>2, <1>3, <1>5, <2>1 DEF ResultsInv, Results
<1>7. next.phase = "item" => next.todo # {} /\ (next.batch = NoBatch => next.todo \subseteq {Oldest(next.todo)})
    BY <1>1, <1>2, <1>3 DEF RowInv, AtHand
<1>8. RowInv(next, stored, dismissed')
    <2>1. /\ r.inserted \cap stored = {} /\ r.todo \cap r.inserted = {} /\ (~ r.locked => r.inserted = {})
          /\ r.locked => \A f \in Events : r.profile[f] = IF f \in stored \cup r.inserted THEN 1 ELSE 0
        BY <1>1, <1>5 DEF RowInv
    <2>2. Pending(next) \cap next.inserted = {}
        BY <1>3, <1>5, <2>1
    <2>3. next.locked => \A f \in Events : next.profile[f] = IF f \in stored \cup Counted(next) THEN 1 ELSE 0
        BY <1>3, <1>5, <2>1
    <2>4. next.phase \in {"item", "closing"} /\ next.inserted \cap stored = {} /\ (~ next.locked => Counted(next) = {})
        BY <1>3, <1>5, <2>1
    <2>5. QED
        BY <1>6, <1>7, <2>2, <2>3, <2>4 DEF RowInv
<1>9. \A t \in Slots : t # s => next.inserted \cap tx[t].inserted = {} /\ ~ (next.locked /\ tx[t].locked)
    BY <1>3 DEF IngestInv, Apart
<1>10. QED
    BY <1>3, <1>4, <1>8, <1>9, RequestMoves

LEMMA RejectKeeps == ASSUME IngestInv, NEW s \in Slots, Reject(s) PROVE IngestInv'
<1>1. dismissed \subseteq Events
    BY TheRow
<1>2. QED
    BY <1>1, RequestCloses, AnswerKeeps, Faults DEF Reject

LEMMA InsertEventKeeps == ASSUME IngestInv, NEW s \in Slots, InsertEvent(s) PROVE IngestInv'
<1> DEFINE r == tx[s]
           e == AtHand(s)
           next == [r EXCEPT !.inserted = r.inserted \cup {e}, !.phase = "profile"]
<1>1. r \in Tx /\ RowInv(r, stored, dismissed) /\ dismissed \subseteq Events /\ r.phase = "item"
    BY TheRow DEF InsertEvent
<1>2. e \in Events /\ e \in r.todo /\ e = Oldest(r.todo)
    BY <1>1, ItemAtHand DEF RowInv, AtHand
<1>3. CASE e \in stored
    BY <1>1, <1>3, AnswerKeeps, Faults DEF InsertEvent
<1>4. CASE e \notin stored
    <2>1. /\ next \in Tx /\ next.phase = "profile" /\ next.inserted = r.inserted \cup {e} /\ next.locked = r.locked
          /\ next.results = r.results /\ next.todo = r.todo /\ next.batch = r.batch /\ next.profile = r.profile
        BY <1>1, <1>2 DEF Tx
    <2>2. Turn(s, next)
        BY <1>4 DEF InsertEvent
    <2> HIDE DEF next
    <2>3. e \notin r.inserted
        BY <1>1, <1>2 DEF RowInv, Pending
    <2>4. Counted(r) = r.inserted /\ Counted(next) = r.inserted /\ Pending(r) = r.todo /\ Pending(next) = r.todo \ {e}
        BY <1>1, <1>2, <2>1, <2>3 DEF Counted, Pending
    <2>5. RowInv(next, stored, dismissed)
        BY <1>1, <1>2, <1>4, <2>1, <2>4 DEF RowInv
    <2>6. ASSUME NEW t \in Slots, t # s
          PROVE  next.inserted \cap tx[t].inserted = {} /\ ~ (next.locked /\ tx[t].locked)
        <3>1. e \notin tx[t].inserted
            <4>1. RowInv(tx[t], stored, dismissed)
                BY TheRow
            <4>2. CASE Open(t)
                BY <2>6, <4>2 DEF InsertEvent, Inserting
            <4>3. CASE ~ Open(t)
                BY <4>1, <4>3 DEF Open, RowInv
            <4>4. QED
                BY <4>2, <4>3
        <3>2. QED
            BY <2>1, <2>6, <3>1 DEF IngestInv, Apart
    <2>7. QED
        BY <1>1, <2>1, <2>2, <2>5, <2>6, RequestMoves, Faults DEF InsertEvent
<1>5. QED
    BY <1>3, <1>4

LEMMA UpdateProfileKeeps == ASSUME IngestInv, NEW s \in Slots, UpdateProfile(s) PROVE IngestInv'
<1> DEFINE r == tx[s]
           e == AtHand(s)
           read == IF r.locked THEN r.profile ELSE profile
           counted == [read EXCEPT ![e] = @ + 1]
           ended == Ended(r, e, "accepted")
           next == [ended EXCEPT !.locked = TRUE, !.profile = counted]
<1>1. r \in Tx /\ RowInv(r, stored, dismissed) /\ dismissed \subseteq Events /\ r.phase = "profile"
    BY TheRow DEF UpdateProfile
<1>2. e \in Events /\ e \in r.todo /\ e = Oldest(r.todo) /\ e \in r.inserted
    BY <1>1, ItemAtHand DEF RowInv, AtHand
<1>3. Counted(r) = r.inserted \ {e} /\ Pending(r) = r.todo \ {e}
    BY <1>1, <1>2 DEF Counted, Pending
<1>4. read \in [Events -> Nat] /\ \A f \in Events : read[f] = IF f \in stored \cup Counted(r) THEN 1 ELSE 0
    <2>1. r.profile \in [Events -> Nat] /\ profile \in [Events -> Nat]
        BY <1>1 DEF Tx, IngestInv, IngestTypeOK
    <2>2. CASE r.locked
        BY <1>1, <2>1, <2>2 DEF RowInv
    <2>3. CASE ~ r.locked
        BY <1>1, <2>1, <2>3 DEF RowInv, IngestInv, CountedOnce
    <2>4. QED
        BY <2>2, <2>3
<1>5. counted \in [Events -> Nat] /\ \A f \in Events : counted[f] = IF f \in stored \cup r.inserted THEN 1 ELSE 0
    <2>1. e \notin stored
        BY <1>1, <1>2 DEF RowInv
    <2>2. read[e] = 0
        BY <1>2, <1>3, <1>4, <2>1
    <2> HIDE DEF read, e
    <2>3. counted \in [Events -> Nat] /\ \A f \in Events : counted[f] = IF f = e THEN 1 ELSE read[f]
        BY <1>2, <1>4, <2>2
    <2>4. QED
        BY <1>2, <1>3, <1>4, <2>3
<1>6. /\ ended \in Tx
      /\ ended.inserted = r.inserted
      /\ ended.batch = r.batch /\ ended.todo = r.todo \ {e}
      /\ ended.results = [r.results EXCEPT ![e] = "accepted"]
      /\ ended.phase \in {"item", "closing"} /\ (ended.phase = "item" => r.todo \ {e} # {})
    BY <1>1, <1>2, EndedRow DEF Outcomes
<1>7. Turn(s, next)
    BY DEF UpdateProfile
<1> HIDE DEF counted, ended, read
<1>8. /\ next \in Tx
      /\ next.inserted = r.inserted /\ next.locked = TRUE /\ next.profile = counted
      /\ next.batch = r.batch /\ next.todo = r.todo \ {e}
      /\ next.results = [r.results EXCEPT ![e] = "accepted"]
      /\ next.phase \in {"item", "closing"} /\ (next.phase = "item" => r.todo \ {e} # {})
    BY <1>5, <1>6 DEF Tx
<1> HIDE DEF next
<1>9. Counted(next) = r.inserted /\ Pending(next) = next.todo
    BY <1>8 DEF Counted, Pending
<1>10. ResultsInv(next.results, stored \cup Counted(next), dismissed)
    <2>1. r.results \in Results /\ ResultsInv(r.results, stored \cup Counted(r), dismissed)
        BY <1>1 DEF Tx, RowInv
    <2>2. QED
        BY <1>2, <1>3, <1>8, <1>9, <2>1 DEF ResultsInv, Results
<1>11. next.phase = "item" => next.todo # {} /\ (next.batch = NoBatch => next.todo \subseteq {Oldest(next.todo)})
    BY <1>1, <1>2, <1>8 DEF RowInv
<1>12. RowInv(next, stored, dismissed)
    BY <1>1, <1>3, <1>5, <1>8, <1>9, <1>10, <1>11 DEF RowInv
<1>13. ASSUME NEW t \in Slots, t # s
       PROVE  next.inserted \cap tx[t].inserted = {} /\ ~ (next.locked /\ tx[t].locked)
    <2>1. RowInv(tx[t], stored, dismissed)
        BY TheRow
    <2>2. ~ tx[t].locked
        <3>1. CASE Open(t)
            BY <1>13, <3>1 DEF UpdateProfile, Locking
        <3>2. CASE ~ Open(t)
            BY <2>1, <3>2 DEF Open, RowInv
        <3>3. QED
            BY <3>1, <3>2
    <2>3. QED
        BY <1>8, <1>13, <2>2 DEF IngestInv, Apart
<1>14. QED
    BY <1>1, <1>7, <1>8, <1>12, <1>13, RequestMoves, Faults DEF UpdateProfile

LEMMA CommitKeeps == ASSUME IngestInv, NEW s \in Slots, Commit(s) PROVE IngestInv'
<1> DEFINE r == tx[s]
           next == [NoTx EXCEPT !.phase = "answered", !.results = r.results]
<1>1. r \in Tx /\ RowInv(r, stored, dismissed) /\ r.phase = "closing" /\ Counted(r) = r.inserted
    BY TheRow DEF Commit, Counted
<1>2. /\ stored' = stored \cup r.inserted /\ dismissed' = dismissed /\ faults' = faults /\ Turn(s, next)
      /\ stored \subseteq Events /\ r.inserted \subseteq Events
    BY <1>1, TheRow DEF Commit, Tx
<1>3. r.results \in Results /\ ResultsInv(r.results, stored', dismissed')
    BY <1>1, <1>2 DEF RowInv, Tx
<1>4. /\ next \in Tx /\ next.inserted = {} /\ next.locked = FALSE
      /\ RowInv(next, stored', dismissed')
    <2> DEFINE results == r.results
    <2>1. results \in Results /\ ResultsInv(results, stored', dismissed')
        BY <1>3
    <2>2. next = [NoTx EXCEPT !.phase = "answered", !.results = results]
        OBVIOUS
    <2> HIDE DEF next, results
    <2>3. QED
        BY <2>1, <2>2, ClosedRow
<1>5. tx \in [Slots -> Tx]
    BY DEF IngestInv, IngestTypeOK
<1> HIDE DEF next
<1>6. tx' \in [Slots -> Tx] /\ \A t \in Slots : tx'[t] = IF t = s THEN next ELSE tx[t]
    BY <1>2, <1>4, <1>5 DEF Turn
<1>7. profile' \in [Events -> Nat] /\ \A e \in Events : profile'[e] = IF e \in stored' THEN 1 ELSE 0
    <2>1. profile \in [Events -> Nat] /\ CountedOnce
        BY DEF IngestInv, IngestTypeOK
    <2>2. CASE r.locked
        BY <1>1, <1>2, <2>2 DEF Commit, RowInv, Tx
    <2>3. CASE ~ r.locked
        <3>1. r.inserted = {}
            BY <1>1, <2>3 DEF RowInv
        <3>2. profile' = profile /\ stored' = stored
            BY <1>2, <2>3, <3>1 DEF Commit
        <3>3. QED
            BY <2>1, <3>2 DEF CountedOnce
    <2>4. QED
        BY <2>2, <2>3
<1>8. /\ receipt' \in [Batches -> Results]
      /\ \A b \in Batches : ResultsInv(receipt'[b], stored', dismissed')
    <2>1. receipt \in [Batches -> Results] /\ \A b \in Batches : ResultsInv(receipt[b], stored, dismissed)
        BY DEF IngestInv, IngestTypeOK
    <2>2. \A b \in Batches : ResultsInv(receipt[b], stored', dismissed')
        BY <1>2, <2>1 DEF ResultsInv
    <2>3. CASE r.batch = NoBatch
        BY <2>1, <2>2, <2>3 DEF Commit
    <2>4. CASE r.batch # NoBatch
        <3>1. r.batch \in Batches /\ receipt' = [receipt EXCEPT ![r.batch] = r.results]
            BY <1>1, <2>4 DEF Commit, Tx
        <3>2. \A b \in Batches : receipt'[b] = IF b = r.batch THEN r.results ELSE receipt[b]
            BY <2>1, <3>1
        <3>3. receipt' \in [Batches -> Results]
            BY <1>3, <2>1, <3>1
        <3>4. ASSUME NEW b \in Batches
              PROVE  ResultsInv(receipt'[b], stored', dismissed')
            <4>1. CASE b = r.batch
                BY <1>3, <3>2, <4>1
            <4>2. CASE b # r.batch
                BY <2>2, <3>2, <4>2
            <4>3. QED
                BY <4>1, <4>2
        <3>5. QED
            BY <3>3, <3>4
    <2>5. QED
        BY <2>3, <2>4
<1>9. ASSUME NEW t \in Slots
      PROVE  RowInv(tx'[t], stored', dismissed')
    <2>1. CASE t = s
        BY <1>4, <1>6, <2>1
    <2>2. CASE t # s
        <3> DEFINE other == tx[t]
        <3>1. RowInv(other, stored, dismissed) /\ other \in Tx
            BY TheRow
        <3>2. other.inserted \cap r.inserted = {} /\ ~ (other.locked /\ r.locked)
            BY <2>2 DEF IngestInv, Apart
        <3>3. other.inserted \cap stored' = {}
            BY <1>2, <3>1, <3>2 DEF RowInv
        <3>4. other.locked => stored' = stored
            BY <1>1, <1>2, <3>2 DEF RowInv
        <3>5. other.locked => \A e \in Events : other.profile[e] = IF e \in stored' \cup Counted(other) THEN 1 ELSE 0
            BY <3>1, <3>4 DEF RowInv
        <3>6. ResultsInv(other.results, stored' \cup Counted(other), dismissed')
            BY <1>2, <3>1 DEF RowInv, ResultsInv
        <3>7. RowInv(other, stored', dismissed')
            BY <3>1, <3>3, <3>5, <3>6 DEF RowInv
        <3>8. QED
            BY <1>6, <2>2, <3>7
    <2>3. QED
        BY <2>1, <2>2
<1>10. Apart'
    BY <1>4, <1>6 DEF IngestInv, Apart
<1>11. IngestTypeOK'
    BY <1>2, <1>6, <1>7, <1>8 DEF IngestInv, IngestTypeOK
<1>12. QED
    BY <1>7, <1>8, <1>9, <1>10, <1>11 DEF IngestInv, CountedOnce

LEMMA RaisesKeeps ==
    ASSUME IngestInv, NEW s \in Slots, Raises(s), faults' \in 0 .. MaxFaults
    PROVE  IngestInv'
<1> DEFINE r == tx[s]
           e == AtHand(s)
           ended == Ended(r, e, "rejected")
           put == r.inserted \ {e}
           next == [ended EXCEPT !.inserted = put]
<1>1. /\ r \in Tx /\ RowInv(r, stored, dismissed) /\ dismissed \subseteq Events
      /\ r.phase \in {"item", "profile"} /\ UNCHANGED <<stored, profile, receipt>>
    BY TheRow DEF Raises
<1>2. e \in Events /\ e \in r.todo /\ e = Oldest(r.todo)
    BY <1>1, ItemAtHand DEF RowInv, AtHand
<1>3. CASE r.batch = NoBatch
    BY <1>1, <1>3, RequestCloses DEF Raises, Undo
<1>4. CASE r.batch # NoBatch
    <2>1. Turn(s, next) /\ dismissed' = dismissed \cup {e}
        BY <1>4 DEF Raises, UndoItem
    <2>2. /\ ended \in Tx
          /\ ended.locked = r.locked /\ ended.profile = r.profile
          /\ ended.batch = r.batch /\ ended.todo = r.todo \ {e}
          /\ ended.results = [r.results EXCEPT ![e] = "rejected"]
          /\ ended.phase \in {"item", "closing"} /\ (ended.phase = "item" => r.todo \ {e} # {})
        <3>1. "rejected" \in Outcomes
            BY DEF Outcomes
        <3>2. QED
            BY <1>1, <1>2, <3>1, EndedRow
    <2>3. Counted(r) = put /\ Pending(r) \cap put = {} /\ r.todo \ {e} \subseteq Pending(r)
        BY <1>1, <1>2 DEF Counted, Pending, RowInv
    <2>4. put \subseteq Events /\ put \subseteq r.inserted
        BY <1>1 DEF Tx
    <2> HIDE DEF ended, put
    <2>5. /\ next \in Tx
          /\ next.inserted = put /\ next.locked = r.locked /\ next.profile = r.profile
          /\ next.batch = r.batch /\ next.todo = r.todo \ {e}
          /\ next.results = [r.results EXCEPT ![e] = "rejected"]
          /\ next.phase \in {"item", "closing"} /\ (next.phase = "item" => r.todo \ {e} # {})
        BY <2>2, <2>4 DEF Tx
    <2> HIDE DEF next
    <2>6. Counted(next) = put /\ Pending(next) = next.todo
        BY <2>5 DEF Counted, Pending
    <2>7. ResultsInv(next.results, stored \cup Counted(next), dismissed')
        <3>1. r.results \in Results /\ ResultsInv(r.results, stored \cup Counted(r), dismissed)
            BY <1>1 DEF Tx, RowInv
        <3>2. QED
            BY <1>2, <2>1, <2>3, <2>5, <2>6, <3>1 DEF ResultsInv, Results
    <2>8. RowInv(next, stored, dismissed')
        <3>1. /\ r.inserted \cap stored = {} /\ (~ r.locked => put = {})
              /\ r.locked => \A f \in Events : r.profile[f] = IF f \in stored \cup put THEN 1 ELSE 0
            BY <1>1, <2>3 DEF RowInv
        <3>2. Pending(next) \cap next.inserted = {} /\ next.inserted \cap stored = {}
            BY <2>3, <2>4, <2>5, <2>6, <3>1
        <3>3. next.locked => \A f \in Events : next.profile[f] = IF f \in stored \cup Counted(next) THEN 1 ELSE 0
            BY <2>5, <2>6, <3>1
        <3>4. ~ next.locked => Counted(next) = {}
            BY <2>5, <2>6, <3>1
        <3>5. next.phase = "item" => next.todo # {} /\ (next.batch = NoBatch => next.todo \subseteq {Oldest(next.todo)})
            BY <1>4, <2>5
        <3>6. QED
            BY <2>5, <2>7, <3>2, <3>3, <3>4, <3>5 DEF RowInv
    <2>9. \A t \in Slots : t # s => next.inserted \cap tx[t].inserted = {} /\ ~ (next.locked /\ tx[t].locked)
        BY <2>4, <2>5 DEF IngestInv, Apart
    <2>10. dismissed \subseteq dismissed' /\ dismissed' \subseteq Events
        BY <1>1, <1>2, <2>1
    <2>11. QED
        BY <1>1, <2>1, <2>5, <2>8, <2>9, <2>10, RequestMoves
<1>5. QED
    BY <1>3, <1>4

LEMMA CrashKeeps == ASSUME IngestInv, NEW s \in Slots, Crash(s) PROVE IngestInv'
<1>1. dismissed \subseteq Events
    BY TheRow
<1>2. QED
    BY <1>1, RequestCloses, Faults DEF Crash, Undo

LEMMA IngestStepKeeps == ASSUME IngestInv, NEW s \in Slots, IngestStep(s) PROVE IngestInv'
<1>1. CASE BeginBatch(s)
    BY <1>1, BeginBatchKeeps
<1>2. CASE BeginSingle(s)
    BY <1>2, BeginSingleKeeps
<1>3. CASE Reject(s)
    BY <1>3, RejectKeeps
<1>4. CASE InsertEvent(s)
    BY <1>4, InsertEventKeeps
<1>5. CASE UpdateProfile(s)
    BY <1>5, UpdateProfileKeeps
<1>6. CASE Commit(s)
    BY <1>6, CommitKeeps
<1>7. CASE DeadlockVictim(s)
    BY <1>7, RaisesKeeps, Faults DEF DeadlockVictim
<1>8. CASE Deny(s)
    BY <1>8, DenyKeeps
<1>9. CASE ItemRaises(s)
    BY <1>9, RaisesKeeps, Faults DEF ItemRaises
<1>10. CASE Crash(s)
    BY <1>10, CrashKeeps
<1>11. QED
    BY <1>1, <1>2, <1>3, <1>4, <1>5, <1>6, <1>7, <1>8, <1>9, <1>10 DEF IngestStep, Serve

-----------------------------------------------------------------------------
(* The client                                                              *)

\* A new request in an idle slot
LEMMA RequestKeeps ==
    ASSUME IngestInv, NEW s \in Slots, NEW batch \in Batches \cup {NoBatch}, NEW todo \in SUBSET Events,
           todo # {}, batch = NoBatch => \E e \in Events : todo = {e}, Request(s, batch, todo)
    PROVE  IngestInv'
<1> DEFINE next == Arrived(batch, todo)
<1>1. /\ next \in Tx /\ next.phase = "arrived" /\ next.batch = batch /\ next.todo = todo
      /\ next.inserted = {} /\ next.locked = FALSE /\ next.results = NoResults
    BY NoTxIs DEF Arrived, Tx
<1>2. Turn(s, next) /\ UNCHANGED <<stored, profile, receipt, faults, dismissed>>
    BY DEF Request, Turn
<1> HIDE DEF next
<1>3. Counted(next) = {} /\ Pending(next) \cap next.inserted = {}
    BY <1>1 DEF Counted
<1>4. ResultsInv(next.results, stored \cup Counted(next), dismissed)
    BY <1>1, NoTxIs DEF ResultsInv
<1>5. batch = NoBatch => todo \subseteq {Oldest(todo)}
    <2>1. todo \in SUBSET Nat
        BY IngestConstants
    <2>2. Oldest(todo) \in todo
        BY <2>1, OldestIs
    <2>3. QED
        BY <2>2
<1>6. RowInv(next, stored, dismissed)
    BY <1>1, <1>3, <1>4, <1>5 DEF RowInv
<1>7. dismissed \subseteq Events
    BY TheRow
<1>8. QED
    BY <1>1, <1>2, <1>6, <1>7, RequestMoves, Faults

LEMMA CloseKeeps == ASSUME IngestInv, NEW s \in Slots, Close(s) PROVE IngestInv'
<1>1. NoTx = [NoTx EXCEPT !.phase = "idle"]
    BY NoTxIs DEF Tx
<1>2. Turn(s, [NoTx EXCEPT !.phase = "idle"]) /\ UNCHANGED <<stored, profile, receipt, faults, dismissed>>
    BY <1>1 DEF Close, Turn
<1>3. dismissed \subseteq Events
    BY TheRow
<1>4. QED
    BY <1>2, <1>3, RequestCloses, Faults

\* A batch has the oldest of the events that may be sent again.
LEMMA SelectedIs ==
    ASSUME Retryable # {}
    PROVE  Selected # {} /\ Selected \subseteq Retryable /\ Selected \in SUBSET Events
<1>1. Retryable \in SUBSET Nat /\ Retryable \subseteq Events
    BY IngestConstants DEF Retryable
<1>2. PICK e \in Retryable : \A f \in Retryable : e <= f
    BY <1>1, OldestIs
<1>3. {f \in Retryable : f < e} = {}
    <2>1. \A f \in Retryable : f \in Nat /\ e \in Nat /\ e <= f
        BY <1>1, <1>2
    <2>2. \A f \in Retryable : ~ (f < e)
        BY <2>1
    <2>3. QED
        BY <2>2
<1>4. Cardinality({f \in Retryable : f < e}) < MaxBatchSize
    BY <1>3, FS_EmptySet, QueueConstants
<1>5. QED
    BY <1>1, <1>4 DEF Selected

LEMMA RetryFailedBatchRequests ==
    ASSUME IngestInv, QueueInv, NEW s \in Slots, RetryFailedBatch(s)
    PROVE  /\ \E batch \in Batches : Request(s, batch, Selected)
           /\ batchIds' \subseteq [events : SUBSET Events, id : Batches]
           /\ Selected # {} /\ Selected \subseteq Retryable /\ Selected \in SUBSET Events
<1>1. Selected # {} /\ Selected \subseteq Retryable /\ Selected \in SUBSET Events
    BY SelectedIs DEF RetryFailedBatch
<1>2. batchIds \subseteq [events : SUBSET Events, id : Batches]
    BY DEF QueueInv
<1>3. CASE /\ \E entry \in Remembered(Selected) : Request(s, entry.id, Selected)
           /\ UNCHANGED <<batchIds, usedIds>>
    BY <1>1, <1>2, <1>3 DEF Remembered
<1>4. CASE /\ Batches \ usedIds # {}
           /\ LET id == Oldest(Batches \ usedIds)
              IN /\ Request(s, id, Selected)
                 /\ batchIds' = Kept \cup {[events |-> Selected, id |-> id]}
    <2> DEFINE id == Oldest(Batches \ usedIds)
    <2>1. Batches \ usedIds \in SUBSET Nat
        BY IngestConstants
    <2>2. id \in Batches
        BY <1>4, <2>1, OldestIs
    <2>3. Kept \subseteq batchIds
        BY DEF Kept
    <2> HIDE DEF id
    <2>4. [events |-> Selected, id |-> id] \in [events : SUBSET Events, id : Batches]
        BY <1>1, <2>2
    <2>5. QED
        BY <1>1, <1>2, <1>4, <2>2, <2>3, <2>4 DEF id
<1>5. QED
    BY <1>3, <1>4 DEF RetryFailedBatch

\* Every step keeps the API's invariant.
LEMMA IngestKeeps == ASSUME IngestInv, QueueInv, [Next]_vars PROVE IngestInv'
<1>1. CASE UNCHANGED vars
    BY <1>1 DEF vars, ingestVars, IngestInv, IngestTypeOK, Apart, CountedOnce
<1>2. ASSUME NEW s \in Slots, NEW e \in Events, EnqueueAndSend(s, e) \/ Retry(s, e)
      PROVE  IngestInv'
    <2>1. Request(s, NoBatch, {e})
        BY <1>2 DEF EnqueueAndSend, Retry
    <2>2. QED
        BY <2>1, RequestKeeps
<1>3. ASSUME NEW s \in Slots, RetryFailedBatch(s)
      PROVE  IngestInv'
    <2>1. PICK batch \in Batches : Request(s, batch, Selected)
        BY <1>3, RetryFailedBatchRequests
    <2>2. batch # NoBatch /\ Selected # {} /\ Selected \in SUBSET Events
        BY <1>3, RetryFailedBatchRequests, IngestConstants
    <2>3. QED
        BY <2>1, <2>2, RequestKeeps
<1>4. ASSUME NEW s \in Slots, IngestStep(s)
      PROVE  IngestInv'
    BY <1>4, IngestStepKeeps
<1>5. ASSUME NEW s \in Slots, Conclude(s) \/ Lost(s)
      PROVE  IngestInv'
    BY <1>5, CloseKeeps DEF Conclude, Lost, ApplyResults, Refused, ServerError, Unheard
<1>6. ASSUME NEW s \in Slots, Disconnected(s)
      PROVE  IngestInv'
    BY <1>6 DEF Disconnected, ingestVars, IngestInv, IngestTypeOK, Apart, CountedOnce
<1>7. QED
    BY <1>1, <1>2, <1>3, <1>4, <1>5, <1>6 DEF Next

-----------------------------------------------------------------------------
(* The calls that the client awaits                                        *)

CallsInv == \A s \in Slots : CallInv(call[s], tx[s], dismissed)

LEMMA CallsKeep ==
    ASSUME IngestInv, QueueInv, UNCHANGED call, dismissed \subseteq dismissed', NEW s \in Slots, NEW next, Turn(s, next),
           CallInv(call[s], next, dismissed')
    PROVE  CallsInv'
<1>1. tx \in [Slots -> Tx]
    BY DEF IngestInv, IngestTypeOK
<1>2. \A t \in Slots : tx'[t] = IF t = s THEN next ELSE tx[t]
    BY <1>1 DEF Turn
<1>3. \A t \in Slots : CallInv(call[t], tx[t], dismissed')
    BY DEF QueueInv, CallInv
<1>4. QED
    BY <1>2, <1>3 DEF CallsInv

\* A request that ends, answered or failed
LEMMA EndedCalls ==
    ASSUME NEW c, NEW dis, NEW next, next.phase \in {"idle", "answered", "failed", "closing"}
    PROVE  CallInv(c, next, dis)
BY DEF CallInv

\* An item that ends in a request of one event is its last.
LEMMA AnsweredCalls ==
    ASSUME NEW c, NEW dis, NEW r \in Tx, NEW next \in Tx, r.phase \in {"item", "profile"}, NEW st, RowInv(r, st, dis),
           next.batch = r.batch, next.phase \in {"item", "closing"},
           next.phase = "item" => r.todo \ {Oldest(r.todo)} # {}, NEW dis2
    PROVE  CallInv(c, next, dis2)
<1>1. r.batch = NoBatch => r.todo \subseteq {Oldest(r.todo)}
    BY DEF RowInv
<1>2. QED
    BY <1>1 DEF CallInv

LEMMA AnswerCalls ==
    ASSUME IngestInv, QueueInv, UNCHANGED <<call, dismissed>>, NEW s \in Slots, tx[s].phase = "item",
           NEW outcome \in Outcomes, Answer(s, outcome)
    PROVE  CallsInv'
<1> DEFINE r == tx[s]
           e == AtHand(s)
           next == Ended(r, e, outcome)
<1>1. r \in Tx /\ RowInv(r, stored, dismissed) /\ r.phase = "item"
    BY TheRow
<1>2. e \in Events /\ e = Oldest(r.todo)
    BY <1>1, ItemAtHand DEF RowInv, AtHand
<1>3. /\ next \in Tx
      /\ next.inserted = r.inserted /\ next.locked = r.locked /\ next.profile = r.profile
      /\ next.batch = r.batch /\ next.todo = r.todo \ {e}
      /\ next.results = [r.results EXCEPT ![e] = outcome]
      /\ next.phase \in {"item", "closing"} /\ (next.phase = "item" => r.todo \ {e} # {})
    BY <1>1, <1>2, EndedRow
<1>4. Turn(s, next)
    BY DEF Answer
<1> HIDE DEF next
<1>5. CallInv(call[s], next, dismissed)
    BY <1>1, <1>2, <1>3, AnsweredCalls
<1>6. QED
    BY <1>4, <1>5, CallsKeep

LEMMA IngestStepCalls ==
    ASSUME IngestInv, QueueInv, NEW s \in Slots, IngestStep(s), UNCHANGED call
    PROVE  CallsInv' /\ stored \subseteq stored' /\ dismissed \subseteq dismissed'
<1> DEFINE r == tx[s]
           c == call[s]
<1>1. r \in Tx /\ RowInv(r, stored, dismissed) /\ CallInv(c, r, dismissed)
    BY TheRow DEF QueueInv
<1>2. stored \subseteq stored' /\ dismissed \subseteq dismissed'
    BY DEF IngestStep, Serve, BeginBatch, BeginSingle, Deny, Reject, InsertEvent, UpdateProfile, Commit,
           ItemRaises, DeadlockVictim, Crash, Raises, Undo, UndoItem
<1>3. ASSUME NEW phase \in {"answered", "failed"}, Turn(s, [NoTx EXCEPT !.phase = phase])
      PROVE  CallsInv'
    <2> DEFINE next == [NoTx EXCEPT !.phase = phase]
    <2>1. next.phase = phase /\ Turn(s, next)
        BY <1>3, NoTxIs DEF Tx
    <2> HIDE DEF next
    <2>2. QED
        BY <1>2, <2>1, EndedCalls, CallsKeep
<1>4. CASE BeginBatch(s)
    <2>1. r.phase = "arrived" /\ r.batch # NoBatch
        BY <1>4 DEF BeginBatch
    <2>2. CASE GoesOn(s, "item")
        <3> DEFINE next == [r EXCEPT !.phase = "item"]
        <3>1. next.phase = "item" /\ next.batch = r.batch
            BY <1>1 DEF Tx
        <3>2. CallInv(c, next, dismissed') /\ Turn(s, next)
            BY <2>1, <2>2, <3>1 DEF CallInv, GoesOn
        <3> HIDE DEF next
        <3>3. QED
            BY <1>2, <3>2, CallsKeep
    <2>3. CASE Turn(s, [r EXCEPT !.results = receipt[r.batch], !.phase = "answered"])
        <3> DEFINE next == [r EXCEPT !.results = receipt[r.batch], !.phase = "answered"]
        <3>1. next.phase = "answered" /\ Turn(s, next)
            BY <1>1, <2>3 DEF Tx
        <3> HIDE DEF next
        <3>2. QED
            BY <1>2, <3>1, EndedCalls, CallsKeep
    <2>4. QED
        BY <1>4, <2>2, <2>3 DEF BeginBatch
<1>5. CASE BeginSingle(s)
    <2> DEFINE next == [r EXCEPT !.phase = "item"]
    <2>1. next.phase = "item" /\ next.todo = r.todo
        BY <1>1 DEF Tx
    <2>2. CallInv(c, next, dismissed') /\ Turn(s, next)
        BY <1>1, <1>5, <2>1 DEF CallInv, BeginSingle, GoesOn
    <2> HIDE DEF next
    <2>3. QED
        BY <1>2, <2>2, CallsKeep
<1>6. CASE Reject(s)
    <2>1. r.phase = "item" /\ AtHand(s) \in Mismatched /\ UNCHANGED dismissed
        BY <1>6 DEF Reject
    <2>2. CASE r.batch = NoBatch
        <3> DEFINE next == [NoTx EXCEPT !.phase = "refused"]
        <3>1. next.phase = "refused" /\ Turn(s, next)
            BY <1>6, <2>2, NoTxIs DEF Tx, Reject
        <3>2. c # NoCall => c.events \subseteq Mismatched
            BY <1>1, <2>1, <2>2 DEF CallInv, RowInv, AtHand
        <3> HIDE DEF next
        <3>3. CallInv(c, next, dismissed')
            BY <3>1, <3>2 DEF CallInv
        <3>4. QED
            BY <1>2, <3>1, <3>3, CallsKeep
    <2>3. CASE r.batch # NoBatch
        <3>1. "rejected" \in Outcomes
            BY DEF Outcomes
        <3>2. QED
            BY <1>6, <2>1, <2>3, <3>1, AnswerCalls DEF Reject
    <2>4. QED
        BY <2>2, <2>3
<1>7. CASE InsertEvent(s)
    <2>1. r.phase = "item" /\ UNCHANGED dismissed
        BY <1>7 DEF InsertEvent
    <2>2. CASE AtHand(s) \in stored
        <3>1. "duplicate" \in Outcomes
            BY DEF Outcomes
        <3>2. QED
            BY <1>7, <2>1, <2>2, <3>1, AnswerCalls DEF InsertEvent
    <2>3. CASE AtHand(s) \notin stored
        <3> DEFINE put == r.inserted \cup {AtHand(s)}
                   next == [r EXCEPT !.inserted = put, !.phase = "profile"]
        <3>1. Turn(s, next)
            BY <1>7, <2>3 DEF InsertEvent
        <3> HIDE DEF put
        <3>2. next.phase = "profile" /\ next.todo = r.todo /\ next.batch = r.batch
            BY <1>1 DEF Tx
        <3> HIDE DEF next
        <3>3. CallInv(c, next, dismissed')
            BY <1>1, <2>1, <3>2 DEF CallInv
        <3>4. QED
            BY <1>2, <3>1, <3>3, CallsKeep
    <2>4. QED
        BY <2>2, <2>3
<1>8. CASE UpdateProfile(s)
    <2> DEFINE counted == [(IF r.locked THEN r.profile ELSE profile) EXCEPT ![AtHand(s)] = @ + 1]
               ended == Ended(r, AtHand(s), "accepted")
               next == [ended EXCEPT !.locked = TRUE, !.profile = counted]
    <2>1. Turn(s, next) /\ r.phase = "profile" /\ UNCHANGED dismissed
        BY <1>8 DEF UpdateProfile
    <2>2. AtHand(s) \in Events /\ AtHand(s) = Oldest(r.todo)
        BY <1>1, <2>1, ItemAtHand DEF RowInv, AtHand
    <2>3. /\ ended \in Tx /\ ended.batch = r.batch /\ ended.phase \in {"item", "closing"}
          /\ ended.phase = "item" => r.todo \ {Oldest(r.todo)} # {}
        BY <1>1, <2>2, EndedRow DEF Outcomes
    <2>4. CallInv(c, ended, dismissed')
        BY <1>1, <2>1, <2>3, AnsweredCalls
    <2> HIDE DEF counted, ended
    <2>5. next.batch = ended.batch /\ next.phase = ended.phase /\ next.todo = ended.todo
        BY <2>3 DEF Tx
    <2> HIDE DEF next
    <2>6. CallInv(c, next, dismissed')
        BY <2>4, <2>5 DEF CallInv
    <2>7. QED
        BY <1>2, <2>1, <2>6, CallsKeep
<1>9. CASE Commit(s)
    <2> DEFINE next == [NoTx EXCEPT !.phase = "answered", !.results = r.results]
    <2>1. next.phase = "answered" /\ Turn(s, next)
        BY <1>9, NoTxIs DEF Commit, Tx
    <2> HIDE DEF next
    <2>2. QED
        BY <1>2, <2>1, EndedCalls, CallsKeep
<1>10. CASE Raises(s)
    <2>1. CASE r.batch = NoBatch
        BY <1>3, <1>10, <2>1 DEF Raises, Undo
    <2>2. CASE r.batch # NoBatch
        <3> DEFINE ended == Ended(r, AtHand(s), "rejected")
                   put == r.inserted \ {AtHand(s)}
                   next == [ended EXCEPT !.inserted = put]
        <3>1. Turn(s, next) /\ r.phase \in {"item", "profile"}
            BY <1>10, <2>2 DEF Raises, UndoItem
        <3>2. AtHand(s) \in Events
            BY <1>1, <3>1, ItemAtHand DEF RowInv, AtHand
        <3>3. ended \in Tx /\ ended.batch = r.batch /\ ended.phase \in {"item", "closing"}
            BY <1>1, <3>2, EndedRow DEF Outcomes
        <3> HIDE DEF ended, put
        <3>4. next.batch = r.batch /\ next.phase \in {"item", "closing"}
            BY <3>3 DEF Tx
        <3> HIDE DEF next
        <3>5. CallInv(c, next, dismissed')
            BY <2>2, <3>4 DEF CallInv
        <3>6. QED
            BY <1>2, <3>1, <3>5, CallsKeep
    <2>3. QED
        BY <2>1, <2>2
<1>11. CASE Deny(s)
    <2> DEFINE next == [NoTx EXCEPT !.phase = "refused"]
    <2>1. next.phase = "refused" /\ Turn(s, next) /\ r.phase = "arrived" /\ dismissed' = dismissed \cup r.todo
        BY <1>11, NoTxIs DEF Deny, Tx
    <2> HIDE DEF next
    <2>2. CallInv(c, next, dismissed')
        BY <1>1, <2>1 DEF CallInv
    <2>3. QED
        BY <1>2, <2>1, <2>2, CallsKeep
<1>12. CASE Crash(s)
    BY <1>3, <1>12 DEF Crash, Undo
<1>13. QED
    BY <1>2, <1>4, <1>5, <1>6, <1>7, <1>8, <1>9, <1>10, <1>11, <1>12
       DEF IngestStep, Serve, ItemRaises, DeadlockVictim

-----------------------------------------------------------------------------
(* The records                                                             *)

\* What a record must be to say the truth of event e
Says(rec, e, st, dis) ==
    /\ rec.status \in {"accepted", "duplicate"} => e \in st
    /\ rec.status = "rejected" \/ (rec.status = "failed" /\ ~ rec.retryable) => e \in Mismatched \cup dis
    /\ rec.status = "evicted" => e \in st \cup Mismatched \cup dis

LEMMA SettledSays == SettledIsTrue <=> \A e \in Events : Says(record[e], e, stored, dismissed)
BY DEF SettledIsTrue, Says

\* What a step asks of the records that it marks
LEMMA RecordsKeep ==
    ASSUME QueueInv, stored \subseteq stored', dismissed \subseteq dismissed', record' \in [Events -> Record],
           batchIds' \subseteq [events : SUBSET Events, id : Batches],
           call' \in [Slots -> [events : SUBSET Events, batch : Batches \cup {NoBatch}]],
           CallsInv',
           \A e \in Events : record'[e] = record[e] \/ Says(record'[e], e, stored', dismissed')
    PROVE  QueueInv'
<1>1. \A e \in Events : Says(record[e], e, stored', dismissed')
    BY SettledSays DEF QueueInv, Says
<1>2. \A e \in Events : Says(record'[e], e, stored', dismissed')
    BY <1>1
<1>3. SettledIsTrue'
    BY <1>2 DEF SettledIsTrue, Says
<1>4. QED
    BY <1>3 DEF QueueInv, CallsInv

LEMMA RequestCalls ==
    ASSUME IngestInv, QueueInv, NEW s \in Slots, NEW batch \in Batches \cup {NoBatch}, NEW todo \in SUBSET Events,
           Request(s, batch, todo)
    PROVE  CallsInv' /\ call' \in [Slots -> [events : SUBSET Events, batch : Batches \cup {NoBatch}]]
<1> DEFINE next == Arrived(batch, todo)
           sent == [events |-> todo, batch |-> batch]
<1>1. next.phase = "arrived" /\ next.todo = todo
    BY NoTxIs DEF Arrived, Tx
<1>2. sent \in [events : SUBSET Events, batch : Batches \cup {NoBatch}] /\ sent.events = todo
    OBVIOUS
<1>3. CallInv(sent, next, dismissed)
    BY <1>1, <1>2 DEF CallInv
<1>4. /\ tx' = [tx EXCEPT ![s] = next] /\ call' = [call EXCEPT ![s] = sent] /\ UNCHANGED dismissed
      /\ tx \in [Slots -> Tx] /\ call \in [Slots -> [events : SUBSET Events, batch : Batches \cup {NoBatch}]]
      /\ \A t \in Slots : CallInv(call[t], tx[t], dismissed)
    BY DEF Request, IngestInv, IngestTypeOK, QueueInv
<1> HIDE DEF next, sent
<1>5. \A t \in Slots : /\ tx'[t] = IF t = s THEN next ELSE tx[t]
                       /\ call'[t] = IF t = s THEN sent ELSE call[t]
    BY <1>4
<1>6. QED
    BY <1>2, <1>3, <1>4, <1>5 DEF CallsInv

LEMMA SendingSays ==
    ASSUME IngestInv, QueueInv, NEW s \in Slots, NEW batch \in Batches \cup {NoBatch}, NEW S \in SUBSET Events,
           Request(s, batch, S), batchIds' \subseteq [events : SUBSET Events, id : Batches],
           NEW rows \in [Events -> Record], record' = Marked(rows, S, "sending", TRUE),
           \A e \in Events : rows[e] = record[e] \/ Says(rows[e], e, stored, dismissed)
    PROVE  QueueInv'
<1>1. /\ record' \in [Events -> Record]
      /\ \A e \in Events : record'[e] = IF e \in S THEN [status |-> "sending", retryable |-> TRUE] ELSE rows[e]
    BY DEF Marked, Record
<1>2. UNCHANGED <<stored, dismissed>>
    BY DEF Request
<1>3. \A e \in Events : Says([status |-> "sending", retryable |-> TRUE], e, stored', dismissed')
    BY DEF Says
<1>4. \A e \in Events : record'[e] = record[e] \/ Says(record'[e], e, stored', dismissed')
    BY <1>1, <1>2, <1>3
<1>5. CallsInv' /\ call' \in [Slots -> [events : SUBSET Events, batch : Batches \cup {NoBatch}]]
    BY RequestCalls
<1>6. QED
    BY <1>1, <1>2, <1>4, <1>5, RecordsKeep

\* A record gives way only if it is settled.
LEMMA RoomIs ==
    ASSUME QueueInv, Cardinality(Held) < Capacity \/ Evictable # {}
    PROVE  /\ Room \in [Events -> Record]
           /\ \A e \in Events : Room[e] = record[e] \/ Says(Room[e], e, stored, dismissed)
<1>1. record \in [Events -> Record]
    BY DEF QueueInv
<1>2. CASE Cardinality(Held) < Capacity
    BY <1>1, <1>2 DEF Room
<1>3. CASE ~ (Cardinality(Held) < Capacity)
    <2> DEFINE e == Oldest(Evictable)
    <2>1. Evictable \in SUBSET Nat /\ Evictable \subseteq Events /\ Evictable # {}
        BY <1>3, IngestConstants DEF Evictable, Held
    <2>2. e \in Evictable /\ e \in Events
        BY <2>1, OldestIs
    <2>3. Room = Marked(record, {e}, "evicted", FALSE)
        BY <1>3 DEF Room
    <2> HIDE DEF e
    <2>4. /\ Room \in [Events -> Record]
          /\ \A f \in Events : Room[f] = IF f \in {e} THEN [status |-> "evicted", retryable |-> FALSE] ELSE record[f]
        BY <1>1, <2>2, <2>3 DEF Marked, Record
    <2>5. e \in stored \cup Mismatched \cup dismissed
        BY <2>2 DEF Evictable, Settled, QueueInv, SettledIsTrue
    <2>6. Says([status |-> "evicted", retryable |-> FALSE], e, stored, dismissed)
        BY <2>5 DEF Says
    <2>7. QED
        BY <2>4, <2>6
<1>4. QED
    BY <1>2, <1>3

LEMMA CloseCalls ==
    ASSUME IngestInv, QueueInv, NEW s \in Slots, Close(s)
    PROVE  CallsInv' /\ call' \in [Slots -> [events : SUBSET Events, batch : Batches \cup {NoBatch}]]
<1>1. /\ tx' = [tx EXCEPT ![s] = NoTx] /\ call' = [call EXCEPT ![s] = NoCall] /\ UNCHANGED dismissed
      /\ tx \in [Slots -> Tx] /\ call \in [Slots -> [events : SUBSET Events, batch : Batches \cup {NoBatch}]]
      /\ \A t \in Slots : CallInv(call[t], tx[t], dismissed)
    BY DEF Close, IngestInv, IngestTypeOK, QueueInv
<1>2. NoCall \in [events : SUBSET Events, batch : Batches \cup {NoBatch}] /\ CallInv(NoCall, NoTx, dismissed)
    BY DEF NoCall, CallInv
<1>3. \A t \in Slots : /\ tx'[t] = IF t = s THEN NoTx ELSE tx[t]
                       /\ call'[t] = IF t = s THEN NoCall ELSE call[t]
    BY <1>1
<1>4. QED
    BY <1>1, <1>2, <1>3 DEF CallsInv

\* A call that failed: its events may be sent again, or were refused.
LEMMA FailedSays ==
    ASSUME QueueInv, NEW s \in Slots, NEW retryable \in BOOLEAN, Failed(s, retryable), UNCHANGED <<stored, dismissed>>,
           ~ retryable => call[s].events \subseteq Mismatched \cup dismissed
    PROVE  /\ record' \in [Events -> Record]
           /\ \A e \in Events : record'[e] = record[e] \/ Says(record'[e], e, stored', dismissed')
<1> DEFINE S == call[s].events
           rec == [status |-> "failed", retryable |-> retryable]
<1>1. S \in SUBSET Events /\ record \in [Events -> Record]
    BY DEF QueueInv
<1>2. /\ record' \in [Events -> Record]
      /\ \A e \in Events : record'[e] = IF e \in S THEN rec ELSE record[e]
    BY <1>1 DEF Failed, Marked, Record
<1>3. \A e \in S : Says(rec, e, stored, dismissed)
    BY DEF Says
<1>4. QED
    BY <1>2, <1>3

LEMMA ConcludeKeeps ==
    ASSUME IngestInv, QueueInv, NEW s \in Slots, Conclude(s) \/ Lost(s)
    PROVE  QueueInv'
<1>1. Close(s)
    BY DEF Conclude, ApplyResults, Refused, ServerError, Unheard, Lost
<1>2. /\ UNCHANGED <<stored, dismissed>> /\ CallsInv'
      /\ call' \in [Slots -> [events : SUBSET Events, batch : Batches \cup {NoBatch}]]
    BY <1>1, CloseCalls DEF Close
<1>3. batchIds' \subseteq [events : SUBSET Events, id : Batches]
    BY DEF Conclude, ApplyResults, Refused, ServerError, Unheard, Lost, QueueInv
<1>4. /\ record' \in [Events -> Record]
      /\ \A e \in Events : record'[e] = record[e] \/ Says(record'[e], e, stored', dismissed')
    <2>1. CASE ApplyResults(s)
        <3> DEFINE results == tx[s].results
        <3>1. tx[s] \in Tx /\ RowInv(tx[s], stored, dismissed) /\ tx[s].phase = "answered" /\ record \in [Events -> Record]
            BY <2>1, TheRow DEF ApplyResults, QueueInv
        <3>2. Counted(tx[s]) = {}
            BY <3>1 DEF Counted, RowInv
        <3>3. results \in Results /\ ResultsInv(results, stored, dismissed)
            BY <3>1, <3>2 DEF RowInv, Tx
        <3>4. record' = [e \in Events |-> IF results[e] = "none" THEN record[e]
                                          ELSE [status |-> results[e], retryable |-> FALSE]]
            BY <2>1 DEF ApplyResults
        <3> HIDE DEF results
        <3>5. ASSUME NEW e \in Events, results[e] # "none"
              PROVE  /\ [status |-> results[e], retryable |-> FALSE] \in Record
                     /\ Says([status |-> results[e], retryable |-> FALSE], e, stored, dismissed)
            <4>1. results[e] \in Settled
                BY <3>3, <3>5 DEF Results, Outcomes, Settled
            <4>2. QED
                BY <3>3, <4>1 DEF Record, Settled, Says, ResultsInv
        <3>6. QED
            BY <1>2, <3>1, <3>4, <3>5
    <2>2. CASE Refused(s)
        <3>1. call[s].events \subseteq Mismatched \cup dismissed
            BY <2>2 DEF Refused, QueueInv, CallInv, Awaited
        <3>2. QED
            BY <1>2, <2>2, <3>1, FailedSays DEF Refused
    <2>3. CASE ServerError(s) \/ Lost(s)
        BY <1>2, <2>3, FailedSays DEF ServerError, Lost
    <2>4. CASE Unheard(s)
        BY <2>4 DEF Unheard, QueueInv
    <2>5. QED
        BY <2>1, <2>2, <2>3, <2>4 DEF Conclude
<1>5. QED
    BY <1>2, <1>3, <1>4, RecordsKeep

LEMMA QueueKeeps == ASSUME IngestInv, QueueInv, [Next]_vars PROVE QueueInv'
<1>1. CASE UNCHANGED vars
    BY <1>1 DEF vars, ingestVars, queueVars, QueueInv, SettledIsTrue
<1>2. ASSUME NEW s \in Slots, NEW e \in Events, EnqueueAndSend(s, e)
      PROVE  QueueInv'
    <2>1. /\ Room \in [Events -> Record]
          /\ \A f \in Events : Room[f] = record[f] \/ Says(Room[f], f, stored, dismissed)
        BY <1>2, RoomIs DEF EnqueueAndSend
    <2>2. Request(s, NoBatch, {e}) /\ record' = Marked(Room, {e}, "sending", TRUE)
        BY <1>2 DEF EnqueueAndSend
    <2>3. batchIds' \subseteq [events : SUBSET Events, id : Batches]
        BY <1>2 DEF EnqueueAndSend, QueueInv
    <2>4. QED
        BY <2>1, <2>2, <2>3, SendingSays
<1>3. ASSUME NEW s \in Slots, NEW e \in Events, Retry(s, e)
      PROVE  QueueInv'
    <2>1. Request(s, NoBatch, {e}) /\ record' = Marked(record, {e}, "sending", TRUE)
        BY <1>3 DEF Retry
    <2>2. batchIds' \subseteq [events : SUBSET Events, id : Batches] /\ record \in [Events -> Record]
        BY <1>3 DEF Retry, QueueInv
    <2>3. QED
        BY <2>1, <2>2, SendingSays
<1>4. ASSUME NEW s \in Slots, RetryFailedBatch(s)
      PROVE  QueueInv'
    <2>1. PICK batch \in Batches : Request(s, batch, Selected)
        BY <1>4, RetryFailedBatchRequests
    <2>2. batchIds' \subseteq [events : SUBSET Events, id : Batches] /\ Selected \in SUBSET Events
        BY <1>4, RetryFailedBatchRequests
    <2>3. record' = Marked(record, Selected, "sending", TRUE) /\ record \in [Events -> Record]
        BY <1>4 DEF RetryFailedBatch, QueueInv
    <2>4. QED
        BY <2>1, <2>2, <2>3, SendingSays
<1>5. ASSUME NEW s \in Slots, IngestStep(s), UNCHANGED queueVars
      PROVE  QueueInv'
    <2>1. UNCHANGED <<record, batchIds, call>>
        BY <1>5 DEF queueVars
    <2>2. CallsInv' /\ stored \subseteq stored' /\ dismissed \subseteq dismissed'
        BY <1>5, <2>1, IngestStepCalls
    <2>3. QED
        BY <2>1, <2>2, RecordsKeep DEF QueueInv
<1>6. ASSUME NEW s \in Slots, Conclude(s) \/ Lost(s)
      PROVE  QueueInv'
    BY <1>6, ConcludeKeeps
<1>7. ASSUME NEW s \in Slots, Disconnected(s)
      PROVE  QueueInv'
    <2>1. UNCHANGED <<tx, stored, dismissed, batchIds>> /\ call' = [call EXCEPT ![s] = NoCall] /\ Failed(s, TRUE)
        BY <1>7 DEF Disconnected, ingestVars
    <2>2. /\ record' \in [Events -> Record]
          /\ \A e \in Events : record'[e] = record[e] \/ Says(record'[e], e, stored', dismissed')
        BY <2>1, FailedSays
    <2>3. /\ call \in [Slots -> [events : SUBSET Events, batch : Batches \cup {NoBatch}]]
          /\ NoCall \in [events : SUBSET Events, batch : Batches \cup {NoBatch}]
        BY DEF QueueInv, NoCall
    <2>4. /\ call' \in [Slots -> [events : SUBSET Events, batch : Batches \cup {NoBatch}]]
          /\ \A t \in Slots : call'[t] = IF t = s THEN NoCall ELSE call[t]
        BY <2>1, <2>3
    <2>5. CallsInv'
        BY <2>1, <2>4 DEF CallsInv, QueueInv, CallInv
    <2>6. batchIds' \subseteq [events : SUBSET Events, id : Batches]
        BY <2>1 DEF QueueInv
    <2>7. QED
        BY <2>1, <2>2, <2>4, <2>5, <2>6, RecordsKeep
<1>8. QED
    BY <1>1, <1>2, <1>3, <1>4, <1>5, <1>6, <1>7 DEF Next

-----------------------------------------------------------------------------
(* Theorems                                                                *)

LEMMA InitIngest == Init => IngestInv
<1> SUFFICES ASSUME Init PROVE IngestInv
    OBVIOUS
<1>1. /\ stored = {} /\ profile = [e \in Events |-> 0] /\ receipt = [b \in Batches |-> NoResults]
      /\ tx = [s \in Slots |-> NoTx] /\ faults = 0 /\ dismissed = {}
    BY DEF Init, IngestInit
<1>2. ResultsInv(NoResults, {}, {})
    BY NoTxIs DEF ResultsInv
<1>3. RowInv(NoTx, {}, {})
    <2>1. Counted(NoTx) = {}
        BY NoTxIs DEF Counted
    <2>2. QED
        BY <1>2, <2>1, NoTxIs DEF RowInv
<1>4. IngestTypeOK
    BY <1>1, NoTxIs, IngestConstants DEF IngestTypeOK
<1>5. Apart
    BY <1>1, NoTxIs DEF Apart
<1>6. CountedOnce
    BY <1>1 DEF CountedOnce
<1>7. QED
    BY <1>1, <1>2, <1>3, <1>4, <1>5, <1>6 DEF IngestInv

LEMMA InitQueue == Init => QueueInv
<1> SUFFICES ASSUME Init PROVE QueueInv
    OBVIOUS
<1> DEFINE new == [status |-> "absent", retryable |-> TRUE]
<1>1. record = [e \in Events |-> new] /\ batchIds = {} /\ call = [s \in Slots |-> NoCall]
    BY DEF Init
<1>2. new \in Record /\ \A e \in Events : Says(new, e, stored, dismissed)
    BY DEF Record, Says
<1>3. NoCall \in [events : SUBSET Events, batch : Batches \cup {NoBatch}]
    BY DEF NoCall
<1> HIDE DEF new
<1>4. SettledIsTrue
    BY <1>1, <1>2, SettledSays
<1>5. \A s \in Slots : CallInv(call[s], tx[s], dismissed)
    BY <1>1 DEF CallInv
<1>6. QED
    BY <1>1, <1>2, <1>3, <1>4, <1>5 DEF QueueInv

LEMMA QueueInvariant == Spec => [](IngestInv /\ QueueInv)
<1>1. Init => IngestInv /\ QueueInv
    BY InitIngest, InitQueue
<1>2. IngestInv /\ QueueInv /\ [Next]_vars => (IngestInv /\ QueueInv)'
    BY IngestKeeps, QueueKeeps
<1>3. QED
    BY <1>1, <1>2, PTL DEF Spec

\* Whatever requests cross, fail or are sent again, singly or in batches, every event that
\* is stored counts once in the user's profile and no other counts (_update_profile under
\* the row's lock, in the transaction that inserts the event).
THEOREM EventsCountOnce == Spec => []CountedOnce
<1>1. IngestInv => CountedOnce
    BY DEF IngestInv
<1>2. QED
    BY <1>1, QueueInvariant, PTL

\* What the web client's queue shows as settled is true of the database, and no record
\* leaves the queue whose event could still be delivered (event-queue.ts against submit and
\* submit_batch).
THEOREM SettledRecordsAreTrue == Spec => []SettledIsTrue
<1>1. QueueInv => SettledIsTrue
    BY DEF QueueInv
<1>2. QED
    BY <1>1, QueueInvariant, PTL

-----------------------------------------------------------------------------
(* The export: its inductive invariant                                     *)

NoRows(name) == [name |-> name, accepted |-> {}, rejected |-> {}]

\* Of what a watermark has recorded: its ranges end at or before the watermark, what they
\* hold does too, and no committed id at or below it is left out or exported twice.
RecordedInv(name, rec, mark, com) ==
    /\ rec \subseteq Ranges \X Exports
    /\ \A r \in rec :
          /\ r[1][1] <= r[1][2] /\ r[1][2] <= mark
          /\ r[2].name = name
          /\ \A i \in Rows(r[2]) : i <= mark
          /\ r[1][1] = r[1][2] => r[2] = NoRows(name)
    /\ \A i \in com : i <= mark => \E e \in rec : {r \in rec : i \in Rows(r[2])} = {e}

HeldExport == {"claimed", "writing", "setAside", "clear", "published"}

\* Of a run that holds the lock: its range goes from the watermark to the newest id, and
\* its export is what lies in the range.
HolderInv(r, marks, com) ==
    r.phase \in HeldExport =>
       /\ r.name \in Names
       /\ r.export \in Exports /\ r.export.name = r.name
       /\ r.range[1] = marks[r.name] /\ r.range[1] <= r.range[2] /\ r.range[2] \in com \cup {0}
       /\ Rows(r.export) = {i \in com : r.range[1] < i /\ i <= r.range[2]}
       /\ \A i \in com : i <= r.range[2]

LogTypes ==
    /\ lastId \in 0 .. MaxId
    /\ inserted \in [Writers -> SUBSET (1 .. lastId)]
    /\ committed \subseteq 1 .. lastId
    /\ described \in BOOLEAN
    /\ watermark \in [Names -> committed \cup {0}]
    /\ recorded \in [Names -> SUBSET (Ranges \X Exports)]
    /\ run \in [Exporters -> Run]

\* No id can appear at or below a watermark, and none at all while an exporter holds the lock.
NoneBehind ==
    /\ \A w \in Writers : \A i \in inserted[w] : \A n \in Names : watermark[n] < i
    /\ \A p \in Exporters : run[p].phase \in HeldExport => Quiet

OneOfAName ==
    \A p, q \in Exporters :
        p # q /\ run[p].phase # "idle" /\ run[q].phase # "idle" => run[p].name # run[q].name

LogInv ==
    /\ LogTypes
    /\ NoneBehind
    /\ OneOfAName
    /\ \A n \in Names : RecordedInv(n, recorded[n], watermark[n], committed)
    /\ \A p \in Exporters : run[p].phase = "waiting" => run[p].name \in Names
    /\ \A p \in Exporters : HolderInv(run[p], watermark, committed)

\* Of a run whose range nobody else has claimed meanwhile: it replaces no export that is
\* recorded, and leaves its own in place.
AloneRow(r, rec, dir) ==
    /\ r.phase \in {"writing", "setAside", "clear"} => \A n \in Names : \A x \in rec[n] : x[1] # r.range
    /\ r.phase = "published" => dir[r.range] = r.export

AloneInv(p) ==
    Holding(p) /\ run[p].range \notin contested =>
       /\ \A q \in Exporters : q # p /\ Holding(q) => run[q].range # run[p].range
       /\ AloneRow(run[p], recorded, directory)

DirectoryInv ==
    /\ directory \in [Ranges -> Exports \cup {NoExport}]
    /\ RecordedStands
    /\ \A p \in Exporters : AloneInv(p)

-----------------------------------------------------------------------------
(* The newest id, and what a run claims                                    *)

LEMMA LargestOf ==
    ASSUME NEW n \in Nat, NEW S \in SUBSET (0 .. n), S # {}
    PROVE  \E i \in S : \A j \in S : j <= i
<1> DEFINE T == {n - i : i \in S}
<1>1. T \subseteq Nat /\ T # {}
    <2>1. \A i \in S : n - i \in Nat
        OBVIOUS
    <2>2. PICK i \in S : TRUE
        OBVIOUS
    <2>3. QED
        BY <2>1, <2>2
<1>2. PICK x \in T : \A y \in T : ~ (<<y, x>> \in OpToRel(<, Nat))
    <2> HIDE DEF T
    <2>1. QED
        BY <1>1, NatLessThanWellFounded, WFMin
<1>3. \A y \in T : ~ (y < x)
    <2> SUFFICES ASSUME NEW y \in T PROVE ~ (y < x)
        OBVIOUS
    <2> HIDE DEF T
    <2>1. QED
        BY <1>1, <1>2 DEF OpToRel
<1>4. PICK i \in S : x = n - i
    OBVIOUS
<1>5. \A j \in S : n - j \in T /\ ~ (n - j < x)
    BY <1>3
<1>6. \A j \in S : j <= i
    BY <1>4, <1>5
<1>7. QED
    BY <1>6

\* The ids and watermarks, one by one
LEMMA Numbers ==
    ASSUME LogTypes
    PROVE  /\ lastId \in Nat /\ MaxId \in Nat /\ lastId <= MaxId
           /\ \A i \in committed : i \in Nat /\ 1 <= i /\ i <= lastId
           /\ \A n \in Names : watermark[n] \in Nat /\ watermark[n] <= lastId
           /\ \A n \in Names : watermark[n] \in committed \cup {0}
<1>1. lastId \in 0 .. MaxId /\ committed \subseteq 1 .. lastId
    BY DEF LogTypes
<1>2. lastId \in Nat /\ MaxId \in Nat /\ lastId <= MaxId
    BY <1>1, LogConstants
<1>3. \A i \in committed : i \in 1 .. lastId
    BY <1>1
<1>4. \A i \in committed : i \in Nat /\ 1 <= i /\ i <= lastId
    BY <1>2, <1>3
<1>5. \A n \in Names : watermark[n] \in committed \cup {0}
    BY DEF LogTypes
<1>6. QED
    BY <1>2, <1>4, <1>5

LEMMA NewestIs ==
    ASSUME LogTypes
    PROVE  Newest \in committed \cup {0} /\ \A i \in committed : i <= Newest
<1>1. lastId \in Nat /\ committed \in SUBSET (0 .. lastId)
    BY LogConstants DEF LogTypes
<1>2. CASE committed = {}
    BY <1>1, <1>2 DEF Newest
<1>3. CASE committed # {}
    <2>1. \E i \in committed : \A j \in committed : j <= i
        BY <1>1, <1>3, LargestOf
    <2>2. Newest \in committed /\ \A j \in committed : j <= Newest
        BY <1>3, <2>1 DEF Newest
    <2>3. QED
        BY <1>1, <2>2
<1>4. QED
    BY <1>2, <1>3

LEMMA IdleIsRun == Idle \in Run /\ Idle.phase = "idle"
BY LogConstants DEF Idle, Run, Ranges

\* A row of the runs, and what it holds
LEMMA TheRun ==
    ASSUME LogInv, NEW p \in Exporters
    PROVE  run[p] \in Run /\ HolderInv(run[p], watermark, committed)
BY DEF LogInv, LogTypes

-----------------------------------------------------------------------------
(* The log's invariant: steps that only move a run                         *)

LEMMA TurnKeepsLog ==
    ASSUME LogInv, UNCHANGED <<logVars, described, watermark, recorded>>,
           NEW p \in Exporters, NEW next \in Run, Proceeds(p, next),
           HolderInv(next, watermark, committed), next.phase \in HeldExport => Quiet,
           next.phase = "waiting" => next.name \in Names,
           next.phase # "idle" =>
              \A q \in Exporters : q # p /\ run[q].phase # "idle" => run[q].name # next.name
    PROVE  LogInv'
<1>1. run \in [Exporters -> Run]
    BY DEF LogInv, LogTypes
<1>2. run' \in [Exporters -> Run] /\ \A q \in Exporters : run'[q] = IF q = p THEN next ELSE run[q]
    BY <1>1 DEF Proceeds
<1>3. LogTypes'
    BY <1>2 DEF LogInv, LogTypes, logVars
<1>4. NoneBehind'
    BY <1>2 DEF LogInv, NoneBehind, Quiet, logVars
<1>5. OneOfAName'
    BY <1>2 DEF LogInv, OneOfAName
<1>6. \A n \in Names : RecordedInv(n, recorded'[n], watermark'[n], committed')
    BY DEF LogInv, logVars
<1>7. \A q \in Exporters : run'[q].phase = "waiting" => run'[q].name \in Names
    BY <1>2 DEF LogInv
<1>8. \A q \in Exporters : HolderInv(run'[q], watermark', committed')
    BY <1>2 DEF LogInv, logVars
<1>9. QED
    BY <1>3, <1>4, <1>5, <1>6, <1>7, <1>8 DEF LogInv

\* The end of a run, whatever the reason
LEMMA EndKeepsLog ==
    ASSUME LogInv, UNCHANGED <<logVars, described, watermark, recorded>>, NEW p \in Exporters, Proceeds(p, Idle)
    PROVE  LogInv'
BY TurnKeepsLog, IdleIsRun DEF HolderInv, HeldExport

\* A run that goes on with its range and its export
LEMMA NextPhaseKeepsLog ==
    ASSUME LogInv, UNCHANGED <<logVars, described, watermark, recorded>>,
           NEW p \in Exporters, Holding(p), NEW next \in Run, Proceeds(p, next), next.phase \in HeldExport,
           next.name = run[p].name, next.range = run[p].range, next.export = run[p].export
    PROVE  LogInv'
<1>1. run[p] \in Run /\ HolderInv(run[p], watermark, committed)
    BY TheRun
<1>2. run[p].phase \in HeldExport
    BY <1>1 DEF Holding, HeldExport, Run
<1>3. HolderInv(next, watermark, committed)
    BY <1>1, <1>2 DEF HolderInv
<1>4. Quiet
    BY <1>2 DEF LogInv, NoneBehind
<1>5. \A q \in Exporters : q # p /\ run[q].phase # "idle" => run[q].name # next.name
    BY <1>2 DEF LogInv, OneOfAName, HeldExport
<1>6. next.phase # "waiting" /\ next.phase # "idle"
    BY DEF HeldExport
<1>7. QED
    BY <1>3, <1>4, <1>5, <1>6, TurnKeepsLog

LEMMA BeginKeepsLog == ASSUME LogInv, NEW p \in Exporters, NEW n \in Names, Begin(p, n) PROVE LogInv'
<1> DEFINE next == [Idle EXCEPT !.phase = "waiting", !.name = n]
<1>1. next \in Run /\ next.phase = "waiting" /\ next.name = n
    BY IdleIsRun DEF Run
<1>2. Proceeds(p, next) /\ \A q \in Exporters : run[q].name # n
    BY DEF Begin
<1> HIDE DEF next
<1>3. HolderInv(next, watermark, committed) /\ next.phase \notin HeldExport
    BY <1>1 DEF HolderInv, HeldExport
<1>4. QED
    BY <1>1, <1>2, <1>3, TurnKeepsLog DEF Begin

LEMMA ClaimKeepsLog == ASSUME LogInv, NEW p \in Exporters, Claim(p) PROVE LogInv'
<1> DEFINE name == run[p].name
           range == <<watermark[name], Newest>>
           export == Expected(name, range)
           next == [run[p] EXCEPT !.phase = "claimed", !.range = range, !.export = export]
<1>1. run[p] \in Run /\ run[p].phase = "waiting" /\ name \in Names /\ Quiet
    BY TheRun DEF Claim, LogInv
<1>2. LogTypes
    BY DEF LogInv
<1>3. Newest \in committed \cup {0} /\ \A i \in committed : i <= Newest
    BY <1>2, NewestIs
<1>4. watermark[name] \in committed \cup {0}
    BY <1>1, <1>2 DEF LogTypes
<1>5. /\ watermark[name] \in Nat /\ watermark[name] <= MaxId
      /\ Newest \in Nat /\ Newest <= MaxId
    BY <1>2, <1>3, <1>4, Numbers
<1>6. watermark[name] <= Newest
    BY <1>3, <1>4, <1>5
<1>7. range \in Ranges
    BY <1>2, <1>5, Numbers DEF Ranges
<1>8. Between(range[1], range[2]) \in SUBSET Ids
    <2>1. \A i \in committed : i \in Ids
        BY <1>2, Numbers DEF Ids
    <2>2. QED
        BY <2>1 DEF Between
<1>9. export \in Exports /\ export.name = name /\ Rows(export) = Between(range[1], range[2])
    <2> HIDE DEF name, range
    <2>1. CASE described
        BY <1>1, <1>8, <2>1 DEF Expected, Exports, Rows, name
    <2>2. CASE ~ described
        BY <1>1, <1>8, <2>2 DEF Expected, Exports, Rows, name
    <2>3. QED
        BY <2>1, <2>2
<1>10. Proceeds(p, next)
    BY DEF Claim
<1>11. range[1] = watermark[name] /\ range[2] = Newest
    OBVIOUS
<1> HIDE DEF range, export
<1>12. next \in Run /\ next.phase = "claimed" /\ next.name = name /\ next.range = range /\ next.export = export
    BY <1>1, <1>7, <1>9 DEF Run
<1> HIDE DEF next
<1>13. HolderInv(next, watermark, committed)
    BY <1>1, <1>3, <1>6, <1>9, <1>11, <1>12 DEF HolderInv, Between
<1>14. \A q \in Exporters : q # p /\ run[q].phase # "idle" => run[q].name # name
    BY <1>1 DEF LogInv, OneOfAName
<1>15. QED
    BY <1>1, <1>10, <1>12, <1>13, <1>14, TurnKeepsLog DEF Claim

LEMMA ReuseKeepsLog == ASSUME LogInv, NEW p \in Exporters, Reuse(p) PROVE LogInv'
<1> DEFINE next == [run[p] EXCEPT !.phase = "published"]
<1>1. next \in Run /\ next.phase = "published" /\ next.name = run[p].name /\ next.range = run[p].range
      /\ next.export = run[p].export
    BY TheRun DEF Run
<1>2. QED
    BY <1>1, NextPhaseKeepsLog DEF Reuse, Holding, HeldExport

LEMMA WriteDirectoryKeepsLog == ASSUME LogInv, NEW p \in Exporters, WriteDirectory(p) PROVE LogInv'
<1> DEFINE next == [run[p] EXCEPT !.phase = "writing"]
<1>1. next \in Run /\ next.phase = "writing" /\ next.name = run[p].name /\ next.range = run[p].range
      /\ next.export = run[p].export
    BY TheRun DEF Run
<1>2. QED
    BY <1>1, NextPhaseKeepsLog DEF WriteDirectory, Holding, HeldExport

LEMMA SetAsideKeepsLog ==
    ASSUME LogInv, NEW p \in Exporters, SetAside(p), There(p) \in Exports \cup {NoExport}
    PROVE  LogInv'
<1> DEFINE phase == IF There(p) = NoExport THEN "clear" ELSE "setAside"
           next == [run[p] EXCEPT !.phase = phase, !.aside = There(p)]
<1>1. phase \in {"clear", "setAside"}
    OBVIOUS
<1>2. Proceeds(p, next)
    BY DEF SetAside
<1> HIDE DEF phase
<1>3. next \in Run /\ next.phase = phase /\ next.name = run[p].name /\ next.range = run[p].range
      /\ next.export = run[p].export
    BY <1>1, TheRun DEF Run
<1> HIDE DEF next
<1>4. QED
    BY <1>1, <1>2, <1>3, NextPhaseKeepsLog DEF SetAside, Holding, HeldExport

LEMMA PublishKeepsLog == ASSUME LogInv, NEW p \in Exporters, Publish(p) PROVE LogInv'
<1> DEFINE next == [run[p] EXCEPT !.phase = "published", !.aside = NoExport]
<1>1. next \in Run /\ next.phase = "published" /\ next.name = run[p].name /\ next.range = run[p].range
      /\ next.export = run[p].export
    BY TheRun DEF Run
<1>2. QED
    BY <1>1, NextPhaseKeepsLog DEF Publish, Publishing, Holding, HeldExport

-----------------------------------------------------------------------------
(* The log's invariant: steps of the log, and the end of an export         *)

\* Nobody writes while an exporter holds the lock.
LEMMA WriteKeepsLog == ASSUME LogInv, NEW w \in Writers, Write(w) PROVE LogInv'
<1>1. LogTypes /\ MaxId \in Nat
    BY LogConstants DEF LogInv
<1>2. UNCHANGED <<described, watermark, recorded, directory, run, contested>>
    BY DEF Write
<1>3. ASSUME NEW p \in Exporters
      PROVE  run[p].phase \notin HeldExport
    <2>1. CASE Insert(w) /\ ~ Shared
        BY <2>1 DEF Shared, Holding, HeldExport
    <2>2. CASE inserted[w] # {}
        BY <2>2 DEF LogInv, NoneBehind, Quiet
    <2>3. QED
        BY <2>1, <2>2 DEF Write, CommitEvents, Discard
<1>4. /\ LogTypes'
      /\ \A v \in Writers : \A i \in inserted'[v] : \A n \in Names : watermark[n] < i
      /\ \A i \in committed' : i \in committed \/ \A n \in Names : watermark[n] < i
      /\ committed \subseteq committed'
    <2>1. CASE Insert(w)
        <3>1. lastId' \in 0 .. MaxId /\ 1 .. lastId \subseteq 1 .. lastId' /\ lastId + 1 \in 1 .. lastId'
            BY <1>1, <2>1 DEF Insert, LogTypes
        <3>2. inserted' \in [Writers -> SUBSET (1 .. lastId')]
            BY <1>1, <2>1, <3>1 DEF Insert, LogTypes
        <3>3. \A n \in Names : watermark[n] < lastId + 1
            BY <1>1, Numbers
        <3>4. \A v \in Writers : inserted'[v] \subseteq inserted[v] \cup {lastId + 1}
            BY <1>1, <2>1 DEF Insert, LogTypes
        <3>5. QED
            BY <1>1, <1>2, <2>1, <3>1, <3>2, <3>3, <3>4 DEF Insert, LogTypes, LogInv, NoneBehind
    <2>2. CASE CommitEvents(w)
        <3>1. inserted' \in [Writers -> SUBSET (1 .. lastId)] /\ \A v \in Writers : inserted'[v] \subseteq inserted[v]
            BY <1>1, <2>2 DEF CommitEvents, LogTypes
        <3>2. inserted[w] \subseteq 1 .. lastId
            BY <1>1 DEF LogTypes
        <3>3. committed' = committed \cup inserted[w] /\ lastId' = lastId
            BY <2>2 DEF CommitEvents
        <3>4. LogTypes'
            BY <1>1, <1>2, <3>1, <3>2, <3>3 DEF LogTypes
        <3>5. QED
            BY <1>2, <3>1, <3>3, <3>4 DEF LogInv, NoneBehind
    <2>3. CASE Discard(w)
        <3>1. inserted' \in [Writers -> SUBSET (1 .. lastId)] /\ \A v \in Writers : inserted'[v] \subseteq inserted[v]
            BY <1>1, <2>3 DEF Discard, LogTypes
        <3>2. committed' = committed /\ lastId' = lastId
            BY <2>3 DEF Discard
        <3>3. QED
            BY <1>1, <1>2, <3>1, <3>2 DEF LogTypes, LogInv, NoneBehind
    <2>4. QED
        BY <2>1, <2>2, <2>3 DEF Write
<1>5. NoneBehind'
    BY <1>2, <1>3, <1>4 DEF NoneBehind
<1>6. OneOfAName'
    BY <1>2 DEF LogInv, OneOfAName
<1>7. ASSUME NEW n \in Names
      PROVE  RecordedInv(n, recorded'[n], watermark'[n], committed')
    <2>1. RecordedInv(n, recorded[n], watermark[n], committed)
        BY DEF LogInv
    <2>2. \A i \in committed' : i <= watermark[n] => i \in committed
        <3>1. watermark[n] \in Nat /\ \A i \in committed' : i \in Nat
            BY <1>1, <1>2, <1>4, Numbers DEF LogTypes
        <3>2. QED
            BY <1>4, <3>1
    <2>3. QED
        BY <1>2, <2>1, <2>2 DEF RecordedInv
<1>8. \A p \in Exporters : HolderInv(run'[p], watermark', committed')
    BY <1>2, <1>3 DEF HolderInv
<1>9. QED
    BY <1>2, <1>4, <1>5, <1>6, <1>7, <1>8 DEF LogInv

LEMMA DescribeKeepsLog == ASSUME LogInv, Describe PROVE LogInv'
BY DEF Describe, LogInv, LogTypes, NoneBehind, OneOfAName, Quiet, logVars

\* What a complete export adds to what its watermark has recorded: the committed ids behind
\* the old watermark and up to the new one.
LEMMA RecordedGrows ==
    ASSUME NEW n, NEW rec, NEW mark \in Nat, NEW com, NEW marks, NEW r \in Run,
           RecordedInv(n, rec, mark, com), HolderInv(r, marks, com), r.phase \in HeldExport,
           r.name = n, marks[n] = mark, \A i \in com : i \in Nat /\ i > 0
    PROVE  RecordedInv(n, rec \cup {<<r.range, r.export>>}, r.range[2], com)
<1> DEFINE new == <<r.range, r.export>>
           all == rec \cup {new}
           end == r.range[2]
<1>1. /\ r.export \in Exports /\ r.export.name = n
      /\ r.range[1] = mark /\ mark <= end /\ end \in com \cup {0}
      /\ Rows(r.export) = {i \in com : mark < i /\ i <= end}
      /\ \A i \in com : i <= end
    BY DEF HolderInv
<1>2. r.range \in Ranges /\ end \in Nat
    BY <1>1 DEF Run
<1>3. new \in Ranges \X Exports /\ new[1] = r.range /\ new[2] = r.export
    BY <1>1, <1>2
<1>4. /\ rec \subseteq Ranges \X Exports
      /\ \A x \in rec :
            /\ x[1][1] <= x[1][2] /\ x[1][2] <= mark
            /\ x[2].name = n
            /\ \A i \in Rows(x[2]) : i <= mark
            /\ x[1][1] = x[1][2] => x[2] = NoRows(n)
    BY DEF RecordedInv
<1>5. all \subseteq Ranges \X Exports
    BY <1>3, <1>4
<1>6. ASSUME NEW x \in rec
      PROVE  /\ x[1][1] <= x[1][2] /\ x[1][2] <= end
             /\ x[2].name = n
             /\ \A i \in Rows(x[2]) : i <= end
             /\ x[1][1] = x[1][2] => x[2] = NoRows(n)
    <2>1. x \in Ranges \X Exports
        BY <1>4
    <2>2. x[1][2] \in Nat /\ Rows(x[2]) \subseteq Ids
        BY <2>1, LogConstants DEF Ranges, Exports, Rows
    <2>3. \A i \in Rows(x[2]) : i \in Nat /\ i <= mark
        BY <1>4, <2>2, LogConstants DEF Ids
    <2>4. x[1][2] <= mark
        BY <1>4
    <2>5. QED
        BY <1>1, <1>2, <1>4, <2>2, <2>3, <2>4
<1>7. /\ new[1][1] <= new[1][2] /\ new[1][2] <= end
      /\ new[2].name = n
      /\ \A i \in Rows(new[2]) : i <= end
    BY <1>1, <1>2, <1>3
<1>8. ASSUME new[1][1] = new[1][2]
      PROVE  new[2] = NoRows(n)
    <2>1. \A i \in com : ~ (mark < i /\ i <= mark)
        OBVIOUS
    <2>2. Rows(r.export) = {}
        BY <1>1, <1>3, <1>8, <2>1
    <2>3. r.export.accepted = {} /\ r.export.rejected = {}
        BY <2>2 DEF Rows
    <2>4. QED
        BY <1>1, <1>3, <2>3 DEF NoRows, Exports
<1>9. ASSUME NEW i \in com, i <= end
      PROVE  \E e \in all : {x \in all : i \in Rows(x[2])} = {e}
    <2>1. CASE i <= mark
        <3>1. i \notin Rows(new[2])
            BY <1>1, <1>3, <2>1
        <3>2. PICK e \in rec : {x \in rec : i \in Rows(x[2])} = {e}
            BY <2>1 DEF RecordedInv
        <3>3. {x \in all : i \in Rows(x[2])} = {e}
            BY <3>1, <3>2
        <3>4. QED
            BY <3>3
    <2>2. CASE ~ (i <= mark)
        <3>1. i \in Rows(new[2])
            BY <1>1, <1>3, <1>9, <2>2
        <3>2. \A x \in rec : i \notin Rows(x[2])
            BY <1>4, <2>2
        <3>3. {x \in all : i \in Rows(x[2])} = {new}
            BY <3>1, <3>2
        <3>4. QED
            BY <3>3
    <2>3. QED
        BY <2>1, <2>2
<1> HIDE DEF new
<1>10. QED
    BY <1>5, <1>6, <1>7, <1>8, <1>9 DEF RecordedInv, new

LEMMA CompleteKeepsLog == ASSUME LogInv, NEW p \in Exporters, Complete(p) PROVE LogInv'
<1> DEFINE r == run[p]
           n == r.name
<1>1. LogTypes /\ r \in Run /\ HolderInv(r, watermark, committed) /\ r.phase = "published"
    BY TheRun DEF LogInv, Complete, Done
<1>2. r.phase \in HeldExport /\ n \in Names /\ Quiet
    BY <1>1 DEF HeldExport, HolderInv, LogInv, NoneBehind
<1>3. UNCHANGED <<lastId, inserted, committed, described>>
    BY DEF Complete, logVars
<1>4. r.range[2] \in committed \cup {0} /\ watermark[n] <= r.range[2]
    BY <1>1, <1>2 DEF HolderInv
<1>5. /\ watermark' \in [Names -> committed \cup {0}]
      /\ \A m \in Names : watermark'[m] = IF m = n THEN r.range[2] ELSE watermark[m]
    BY <1>1, <1>4 DEF Complete, LogTypes
<1>6. run' \in [Exporters -> Run] /\ \A q \in Exporters : run'[q] = IF q = p THEN Idle ELSE run[q]
    BY <1>1, IdleIsRun DEF Complete, Proceeds, LogTypes
<1>7. LogTypes' /\ \A m \in Names : recorded'[m] = recorded[m] \cup (IF m = n THEN {<<r.range, r.export>>} ELSE {})
    <2>1. r.range \in Ranges /\ r.export \in Exports
        BY <1>1, <1>2 DEF Run, HolderInv
    <2>2. recorded' = [recorded EXCEPT ![n] = @ \cup {<<r.range, r.export>>}]
        BY DEF Complete
    <2>3. recorded \in [Names -> SUBSET (Ranges \X Exports)]
        BY <1>1 DEF LogTypes
    <2> DEFINE all == SUBSET (Ranges \X Exports)
               new == recorded[n] \cup {<<r.range, r.export>>}
    <2>4. new \in all
        BY <1>2, <2>1, <2>3
    <2>5. recorded \in [Names -> all] /\ recorded' = [recorded EXCEPT ![n] = new]
        BY <2>2, <2>3
    <2> HIDE DEF new, all
    <2>6. recorded' \in [Names -> all] /\ \A m \in Names : recorded'[m] = IF m = n THEN new ELSE recorded[m]
        BY <2>4, <2>5
    <2>7. QED
        BY <1>1, <1>3, <1>5, <1>6, <2>6 DEF LogTypes, new, all
<1>8. NoneBehind'
    <2>1. Quiet'
        BY <1>2, <1>3 DEF Quiet
    <2>2. \A w \in Writers : inserted'[w] = {}
        BY <2>1 DEF Quiet
    <2>3. QED
        BY <2>1, <2>2 DEF NoneBehind
<1>9. OneOfAName'
    BY <1>6, IdleIsRun DEF LogInv, OneOfAName
<1>10. ASSUME NEW m \in Names
       PROVE  RecordedInv(m, recorded'[m], watermark'[m], committed')
    <2>1. RecordedInv(m, recorded[m], watermark[m], committed)
        BY DEF LogInv
    <2>2. CASE m # n
        <3>1. recorded'[m] = recorded[m]
            BY <1>7, <2>2
        <3>2. QED
            BY <1>3, <1>5, <2>1, <2>2, <3>1
    <2>3. CASE m = n
        <3>1. recorded'[n] = recorded[n] \cup {<<r.range, r.export>>}
            BY <1>2, <1>7
        <3>2. watermark[n] \in Nat /\ \A i \in committed : i \in Nat /\ i > 0
            BY <1>1, <1>2, Numbers
        <3>3. RecordedInv(n, recorded[n] \cup {<<r.range, r.export>>}, r.range[2], committed)
            BY <1>1, <1>2, <2>1, <2>3, <3>2, RecordedGrows
        <3>4. QED
            BY <1>3, <1>5, <2>3, <3>1, <3>3
    <2>4. QED
        BY <2>2, <2>3
<1>11. ASSUME NEW q \in Exporters
       PROVE  HolderInv(run'[q], watermark', committed')
    <2>1. CASE q = p \/ run[q].phase \notin HeldExport
        BY <1>6, <2>1, IdleIsRun DEF HolderInv, HeldExport
    <2>2. CASE q # p /\ run[q].phase \in HeldExport
        <3>1. HolderInv(run[q], watermark, committed) /\ run'[q] = run[q]
            BY <1>6, <2>2, TheRun
        <3>2. run[q].name \in Names /\ run[q].name # n
            BY <1>2, <2>2, <3>1 DEF LogInv, OneOfAName, HolderInv, HeldExport
        <3>3. watermark'[run[q].name] = watermark[run[q].name]
            BY <1>5, <3>2
        <3>4. QED
            BY <1>3, <3>1, <3>3 DEF HolderInv
    <2>3. QED
        BY <2>1, <2>2
<1>12. \A q \in Exporters : run'[q].phase = "waiting" => run'[q].name \in Names
    BY <1>6, IdleIsRun DEF LogInv
<1>13. QED
    BY <1>7, <1>8, <1>9, <1>10, <1>11, <1>12 DEF LogInv

-----------------------------------------------------------------------------
(* The directories                                                         *)

LEMMA HoldingIs == ASSUME LogInv, NEW p \in Exporters PROVE Holding(p) <=> run[p].phase \in HeldExport
BY TheRun DEF Holding, HeldExport, Run

\* A step of one run that changes no directory but that of its range, and nothing that is
\* recorded
LEMMA TurnKeepsDirectory ==
    ASSUME LogInv, DirectoryInv, UNCHANGED <<recorded, contested>>,
           NEW p \in Exporters, NEW next \in Run, Proceeds(p, next),
           next.phase \in HeldExport => Holding(p) /\ next.range = run[p].range,
           directory' \in [Ranges -> Exports \cup {NoExport}],
           directory' # directory =>
              /\ run[p].phase \in {"writing", "setAside", "clear"}
              /\ \A s \in Ranges : s # run[p].range => directory'[s] = directory[s],
           next.phase \in HeldExport /\ next.range \notin contested => AloneRow(next, recorded, directory')
    PROVE  DirectoryInv'
<1>1. run \in [Exporters -> Run] /\ recorded \in [Names -> SUBSET (Ranges \X Exports)]
    BY DEF LogInv, LogTypes
<1>2. run' \in [Exporters -> Run] /\ \A q \in Exporters : run'[q] = IF q = p THEN next ELSE run[q]
    BY <1>1 DEF Proceeds
<1>3. Holding(p)' <=> next.phase \in HeldExport
    BY <1>2 DEF Holding, HeldExport, Run
<1>4. \A q \in Exporters : q # p => (Holding(q)' <=> Holding(q))
    BY <1>2 DEF Holding
<1>5. directory' # directory => Holding(p) /\ run[p].range \in Ranges
    BY <1>1 DEF Holding, Run
<1>6. ASSUME NEW n \in Names, NEW r \in recorded[n], r[1] \notin contested
      PROVE  directory'[r[1]] = r[2]
    <2>1. r[1] \in Ranges /\ directory[r[1]] = r[2]
        BY <1>1, <1>6 DEF DirectoryInv, RecordedStands
    <2>2. CASE directory' = directory
        BY <2>1, <2>2
    <2>3. CASE directory' # directory /\ run[p].range = r[1]
        BY <1>5, <1>6, <2>3 DEF DirectoryInv, AloneInv, AloneRow
    <2>4. CASE directory' # directory /\ run[p].range # r[1]
        BY <2>1, <2>4
    <2>5. QED
        BY <2>2, <2>3, <2>4
<1>7. RecordedStands'
    BY <1>6 DEF RecordedStands
<1>8. ASSUME NEW q \in Exporters, Holding(q)', run'[q].range \notin contested
      PROVE  /\ \A o \in Exporters : o # q /\ Holding(o)' => run'[o].range # run'[q].range
             /\ AloneRow(run'[q], recorded, directory')
    <2>1. CASE q = p
        <3>1. Holding(p) /\ next.range = run[p].range /\ run'[p] = next /\ next.phase \in HeldExport
            BY <1>2, <1>3, <1>8, <2>1
        <3>2. \A o \in Exporters : o # p /\ Holding(o) => run[o].range # run[p].range
            BY <1>8, <2>1, <3>1 DEF DirectoryInv, AloneInv
        <3>3. QED
            BY <1>2, <1>4, <1>8, <2>1, <3>1, <3>2
    <2>2. CASE q # p
        <3>1. Holding(q) /\ run'[q] = run[q] /\ run[q].range \in Ranges
            BY <1>1, <1>2, <1>4, <1>8, <2>2 DEF Run
        <3>2. /\ \A o \in Exporters : o # q /\ Holding(o) => run[o].range # run[q].range
              /\ AloneRow(run[q], recorded, directory)
            BY <1>8, <3>1 DEF DirectoryInv, AloneInv
        <3>3. directory'[run[q].range] = directory[run[q].range]
            BY <1>5, <2>2, <3>1, <3>2
        <3>4. AloneRow(run[q], recorded, directory')
            BY <3>2, <3>3 DEF AloneRow
        <3>5. \A o \in Exporters : o # q /\ Holding(o)' => run'[o].range # run[q].range
            BY <1>2, <1>3, <1>4, <2>2, <3>2
        <3>6. QED
            BY <3>1, <3>4, <3>5
    <2>3. QED
        BY <2>1, <2>2
<1>9. \A q \in Exporters : AloneInv(q)'
    BY <1>8 DEF AloneInv
<1>10. QED
    BY <1>7, <1>9 DEF DirectoryInv

\* What an exporter finds at its range
LEMMA ThereIs ==
    ASSUME LogInv, DirectoryInv, NEW p \in Exporters
    PROVE  There(p) \in Exports \cup {NoExport} /\ run[p].range \in Ranges
BY TheRun DEF There, DirectoryInv, Run

LEMMA EndKeepsDirectory ==
    ASSUME LogInv, DirectoryInv, UNCHANGED <<recorded, contested, directory>>, NEW p \in Exporters, Proceeds(p, Idle)
    PROVE  DirectoryInv'
<1>1. Idle.phase \notin HeldExport
    BY IdleIsRun DEF HeldExport
<1>2. QED
    BY <1>1, IdleIsRun, TurnKeepsDirectory DEF DirectoryInv

LEMMA BeginKeepsDirectory ==
    ASSUME LogInv, DirectoryInv, NEW p \in Exporters, NEW n \in Names, Begin(p, n)
    PROVE  DirectoryInv'
<1> DEFINE next == [Idle EXCEPT !.phase = "waiting", !.name = n]
<1>1. next \in Run /\ next.phase \notin HeldExport
    BY IdleIsRun DEF Run, HeldExport
<1>2. QED
    BY <1>1, TurnKeepsDirectory DEF Begin, DirectoryInv

LEMMA ReuseKeepsDirectory ==
    ASSUME LogInv, DirectoryInv, NEW p \in Exporters, Reuse(p)
    PROVE  DirectoryInv'
<1> DEFINE next == [run[p] EXCEPT !.phase = "published"]
<1>1. next \in Run /\ next.phase = "published" /\ next.range = run[p].range /\ next.export = run[p].export
    BY TheRun DEF Run
<1>2. AloneRow(next, recorded, directory')
    BY <1>1 DEF Reuse, AloneRow, There
<1>3. Holding(p)
    BY DEF Reuse, Holding
<1> HIDE DEF next
<1>4. QED
    BY <1>1, <1>2, <1>3, TurnKeepsDirectory DEF Reuse, DirectoryInv, next

\* An exporter that writes has found no recorded export of its range: another name's makes
\* it stop, and its own name's would be of an empty range and just what it expects.
LEMMA WritesNoRecorded ==
    ASSUME LogInv, DirectoryInv, NEW p \in Exporters, WriteDirectory(p), run[p].range \notin contested,
           NEW n \in Names, NEW x \in recorded[n]
    PROVE  x[1] # run[p].range
<1> DEFINE r == run[p]
<1> SUFFICES ASSUME x[1] = r.range PROVE FALSE
    OBVIOUS
<1>1. LogTypes /\ r \in Run /\ HolderInv(r, watermark, committed) /\ r.phase \in HeldExport
    BY TheRun DEF WriteDirectory, HeldExport, LogInv
<1>2. RecordedInv(n, recorded[n], watermark[n], committed) /\ x \in Ranges \X Exports
    BY <1>1 DEF LogInv, LogTypes
<1>3. There(p) = x[2] /\ x[2] # NoExport /\ x[2].name = n
    BY <1>2, ExportConstants DEF DirectoryInv, RecordedStands, There, RecordedInv
<1>4. r.name = n
    BY <1>3 DEF WriteDirectory, OfAnother
<1>5. /\ r.range[1] <= r.range[2] /\ r.range[2] <= watermark[n]
      /\ r.range[1] = r.range[2] => x[2] = NoRows(n)
    BY <1>2 DEF RecordedInv
<1>6. /\ r.range[1] = watermark[n] /\ r.export \in Exports /\ r.export.name = n
      /\ Rows(r.export) = {i \in committed : r.range[1] < i /\ i <= r.range[2]}
    BY <1>1, <1>4 DEF HolderInv
<1>7. r.range[1] \in Nat /\ r.range[2] \in Nat
    BY <1>1, LogConstants DEF Run, Ranges
<1>8. r.range[1] = r.range[2]
    BY <1>5, <1>6, <1>7
<1>9. Rows(r.export) = {}
    <2>1. \A i \in committed : i \in Nat
        BY <1>1, Numbers
    <2>2. QED
        BY <1>6, <1>7, <1>8, <2>1
<1>10. r.export = NoRows(n)
    BY <1>6, <1>9 DEF Rows, NoRows, Exports
<1>11. QED
    BY <1>3, <1>5, <1>8, <1>10 DEF WriteDirectory

LEMMA WriteDirectoryKeepsDirectory ==
    ASSUME LogInv, DirectoryInv, NEW p \in Exporters, WriteDirectory(p)
    PROVE  DirectoryInv'
<1> DEFINE next == [run[p] EXCEPT !.phase = "writing"]
<1>1. next \in Run /\ next.phase = "writing" /\ next.range = run[p].range
    BY TheRun DEF Run
<1>2. next.range \notin contested => AloneRow(next, recorded, directory')
    BY <1>1, WritesNoRecorded DEF AloneRow
<1>3. Holding(p) /\ Proceeds(p, next)
    BY DEF WriteDirectory, Holding
<1> HIDE DEF next
<1>4. QED
    BY <1>1, <1>2, <1>3, TurnKeepsDirectory DEF WriteDirectory, DirectoryInv

\* Until it has published, a run that has its range for itself may rely on that.
LEMMA StillAlone ==
    ASSUME LogInv, DirectoryInv, NEW p \in Exporters, run[p].phase \in {"writing", "setAside", "clear"},
           run[p].range \notin contested
    PROVE  \A n \in Names : \A x \in recorded[n] : x[1] # run[p].range
<1>1. Holding(p)
    BY DEF Holding
<1>2. QED
    BY <1>1 DEF DirectoryInv, AloneInv, AloneRow

LEMMA SetAsideKeepsDirectory ==
    ASSUME LogInv, DirectoryInv, NEW p \in Exporters, SetAside(p)
    PROVE  DirectoryInv'
<1> DEFINE phase == IF There(p) = NoExport THEN "clear" ELSE "setAside"
           next == [run[p] EXCEPT !.phase = phase, !.aside = There(p)]
<1>1. phase \in {"clear", "setAside"} /\ There(p) \in Exports \cup {NoExport} /\ run[p].range \in Ranges
    BY ThereIs
<1>2. Proceeds(p, next) /\ Holding(p)
    BY DEF SetAside, Holding
<1> HIDE DEF phase
<1>3. next \in Run /\ next.phase = phase /\ next.range = run[p].range
    BY <1>1, TheRun DEF Run
<1> HIDE DEF next
<1>4. next.range \notin contested => AloneRow(next, recorded, directory')
    BY <1>1, <1>3, StillAlone DEF AloneRow, SetAside
<1>5. /\ directory' \in [Ranges -> Exports \cup {NoExport}]
      /\ \A s \in Ranges : s # run[p].range => directory'[s] = directory[s]
    BY <1>1 DEF SetAside, DirectoryInv
<1>6. QED
    BY <1>2, <1>3, <1>4, <1>5, TurnKeepsDirectory DEF SetAside

LEMMA PublishKeepsDirectory ==
    ASSUME LogInv, DirectoryInv, NEW p \in Exporters, Publish(p)
    PROVE  DirectoryInv'
<1> DEFINE r == run[p]
           next == [r EXCEPT !.phase = "published", !.aside = NoExport]
<1>1. r \in Run /\ r.phase \in {"setAside", "clear"} /\ r.range \in Ranges
    BY TheRun DEF Publish, Publishing, Run
<1>2. next \in Run /\ next.phase = "published" /\ next.range = r.range /\ next.export = r.export
    BY <1>1 DEF Run
<1>3. Holding(p) /\ r.phase \in HeldExport
    BY <1>1 DEF Holding, HeldExport
<1>4. r.export \in Exports
    BY <1>3, TheRun DEF HolderInv
<1>5. /\ directory' \in [Ranges -> Exports \cup {NoExport}] /\ directory'[r.range] = r.export
      /\ \A s \in Ranges : s # r.range => directory'[s] = directory[s]
    BY <1>1, <1>4 DEF Publish, DirectoryInv
<1>6. AloneRow(next, recorded, directory')
    BY <1>2, <1>5 DEF AloneRow
<1>7. Proceeds(p, next)
    BY DEF Publish
<1> HIDE DEF next
<1>8. QED
    BY <1>1, <1>2, <1>3, <1>5, <1>6, <1>7, TurnKeepsDirectory DEF Publish

LEMMA PublishFailsKeepsDirectory ==
    ASSUME LogInv, DirectoryInv, NEW p \in Exporters, PublishFails(p)
    PROVE  DirectoryInv'
<1> DEFINE r == run[p]
<1>1. r.phase \in {"setAside", "clear"} /\ r.range \in Ranges /\ r.aside \in Exports \cup {NoExport}
    BY TheRun DEF PublishFails, Publishing, Run
<1>2. /\ directory' \in [Ranges -> Exports \cup {NoExport}]
      /\ \A s \in Ranges : s # r.range => directory'[s] = directory[s]
    BY <1>1 DEF PublishFails, DirectoryInv
<1>3. Idle.phase \notin HeldExport
    BY IdleIsRun DEF HeldExport
<1>4. QED
    BY <1>1, <1>2, <1>3, IdleIsRun, TurnKeepsDirectory DEF PublishFails

\* A range that another run holds is contested from now on.
LEMMA ClaimKeepsDirectory ==
    ASSUME LogInv, LogInv', DirectoryInv, NEW p \in Exporters, Claim(p)
    PROVE  DirectoryInv'
<1> DEFINE range == <<watermark[run[p].name], Newest>>
           others == {q \in Exporters : Holding(q) /\ run[q].range = range}
<1>1. run \in [Exporters -> Run] /\ run' \in [Exporters -> Run] /\ run[p].phase = "waiting"
    BY DEF Claim, LogInv, LogTypes
<1>2. UNCHANGED <<recorded, directory>> /\ contested' = contested \cup {range : q \in others}
    BY DEF Claim
<1>3. /\ run'[p].phase = "claimed" /\ run'[p].range = range
      /\ \A q \in Exporters : q # p => run'[q] = run[q]
    <2>1. run[p] \in Run
        BY <1>1
    <2> DEFINE next == [run[p] EXCEPT !.phase = "claimed", !.range = range, !.export = Expected(run[p].name, range)]
    <2>2. next.phase = "claimed" /\ next.range = range
        BY <2>1 DEF Run
    <2>3. run' = [run EXCEPT ![p] = next]
        BY DEF Claim, Proceeds
    <2> HIDE DEF next
    <2>4. QED
        BY <1>1, <2>2, <2>3
<1>4. contested \subseteq contested' /\ ~ Holding(p) /\ \A q \in Exporters : q # p => (Holding(q)' <=> Holding(q))
    BY <1>1, <1>2, <1>3 DEF Holding
<1>5. RecordedStands'
    BY <1>2, <1>4 DEF DirectoryInv, RecordedStands
<1> HIDE DEF range
<1>6. ASSUME NEW q \in Exporters, Holding(q)', run'[q].range \notin contested'
      PROVE  /\ \A o \in Exporters : o # q /\ Holding(o)' => run'[o].range # run'[q].range
             /\ AloneRow(run'[q], recorded', directory')
    <2>1. CASE q = p
        <3>1. others = {}
            BY <1>2, <1>3, <1>6, <2>1
        <3>2. QED
            BY <1>3, <1>4, <2>1, <3>1 DEF AloneRow
    <2>2. CASE q # p
        <3>1. /\ \A o \in Exporters : o # q /\ Holding(o) => run[o].range # run[q].range
              /\ AloneRow(run[q], recorded, directory)
            BY <1>3, <1>4, <1>6, <2>2 DEF DirectoryInv, AloneInv
        <3>2. range # run[q].range
            BY <1>2, <1>3, <1>4, <1>6, <2>2
        <3>3. QED
            BY <1>2, <1>3, <1>4, <2>2, <3>1, <3>2
    <2>3. QED
        BY <2>1, <2>2
<1>7. QED
    BY <1>2, <1>5, <1>6 DEF DirectoryInv, AloneInv

LEMMA CompleteKeepsDirectory ==
    ASSUME LogInv, LogInv', DirectoryInv, NEW p \in Exporters, Complete(p)
    PROVE  DirectoryInv'
<1> DEFINE r == run[p]
<1>1. run \in [Exporters -> Run] /\ recorded \in [Names -> SUBSET (Ranges \X Exports)]
    BY DEF LogInv, LogTypes
<1>2. Holding(p) /\ r.phase = "published"
    BY DEF Complete, Done, Holding
<1>3. UNCHANGED <<directory, contested>>
    BY DEF Complete
<1>4. \A q \in Exporters : run'[q] = IF q = p THEN Idle ELSE run[q]
    BY <1>1 DEF Complete, Proceeds
<1>5. \A n \in Names : \A x \in recorded'[n] : x \in recorded[n] \/ x = <<r.range, r.export>>
    BY <1>1 DEF Complete
<1>6. r.range \notin contested => directory[r.range] = r.export
    BY <1>2 DEF DirectoryInv, AloneInv, AloneRow
<1>7. RecordedStands'
    BY <1>3, <1>5, <1>6 DEF DirectoryInv, RecordedStands
<1>8. ~ Holding(p)' /\ \A q \in Exporters : q # p => (Holding(q)' <=> Holding(q))
    BY <1>4, IdleIsRun DEF Holding
<1>9. ASSUME NEW q \in Exporters, Holding(q)', run'[q].range \notin contested'
      PROVE  /\ \A o \in Exporters : o # q /\ Holding(o)' => run'[o].range # run'[q].range
             /\ AloneRow(run'[q], recorded', directory')
    <2>1. q # p /\ Holding(q) /\ run'[q] = run[q]
        BY <1>4, <1>8, <1>9
    <2>2. /\ \A o \in Exporters : o # q /\ Holding(o) => run[o].range # run[q].range
          /\ AloneRow(run[q], recorded, directory)
        BY <1>3, <1>9, <2>1 DEF DirectoryInv, AloneInv
    <2>3. AloneRow(run[q], recorded', directory)
        BY <1>2, <1>5, <2>1, <2>2 DEF AloneRow
    <2>4. QED
        BY <1>3, <1>4, <1>8, <2>1, <2>2, <2>3
<1>10. QED
    BY <1>3, <1>7, <1>9 DEF DirectoryInv, AloneInv

-----------------------------------------------------------------------------
(* The theorems                                                            *)

LEMMA LogInvInit == ExportInit => LogInv
<1> SUFFICES ASSUME ExportInit PROVE LogInv
    OBVIOUS
<1>1. LogTypes
    <2>1. lastId \in 0 .. MaxId /\ inserted \in [Writers -> SUBSET (1 .. lastId)] /\ committed = {}
        BY LogConstants DEF ExportInit, LogInit
    <2>2. watermark \in [Names -> {0}] /\ described \in BOOLEAN
        BY DEF ExportInit
    <2>3. recorded \in [Names -> SUBSET (Ranges \X Exports)] /\ run \in [Exporters -> Run]
        BY IdleIsRun DEF ExportInit
    <2>4. QED
        BY <2>1, <2>2, <2>3 DEF LogTypes
<1>2. \A n \in Names : RecordedInv(n, recorded[n], watermark[n], committed)
    BY DEF ExportInit, LogInit, RecordedInv
<1>3. \A p \in Exporters : run[p].phase = "idle"
    BY IdleIsRun DEF ExportInit
<1>4. NoneBehind /\ OneOfAName /\ \A p \in Exporters : HolderInv(run[p], watermark, committed)
    BY <1>3 DEF ExportInit, LogInit, NoneBehind, OneOfAName, HolderInv, HeldExport
<1>5. QED
    BY <1>1, <1>2, <1>3, <1>4 DEF LogInv

LEMMA DirectoryInvInit == ExportInit => DirectoryInv
BY IdleIsRun DEF ExportInit, DirectoryInv, RecordedStands, AloneInv, Holding

LEMMA InvNext == LogInv /\ DirectoryInv /\ [ExportNext]_exportVars => LogInv' /\ DirectoryInv'
<1> SUFFICES ASSUME LogInv, DirectoryInv, [ExportNext]_exportVars PROVE LogInv' /\ DirectoryInv'
    OBVIOUS
<1>1. CASE UNCHANGED exportVars
    BY <1>1 DEF exportVars, logVars, LogInv, LogTypes, NoneBehind, Quiet, OneOfAName, DirectoryInv, RecordedStands,
                AloneInv, Holding
<1>2. ASSUME UNCHANGED <<directory, run, recorded, contested>>
      PROVE  DirectoryInv'
    BY <1>2 DEF DirectoryInv, RecordedStands, AloneInv, Holding
<1>3. ASSUME NEW w \in Writers, Write(w) PROVE LogInv' /\ DirectoryInv'
    BY <1>2, <1>3, WriteKeepsLog DEF Write
<1>4. CASE Describe
    BY <1>2, <1>4, DescribeKeepsLog DEF Describe
<1>5. ASSUME NEW p \in Exporters, Export(p)
      PROVE  LogInv' /\ DirectoryInv'
    <2>1. ASSUME NEW n \in Names, Begin(p, n) PROVE LogInv' /\ DirectoryInv'
        BY <2>1, BeginKeepsLog, BeginKeepsDirectory
    <2>2. CASE Claim(p)
        BY <2>2, ClaimKeepsLog, ClaimKeepsDirectory
    <2>3. CASE Reuse(p)
        BY <2>3, ReuseKeepsLog, ReuseKeepsDirectory
    <2>4. CASE WriteDirectory(p)
        BY <2>4, WriteDirectoryKeepsLog, WriteDirectoryKeepsDirectory
    <2>5. CASE SetAside(p)
        BY <2>5, ThereIs, SetAsideKeepsLog, SetAsideKeepsDirectory
    <2>6. CASE Publish(p)
        BY <2>6, PublishKeepsLog, PublishKeepsDirectory
    <2>7. CASE PublishFails(p)
        BY <2>7, EndKeepsLog, PublishFailsKeepsDirectory DEF PublishFails
    <2>8. CASE Complete(p)
        BY <2>8, CompleteKeepsLog, CompleteKeepsDirectory
    <2>9. CASE Collide(p) \/ ExporterDies(p)
        BY <2>9, EndKeepsLog, EndKeepsDirectory DEF Collide, ExporterDies
    <2>10. QED
        BY <1>5, <2>1, <2>2, <2>3, <2>4, <2>5, <2>6, <2>7, <2>8, <2>9 DEF Export
<1>6. QED
    BY <1>1, <1>3, <1>4, <1>5 DEF ExportNext

LEMMA InvAlways == ExportSpec => [](LogInv /\ DirectoryInv)
BY LogInvInit, DirectoryInvInit, InvNext, PTL DEF ExportSpec

\* Every event at or below a watermark is in exactly one of the exports that the watermark
\* has recorded, and every other in none, for any number of requests, ids, watermarks and
\* exporters: the lock holds back the inserts, so no id can appear behind a watermark.
THEOREM ExportsMissNothing == ExportSpec => []NothingMissed
<1>1. LogInv => NothingMissed
    <2> SUFFICES ASSUME LogInv, NEW n \in Names, NEW i \in committed
                 PROVE  Cardinality({r \in recorded[n] : i \in Rows(r[2])}) = IF i <= watermark[n] THEN 1 ELSE 0
        BY DEF NothingMissed
    <2> DEFINE with == {r \in recorded[n] : i \in Rows(r[2])}
    <2>1. RecordedInv(n, recorded[n], watermark[n], committed)
        BY DEF LogInv
    <2>2. CASE i <= watermark[n]
        <3>1. PICK e : with = {e}
            BY <2>1, <2>2 DEF RecordedInv
        <3>2. QED
            BY <2>2, <3>1, FS_Singleton
    <2>3. CASE ~ (i <= watermark[n])
        <3>1. with = {}
            BY <2>1, <2>3 DEF RecordedInv
        <3>2. QED
            BY <2>3, <3>1, FS_EmptySet
    <2>4. QED
        BY <2>2, <2>3
<1>2. QED
    BY <1>1, InvAlways, PTL

\* A recorded export stays on the disk as it was recorded, whatever exports of its name or
\* another do and wherever they die, unless two names had claimed its range at once.
THEOREM RecordedExportsStand == ExportSpec => []RecordedStands
<1>1. DirectoryInv => RecordedStands
    BY DEF DirectoryInv
<1>2. QED
    BY <1>1, InvAlways, PTL
=============================================================================
