-------------------------- MODULE Operations_proofs --------------------------
(***************************************************************************)
(* Proofs about the operations on items: the page that submits them        *)
(* (OperationSubmission) and the batches that carry them out               *)
(* (OperationBatches), for any items, batches and transactions and any     *)
(* bounds.  The rows of a transaction are dealt with first, as values      *)
(* (TxGood), then the tables.                                              *)
(***************************************************************************)
EXTENDS OperationSubmission, OperationBatches, FiniteSetTheorems, WellFoundedInduction, TLAPS

-----------------------------------------------------------------------------
(* The page *)

\* What the page knows of the current decision: once it was sent, the tracker keeps its form
\* and its id, and later decisions have not been sent.
Outstanding(c) == IF c.press = 0 THEN 0 ELSE 1

SentInv ==
    /\ \A d \in DOMAIN decided : d > decision => decided[d] = {}
    /\ decided[decision] # {} => SameForm /\ decided[decision] = {pending.id} /\ form.draft # 0
    /\ \A d \in DOMAIN decided : \A i, j \in decided[d] : i = j

\* There is a place for each decision: an answer ends one press, an edit one form.
CountInv ==
    /\ decision \in Nat /\ presses \in 0 .. MaxPresses /\ edits \in 0 .. MaxEdits
    /\ DOMAIN decided = 0 .. MaxPresses + MaxEdits + 1
    /\ \A d \in DOMAIN decided : decided[d] \subseteq Nat
    /\ call \in [press : Nat, answer : {"none", "taken", "refused"}] /\ (call.answer # "none" => call.press # 0)
    /\ \A r \in wire : r.press \in Nat \ {0}
    /\ pending.id \in Nat \cup {NoId}
    /\ decision + Outstanding(call) <= presses + edits

SubmissionInv == CountInv /\ SentInv

LEMMA InitSubmission == SubmissionInit => SubmissionInv
  <1> SUFFICES ASSUME SubmissionInit PROVE SubmissionInv
    OBVIOUS
  <1>1. MaxPresses \in Nat /\ MaxEdits \in Nat /\ NoId \notin Nat
    BY SubmissionConstants
  <1>2. CountInv
    BY <1>1 DEF SubmissionInit, CountInv, Outstanding, NoCall, NoPending
  <1>3. SentInv
    BY <1>1 DEF SubmissionInit, SentInv
  <1> QED
    BY <1>2, <1>3 DEF SubmissionInv

LEMMA NextSubmission == SubmissionInv /\ [SubmissionNext]_submissionVars => SubmissionInv'
  <1> SUFFICES ASSUME SubmissionInv, [SubmissionNext]_submissionVars PROVE SubmissionInv'
    OBVIOUS
  <1> USE DEF SubmissionInv
  <1>0. MaxPresses \in Nat /\ MaxEdits \in Nat /\ NoId \notin Nat
    BY SubmissionConstants
  <1>1. /\ decision \in DOMAIN decided
        /\ ~ (decision + 1 \in Nat /\ decision + 1 <= decision)
    BY <1>0 DEF CountInv, Outstanding
  \* A decision that ends leaves its place to one that was never sent.
  <1>2. ASSUME Decides, decided' = decided,
               decision + 1 + Outstanding(call') <= presses' + edits',
               presses' \in 0 .. MaxPresses /\ edits' \in 0 .. MaxEdits
        PROVE  decided'[decision'] = {}
    BY <1>0, <1>2 DEF CountInv, SentInv, Decides, Outstanding
  <1>3. CASE Edits
    <2>1. CountInv'
      BY <1>0, <1>3 DEF Edits, Decides, CountInv, Outstanding
    <2>2. decided'[decision'] = {}
      BY <1>0, <1>2, <1>3 DEF Edits, CountInv, Decides, Outstanding
    <2>3. /\ decided' = decided
          /\ \A d \in DOMAIN decided : d > decision' => d > decision
      BY <1>3 DEF Edits, Decides, CountInv
    <2>4. SentInv'
      BY <2>2, <2>3 DEF SentInv
    <2> QED
      BY <2>1, <2>4
  <1>4. CASE Press
    <2>1. Prepared \in Nat /\ presses + 1 \in 1 .. MaxPresses
      BY <1>0, <1>4 DEF Press, Prepared, SameForm, CountInv
    <2>2. CountInv'
      BY <1>0, <1>4, <2>1 DEF Press, CountInv, Outstanding, Waiting
    <2>3. decided[decision] \cup {Prepared} = {Prepared}
      BY DEF SentInv, Prepared
    <2>4. /\ DOMAIN decided' = DOMAIN decided
          /\ \A d \in DOMAIN decided : decided'[d] = IF d = decision THEN {Prepared} ELSE decided[d]
      BY <1>1, <1>4, <2>3 DEF Press
    <2>5. SameForm' /\ decided'[decision'] = {pending'.id} /\ form'.draft # 0
      BY <1>0, <1>1, <1>4, <2>1, <2>4 DEF Press, SameForm
    <2>6. \A d \in DOMAIN decided : d > decision => d # decision
      BY DEF CountInv
    <2>7. SentInv'
      BY <1>4, <2>4, <2>5, <2>6 DEF Press, SentInv
    <2> QED
      BY <2>2, <2>7
  <1>5. CASE PressInvalid
    <2>1. decided[decision] = {}
      BY <1>5 DEF PressInvalid, SentInv
    <2> QED
      BY <1>5, <2>1 DEF PressInvalid, CountInv, SentInv, Outstanding, NoPending
  <1>6. CASE Answered
    <2>1. CountInv'
      BY <1>0, <1>6 DEF Answered, Decides, CountInv, Outstanding, NoCall, NoPending
    <2>2. decided'[decision'] = {}
      BY <1>0, <1>2, <1>6, <2>1 DEF Answered, CountInv, Decides, Outstanding, NoCall
    <2>3. /\ decided' = decided
          /\ \A d \in DOMAIN decided : d > decision' => d > decision
      BY <1>6 DEF Answered, Decides, CountInv
    <2>4. SentInv'
      BY <2>2, <2>3 DEF SentInv
    <2> QED
      BY <2>1, <2>4
  <1>7. CASE NetworkError
    <2>1. CountInv'
      BY <1>0, <1>7 DEF NetworkError, AfterNetworkError, CountInv, Outstanding, NoCall
    <2>2. SentInv'
      BY <1>7 DEF NetworkError, AfterNetworkError, SentInv, SameForm
    <2> QED
      BY <2>1, <2>2
  <1>8. ASSUME NEW r \in wire, Receives(r)
        PROVE  SubmissionInv'
    <2>1. /\ call' = call \/ (call.press = r.press /\ \E x \in {"taken", "refused"} : call' = [call EXCEPT !.answer = x])
          /\ wire' \subseteq wire
          /\ UNCHANGED <<form, pending, presses, edits, decision, decided>>
      BY <1>8 DEF Receives, TakesBatch, RepeatsBatch, TakesJob, RepeatsJob, Refuses, Answers
    <2>2. call' \in [press : Nat, answer : {"none", "taken", "refused"}] /\ call'.press = call.press
      BY <1>8, <2>1 DEF CountInv
    <2>3. call'.answer # "none" => call'.press # 0
      BY <1>8, <2>1, <2>2 DEF CountInv
    <2>4. CountInv'
      BY <2>1, <2>2, <2>3 DEF CountInv, Outstanding
    <2>5. SentInv'
      BY <2>1 DEF SentInv, SameForm
    <2> QED
      BY <2>4, <2>5
  <1>9. ASSUME NEW r \in wire, Lost(r)
        PROVE  SubmissionInv'
    BY <1>9 DEF Lost, CountInv, SentInv, SameForm, Outstanding
  <1>10. CASE Lists \/ ItemChanges \/ UNCHANGED submissionVars
    BY <1>10 DEF Lists, ItemChanges, submissionVars, CountInv, SentInv, SameForm, Outstanding
  <1> QED
    BY <1>3, <1>4, <1>5, <1>6, <1>7, <1>8, <1>9, <1>10 DEF SubmissionNext

LEMMA SubmissionInvariance == SubmissionSpec => []SubmissionInv
  <1> QED
    BY InitSubmission, NextSubmission, PTL DEF SubmissionSpec

\* A decision becomes one operation at most, however its requests fare.
THEOREM DecidedOnce == SubmissionSpec => []OneOperationPerDecision
  <1>1. SubmissionInv => OneOperationPerDecision
    <2> SUFFICES ASSUME SubmissionInv, NEW d \in DOMAIN decided
                 PROVE  Cardinality({id \in decided[d] : Taken(id)}) <= 1
      BY DEF OneOperationPerDecision
    <2> DEFINE taken == {id \in decided[d] : Taken(id)}
    <2>1. CASE taken = {}
      BY <2>1, FS_EmptySet
    <2>2. CASE taken # {}
      <3>1. PICK id \in decided[d] : taken = {id}
        BY <2>2 DEF SubmissionInv, SentInv
      <3> QED
        BY <3>1, FS_Singleton
    <2> QED
      BY <2>1, <2>2
  <1> QED
    BY <1>1, SubmissionInvariance, PTL

-----------------------------------------------------------------------------
(* The batches *)

Of(log, b) == {e \in log : e.batch = b}

On(log, i) == {e \in Changes(log) : e.item = i}

OneOfEach(log) == \A e, f \in log : e.batch = f.batch /\ e.item = f.item => e = f

Chain(own, low, high) ==
    /\ IsFiniteSet(own)
    /\ low \in Nat /\ high \in Nat /\ high = low + Cardinality(own)
    /\ \A e \in own : e.after \in low + 1 .. high /\ e.before + 1 = e.after
    /\ \A n \in low + 1 .. high : \E e \in own : e.after = n
    /\ \A e, f \in own : e.after = f.after => e = f

Whole(log, b, r) ==
    /\ \A e \in Of(log, b) : e.result = r
    /\ {e.item : e \in Of(log, b)} = Targets[b]

Part(log, b) ==
    /\ \A e \in Of(log, b) : e.result = "succeeded" /\ e.item \in Targets[b]
    /\ \E i \in Targets[b] : \A e \in Of(log, b) : e.item # i

Sooner(b, c, when) == when[b] < when[c] \/ (when[b] = when[c] /\ b < c)

TxGood(t, held, locked, when) ==
    /\ t \in TxRow
    /\ t.phase = "working" <=> t.todo # {}
    /\ t.phase = "idle" => held = {}
    /\ t.todo \subseteq held
    /\ IsFiniteSet(t.log)
    /\ \A e \in t.log : e.batch \in held
    /\ OneOfEach(t.log)
    /\ \A b \in held \ t.todo : Of(t.log, b) = {} \/ Whole(t.log, b, "succeeded") \/ Whole(t.log, b, "failed")
    /\ \A b \in t.todo :
          /\ Part(t.log, b)
          /\ Of(t.log, b) # {} => \A c \in t.todo \ {b} : Sooner(b, c, when)
    /\ \A e \in Changes(t.log) : e.item \in locked

\* Entries of the batches a transaction is through with
Done(t) == {e \in t.log : e.batch \notin t.todo}

Fine(own) == \A e \in own : ~ e.stale

Linked(own, low) == Fine(own) => Chain(own, low, low + Cardinality(own))

\* The changes of the batches a transaction is through with are chains from the versions of
\* the items on, where none was made on a stale object, and a change of the batch at hand
\* goes on from there.
TxChained(t, ver) ==
    /\ \A e \in Changes(t.log) : ~ e.stale => (e.online <=> Kind[e.batch] = "restore")
    /\ \A i \in Items : Linked(On(Done(t), i), ver[i])
    /\ \A e \in Changes(t.log) :
          e.batch \in t.todo /\ ~ e.stale /\ Fine(On(Done(t), e.item)) =>
              /\ e.before = ver[e.item] + Cardinality(On(Done(t), e.item))
              /\ e.after = e.before + 1

HeldBy(p) == {b \in Batches : holder[b] = p}

LockedBy(p) == {i \in Items : lock[i] = p}

Ver == [i \in Items |-> item[i].version]

When == [b \in Batches |-> batch[b].start]

TxInv ==
    /\ tx \in [Procs -> TxRow]
    /\ \A p \in Procs : TxGood(tx[p], HeldBy(p), LockedBy(p), When) /\ TxChained(tx[p], Ver)

\* The chain of an item, and what its last change says
ItemAudited(i) ==
    Fine(On(audit, i)) =>
        /\ Chain(On(audit, i), 0, item[i].version)
        /\ \A e \in On(audit, i) :
              e.after = item[i].version => (item[i].online <=> Kind[e.batch] = "restore")

Open(b) == batch[b].status \in {"absent", "scheduled"}

AuditInv ==
    /\ IsFiniteSet(audit)
    /\ OneOfEach(audit)
    /\ \A b \in Batches :
          /\ Open(b) => Of(audit, b) = {}
          /\ ~ Open(b) => Whole(audit, b, batch[b].status)
          /\ holder[b] # NoOwner => Open(b)
    /\ \A i \in Items : ItemAudited(i)

\* The types of all tables; those of tx are in TxInv.
TablesTypeOK ==
    /\ item \in [Items -> ItemRow]
    /\ batch \in [Batches -> BatchRow]
    /\ audit \subseteq Entry
    /\ rule \in [Batches -> {"none", "active", "expired"}]
    /\ lock \in [Items -> Procs \cup {NoOwner}]
    /\ holder \in [Batches -> Procs \cup {NoOwner}]
    /\ clock \in 0 .. MaxClock
    /\ faults \in 0 .. MaxFaults

BatchesInv == TablesTypeOK /\ AuditInv /\ TxInv

-----------------------------------------------------------------------------

\* The ends of a chain
LEMMA EmptyChain == ASSUME NEW n \in Nat PROVE Chain({}, n, n + Cardinality({}))
  <1>1. Cardinality({}) = 0 /\ IsFiniteSet({})
    BY FS_EmptySet
  <1> QED
    BY <1>1 DEF Chain

LEMMA ChainGrows ==
    ASSUME NEW own, NEW low, NEW high, Chain(own, low, high),
           NEW e, e.before = high, e.after = high + 1
    PROVE  Chain(own \cup {e}, low, high + 1)
  <1>1. low \in Nat /\ high \in Nat /\ low <= high
    BY FS_CardinalityType DEF Chain
  <1>2. \A f \in own : f.after <= high /\ f # e
    BY <1>1 DEF Chain
  <1>3. IsFiniteSet(own \cup {e}) /\ Cardinality(own \cup {e}) = Cardinality(own) + 1
    BY <1>2, FS_AddElement DEF Chain
  <1>4. Cardinality(own) \in Nat
    BY FS_CardinalityType DEF Chain
  <1>5. \A n \in low + 1 .. high + 1 : n = high + 1 \/ n \in low + 1 .. high
    BY <1>1
  <1>6. high + 1 = low + (Cardinality(own) + 1)
    BY <1>1, <1>4 DEF Chain
  <1>7. \A f \in own \cup {e} : f.after \in low + 1 .. high + 1 /\ f.before + 1 = f.after
    BY <1>1 DEF Chain
  <1>8. \A f, g \in own \cup {e} : f.after = g.after => f = g
    BY <1>1, <1>2 DEF Chain
  <1> QED
    BY <1>1, <1>3, <1>5, <1>6, <1>7, <1>8 DEF Chain

\* The last change of a chain has its end.
LEMMA ChainEnd ==
    ASSUME NEW own, NEW low, NEW high, Chain(own, low, high), own # {}
    PROVE  LastOf(own) \in own /\ LastOf(own).after = high
  <1>1. low \in Nat /\ high \in Nat /\ \A e \in own : e.after \in low + 1 .. high
    BY DEF Chain
  <1>2. high \in low + 1 .. high
    BY <1>1
  <1>3. PICK e \in own : e.after = high
    BY <1>2 DEF Chain
  <1>4. \A f \in own : f.after <= e.after /\ f.after \in Nat
    BY <1>1, <1>3
  <1>5. LastOf(own) \in own /\ \A f \in own : f.after <= LastOf(own).after
    BY <1>4 DEF LastOf
  <1>6. high <= LastOf(own).after /\ LastOf(own).after \in low + 1 .. high
    BY <1>1, <1>3, <1>5
  <1> QED
    BY <1>1, <1>5, <1>6

LEMMA ChainsJoin ==
    ASSUME NEW A, NEW B, NEW low, NEW mid, NEW high, Chain(A, low, mid), Chain(B, mid, high)
    PROVE  Chain(A \cup B, low, high)
  <1>1. low \in Nat /\ mid \in Nat /\ high \in Nat
    BY DEF Chain
  <1>2. /\ mid = low + Cardinality(A) /\ Cardinality(A) \in Nat
        /\ high = mid + Cardinality(B) /\ Cardinality(B) \in Nat
    BY FS_CardinalityType DEF Chain
  <1>3. /\ \A e \in A : e.after \in low + 1 .. mid /\ e.before + 1 = e.after
        /\ \A e \in B : e.after \in mid + 1 .. high /\ e.before + 1 = e.after
    BY DEF Chain
  <1>4. \A e \in A, f \in B : e.after # f.after
    BY <1>1, <1>3
  <1>5. A \cap B = {}
    BY <1>4
  <1>6. Cardinality(A \cap B) = 0
    BY <1>5, FS_EmptySet
  <1>7. IsFiniteSet(A \cup B) /\ Cardinality(A \cup B) = Cardinality(A) + Cardinality(B)
    <2>1. IsFiniteSet(A) /\ IsFiniteSet(B)
      BY DEF Chain
    <2>2. /\ IsFiniteSet(A \cup B)
          /\ Cardinality(A \cup B) = Cardinality(A) + Cardinality(B) - Cardinality(A \cap B)
      BY <2>1, FS_Union
    <2>3. Cardinality(A) + Cardinality(B) - 0 = Cardinality(A) + Cardinality(B)
      BY <1>2
    <2> QED
      BY <1>6, <2>2, <2>3
  <1>8. high = low + Cardinality(A \cup B)
    BY <1>1, <1>2, <1>7
  <1>9. \A e \in A \cup B : e.after \in low + 1 .. high /\ e.before + 1 = e.after
    BY <1>1, <1>2, <1>3
  <1>10. \A n \in low + 1 .. high : n \in low + 1 .. mid \/ n \in mid + 1 .. high
    BY <1>1
  <1>11. \A n \in low + 1 .. high : \E e \in A \cup B : e.after = n
    BY <1>10 DEF Chain
  <1>12. \A e, f \in A \cup B : e.after = f.after => e = f
    BY <1>4 DEF Chain
  <1> QED
    BY <1>1, <1>7, <1>8, <1>9, <1>11, <1>12 DEF Chain

LEMMA LeastOf ==
    ASSUME NEW S \in SUBSET Nat, S # {}
    PROVE  \E n \in S : \A m \in S : n <= m
  <1>1. PICK n \in S : \A m \in S : ~ (<<m, n>> \in OpToRel(<, Nat))
    BY NatLessThanWellFounded, WFMin
  <1>2. \A m \in S : ~ (m < n)
    BY <1>1 DEF OpToRel
  <1> QED
    BY <1>2

\* The item or the batch a transaction turns to next is one of those it has to turn to.
LEMMA FirstIn == ASSUME NEW S \in SUBSET Items, S # {} PROVE First(S) \in S
  <1>1. S \in SUBSET Nat
    BY BatchConstants
  <1>2. \E n \in S : \A m \in S : n <= m
    BY <1>1, LeastOf
  <1> QED
    BY <1>2 DEF First

LEMMA EarliestIn ==
    ASSUME NEW p \in Procs, batch \in [Batches -> BatchRow],
           tx[p].todo \in SUBSET Batches, tx[p].todo # {}
    PROVE  /\ AtHand(p) \in tx[p].todo
           /\ \A c \in tx[p].todo \ {AtHand(p)} : Sooner(AtHand(p), c, When)
  <1> DEFINE todo == tx[p].todo
             starts == {batch[b].start : b \in todo}
  <1>1. \A b \in Batches : batch[b].start \in Nat /\ When[b] = batch[b].start /\ b \in Nat
    <2>1. Batches \subseteq Nat /\ 0 .. MaxStart \subseteq Nat
      BY BatchConstants
    <2>2. \A b \in Batches : batch[b].start \in 0 .. MaxStart /\ When[b] = batch[b].start
      BY DEF BatchRow, When
    <2> QED
      BY <2>1, <2>2
  <1>2. starts \in SUBSET Nat /\ starts # {}
    BY <1>1
  <1>3. PICK s \in starts : \A n \in starts : s <= n
    <2> HIDE DEF starts
    <2> QED
      BY <1>2, LeastOf
  <1> DEFINE first == {b \in todo : batch[b].start = s}
  <1>4. first \in SUBSET Nat /\ first # {}
    BY <1>1
  <1>5. PICK b \in first : \A c \in first : b <= c
    <2> HIDE DEF first
    <2> QED
      BY <1>4, LeastOf
  <1>6. ASSUME NEW c \in todo \ {b} PROVE Earlier(b, c)
    <2>1. c \in Nat /\ b \in Nat /\ s \in Nat /\ batch[c].start \in Nat /\ s <= batch[c].start
      BY <1>1, <1>2, <1>3, <1>5
    <2>2. batch[b].start = s /\ (batch[c].start = s => b <= c)
      BY <1>5
    <2>3. batch[c].start = s => b < c
      BY <1>6, <2>1, <2>2
    <2> QED
      BY <2>1, <2>2, <2>3 DEF Earlier
  <1>7. AtHand(p) \in todo /\ \A c \in todo \ {AtHand(p)} : Earlier(AtHand(p), c)
    <2>1. b \in todo
      BY <1>5
    <2> QED
      BY <1>6, <2>1 DEF AtHand
  <1> QED
    BY <1>1, <1>7 DEF Earlier, Sooner

-----------------------------------------------------------------------------
(* What a step does to the row of a transaction                             *)

LEMMA OthersUnstarted ==
    ASSUME NEW t, NEW held \in SUBSET Batches, NEW locked, NEW when \in [Batches -> Nat],
           TxGood(t, held, locked, when),
           NEW b \in t.todo, \A c \in t.todo \ {b} : Sooner(b, c, when),
           NEW c \in t.todo \ {b}
    PROVE  Of(t.log, c) = {}
  <1>1. b \in Batches /\ c \in Batches /\ b \in Nat /\ c \in Nat /\ when[b] \in Nat /\ when[c] \in Nat
    BY BatchConstants DEF TxGood
  <1>2. Sooner(b, c, when)
    OBVIOUS
  <1>3. ~ Sooner(c, b, when)
    BY <1>1, <1>2 DEF Sooner
  <1> QED
    BY <1>3 DEF TxGood

LEMMA FailedOnes ==
    ASSUME NEW b \in Batches
    PROVE  /\ FailedEntries(b) \subseteq Entry /\ IsFiniteSet(FailedEntries(b))
           /\ OneOfEach(FailedEntries(b)) /\ Whole(FailedEntries(b), b, "failed")
           /\ \A e \in FailedEntries(b) : e.batch = b /\ e.result = "failed"
  <1> DEFINE failed(i) == [batch |-> b, item |-> i, result |-> "failed", before |-> 0, after |-> 0,
                         online |-> FALSE, stale |-> FALSE]
             f == [i \in Targets[b] |-> failed(i)]
  <1>1. Targets[b] \in SUBSET Items /\ IsFiniteSet(Targets[b])
    BY BatchConstants
  <1>2. f \in Bijection(Targets[b], FailedEntries(b))
    <2>1. \A i, j \in Targets[b] : f[i] = f[j] => i = j
      <3> SUFFICES ASSUME NEW i \in Targets[b], NEW j \in Targets[b], f[i] = f[j] PROVE i = j
        OBVIOUS
      <3>1. f[i].item = i /\ f[j].item = j
        OBVIOUS
      <3> QED
        BY <3>1
    <2> QED
      BY <2>1 DEF Bijection, Injection, Surjection, IsInjective, FailedEntries
  <1>3. IsFiniteSet(FailedEntries(b))
    BY <1>1, <1>2, FS_Bijection DEF ExistsBijection
  <1>4. \A e \in FailedEntries(b) : \E k \in Targets[b] : e = failed(k)
    BY DEF FailedEntries
  <1>5. \A k \in Targets[b] : failed(k) \in Entry
    BY <1>1 DEF Entry
  <1>6. \A k : failed(k).batch = b /\ failed(k).result = "failed" /\ failed(k).item = k
    OBVIOUS
  <1>7. \A i \in Targets[b] : failed(i) \in FailedEntries(b) /\ failed(i).item = i
    BY DEF FailedEntries
  <1> HIDE DEF failed
  <1>8. \A e \in FailedEntries(b) : e.batch = b /\ e.result = "failed" /\ e.item \in Targets[b]
    BY <1>4, <1>6
  <1>9. OneOfEach(FailedEntries(b))
    <2> SUFFICES ASSUME NEW e \in FailedEntries(b), NEW g \in FailedEntries(b), e.item = g.item
                 PROVE  e = g
      BY DEF OneOfEach
    <2>1. PICK k \in Targets[b] : e = failed(k)
      BY <1>4
    <2>2. PICK l \in Targets[b] : g = failed(l)
      BY <1>4
    <2>3. k = l
      BY <1>6, <2>1, <2>2
    <2> QED
      BY <2>1, <2>2, <2>3
  <1>10. FailedEntries(b) \subseteq Entry
    BY <1>4, <1>5
  <1>11. Whole(FailedEntries(b), b, "failed")
    BY <1>7, <1>8 DEF Whole, Of
  <1> QED
    BY <1>3, <1>8, <1>9, <1>10, <1>11

\* What is left to apply when item i of the batch at hand has been
LeftAfter(t, b, i) ==
    IF \A k \in Targets[b] : k = i \/ \E e \in Of(t.log, b) : e.item = k THEN t.todo \ {b} ELSE t.todo

\* The row of a transaction goes on to log and todo.
Goes(new, log, todo) ==
    /\ new \in TxRow /\ new.log = log /\ new.todo = todo
    /\ new.phase = "working" <=> todo # {}
    /\ new.phase # "idle"

LEMMA RowFails ==
    ASSUME NEW t, NEW held \in SUBSET Batches, NEW locked, NEW kept, NEW when \in [Batches -> Nat],
           TxGood(t, held, locked, when),
           NEW b \in t.todo, \A c \in t.todo \ {b} : Sooner(b, c, when),
           NEW undone, undone = {e \in t.log : e.batch # b},
           \A i \in locked : i \in Touched(undone) => i \in kept,
           NEW new, Goes(new, undone \cup FailedEntries(b), t.todo \ {b})
    PROVE  TxGood(new, held, kept, when)
  <1> DEFINE log == undone \cup FailedEntries(b)
             todo == t.todo \ {b}
  <1>1. b \in Batches /\ t \in TxRow /\ t.log \subseteq Entry /\ t.todo \subseteq held
    BY DEF TxGood, TxRow
  <1>2. log \subseteq Entry /\ IsFiniteSet(log)
    <2>1. IsFiniteSet(undone)
      BY FS_Subset DEF TxGood
    <2> QED
      BY <1>1, <2>1, FailedOnes, FS_Union
  <1>3. /\ new \in TxRow /\ new.log = log /\ new.todo = todo
        /\ new.phase = "working" <=> todo # {}
        /\ new.phase # "idle"
    BY DEF Goes
  <1>4. /\ \A e \in FailedEntries(b) : e.batch = b /\ e.result = "failed"
        /\ OneOfEach(FailedEntries(b)) /\ Whole(FailedEntries(b), b, "failed")
    BY <1>1, FailedOnes
  <1>5. \A e \in log : e.batch \in held
    BY <1>1, <1>4 DEF TxGood
  <1>6. OneOfEach(log)
    BY <1>4 DEF TxGood, OneOfEach
  <1>7. Whole(log, b, "failed")
    BY <1>4 DEF Whole, Of
  <1>8. \A c : c # b => Of(log, c) = Of(t.log, c)
    BY <1>4 DEF Of
  <1>9. Changes(log) = {e \in Changes(t.log) : e.batch # b}
    BY <1>4 DEF Changes, Succeeded
  <1>10. \A e \in Changes(log) : e.item \in kept
    <2> SUFFICES ASSUME NEW e \in Changes(log) PROVE e.item \in kept
      OBVIOUS
    <2>1. e \in Changes(t.log) /\ e \in undone /\ e.result = "succeeded"
      BY <1>9 DEF Changes, Succeeded
    <2>2. e.item \in locked /\ e.item \in Touched(undone)
      BY <2>1 DEF TxGood, Touched, Succeeded
    <2> QED
      BY <2>2
  <1>12. \A c \in held \ todo : Of(log, c) = {} \/ Whole(log, c, "succeeded") \/ Whole(log, c, "failed")
    BY <1>7, <1>8 DEF TxGood, Whole
  <1>13. ASSUME NEW c \in todo PROVE Part(log, c) /\ Of(log, c) = {}
    <2>1. Of(log, c) = {} /\ Of(t.log, c) = {}
      BY <1>8, OthersUnstarted
    <2> QED
      BY <2>1 DEF TxGood, Part
  <1> HIDE DEF log, todo
  <1>16. \A c \in new.todo :
          /\ Part(new.log, c)
          /\ Of(new.log, c) # {} => \A d \in new.todo \ {c} : Sooner(c, d, when)
    BY <1>3, <1>13
  <1>17. new.todo \subseteq held
    BY <1>1, <1>3 DEF todo
  <1> QED
    BY <1>2, <1>3, <1>5, <1>6, <1>10, <1>12, <1>16, <1>17 DEF TxGood

\* Nothing that was done is undone.
LEMMA FailsChained ==
    ASSUME NEW t, NEW held \in SUBSET Batches, NEW locked, NEW when \in [Batches -> Nat],
           NEW ver \in [Items -> Nat],
           TxGood(t, held, locked, when), TxChained(t, ver),
           NEW b \in t.todo, \A c \in t.todo \ {b} : Sooner(b, c, when),
           NEW undone, undone = {e \in t.log : e.batch # b},
           NEW new, Goes(new, undone \cup FailedEntries(b), t.todo \ {b})
    PROVE  TxChained(new, ver)
  <1>1. b \in Batches /\ new.log = undone \cup FailedEntries(b) /\ new.todo = t.todo \ {b}
    BY DEF TxGood, TxRow, Goes
  <1>2. \A e \in FailedEntries(b) : e.batch = b /\ e.result = "failed"
    BY <1>1, FailedOnes
  <1>3. \A e \in undone : e.batch \notin t.todo
    <2> SUFFICES ASSUME NEW e \in undone, e.batch \in t.todo PROVE FALSE
      OBVIOUS
    <2>1. e \in Of(t.log, e.batch) /\ e.batch \in t.todo \ {b}
      BY DEF Of
    <2> QED
      BY <2>1, OthersUnstarted
  <1>4. undone = Done(t)
    BY <1>3 DEF Done
  <1>5. Changes(new.log) = Changes(undone) /\ Changes(Done(new)) = Changes(undone)
    BY <1>1, <1>2, <1>3 DEF Changes, Succeeded, Done
  <1>6. \A i : On(Done(new), i) = On(Done(t), i)
    BY <1>4, <1>5 DEF On
  <1>7. \A e \in Changes(new.log) : e \in Changes(t.log) /\ e.batch \notin new.todo
    BY <1>1, <1>3, <1>5 DEF Changes, Succeeded
  <1> QED
    BY <1>6, <1>7 DEF TxChained

LEMMA RowApplies ==
    ASSUME NEW t, NEW held \in SUBSET Batches, NEW locked, NEW when \in [Batches -> Nat],
           TxGood(t, held, locked, when),
           NEW b \in t.todo, \A c \in t.todo \ {b} : Sooner(b, c, when),
           NEW i \in Targets[b], i \in locked, \A e \in Of(t.log, b) : e.item # i,
           NEW entry \in Entry, entry.batch = b, entry.item = i, entry.result = "succeeded",
           NEW todo, todo = LeftAfter(t, b, i),
           NEW new, Goes(new, t.log \cup {entry}, todo)
    PROVE  TxGood(new, held, locked, when)
  <1> DEFINE log == t.log \cup {entry}
  <1>1. /\ b \in Batches /\ i \in Items /\ t \in TxRow /\ t.log \in SUBSET Entry
        /\ t.todo \subseteq held /\ todo \subseteq t.todo
    BY BatchConstants DEF TxGood, TxRow, LeftAfter
  <1>2. log \in SUBSET Entry /\ IsFiniteSet(log)
    BY <1>1, FS_AddElement DEF TxGood
  <1>3. /\ new \in TxRow /\ new.log = log /\ new.todo = todo
        /\ new.phase = "working" <=> todo # {}
        /\ new.phase # "idle"
    BY DEF Goes
  <1>5. \A e \in log : e.batch \in held
    BY <1>1 DEF TxGood
  <1>6. OneOfEach(log)
    BY DEF TxGood, OneOfEach, Of
  <1>7. Of(log, b) = Of(t.log, b) \cup {entry} /\ \A c : c # b => Of(log, c) = Of(t.log, c)
    BY DEF Of
  <1>8. \A c \in t.todo \ {b} : Of(log, c) = {} /\ Part(log, c)
    <2> SUFFICES ASSUME NEW c \in t.todo \ {b} PROVE Of(log, c) = {} /\ Part(log, c)
      OBVIOUS
    <2>1. Of(t.log, c) = {}
      BY OthersUnstarted
    <2> QED
      BY <1>7, <2>1 DEF TxGood, Part
  <1>10. \A e \in Changes(log) : e.item \in locked
    BY DEF TxGood, Changes, Succeeded
  <1>16. \A c \in held \ todo : Of(log, c) = {} \/ Whole(log, c, "succeeded") \/ Whole(log, c, "failed")
    <2> SUFFICES ASSUME NEW c \in held \ todo
                 PROVE  Of(log, c) = {} \/ Whole(log, c, "succeeded") \/ Whole(log, c, "failed")
      OBVIOUS
    <2>1. CASE c = b
      <3>1. \A k \in Targets[b] : k = i \/ \E e \in Of(t.log, b) : e.item = k
        BY <2>1 DEF LeftAfter
      <3>2. \A e \in Of(log, b) : e.result = "succeeded" /\ e.item \in Targets[b]
        BY <1>7 DEF TxGood, Part
      <3>3. \A k \in Targets[b] : \E e \in Of(log, b) : e.item = k
        BY <1>7, <3>1
      <3>4. {e.item : e \in Of(log, b)} = Targets[b]
        BY ONLY <3>2, <3>3
      <3> QED
        BY <2>1, <3>2, <3>4 DEF Whole
    <2>2. CASE c # b
      <3>1. c \in held \ t.todo
        BY <2>2 DEF LeftAfter
      <3>2. Of(t.log, c) = {} \/ Whole(t.log, c, "succeeded") \/ Whole(t.log, c, "failed")
        BY <3>1 DEF TxGood
      <3> QED
        BY <1>7, <2>2, <3>2 DEF Whole
    <2> QED
      BY <2>1, <2>2
  <1>18. ASSUME NEW c \in todo
         PROVE  Part(log, c) /\ (Of(log, c) # {} => \A d \in todo \ {c} : Sooner(c, d, when))
    <2>1. CASE c = b
      <3>1. ~ \A k \in Targets[b] : k = i \/ \E e \in Of(t.log, b) : e.item = k
        BY <2>1 DEF LeftAfter
      <3>2. Part(log, b)
        BY <1>7, <3>1 DEF TxGood, Part
      <3> QED
        BY <1>1, <2>1, <3>2
    <2>2. CASE c # b
      <3>1. c \in t.todo \ {b}
        BY <1>1, <2>2
      <3> QED
        BY <1>8, <3>1
    <2> QED
      BY <2>1, <2>2
  <1> HIDE DEF log
  <1>19. todo \subseteq held
    BY <1>1
  <1> QED
    BY <1>2, <1>3, <1>5, <1>6, <1>10, <1>16, <1>18, <1>19 DEF TxGood

\* A change that does not start from a stale object is the next of the chain.
LEMMA LinkGrows ==
    ASSUME NEW own, NEW low \in Nat, NEW e, Linked(own, low),
           e \notin own,
           ~ e.stale /\ Fine(own) => e.before = low + Cardinality(own) /\ e.after = e.before + 1
    PROVE  Linked(own \cup {e}, low)
  <1> SUFFICES ASSUME Fine(own \cup {e})
               PROVE  Chain(own \cup {e}, low, low + Cardinality(own \cup {e}))
    BY DEF Linked
  <1>1. ~ e.stale /\ Fine(own)
    BY DEF Fine
  <1>2. /\ Chain(own, low, low + Cardinality(own))
        /\ e.before = low + Cardinality(own) /\ e.after = low + Cardinality(own) + 1
    BY <1>1 DEF Linked
  <1>3. IsFiniteSet(own)
    BY <1>2 DEF Chain
  <1>4. Cardinality(own \cup {e}) = Cardinality(own) + 1 /\ Cardinality(own) \in Nat
    BY <1>3, FS_AddElement, FS_CardinalityType
  <1>5. low + Cardinality(own) + 1 = low + Cardinality(own \cup {e})
    BY <1>4
  <1>6. Chain(own \cup {e}, low, low + Cardinality(own) + 1)
    BY <1>2, ChainGrows
  <1> QED
    BY <1>5, <1>6

LEMMA AppliesChained ==
    ASSUME NEW t, NEW held \in SUBSET Batches, NEW locked, NEW when \in [Batches -> Nat],
           NEW ver \in [Items -> Nat],
           TxGood(t, held, locked, when), TxChained(t, ver),
           NEW b \in t.todo, \A c \in t.todo \ {b} : Sooner(b, c, when),
           NEW i \in Targets[b], \A e \in Of(t.log, b) : e.item # i,
           NEW entry \in Entry, entry.batch = b, entry.item = i, entry.result = "succeeded",
           ~ entry.stale /\ Kind[b] # "promote" => (entry.online <=> Kind[b] = "restore"),
           ~ entry.stale /\ Kind[b] # "promote" /\ Fine(On(Done(t), i)) =>
               /\ entry.before = ver[i] + Cardinality(On(Done(t), i))
               /\ entry.after = entry.before + 1,
           NEW todo, todo = LeftAfter(t, b, i),
           NEW new, Goes(new, t.log \cup {entry}, todo)
    PROVE  TxChained(new, ver)
  <1> DEFINE log == t.log \cup {entry}
  <1>1. /\ b \in Batches /\ i \in Items /\ t.log \subseteq Entry
        /\ new.log = log /\ new.todo = todo /\ todo \in {t.todo, t.todo \ {b}}
    BY BatchConstants DEF TxGood, TxRow, LeftAfter, Goes
  <1>2. \A e \in Changes(log) : e \in Changes(t.log) \/ (e = entry /\ Kind[b] # "promote")
    BY DEF Changes, Succeeded
  <1>3. \A e \in Changes(new.log) : ~ e.stale => (e.online <=> Kind[e.batch] = "restore")
    BY <1>1, <1>2 DEF TxChained
  <1>4. \A e \in t.log : e.batch \in t.todo => e.batch = b
    <2> SUFFICES ASSUME NEW e \in t.log, e.batch \in t.todo, e.batch # b PROVE FALSE
      OBVIOUS
    <2>1. e \in Of(t.log, e.batch) /\ e.batch \in t.todo \ {b}
      BY DEF Of
    <2> QED
      BY <2>1, OthersUnstarted
  <1>5. CASE todo = t.todo
    <2>1. Done(new) = Done(t)
      BY <1>1, <1>5 DEF Done
    <2>2. \A e \in Changes(new.log) :
             e.batch \in new.todo /\ ~ e.stale /\ Fine(On(Done(new), e.item)) =>
                 /\ e.before = ver[e.item] + Cardinality(On(Done(new), e.item))
                 /\ e.after = e.before + 1
      BY <1>1, <1>2, <1>5, <2>1 DEF TxChained
    <2> QED
      BY <1>3, <2>1, <2>2 DEF TxChained
  <1>6. CASE todo = t.todo \ {b}
    <2>1. Done(new) = log
      BY <1>1, <1>4, <1>6 DEF Done
    <2>2. \A e \in Changes(new.log) : e.batch \notin new.todo
      BY <1>1, <1>2, <1>4, <1>6 DEF Changes, Succeeded
    <2>3. ASSUME NEW k \in Items PROVE Linked(On(log, k), ver[k])
      <3> DEFINE own == On(Done(t), k)
      <3>1. Linked(own, ver[k]) /\ ver[k] \in Nat
        BY DEF TxChained
      <3>2. \A e \in On(log, k) \ own : e.batch = b /\ e \in Changes(log) /\ e.item = k
        BY <1>4 DEF On, Done, Changes, Succeeded
      <3>3. own \subseteq On(log, k)
        BY DEF On, Done, Changes, Succeeded
      <3>4. \A e, f \in On(log, k) \ own : e = f
        <4>1. OneOfEach(log)
          BY DEF TxGood, OneOfEach, Of
        <4>2. \A e \in Changes(log) : e \in log
          BY DEF Changes, Succeeded
        <4> HIDE DEF own, log
        <4> QED
          BY <3>2, <4>1, <4>2 DEF OneOfEach
      <3>5. CASE On(log, k) = own
        BY <3>1, <3>5
      <3>6. CASE On(log, k) # own
        <4>1. PICK e \in On(log, k) \ own : TRUE
          BY <3>3, <3>6
        <4>2. On(log, k) = own \cup {e} /\ e \notin own
          BY <3>3, <3>4, <4>1
        <4>3. e.batch = b /\ e \in Changes(log) /\ e.item = k
          BY <3>2, <4>1
        <4>4. ~ e.stale /\ Fine(own) => e.before = ver[k] + Cardinality(own) /\ e.after = e.before + 1
          <5>1. CASE e = entry
            BY <4>3, <5>1 DEF Changes
          <5>2. CASE e # entry
            <6>1. e \in Changes(t.log) /\ e.batch \in t.todo
              BY <1>2, <4>3, <5>2
            <6> QED
              BY <4>3, <6>1 DEF TxChained
          <5> QED
            BY <5>1, <5>2
        <4> HIDE DEF own, log
        <4> QED
          BY <3>1, <4>2, <4>4, LinkGrows
      <3> QED
        BY <3>5, <3>6
    <2> QED
      BY <1>3, <2>1, <2>2, <2>3 DEF TxChained
  <1> QED
    BY <1>1, <1>5, <1>6

\* A transaction that has written nothing yet, or nothing but to leave its batch to others.
LEMMA RowBlank ==
    ASSUME NEW t \in TxRow, NEW held \in SUBSET Batches, NEW locked,
           NEW ver \in [Items -> Nat], NEW when \in [Batches -> Nat],
           t.log = {}, t.todo \subseteq held, t.phase = "working" <=> t.todo # {}, t.phase = "idle" => held = {}
    PROVE  TxGood(t, held, locked, when) /\ TxChained(t, ver)
  <1>1. \A c : Of({}, c) = {}
    BY DEF Of
  <1>2. Changes({}) = {} /\ Done(t) = {} /\ \A i : On({}, i) = {}
    BY DEF Changes, Succeeded, On, Done
  <1>3. IsFiniteSet({})
    BY FS_EmptySet
  <1>4. \A i \in Items : Linked({}, ver[i])
    BY EmptyChain DEF Linked
  <1>5. OneOfEach({})
    BY DEF OneOfEach
  <1>6. ASSUME NEW c \in t.todo PROVE Part({}, c)
    <2>1. c \in Batches
      OBVIOUS
    <2>2. Targets[c] # {}
      BY <2>1, BatchConstants
    <2> QED
      BY <1>1, <2>2 DEF Part
  <1>7. TxGood(t, held, locked, when)
    BY <1>1, <1>2, <1>3, <1>5, <1>6 DEF TxGood
  <1>8. TxChained(t, ver)
    BY <1>2, <1>4 DEF TxChained
  <1> QED
    BY <1>7, <1>8

\* What others do to the tables: the versions of the items it has changed, and the starts of
\* its batches, are as they were, and it has kept the locks of those items.
LEMMA RowSteady ==
    ASSUME NEW t, NEW held \in SUBSET Batches, NEW locked, NEW kept,
           NEW ver \in [Items -> Nat], NEW when \in [Batches -> Nat],
           NEW ver2 \in [Items -> Nat], NEW when2 \in [Batches -> Nat],
           TxGood(t, held, locked, when), TxChained(t, ver),
           \A i \in locked : i \in kept /\ ver2[i] = ver[i],
           \A b \in held : when2[b] = when[b]
    PROVE  TxGood(t, held, kept, when2) /\ TxChained(t, ver2)
  <1>1. t.log \subseteq Entry /\ t.todo \subseteq held
    BY DEF TxGood, TxRow
  <1>2. \A e \in Changes(t.log) : e.item \in locked /\ e.item \in Items
    BY <1>1 DEF TxGood, Changes, Succeeded, Entry
  <1>3. \A i \in Items : Linked(On(Done(t), i), ver2[i])
    <2> SUFFICES ASSUME NEW i \in Items PROVE Linked(On(Done(t), i), ver2[i])
      OBVIOUS
    <2>1. CASE i \in locked
      BY <2>1 DEF TxChained
    <2>2. CASE i \notin locked
      <3>1. On(Done(t), i) = {} /\ ver2[i] \in Nat
        BY <1>2, <2>2 DEF On, Done, Changes, Succeeded
      <3> QED
        BY <3>1, EmptyChain DEF Linked
    <2> QED
      BY <2>1, <2>2
  <1>4. TxChained(t, ver2)
    BY <1>2, <1>3 DEF TxChained
  <1>5. \A b \in t.todo : Of(t.log, b) # {} => \A c \in t.todo \ {b} : Sooner(b, c, when2)
    BY <1>1 DEF TxGood, Sooner
  <1>6. \A e \in Changes(t.log) : e.item \in kept
    BY <1>2
  <1> QED
    BY <1>4, <1>5, <1>6 DEF TxGood

-----------------------------------------------------------------------------
(* The steps                                                                *)

LEMMA TablesTyped ==
    ASSUME TablesTypeOK
    PROVE  /\ Ver \in [Items -> Nat] /\ When \in [Batches -> Nat]
           /\ \A p : HeldBy(p) \in SUBSET Batches
           /\ \A i \in Items : Ver[i] = item[i].version
  BY BatchConstants DEF TablesTypeOK, Ver, When, HeldBy, BatchRow, ItemRow

LEMMA OpeningTyped ==
    ASSUME NEW phase \in {"idle", "working", "reconciling", "closing"}, NEW todo \in SUBSET Batches,
           NEW time \in Nat, NEW start \in 0 .. MaxStart
    PROVE  /\ Opening(phase, todo, time, start) \in TxRow
           /\ Opening(phase, todo, time, start).log = {}
           /\ Opening(phase, todo, time, start).todo = todo
           /\ Opening(phase, todo, time, start).phase = phase
  BY DEF Opening, TxRow

LEMMA NoTxTyped == NoTx \in TxRow /\ NoTx.log = {} /\ NoTx.todo = {} /\ NoTx.phase = "idle"
  <1>1. 0 \in Nat /\ 0 \in 0 .. MaxStart
    BY BatchConstants
  <1> QED
    BY <1>1, OpeningTyped DEF NoTx

LEMMA NotOwned == \A p \in Procs : p # NoOwner
  BY BatchConstants

\* A step inside a transaction: its row and its locks.
InnerStep(p, new) ==
    /\ tx' = [tx EXCEPT ![p] = new]
    /\ UNCHANGED <<item, batch, audit, rule, holder>>
    /\ lock' \in [Items -> Procs \cup {NoOwner}]
    /\ \A i \in Items, q \in Procs : q # p => (lock'[i] = q <=> lock[i] = q)
    /\ clock' = clock /\ faults' \in 0 .. MaxFaults
    /\ TxGood(new, HeldBy(p), LockedBy(p)', When) /\ TxChained(new, Ver)

LEMMA InnerKeeps ==
    ASSUME BatchesInv, NEW p \in Procs, NEW new, InnerStep(p, new)
    PROVE  BatchesInv'
  <1>1. TablesTypeOK'
    BY DEF BatchesInv, TablesTypeOK, InnerStep
  <1>2. AuditInv'
    BY DEF BatchesInv, AuditInv, ItemAudited, InnerStep, Open
  <1>3. Ver' = Ver /\ When' = When /\ \A q \in Procs : HeldBy(q)' = HeldBy(q)
    BY DEF InnerStep, Ver, When, HeldBy
  <1>4. ASSUME NEW q \in Procs
        PROVE  TxGood(tx'[q], HeldBy(q)', LockedBy(q)', When') /\ TxChained(tx'[q], Ver')
    <2>1. CASE q = p
      BY <1>3, <2>1 DEF BatchesInv, TxInv, InnerStep
    <2>2. CASE q # p
      <3>1. LockedBy(q)' = LockedBy(q) /\ tx'[q] = tx[q]
        BY <2>2 DEF InnerStep, LockedBy, BatchesInv, TxInv
      <3> QED
        BY <1>3, <3>1 DEF BatchesInv, TxInv
    <2> QED
      BY <2>1, <2>2
  <1>5. tx' \in [Procs -> TxRow]
    BY DEF BatchesInv, TxInv, InnerStep, TxGood
  <1> QED
    BY <1>1, <1>2, <1>4, <1>5 DEF BatchesInv, TxInv

\* A transaction begins with the batches it has to apply.
BeginStep(p, S, new) ==
    /\ tx[p].phase = "idle"
    /\ \A b \in S : b \in Batches /\ holder[b] = NoOwner /\ Open(b)
    /\ holder' = [b \in Batches |-> IF b \in S THEN p ELSE holder[b]]
    /\ tx' = [tx EXCEPT ![p] = new]
    /\ new \in TxRow /\ new.log = {} /\ new.todo = S /\ new.phase = Working(p, S)
    /\ UNCHANGED <<item, batch, audit, rule, lock, clock, faults>>

LEMMA BeginKeeps ==
    ASSUME BatchesInv, NEW p \in Procs, NEW S, NEW new, BeginStep(p, S, new)
    PROVE  BatchesInv'
  <1>1. TablesTypeOK'
    BY DEF BatchesInv, TablesTypeOK, BeginStep
  <1>2. AuditInv'
    BY DEF BatchesInv, TablesTypeOK, AuditInv, ItemAudited, BeginStep, Open
  <1>3. Ver' = Ver /\ When' = When /\ \A q \in Procs : LockedBy(q)' = LockedBy(q)
    BY DEF BeginStep, Ver, When, LockedBy
  <1>4. ASSUME NEW q \in Procs
        PROVE  TxGood(tx'[q], HeldBy(q)', LockedBy(q)', When') /\ TxChained(tx'[q], Ver')
    <2>1. CASE q = p
      <3>1. HeldBy(p) = {}
        BY DEF BatchesInv, TxInv, TxGood, BeginStep
      <3>2. HeldBy(p)' = S
        BY <3>1 DEF BeginStep, HeldBy, BatchesInv, TablesTypeOK
      <3>3. tx'[p] = new
        BY DEF BatchesInv, TxInv, BeginStep
      <3>4. S \in SUBSET Batches /\ (new.phase = "working" <=> new.todo # {}) /\ new.phase # "idle"
        BY DEF BeginStep, Working
      <3>5. new \in TxRow /\ new.log = {} /\ new.todo \subseteq S
        BY DEF BeginStep
      <3>6. Ver \in [Items -> Nat] /\ When \in [Batches -> Nat]
        BY TablesTyped DEF BatchesInv
      <3>7. TxGood(new, S, LockedBy(p)', When) /\ TxChained(new, Ver)
        BY <3>4, <3>5, <3>6, RowBlank
      <3> QED
        BY <1>3, <2>1, <3>2, <3>3, <3>7
    <2>2. CASE q # p
      <3>1. \A b \in S : holder[b] # q
        BY NotOwned DEF BeginStep
      <3>2. HeldBy(q)' = HeldBy(q) /\ tx'[q] = tx[q]
        BY <2>2, <3>1 DEF BeginStep, HeldBy, BatchesInv, TxInv
      <3> QED
        BY <1>3, <3>2 DEF BatchesInv, TxInv
    <2> QED
      BY <2>1, <2>2
  <1>5. tx' \in [Procs -> TxRow]
    BY DEF BatchesInv, TxInv, BeginStep
  <1> QED
    BY <1>1, <1>2, <1>4, <1>5 DEF BatchesInv, TxInv

\* The end of a transaction, for the rows of the others: versions of items they have locked
\* and starts of batches they hold are as before.
LEMMA ReleaseRows ==
    ASSUME BatchesInv, NEW p \in Procs, Release(p), TablesTypeOK',
           \A i \in Items : lock[i] # p => item'[i].version = item[i].version,
           \A b \in Batches : holder[b] # p => batch'[b].start = batch[b].start
    PROVE  TxInv'
  <1>1. /\ Ver \in [Items -> Nat] /\ When \in [Batches -> Nat]
        /\ Ver' \in [Items -> Nat] /\ When' \in [Batches -> Nat]
    <2>1. Ver \in [Items -> Nat] /\ When \in [Batches -> Nat]
      BY TablesTyped DEF BatchesInv
    <2>2. Ver' \in [Items -> Nat] /\ When' \in [Batches -> Nat]
      BY BatchConstants DEF TablesTypeOK, Ver, When, BatchRow, ItemRow
    <2> QED
      BY <2>1, <2>2
  <1>2. p # NoOwner
    BY NotOwned
  <1>3. ASSUME NEW q \in Procs
        PROVE  TxGood(tx'[q], HeldBy(q)', LockedBy(q)', When') /\ TxChained(tx'[q], Ver')
    <2>1. CASE q = p
      <3>1. HeldBy(p)' = {}
        BY <1>2 DEF Release, HeldBy
      <3>2. tx'[p] = NoTx
        BY DEF Release, BatchesInv, TxInv
      <3>3. TxGood(NoTx, {}, LockedBy(p)', When') /\ TxChained(NoTx, Ver')
        BY <1>1, NoTxTyped, RowBlank
      <3> QED
        BY <2>1, <3>1, <3>2, <3>3
    <2>2. CASE q # p
      <3>1. q # NoOwner
        BY NotOwned
      <3>2. HeldBy(q)' = HeldBy(q) /\ LockedBy(q)' = LockedBy(q) /\ tx'[q] = tx[q]
        BY <1>2, <2>2, <3>1 DEF Release, HeldBy, LockedBy, BatchesInv, TxInv
      <3>3. \A i \in LockedBy(q) : Ver'[i] = Ver[i]
        BY <2>2 DEF LockedBy, Ver
      <3>4. \A b \in HeldBy(q) : When'[b] = When[b]
        BY <2>2 DEF HeldBy, When
      <3>5. HeldBy(q) \in SUBSET Batches /\ TxGood(tx[q], HeldBy(q), LockedBy(q), When) /\ TxChained(tx[q], Ver)
        BY DEF HeldBy, BatchesInv, TxInv
      <3>6. TxGood(tx[q], HeldBy(q), LockedBy(q), When') /\ TxChained(tx[q], Ver')
        BY <1>1, <3>3, <3>4, <3>5, RowSteady
      <3> QED
        BY <3>2, <3>6
    <2> QED
      BY <2>1, <2>2
  <1>4. tx' \in [Procs -> TxRow]
    <2> QED
      BY NoTxTyped DEF BatchesInv, TxInv, Release
  <1> QED
    BY <1>3, <1>4 DEF TxInv

LEMMA AbortKeeps == ASSUME BatchesInv, NEW p \in Procs, Abort(p) PROVE BatchesInv'
  <1>1. TablesTypeOK'
    <2>1. lock' \in [Items -> Procs \cup {NoOwner}] /\ holder' \in [Batches -> Procs \cup {NoOwner}]
      BY DEF BatchesInv, TablesTypeOK, Abort, Release
    <2>2. faults' \in 0 .. MaxFaults
      BY BatchConstants DEF BatchesInv, TablesTypeOK, Abort
    <2> QED
      BY <2>1, <2>2 DEF BatchesInv, TablesTypeOK, Abort
  <1>2. AuditInv'
    <2>1. \A b \in Batches : holder'[b] # NoOwner => holder[b] # NoOwner
      BY DEF Abort, Release
    <2>2. audit' = audit /\ batch' = batch /\ item' = item
      BY DEF Abort
    <2> QED
      BY <2>1, <2>2 DEF BatchesInv, AuditInv, ItemAudited, Open
  <1>3. TxInv'
    BY <1>1, ReleaseRows DEF Abort
  <1> QED
    BY <1>1, <1>2, <1>3 DEF BatchesInv

\* What a transaction at work has at hand
LEMMA AtHandFacts ==
    ASSUME BatchesInv, NEW p \in Procs, tx[p].phase = "working"
    PROVE  /\ AtHand(p) \in tx[p].todo /\ AtHand(p) \in Batches
           /\ \A c \in tx[p].todo \ {AtHand(p)} : Sooner(AtHand(p), c, When)
           /\ TxGood(tx[p], HeldBy(p), LockedBy(p), When) /\ TxChained(tx[p], Ver)
           /\ Wants(p) = Targets[AtHand(p)] /\ Wants(p) \in SUBSET Items
           /\ HeldBy(p) \in SUBSET Batches /\ Ver \in [Items -> Nat] /\ When \in [Batches -> Nat]
  <1>1. TxGood(tx[p], HeldBy(p), LockedBy(p), When) /\ TxChained(tx[p], Ver)
    BY DEF BatchesInv, TxInv
  <1>2. tx[p].todo # {} /\ tx[p].todo \in SUBSET Batches /\ batch \in [Batches -> BatchRow]
    BY <1>1 DEF TxGood, TxRow, BatchesInv, TablesTypeOK
  <1>3. AtHand(p) \in tx[p].todo /\ \A c \in tx[p].todo \ {AtHand(p)} : Sooner(AtHand(p), c, When)
    BY <1>2, EarliestIn
  <1>4. AtHand(p) \in Batches
    BY <1>2, <1>3
  <1>5. Wants(p) = Targets[AtHand(p)] /\ Wants(p) \in SUBSET Items
    BY <1>4, BatchConstants DEF Wants
  <1>6. HeldBy(p) \in SUBSET Batches /\ Ver \in [Items -> Nat] /\ When \in [Batches -> Nat]
    BY TablesTyped DEF BatchesInv
  <1> QED
    BY <1>1, <1>3, <1>4, <1>5, <1>6

\* What a transaction sees of an item
LEMMA FiniteHasLast ==
    ASSUME NEW own \in SUBSET Entry, IsFiniteSet(own), own # {}
    PROVE  LastOf(own) \in own
  <1> DEFINE Bad(T) == T # {} /\ \A e \in T : \E f \in T : ~ (f.after <= e.after)
             sizes == {n \in Nat : \E T \in SUBSET own : Bad(T) /\ Cardinality(T) = n}
  <1>1. \A e \in own : e.after \in Nat
    BY DEF Entry
  <1>2. sizes = {}
    <2> SUFFICES ASSUME sizes # {} PROVE FALSE
      OBVIOUS
    <2>1. sizes \in SUBSET Nat
      OBVIOUS
    <2>2. PICK n \in sizes : \A m \in sizes : n <= m
      <3> HIDE DEF sizes
      <3> QED
        BY <2>1, LeastOf
    <2>3. PICK T \in SUBSET own : Bad(T) /\ Cardinality(T) = n
      OBVIOUS
    <2>4. PICK e \in T : TRUE
      BY <2>3
    <2> DEFINE U == T \ {e}
    <2>5. IsFiniteSet(T)
      BY FS_Subset
    <2>6. Cardinality(U) = n - 1 /\ Cardinality(U) \in Nat
      BY <2>3, <2>4, <2>5, FS_RemoveElement, FS_CardinalityType
    <2>7. ~ Bad(U)
      <3>1. Cardinality(U) \notin sizes
        <4> HIDE DEF sizes, U
        <4> QED
          BY <2>1, <2>2, <2>6
      <3>2. U \in SUBSET own
        OBVIOUS
      <3> HIDE DEF Bad, U
      <3> QED
        BY <2>6, <3>1, <3>2
    <2>8. CASE U = {}
      <3>1. \A f \in T : f = e
        BY <2>8
      <3> QED
        BY <1>1, <2>3, <2>4, <3>1
    <2>9. CASE U # {}
      <3>1. PICK m \in U : \A f \in U : f.after <= m.after
        BY <2>7, <2>9
      <3>2. \E k \in T : \A f \in T : f.after <= k.after
        <4>1. CASE e.after <= m.after
          BY <3>1, <4>1
        <4>2. CASE ~ (e.after <= m.after)
          BY <1>1, <2>4, <3>1, <4>2
        <4> QED
          BY <4>1, <4>2
      <3> QED
        BY <2>3, <3>2
    <2> QED
      BY <2>8, <2>9
  <1>3. ~ Bad(own)
    <2>1. Cardinality(own) \in Nat /\ own \in SUBSET own
      BY FS_CardinalityType
    <2> HIDE DEF Bad
    <2> QED
      BY <1>2, <2>1
  <1> QED
    BY <1>3 DEF LastOf

LEMMA RowTyped ==
    ASSUME BatchesInv, NEW p \in Procs, NEW i \in Items
    PROVE  Row(p, i) \in ItemRow /\ Object(p, i) \in ItemRow
  <1>1. /\ tx[p] \in TxRow /\ tx[p].log \subseteq Entry /\ IsFiniteSet(tx[p].log)
        /\ item[i] \in ItemRow
    BY DEF BatchesInv, TxInv, TxGood, TxRow, TablesTypeOK
  <1>2. Own(p, i) \in SUBSET Entry /\ IsFiniteSet(Own(p, i))
    BY <1>1, FS_Subset DEF Own, Changes, Succeeded
  <1>3. Row(p, i) \in ItemRow
    <2>1. CASE Own(p, i) = {}
      BY <1>1, <2>1 DEF Row
    <2>2. CASE Own(p, i) # {}
      <3>1. LastOf(Own(p, i)) \in Entry
        BY <1>2, <2>2, FiniteHasLast
      <3> QED
        BY <2>2, <3>1 DEF Row, ItemRow, Entry
    <2> QED
      BY <2>1, <2>2
  <1>4. tx[p].objects[i] \in ItemRow \cup {NoObject}
    BY <1>1 DEF TxRow
  <1> QED
    BY <1>3, <1>4 DEF Object

\* Where nothing was done to a stale object, it sees the end of the chain.
LEMMA RowAtEnd ==
    ASSUME BatchesInv, NEW p \in Procs, NEW i \in Items,
           Own(p, i) = On(Done(tx[p]), i), Fine(Own(p, i))
    PROVE  Row(p, i).version = Ver[i] + Cardinality(On(Done(tx[p]), i))
  <1> DEFINE own == On(Done(tx[p]), i)
  <1>1. Chain(own, Ver[i], Ver[i] + Cardinality(own))
    BY DEF BatchesInv, TxInv, TxChained, Linked
  <1>2. Ver[i] = item[i].version /\ Ver[i] \in Nat
    BY <1>1 DEF Chain, Ver
  <1>3. CASE own = {}
    <2>1. Ver[i] + Cardinality(own) = Ver[i]
      BY <1>2, <1>3, FS_EmptySet
    <2> QED
      BY <1>2, <1>3, <2>1 DEF Row
  <1>4. CASE own # {}
    <2>1. LastOf(own).after = Ver[i] + Cardinality(own)
      <3> HIDE DEF own
      <3> QED
        BY <1>1, <1>4, ChainEnd
    <2> QED
      BY <1>4, <2>1 DEF Row
  <1> QED
    BY <1>3, <1>4

\* The row of a transaction that goes on
LEMMA WritesGoes ==
    ASSUME BatchesInv, NEW p \in Procs, NEW log \in SUBSET Entry, NEW todo \in SUBSET Batches,
           NEW objects \in [Items -> ItemRow \cup {NoObject}], Writes(p, log, todo, objects)
    PROVE  Goes(tx'[p], log, todo) /\ tx' = [tx EXCEPT ![p] = tx'[p]]
  <1>1. tx[p] \in TxRow /\ tx \in [Procs -> TxRow]
    BY DEF BatchesInv, TxInv
  <1> DEFINE new == [phase |-> Working(p, todo), todo |-> todo, time |-> tx[p].time,
                     start |-> tx[p].start, log |-> log, objects |-> objects,
                     rules |-> tx[p].rules]
  <1>2. tx'[p] = new /\ tx' = [tx EXCEPT ![p] = new]
    BY <1>1 DEF Writes
  <1>3. new \in TxRow
    BY <1>1 DEF TxRow, Working
  <1>4. new.log = log /\ new.todo = todo /\ (new.phase = "working" <=> todo # {}) /\ new.phase # "idle"
    BY DEF Working
  <1> QED
    BY <1>2, <1>3, <1>4 DEF Goes

LEMMA UnmodifiedTyped ==
    ASSUME BatchesInv, NEW p \in Procs
    PROVE  /\ Unmodified(p) \in [Items -> ItemRow \cup {NoObject}]
           /\ tx[p].objects \in [Items -> ItemRow \cup {NoObject}]
  <1>1. \A i \in Items : Object(p, i) \in ItemRow
    BY RowTyped
  <1>2. tx[p] \in TxRow
    BY DEF BatchesInv, TxInv
  <1> QED
    BY <1>1, <1>2 DEF Unmodified, TxRow

\* A batch that raises or conflicts
LEMMA FailKeeps ==
    ASSUME BatchesInv, NEW p \in Procs, tx[p].phase = "working",
           NEW objects \in {Unmodified(p), tx[p].objects}, Fails(p, objects), faults' \in 0 .. MaxFaults
    PROVE  BatchesInv'
  <1> DEFINE b == AtHand(p)
             undone == Undone(p)
             log == undone \cup FailedEntries(b)
             todo == tx[p].todo \ {b}
             new == tx'[p]
  <1>1. /\ b \in tx[p].todo /\ b \in Batches /\ \A c \in tx[p].todo \ {b} : Sooner(b, c, When)
        /\ TxGood(tx[p], HeldBy(p), LockedBy(p), When) /\ TxChained(tx[p], Ver)
        /\ HeldBy(p) \in SUBSET Batches /\ Ver \in [Items -> Nat] /\ When \in [Batches -> Nat]
    BY AtHandFacts
  <1>2. undone = {e \in tx[p].log : e.batch # b}
    BY DEF Undone
  <1>3. /\ lock' = [i \in Items |-> IF lock[i] = p /\ i \notin Touched(undone) THEN NoOwner ELSE lock[i]]
        /\ lock \in [Items -> Procs \cup {NoOwner}]
    BY DEF Fails, KeptLocks, BatchesInv, TablesTypeOK
  <1>4. \A i \in LockedBy(p) : i \in Touched(undone) => i \in LockedBy(p)'
    BY <1>3 DEF LockedBy
  <1>5. Goes(new, log, todo) /\ tx' = [tx EXCEPT ![p] = new]
    <2>1. Writes(p, log, todo, objects)
      BY DEF Fails, Continue, Rest
    <2>2. log \in SUBSET Entry /\ todo \in SUBSET Batches
      BY <1>1, <1>2, FailedOnes DEF TxGood, TxRow
    <2>3. objects \in [Items -> ItemRow \cup {NoObject}]
      BY UnmodifiedTyped
    <2> HIDE DEF log, todo
    <2> QED
      BY <2>1, <2>2, <2>3, WritesGoes
  <1>6. TxGood(new, HeldBy(p), LockedBy(p)', When)
    <2> HIDE DEF b, undone, new
    <2> QED
      BY <1>1, <1>2, <1>4, <1>5, RowFails
  <1>7. TxChained(new, Ver)
    <2> HIDE DEF b, undone, new
    <2> QED
      BY <1>1, <1>2, <1>5, FailsChained
  <1>8. lock' \in [Items -> Procs \cup {NoOwner}]
    BY <1>3
  <1>9. \A i \in Items, q \in Procs : q # p => (lock'[i] = q <=> lock[i] = q)
    BY <1>3, NotOwned
  <1>10. InnerStep(p, new)
    <2> HIDE DEF new
    <2> QED
      BY <1>5, <1>6, <1>7, <1>8, <1>9 DEF InnerStep, Fails
  <1> QED
    BY <1>10, InnerKeeps

LEMMA LockKeeps == ASSUME BatchesInv, NEW p \in Procs, LockItem(p) PROVE BatchesInv'
  <1> DEFINE i == First(ToLock(p))
  <1>1. tx[p].phase = "working"
    BY DEF LockItem, ToLock, Wants
  <1>2. ToLock(p) \in SUBSET Items /\ ToLock(p) # {}
    BY <1>1, AtHandFacts DEF LockItem, ToLock
  <1>3. i \in Items /\ lock[i] = NoOwner
    BY <1>2, FirstIn DEF LockItem, Free
  <1>4. lock' = [lock EXCEPT ![i] = p] /\ lock \in [Items -> Procs \cup {NoOwner}]
    BY DEF LockItem, BatchesInv, TablesTypeOK
  <1> HIDE DEF i
  <1>5. lock' \in [Items -> Procs \cup {NoOwner}]
    BY <1>4
  <1>6. \A k \in Items, q \in Procs : q # p => (lock'[k] = q <=> lock[k] = q)
    BY <1>3, <1>4, NotOwned
  <1>7. \A k \in LockedBy(p) : k \in LockedBy(p)' /\ Ver[k] = Ver[k]
    BY <1>4 DEF LockedBy
  <1>8. TxGood(tx[p], HeldBy(p), LockedBy(p), When) /\ TxChained(tx[p], Ver)
    BY <1>1, AtHandFacts
  <1>9. TxGood(tx[p], HeldBy(p), LockedBy(p)', When)
    <2>1. HeldBy(p) \in SUBSET Batches /\ Ver \in [Items -> Nat] /\ When \in [Batches -> Nat]
      BY TablesTyped DEF BatchesInv
    <2> QED
      BY <1>7, <1>8, <2>1, RowSteady
  <1>10. tx' = [tx EXCEPT ![p] = tx[p]]
    BY DEF LockItem, BatchesInv, TxInv
  <1>11. faults \in 0 .. MaxFaults
    BY DEF BatchesInv, TablesTypeOK
  <1>12. InnerStep(p, tx[p])
    BY <1>5, <1>6, <1>8, <1>9, <1>10, <1>11 DEF InnerStep, LockItem
  <1> QED
    BY <1>12, InnerKeeps

LEMMA PostponeKeeps == ASSUME BatchesInv, NEW p \in Procs, Postpone(p) PROVE BatchesInv'
  <1> DEFINE todo == Rest(p)
             new == tx'[p]
  <1>1. tx[p].phase = "working"
    BY DEF Postpone, Ready
  <1>2. TxGood(tx[p], HeldBy(p), LockedBy(p), When)
    BY <1>1, AtHandFacts
  <1>3. todo \subseteq HeldBy(p) /\ todo \in SUBSET Batches /\ tx[p] \in TxRow
    BY <1>2 DEF TxGood, TxRow, Rest
  <1>4. Goes(new, {}, todo) /\ tx' = [tx EXCEPT ![p] = new]
    <2>1. Writes(p, {}, todo, tx[p].objects)
      BY DEF Postpone, Continue
    <2>2. {} \in SUBSET Entry
      OBVIOUS
    <2> HIDE DEF todo
    <2> QED
      BY <1>3, <2>1, <2>2, UnmodifiedTyped, WritesGoes
  <1>5. TxGood(new, HeldBy(p), LockedBy(p)', When) /\ TxChained(new, Ver)
    <2>1. HeldBy(p) \in SUBSET Batches /\ Ver \in [Items -> Nat] /\ When \in [Batches -> Nat]
      BY TablesTyped DEF BatchesInv
    <2> HIDE DEF new, todo
    <2> QED
      BY <1>3, <1>4, <2>1, RowBlank DEF Goes
  <1>6. lock \in [Items -> Procs \cup {NoOwner}] /\ faults \in 0 .. MaxFaults
    BY DEF BatchesInv, TablesTypeOK
  <1>7. InnerStep(p, new)
    <2> HIDE DEF new
    <2> QED
      BY <1>4, <1>5, <1>6 DEF InnerStep, Postpone
  <1> QED
    BY <1>7, InnerKeeps

\* The change of an item is the next of the chain unless its object is stale.
LEMMA AppliedFacts ==
    ASSUME BatchesInv, NEW p \in Procs, NEW i \in Items, AtHand(p) \in Batches,
           Own(p, i) = On(Done(tx[p]), i)
    PROVE  LET entry == Applied(p, i)
               b == AtHand(p)
           IN /\ entry \in Entry
              /\ entry.batch = b /\ entry.item = i /\ entry.result = "succeeded"
              /\ ~ entry.stale /\ Kind[b] # "promote" => (entry.online <=> Kind[b] = "restore")
              /\ ~ entry.stale /\ Kind[b] # "promote" /\ Fine(On(Done(tx[p]), i)) =>
                     /\ entry.before = Ver[i] + Cardinality(On(Done(tx[p]), i))
                     /\ entry.after = entry.before + 1
  <1> DEFINE b == AtHand(p)
             old == Object(p, i)
             new == Changed(b, old)
             entry == Applied(p, i)
  <1>1. old \in ItemRow /\ Row(p, i) \in ItemRow
    BY RowTyped
  <1>2. Kind[b] # "promote" => new.online = (Kind[b] = "restore") /\ new.version = old.version + 1
    BY DEF Changed
  <1>3. new \in ItemRow
    BY <1>1 DEF Changed, ItemRow
  <1>4. /\ entry.batch = b /\ entry.item = i /\ entry.result = "succeeded"
        /\ entry.before = old.version /\ entry.after = new.version
        /\ entry.online = IF new.online = old.online THEN Row(p, i).online ELSE new.online
        /\ entry.stale = (old # Row(p, i))
    BY DEF Applied
  <1>5. entry \in Entry
    BY <1>1, <1>3 DEF Applied, Entry, ItemRow
  <1>6. ASSUME ~ entry.stale, Kind[b] # "promote"
        PROVE  entry.online <=> Kind[b] = "restore"
    <2>1. old = Row(p, i)
      BY <1>4, <1>6
    <2>2. entry.online = new.online
      BY <1>4, <2>1
    <2> QED
      BY <1>2, <1>6, <2>2
  <1>7. ASSUME ~ entry.stale, Kind[b] # "promote", Fine(On(Done(tx[p]), i))
        PROVE  /\ entry.before = Ver[i] + Cardinality(On(Done(tx[p]), i))
               /\ entry.after = entry.before + 1
    <2>1. old = Row(p, i)
      BY <1>4, <1>7
    <2>2. Row(p, i).version = Ver[i] + Cardinality(On(Done(tx[p]), i))
      BY <1>7, RowAtEnd
    <2> QED
      BY <1>2, <1>4, <1>7, <2>1, <2>2
  <1> QED
    BY <1>4, <1>5, <1>6, <1>7

LEMMA ApplyKeeps == ASSUME BatchesInv, NEW p \in Procs, ApplyItem(p) PROVE BatchesInv'
  <1> DEFINE b == AtHand(p)
             i == First(ToApply(p))
             entry == Applied(p, i)
             log == tx[p].log \cup {entry}
             todo == IF ToApply(p) = {i} THEN Rest(p) ELSE tx[p].todo
             new == tx'[p]
  <1>1. tx[p].phase = "working" /\ ToLock(p) = {}
    BY DEF ApplyItem, Ready
  <1>2. /\ b \in tx[p].todo /\ b \in Batches /\ \A c \in tx[p].todo \ {b} : Sooner(b, c, When)
        /\ TxGood(tx[p], HeldBy(p), LockedBy(p), When) /\ TxChained(tx[p], Ver)
        /\ Wants(p) = Targets[b] /\ Wants(p) \in SUBSET Items
        /\ HeldBy(p) \in SUBSET Batches /\ Ver \in [Items -> Nat] /\ When \in [Batches -> Nat]
    BY <1>1, AtHandFacts
  <1>3. ToApply(p) = {k \in Targets[b] : \A e \in Of(tx[p].log, b) : e.item # k}
    BY <1>2 DEF ToApply, Of
  <1>4. ToApply(p) # {} /\ ToApply(p) \in SUBSET Items
    BY <1>2, <1>3 DEF TxGood, Part
  <1>5. i \in ToApply(p)
    BY <1>4, FirstIn
  <1>6. i \in Targets[b] /\ i \in Items /\ i \in LockedBy(p) /\ \A e \in Of(tx[p].log, b) : e.item # i
    BY <1>1, <1>2, <1>3, <1>4, <1>5 DEF ToLock, LockedBy
  <1>7. Own(p, i) = On(Done(tx[p]), i)
    <2> SUFFICES ASSUME NEW e \in tx[p].log, e.item = i PROVE e.batch \notin tx[p].todo
      BY DEF Own, On, Done, Changes, Succeeded
    <2>1. \A c \in tx[p].todo \ {b} : Of(tx[p].log, c) = {}
      <3> HIDE DEF b
      <3> QED
        BY <1>2, OthersUnstarted
    <2> QED
      BY <1>6, <2>1 DEF Of
  <1>8. /\ entry \in Entry
        /\ entry.batch = b /\ entry.item = i /\ entry.result = "succeeded"
        /\ ~ entry.stale /\ Kind[b] # "promote" => (entry.online <=> Kind[b] = "restore")
        /\ ~ entry.stale /\ Kind[b] # "promote" /\ Fine(On(Done(tx[p]), i)) =>
               /\ entry.before = Ver[i] + Cardinality(On(Done(tx[p]), i))
               /\ entry.after = entry.before + 1
    <2> HIDE DEF i
    <2> QED
      BY <1>2, <1>6, <1>7, AppliedFacts
  <1>9. todo = LeftAfter(tx[p], b, i)
    <2>1. ToApply(p) = {i} <=> \A k \in Targets[b] : k = i \/ \E e \in Of(tx[p].log, b) : e.item = k
      BY <1>3, <1>5
    <2> QED
      BY <2>1 DEF LeftAfter, Rest
  <1>10. Goes(new, log, todo) /\ tx' = [tx EXCEPT ![p] = new]
    <2>1. \/ Writes(p, log, todo, Modified(p))
          \/ Writes(p, log, todo, tx[p].objects)
      BY DEF ApplyItem, Continue
    <2>2. log \in SUBSET Entry /\ todo \in SUBSET Batches
      BY <1>2, <1>8 DEF TxGood, TxRow, Rest
    <2>3. Modified(p) \in [Items -> ItemRow \cup {NoObject}]
      <3>1. \A k \in Items : Changed(b, Object(p, k)) \in ItemRow
        BY RowTyped DEF Changed, ItemRow
      <3> QED
        BY <3>1 DEF Modified
    <2>4. tx[p].objects \in [Items -> ItemRow \cup {NoObject}]
      BY UnmodifiedTyped
    <2> HIDE DEF log, todo
    <2> QED
      BY <2>1, <2>2, <2>3, <2>4, WritesGoes
  <1>11. TxGood(new, HeldBy(p), LockedBy(p), When)
    <2> HIDE DEF b, i, entry, todo, new
    <2> QED
      BY <1>2, <1>6, <1>8, <1>9, <1>10, RowApplies
  <1>12. TxChained(new, Ver)
    <2> HIDE DEF b, i, entry, todo, new
    <2> QED
      BY <1>2, <1>6, <1>8, <1>9, <1>10, AppliesChained
  <1>13. lock \in [Items -> Procs \cup {NoOwner}] /\ faults \in 0 .. MaxFaults /\ LockedBy(p)' = LockedBy(p)
    BY DEF BatchesInv, TablesTypeOK, LockedBy, ApplyItem
  <1>14. InnerStep(p, new)
    <2> HIDE DEF new
    <2> QED
      BY <1>10, <1>11, <1>12, <1>13 DEF InnerStep, ApplyItem
  <1> QED
    BY <1>14, InnerKeeps

\* Locking rules leaves what the transaction has written and holds.
LEMMA LockRulesKeeps == ASSUME BatchesInv, NEW p \in Procs, LockRules(p) PROVE BatchesInv'
  <1> DEFINE new == tx'[p]
             free == {b \in Batches : rule[b] = "active" /\ \A q \in Runners : b \notin tx[q].rules}
  <1>1. /\ tx \in [Procs -> TxRow] /\ tx[p] \in TxRow /\ tx[p].phase = "reconciling"
        /\ TxGood(tx[p], HeldBy(p), LockedBy(p), When) /\ TxChained(tx[p], Ver)
    BY DEF BatchesInv, TxInv, LockRules
  <1>2. tx' = [tx EXCEPT ![p] = [tx[p] EXCEPT !.phase = "closing", !.rules = free]]
    BY <1>1 DEF LockRules
  <1>3. new = [tx[p] EXCEPT !.phase = "closing", !.rules = free] /\ tx' = [tx EXCEPT ![p] = new]
    BY <1>1, <1>2
  <1>4. free \in SUBSET Batches
    OBVIOUS
  <1>5. /\ new \in TxRow /\ new.log = tx[p].log /\ new.todo = tx[p].todo /\ new.phase = "closing"
    <2> HIDE DEF free, new
    <2> QED
      BY <1>1, <1>3, <1>4 DEF TxRow
  <1>6. TxGood(new, HeldBy(p), LockedBy(p), When)
    <2> HIDE DEF new
    <2> QED
      BY <1>1, <1>5 DEF TxGood
  <1>7. TxChained(new, Ver)
    <2>1. Done(new) = Done(tx[p])
      BY <1>5 DEF Done
    <2> HIDE DEF new
    <2> QED
      BY <1>1, <1>5, <2>1 DEF TxChained
  <1>8. lock \in [Items -> Procs \cup {NoOwner}] /\ faults \in 0 .. MaxFaults /\ LockedBy(p)' = LockedBy(p)
    BY DEF BatchesInv, TablesTypeOK, LockedBy, LockRules
  <1>9. InnerStep(p, new)
    <2> HIDE DEF new
    <2> QED
      BY <1>3, <1>6, <1>7, <1>8 DEF InnerStep, LockRules
  <1> QED
    BY <1>9, InnerKeeps

LEMMA BeginsKeep ==
    ASSUME BatchesInv, (\E q \in Requests : Request(q)) \/ (\E r \in Runners : BeginRun(r))
    PROVE  BatchesInv'
  <1>1. clock \in Nat /\ MaxStart \in Nat
    BY BatchConstants DEF BatchesInv, TablesTypeOK
  <1>2. ASSUME NEW q \in Requests, NEW b \in Batches, NEW start \in 0 .. MaxStart, BeginRequest(q, b, start)
        PROVE  BatchesInv'
    <2> DEFINE new == Opening("working", {b}, clock, start)
    <2>1. holder' = [c \in Batches |-> IF c \in {b} THEN q ELSE holder[c]]
      BY <1>2 DEF BeginRequest, BatchesInv, TablesTypeOK
    <2>2. new \in TxRow /\ new.log = {} /\ new.todo = {b} /\ new.phase = Working(q, {b})
      BY <1>1, OpeningTyped DEF Working
    <2>3. \A c \in {b} : c \in Batches /\ holder[c] = NoOwner /\ Open(c)
      BY <1>2 DEF BeginRequest, Insertable, Open
    <2>4. BeginStep(q, {b}, new)
      <3>1. tx' = [tx EXCEPT ![q] = new]
        BY <1>2 DEF BeginRequest
      <3> HIDE DEF new
      <3> QED
        BY <1>2, <2>1, <2>2, <2>3, <3>1 DEF BeginRequest, BeginStep
    <2> QED
      BY <2>4, BeginKeeps DEF Procs
  <1>3. ASSUME NEW r \in Runners, BeginRun(r)
        PROVE  BatchesInv'
    <2> DEFINE new == Opening(Working(r, Due), Due, clock, 0)
    <2>1. new \in TxRow /\ new.log = {} /\ new.todo = Due /\ new.phase = Working(r, Due)
      <3>1. Due \in SUBSET Batches /\ 0 \in 0 .. MaxStart
        BY <1>1 DEF Due
      <3>2. Working(r, Due) \in {"idle", "working", "reconciling", "closing"}
        BY DEF Working
      <3> QED
        BY <1>1, <3>1, <3>2 DEF Opening, TxRow
    <2>2. \A c \in Due : c \in Batches /\ holder[c] = NoOwner /\ Open(c)
      BY DEF Due, Open
    <2>3. BeginStep(r, Due, new)
      <3>1. tx' = [tx EXCEPT ![r] = new]
        BY <1>3 DEF BeginRun
      <3> HIDE DEF new
      <3> QED
        BY <1>3, <2>1, <2>2, <3>1 DEF BeginRun, BeginStep
    <2> QED
      BY <2>3, BeginKeeps DEF Procs
  <1> QED
    BY <1>2, <1>3 DEF Request

-----------------------------------------------------------------------------
(* Commit                                                                   *)

LEMMA UnionParts ==
    ASSUME NEW A, NEW B
    PROVE  /\ \A b : Of(A \cup B, b) = Of(A, b) \cup Of(B, b)
           /\ \A i : On(A \cup B, i) = On(A, i) \cup On(B, i)
  BY DEF Of, On, Changes, Succeeded

\* The outcome of a batch the transaction is through with
LEMMA OutcomeOfWhole ==
    ASSUME NEW p \in Procs, NEW b \in Batches
    PROVE  /\ Of(tx[p].log, b) = {} => Outcome(p, b) = "scheduled"
           /\ \A r \in {"succeeded", "failed"} : Whole(tx[p].log, b, r) => Outcome(p, b) = r
  <1> DEFINE own == Of(tx[p].log, b)
             results == {e.result : e \in own}
  <1>1. Outcome(p, b) = IF "failed" \in results THEN "failed"
                        ELSE IF "succeeded" \in results THEN "succeeded" ELSE "scheduled"
    BY DEF Outcome, Of
  <1>2. own = {} => Outcome(p, b) = "scheduled"
    BY <1>1
  <1>3. ASSUME NEW r \in {"succeeded", "failed"}, Whole(tx[p].log, b, r)
        PROVE  Outcome(p, b) = r
    <2>1. Targets[b] # {}
      BY BatchConstants
    <2>2. own # {} /\ \A e \in own : e.result = r
      BY <1>3, <2>1 DEF Whole
    <2>3. results = {r}
      BY <2>2
    <2> HIDE DEF results
    <2> QED
      BY <1>1, <2>3
  <1> QED
    BY <1>2, <1>3

LEMMA CommitItem ==
    ASSUME BatchesInv, NEW p \in Procs, Commit(p), NEW i \in Items
    PROVE  ItemAudited(i)' /\ item'[i] \in ItemRow /\ (lock[i] # p => item'[i].version = item[i].version)
  <1> DEFINE old == On(audit, i)
             own == On(tx[p].log, i)
             v == item[i].version
             w == item'[i].version
  <1>1. /\ TxGood(tx[p], HeldBy(p), LockedBy(p), When) /\ TxChained(tx[p], Ver)
        /\ item[i] \in ItemRow /\ v \in Nat /\ Ver[i] = v
    BY TablesTyped DEF BatchesInv, TxInv, TablesTypeOK, ItemRow
  <1>2. item'[i] = Row(p, i) /\ audit' = audit \cup tx[p].log
    BY DEF Commit
  <1>3. item'[i] \in ItemRow
    BY <1>2, RowTyped
  <1>4. Done(tx[p]) = tx[p].log
    <2>1. tx[p].todo = {}
      BY <1>1 DEF TxGood, Commit
    <2> QED
      BY <2>1 DEF Done
  <1>5. Own(p, i) = own /\ On(audit', i) = old \cup own
    <2>1. Own(p, i) = own
      BY DEF Own, On
    <2>2. On(audit \cup tx[p].log, i) = old \cup own
      BY DEF On, Changes, Succeeded
    <2> QED
      BY <1>2, <2>1, <2>2
  <1>6. lock[i] # p => own = {}
    BY <1>1 DEF TxGood, On, LockedBy
  <1>7. own = {} => item'[i] = item[i]
    BY <1>2, <1>5 DEF Row
  <1>8. ASSUME Fine(old \cup own)
        PROVE  /\ Chain(old \cup own, 0, w)
               /\ \A e \in old \cup own : e.after = w => (item'[i].online <=> Kind[e.batch] = "restore")
    <2>1. Fine(old) /\ Fine(own)
      BY <1>8 DEF Fine
    <2>2. Chain(old, 0, v) /\ \A e \in old : e.after = v => (item[i].online <=> Kind[e.batch] = "restore")
      BY <2>1 DEF BatchesInv, AuditInv, ItemAudited
    <2>3. w = v + Cardinality(own)
      BY <1>1, <1>2, <1>4, <1>5, <2>1, RowAtEnd
    <2>4. Chain(own, v, w)
      BY <1>1, <1>4, <2>1, <2>3 DEF TxChained, Linked
    <2>5. Chain(old \cup own, 0, w)
      <3> HIDE DEF old, own, v, w
      <3> QED
        BY <2>2, <2>4, ChainsJoin
    <2>6. ASSUME NEW e \in old \cup own, e.after = w
          PROVE  item'[i].online <=> Kind[e.batch] = "restore"
      <3>1. CASE own = {}
        <4>1. item'[i] = item[i] /\ e \in old
          BY <1>7, <3>1
        <4> QED
          BY <2>2, <2>6, <4>1
      <3>2. CASE own # {}
        <4> DEFINE last == LastOf(own)
        <4>1. last \in own /\ last.after = w
          <5> HIDE DEF own, v, w
          <5> QED
            BY <2>4, <3>2, ChainEnd
        <4>2. w \in v + 1 .. w /\ w \in Nat
          BY <2>4, <4>1 DEF Chain
        <4>3. \A f \in old : f.after \in 0 + 1 .. v
          BY <2>2 DEF Chain
        <4>4. e \in own
          BY <1>1, <2>6, <4>2, <4>3
        <4>5. e = last
          BY <2>4, <2>6, <4>1, <4>4 DEF Chain
        <4>6. item'[i].online = last.online
          BY <1>2, <1>5, <3>2 DEF Row
        <4>7. last.online <=> Kind[last.batch] = "restore"
          BY <1>1, <2>1, <4>1 DEF TxChained, On, Fine
        <4> QED
          BY <4>5, <4>6, <4>7
      <3> QED
        BY <3>1, <3>2
    <2> QED
      BY <2>5, <2>6
  <1>9. ItemAudited(i)'
    BY <1>5, <1>8 DEF ItemAudited
  <1> QED
    BY <1>3, <1>6, <1>7, <1>9

LEMMA CommitBatch ==
    ASSUME BatchesInv, NEW p \in Procs, Commit(p), NEW b \in Batches
    PROVE  /\ batch'[b] \in BatchRow
           /\ holder[b] # p => batch'[b] = batch[b]
           /\ Open(b)' => Of(audit', b) = {}
           /\ ~ Open(b)' => Whole(audit', b, batch'[b].status)
           /\ holder'[b] # NoOwner => Open(b)'
  <1>1. /\ TxGood(tx[p], HeldBy(p), LockedBy(p), When) /\ tx[p].todo = {}
        /\ batch[b] \in BatchRow /\ batch \in [Batches -> BatchRow]
    BY DEF BatchesInv, TxInv, TxGood, TablesTypeOK, Commit
  <1>2. audit' = audit \cup tx[p].log /\ batch'[b] = IF holder[b] = p THEN RowAfter(p, b) ELSE batch[b]
    BY DEF Commit
  <1>3. Of(audit', b) = Of(audit, b) \cup Of(tx[p].log, b)
    BY <1>2, UnionParts
  <1>4. holder'[b] = IF holder[b] = p THEN NoOwner ELSE holder[b]
    BY DEF Commit, Release
  <1>5. CASE holder[b] # p
    <2>1. Of(tx[p].log, b) = {}
      BY <1>1, <1>5 DEF TxGood, Of, HeldBy
    <2>2. Of(audit', b) = Of(audit, b) /\ batch'[b] = batch[b] /\ holder'[b] = holder[b]
      BY <1>2, <1>3, <1>4, <1>5, <2>1
    <2> QED
      BY <1>1, <2>2 DEF BatchesInv, AuditInv, Open, Whole
  <1>6. CASE holder[b] = p
    <2>1. Open(b) /\ Of(audit, b) = {}
      BY <1>6, NotOwned DEF BatchesInv, AuditInv
    <2>2. Of(audit', b) = Of(tx[p].log, b) /\ batch'[b] = RowAfter(p, b) /\ holder'[b] = NoOwner
      BY <1>2, <1>3, <1>4, <1>6, <2>1
    <2>3. \/ Of(tx[p].log, b) = {}
          \/ \E r \in {"succeeded", "failed"} : Whole(tx[p].log, b, r)
      BY <1>1, <1>6 DEF TxGood, HeldBy
    <2>4. Outcome(p, b) \in {"scheduled", "succeeded", "failed"}
      BY DEF Outcome
    <2>5. batch'[b] \in BatchRow /\ batch'[b].status = Outcome(p, b)
      <3>1. tx[p].start \in 0 .. MaxStart
        BY <1>1 DEF TxGood, TxRow
      <3>2. [i \in Items |-> item[i].version] \in [Items -> Nat]
        BY DEF BatchesInv, TablesTypeOK, ItemRow
      <3>3. CASE p \in Requests
        BY <2>2, <2>4, <3>1, <3>2, <3>3 DEF RowAfter, BatchRow
      <3>4. CASE p \notin Requests
        BY <1>1, <2>2, <2>4, <3>4 DEF RowAfter, BatchRow
      <3> QED
        BY <3>3, <3>4
    <2>6. CASE Of(tx[p].log, b) = {}
      <3>1. Outcome(p, b) = "scheduled"
        BY <2>6, OutcomeOfWhole
      <3> QED
        BY <1>6, <2>2, <2>5, <2>6, <3>1 DEF Open
    <2>7. CASE \E r \in {"succeeded", "failed"} : Whole(tx[p].log, b, r)
      <3>1. PICK r \in {"succeeded", "failed"} : Whole(tx[p].log, b, r)
        BY <2>7
      <3>2. Outcome(p, b) = r
        BY <3>1, OutcomeOfWhole
      <3>3. Whole(audit', b, r)
        BY <2>2, <3>1 DEF Whole
      <3> QED
        BY <1>6, <2>2, <2>5, <3>2, <3>3 DEF Open
    <2> QED
      BY <2>3, <2>6, <2>7
  <1> QED
    BY <1>5, <1>6

LEMMA CommitKeeps == ASSUME BatchesInv, NEW p \in Procs, Commit(p) PROVE BatchesInv'
  <1>1. /\ TxGood(tx[p], HeldBy(p), LockedBy(p), When)
        /\ tx[p].log \subseteq Entry /\ IsFiniteSet(tx[p].log)
    BY DEF BatchesInv, TxInv, TxGood, TxRow
  <1>2. audit' = audit \cup tx[p].log
    BY DEF Commit
  <1>3. TablesTypeOK'
    <2>1. item' \in [Items -> ItemRow]
      <3>1. item' = [i \in Items |-> Row(p, i)]
        BY DEF Commit
      <3> QED
        BY <3>1, RowTyped
    <2>2. batch' \in [Batches -> BatchRow]
      <3>1. batch' = [b \in Batches |-> IF holder[b] = p THEN RowAfter(p, b) ELSE batch[b]]
        BY DEF Commit
      <3>2. \A b \in Batches : batch'[b] \in BatchRow
        BY CommitBatch
      <3> QED
        BY <3>1, <3>2
    <2>3. audit' \subseteq Entry
      BY <1>1, <1>2 DEF BatchesInv, TablesTypeOK
    <2>4. rule' \in [Batches -> {"none", "active", "expired"}]
      <3>1. rule' = [b \in Batches |-> RuleAfter(p, b)]
        BY DEF Commit
      <3>2. \A b \in Batches : RuleAfter(p, b) \in {"none", "active", "expired"}
        BY DEF RuleAfter, BatchesInv, TablesTypeOK
      <3> QED
        BY <3>1, <3>2
    <2>5. lock' \in [Items -> Procs \cup {NoOwner}] /\ holder' \in [Batches -> Procs \cup {NoOwner}]
      BY DEF BatchesInv, TablesTypeOK, Commit, Release
    <2> QED
      BY <2>1, <2>2, <2>3, <2>4, <2>5 DEF BatchesInv, TablesTypeOK, Commit
  <1>4. AuditInv'
    <2>1. IsFiniteSet(audit')
      BY <1>1, <1>2, FS_Union DEF BatchesInv, AuditInv
    <2>2. OneOfEach(audit')
      <3>1. ASSUME NEW e \in audit, NEW f \in tx[p].log PROVE e.batch # f.batch
        <4>1. f.batch \in Batches /\ holder[f.batch] = p
          BY <1>1 DEF TxGood, HeldBy
        <4>2. Of(audit, f.batch) = {}
          BY <4>1, NotOwned DEF BatchesInv, AuditInv
        <4> QED
          BY <4>2 DEF Of
      <3>2. OneOfEach(audit) /\ OneOfEach(tx[p].log)
        BY <1>1 DEF BatchesInv, AuditInv, TxGood
      <3> QED
        BY <1>2, <3>1, <3>2 DEF OneOfEach
    <2>3. \A i \in Items : ItemAudited(i)'
      BY CommitItem
    <2>4. \A b \in Batches :
             /\ Open(b)' => Of(audit', b) = {}
             /\ ~ Open(b)' => Whole(audit', b, batch'[b].status)
             /\ holder'[b] # NoOwner => Open(b)'
      BY CommitBatch
    <2> QED
      BY <2>1, <2>2, <2>3, <2>4 DEF AuditInv
  <1>5. TxInv'
    <2>1. \A i \in Items : lock[i] # p => item'[i].version = item[i].version
      BY CommitItem
    <2>2. \A b \in Batches : holder[b] # p => batch'[b].start = batch[b].start
      BY CommitBatch
    <2>3. Release(p)
      BY DEF Commit
    <2> QED
      BY <1>3, <2>1, <2>2, <2>3, ReleaseRows
  <1> QED
    BY <1>3, <1>4, <1>5 DEF BatchesInv

-----------------------------------------------------------------------------

LEMMA InitBatches == BatchesInit => BatchesInv
  <1> SUFFICES ASSUME BatchesInit PROVE BatchesInv
    OBVIOUS
  <1>1. TablesTypeOK
    BY BatchConstants DEF BatchesInit, TablesTypeOK, BatchRow, ItemRow
  <1>2. \A c : Of({}, c) = {} /\ On({}, c) = {}
    BY DEF Of, On, Changes, Succeeded
  <1>3. Chain({}, 0, 0)
    <2>1. Cardinality({}) = 0 /\ 0 + Cardinality({}) = 0
      BY FS_EmptySet
    <2> QED
      BY <2>1, EmptyChain
  <1>4. AuditInv
    BY <1>2, <1>3, FS_EmptySet DEF BatchesInit, AuditInv, ItemAudited, Open, OneOfEach
  <1>5. NoTx \in TxRow /\ NoTx.log = {} /\ NoTx.todo = {} /\ NoTx.phase = "idle"
    BY NoTxTyped
  <1>6. Ver \in [Items -> Nat] /\ When \in [Batches -> Nat]
    BY <1>1, TablesTyped
  <1>7. \A p \in Procs : HeldBy(p) = {} /\ tx[p] = NoTx
    BY NotOwned DEF BatchesInit, HeldBy
  <1>8. \A p \in Procs : TxGood(NoTx, {}, LockedBy(p), When) /\ TxChained(NoTx, Ver)
    BY <1>5, <1>6, RowBlank
  <1>9. tx \in [Procs -> TxRow]
    BY <1>5 DEF BatchesInit
  <1> QED
    BY <1>1, <1>4, <1>7, <1>8, <1>9 DEF BatchesInv, TxInv

LEMMA NextBatches == BatchesInv /\ [BatchesNext]_batchVars => BatchesInv'
  <1> SUFFICES ASSUME BatchesInv, [BatchesNext]_batchVars PROVE BatchesInv'
    OBVIOUS
  <1>1. faults \in 0 .. MaxFaults /\ MaxFaults \in Nat
    BY BatchConstants DEF BatchesInv, TablesTypeOK
  <1>2. ASSUME NEW p \in Procs, Step(p) PROVE BatchesInv'
    <2>1. CASE Conflict(p)
      BY <1>1, <2>1, FailKeeps DEF Conflict, Ready
    <2>2. CASE DeadlockVictim(p)
      <3>1. tx[p].phase = "working"
        BY <2>2 DEF DeadlockVictim, Deadlocked, Waits, ToLock, Wants
      <3> QED
        BY <1>1, <2>2, <3>1, FailKeeps DEF DeadlockVictim
    <2> QED
      BY <1>2, <2>1, <2>2, LockKeeps, PostponeKeeps, ApplyKeeps, LockRulesKeeps, CommitKeeps
      DEF Step
  <1>3. ASSUME NEW p \in Procs, Raises(p) PROVE BatchesInv'
    <2>1. faults' \in 0 .. MaxFaults
      BY <1>1, <1>3 DEF Raises
    <2> QED
      BY <1>3, <2>1, FailKeeps DEF Raises
  <1>4. CASE ClockTicks \/ UNCHANGED batchVars
    <2>1. clock' \in 0 .. MaxClock
      BY <1>4, BatchConstants DEF ClockTicks, batchVars, BatchesInv, TablesTypeOK
    <2>2. UNCHANGED <<item, batch, audit, rule, lock, holder, tx, faults>>
      BY <1>4 DEF ClockTicks, batchVars
    <2>3. TablesTypeOK' /\ AuditInv'
      BY <2>1, <2>2 DEF BatchesInv, TablesTypeOK, AuditInv, ItemAudited, Open
    <2>4. Ver' = Ver /\ When' = When /\ \A p : HeldBy(p)' = HeldBy(p) /\ LockedBy(p)' = LockedBy(p)
      BY <2>2 DEF Ver, When, HeldBy, LockedBy
    <2> QED
      BY <2>2, <2>3, <2>4 DEF BatchesInv, TxInv
  <1> QED
    BY <1>2, <1>3, <1>4, BeginsKeep, AbortKeeps DEF BatchesNext

LEMMA BatchesInvariance == BatchesSpec => []BatchesInv
  <1> QED
    BY InitBatches, NextBatches, PTL DEF BatchesSpec

\* Every reachable state is well typed.
THEOREM BatchesTypeCorrect == BatchesSpec => []BatchesTypeOK
  <1>1. BatchesInv => BatchesTypeOK
    BY DEF BatchesInv, TablesTypeOK, TxInv, BatchesTypeOK
  <1> QED
    BY <1>1, BatchesInvariance, PTL

\* A batch is applied to all of its targets or to none, and the audit says so.
THEOREM BatchesAtomic == BatchesSpec => []AllOrNone
  <1>1. BatchesInv => AllOrNone
    <2> SUFFICES ASSUME BatchesInv, NEW b \in Batches
                 PROVE  /\ batch[b].status \in {"succeeded", "failed"} =>
                              /\ \A e \in Of(audit, b) : e.result = batch[b].status
                              /\ {e.item : e \in Of(audit, b)} = Targets[b]
                              /\ Cardinality(Of(audit, b)) = Cardinality(Targets[b])
                        /\ batch[b].status \in {"absent", "scheduled"} => Of(audit, b) = {}
      BY DEF AllOrNone, Of
    <2>1. CASE Open(b)
      BY <2>1 DEF BatchesInv, AuditInv, Open
    <2>2. CASE ~ Open(b)
      <3> DEFINE own == Of(audit, b)
                 f == [e \in own |-> e.item]
      <3>1. Whole(audit, b, batch[b].status) /\ OneOfEach(audit) /\ IsFiniteSet(audit)
        BY <2>2 DEF BatchesInv, AuditInv
      <3>2. IsFiniteSet(own)
        BY <3>1, FS_Subset DEF Of
      <3>3. f \in Bijection(own, Targets[b])
        <4>1. \A e, g \in own : e.item = g.item => e = g
          BY <3>1 DEF OneOfEach, Of
        <4>2. {e.item : e \in own} = Targets[b]
          BY <3>1 DEF Whole
        <4> QED
          BY <4>1, <4>2 DEF Bijection, Injection, Surjection, IsInjective
      <3>4. Cardinality(Targets[b]) = Cardinality(own)
        BY <3>2, <3>3, FS_Bijection DEF ExistsBijection
      <3> QED
        BY <2>2, <3>1, <3>4 DEF Whole, Open
    <2> QED
      BY <2>1, <2>2
  <1> QED
    BY <1>1, BatchesInvariance, PTL

\* The changes of an item are one chain: none is lost between two transactions, except where
\* a runner applied a batch to an object it still had from a batch that failed.
THEOREM VersionsChained == BatchesSpec => []VersionChain
  <1>1. BatchesInv => VersionChain
    <2> SUFFICES ASSUME BatchesInv, NEW i \in Items, ~ Overtaken(i)
                 PROVE  /\ {e.after : e \in On(audit, i)} = 1 .. item[i].version
                        /\ Cardinality(On(audit, i)) = item[i].version
                        /\ \A e \in On(audit, i) : e.before + 1 = e.after
                        /\ \A e \in On(audit, i) : e.after = item[i].version =>
                              (item[i].online <=> Kind[e.batch] = "restore")
      BY DEF VersionChain, On
    <2>1. /\ Chain(On(audit, i), 0, item[i].version)
          /\ \A e \in On(audit, i) : e.after = item[i].version => (item[i].online <=> Kind[e.batch] = "restore")
      BY DEF BatchesInv, AuditInv, ItemAudited, Fine, Overtaken, On
    <2>2. Cardinality(On(audit, i)) \in Nat /\ item[i].version = 0 + Cardinality(On(audit, i))
      BY <2>1, FS_CardinalityType DEF Chain
    <2>3. /\ \A e \in On(audit, i) : e.after \in 0 + 1 .. item[i].version
          /\ \A n \in 0 + 1 .. item[i].version : \E e \in On(audit, i) : e.after = n
          /\ \A e \in On(audit, i) : e.before + 1 = e.after
      BY <2>1 DEF Chain
    <2>4. {e.after : e \in On(audit, i)} = 0 + 1 .. item[i].version
      BY <2>3
    <2> QED
      BY <2>1, <2>2, <2>3, <2>4
  <1> QED
    BY <1>1, BatchesInvariance, PTL
=============================================================================
