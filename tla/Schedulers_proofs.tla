-------------------------- MODULE Schedulers_proofs --------------------------
(***************************************************************************)
(* Proofs about what several scheduler processes do at a time: delivery of *)
(* the outbox, for any number of messages, dispatchers and tokens, and the *)
(* evaluation of alerts, for any number of rules, schedulers and operators.*)
(*                                                                         *)
(* A message is accounted for by its own row and by the claims on it.  A   *)
(* step of the alerts changes the occurrences of one rule at most, by      *)
(* adding one or replacing one, so that proof is first about one rule's    *)
(* rows.                                                                   *)
(***************************************************************************)
EXTENDS Alerts, AsyncOutbox, NaturalsInduction, WellFoundedInduction, TLAPS

(* The outbox *)

ClaimsOn(d, m) == {c \in claims[d] : c.message = m}

\* At the current claim of d the sink has returned.
Sent(d, c) == outcome[d] = "sent" /\ c = Current(d)

Raised(d, c) == outcome[d] = "raised" /\ c = Current(d)

RunInv(d) ==
    /\ \A c1, c2 \in claims[d] : c1.message = c2.message => c1 = c2
    /\ claims[d] = {} => outcome[d] = "unsent"
    /\ \A c \in claims[d] : Sent(d, c) => reached[c.message] > 0
    /\ \A c \in claims[d] : Raised(d, c) => disturbed[c.message]

\* What is known of a message whose lease has never run out and for which the sink has
\* never raised: a claim on it is the only one and holds the row.
QuietInv(m) ==
    /\ ~ row[m].lapsed
    /\ reached[m] <= 1
    /\ row[m].status \in {"absent", "pending"} => reached[m] = 0
    /\ \A d \in Dispatchers : \A c \in claims[d] : c.message = m =>
          /\ row[m].status = "delivering"
          /\ row[m].token = c.token
          /\ ~ Sent(d, c) => reached[m] = 0
    /\ \A d, e \in Dispatchers : ClaimsOn(d, m) # {} /\ ClaimsOn(e, m) # {} => d = e

OutboxInv ==
    /\ TypeOK
    /\ \A d \in Dispatchers : RunInv(d)
    /\ \A m \in Messages : row[m].status = "published" => reached[m] > 0
    /\ \A m \in Messages : ~ disturbed[m] => QuietInv(m)

\* The current claim of a run that has one
LEMMA CurrentIsClaim ==
    ASSUME TypeOK, NEW d \in Dispatchers, claims[d] # {}
    PROVE  Current(d) \in claims[d]
<1> DEFINE T == {c.message : c \in claims[d]}
<1>1. claims[d] \subseteq OutboxClaim
  BY DEF TypeOK
<1>2. T \subseteq Nat /\ T # {}
  BY <1>1, OutboxConstants DEF OutboxClaim
<1>3. PICK x \in T : \A y \in T : ~ (<<y, x>> \in OpToRel(<, Nat))
  <2> HIDE DEF T
  <2> QED BY <1>2, NatLessThanWellFounded, WFMin
<1>4. ASSUME NEW y \in T PROVE ~ (y < x)
  <2> HIDE DEF T
  <2> QED BY <1>2, <1>3 DEF OpToRel
<1>5. PICK c \in claims[d] : c.message = x
  OBVIOUS
<1>6. \A o \in claims[d] : c.message <= o.message
  BY <1>1, <1>2, <1>4, <1>5
<1> QED BY <1>6 DEF Current

-----------------------------------------------------------------------------
(* What a step does to one run and to one message *)

\* Nothing that is on record is taken back.
Grows ==
    \A m \in Messages :
        /\ reached[m] > 0 => reached'[m] > 0
        /\ disturbed[m] => disturbed'[m]

LEMMA OtherRun ==
    ASSUME TypeOK, Grows, NEW e \in Dispatchers, RunInv(e),
           claims'[e] = claims[e], outcome'[e] = outcome[e]
    PROVE  RunInv(e)'
<1>1. Current(e)' = Current(e)
  BY DEF Current
<1>2. \A c \in claims[e] : c.message \in Messages
  BY DEF TypeOK, OutboxClaim
<1> QED BY <1>1, <1>2 DEF RunInv, Grows, Sent, Raised

\* A run that goes on to its next claim, if there is one, or is given up.
LEMMA NextRun ==
    ASSUME NEW d \in Dispatchers, RunInv(d), claims'[d] \subseteq claims[d], outcome'[d] = "unsent"
    PROVE  RunInv(d)'
BY DEF RunInv, Sent, Raised

\* The claims that are left of a message are old ones, and no answer to them is forgotten.
Left(m) ==
    \A e \in Dispatchers : \A c \in claims'[e] :
        c.message = m => c \in claims[e] /\ (Sent(e, c) => Sent(e, c)')

LEMMA QuietKept ==
    ASSUME NEW m \in Messages, QuietInv(m), reached'[m] = reached[m], Left(m),
           row'[m].status = row[m].status \/ (row[m].status = "absent" /\ row'[m].status = "pending"),
           row[m].status = "delivering" => row'[m].token = row[m].token,
           row'[m].lapsed => row[m].lapsed
    PROVE  QuietInv(m)'
<1>1. \A e \in Dispatchers : \A c \in claims'[e] : c.message = m =>
          /\ row'[m].status = "delivering"
          /\ row'[m].token = c.token
          /\ ~ Sent(e, c)' => reached'[m] = 0
  BY DEF QuietInv, Left
<1>2. \A e \in Dispatchers : ClaimsOn(e, m)' # {} => ClaimsOn(e, m) # {}
  BY DEF Left, ClaimsOn
<1>3. \A d, e \in Dispatchers : ClaimsOn(d, m)' # {} /\ ClaimsOn(e, m)' # {} => d = e
  BY <1>2 DEF QuietInv
<1> QED BY <1>1, <1>3 DEF QuietInv

\* The runs stay as they are.
LEMMA StillRuns ==
    ASSUME UNCHANGED <<claims, outcome>>, NEW m \in Messages
    PROVE  Left(m)
BY DEF Left, Sent, Current

\* The run of d goes on from its current claim, or is given up.
LEMMA RunMoves ==
    ASSUME TypeOK, NEW d \in Dispatchers, RunInv(d), claims[d] # {},
           claims' = [claims EXCEPT ![d] = @ \ {Current(d)}] \/ claims' = [claims EXCEPT ![d] = {}],
           outcome' = [outcome EXCEPT ![d] = "unsent"]
    PROVE  /\ claims' \in [Dispatchers -> SUBSET OutboxClaim]
           /\ outcome' \in [Dispatchers -> {"unsent", "sent", "raised"}]
           /\ claims'[d] \subseteq claims[d] \ {Current(d)} /\ outcome'[d] = "unsent"
           /\ \A e \in Dispatchers : e # d => claims'[e] = claims[e] /\ outcome'[e] = outcome[e]
           /\ RunInv(d)'
           /\ \A m \in Messages : Left(m)
<1>1. /\ claims \in [Dispatchers -> SUBSET OutboxClaim]
      /\ outcome \in [Dispatchers -> {"unsent", "sent", "raised"}]
  BY DEF TypeOK
<1>2. claims'[d] \subseteq claims[d] \ {Current(d)} /\ outcome'[d] = "unsent"
  BY <1>1
<1>3. \A e \in Dispatchers : e # d => claims'[e] = claims[e] /\ outcome'[e] = outcome[e]
  BY <1>1
<1>4. ASSUME NEW m \in Messages, NEW e \in Dispatchers, NEW c \in claims'[e], c.message = m
      PROVE  c \in claims[e] /\ (Sent(e, c) => Sent(e, c)')
  <2>1. CASE e = d
    BY <1>2, <2>1 DEF Sent
  <2>2. CASE e # d
    BY <1>3, <2>2 DEF Sent, Current
  <2> QED BY <2>1, <2>2
<1>5. /\ claims' \in [Dispatchers -> SUBSET OutboxClaim]
      /\ outcome' \in [Dispatchers -> {"unsent", "sent", "raised"}]
  BY <1>1
<1> QED BY <1>2, <1>3, <1>4, <1>5, NextRun DEF Left

-----------------------------------------------------------------------------
(* One lemma for each kind of step *)

\* The queue adds a row, time passes.
LEMMA RowChanges ==
    ASSUME OutboxInv, NEW m \in Messages, AddStateOutbox(m) \/ RetryDelayEnds(m) \/ LeaseEnds(m)
    PROVE  OutboxInv'
<1>1. TypeOK /\ row[m] \in OutboxRow /\ row \in [Messages -> OutboxRow]
  BY DEF OutboxInv, TypeOK
<1>2. /\ UNCHANGED <<claims, outcome, crashes, reached>>
      /\ \A k \in Messages : k # m => row'[k] = row[k] /\ disturbed'[k] = disturbed[k]
      /\ disturbed' \in [Messages -> BOOLEAN] /\ (disturbed[m] => disturbed'[m])
  BY <1>1 DEF AddStateOutbox, RetryDelayEnds, LeaseEnds, TypeOK
<1>3. row' \in [Messages -> OutboxRow]
  <2>1. Pending(TRUE) \in OutboxRow
    BY DEF Pending, OutboxRow
  <2>2. CASE AddStateOutbox(m)
    BY <1>1, <2>1, <2>2 DEF AddStateOutbox
  <2>3. CASE RetryDelayEnds(m)
    BY <1>1, <2>3 DEF RetryDelayEnds, OutboxRow
  <2>4. CASE LeaseEnds(m)
    BY <1>1, <2>4 DEF LeaseEnds, OutboxRow
  <2> QED BY <2>2, <2>3, <2>4
<1>4. TypeOK'
  BY <1>1, <1>2, <1>3 DEF TypeOK
<1>5. /\ row'[m].status = "published" => row[m].status = "published"
      /\ ~ disturbed'[m] =>
            /\ row'[m].status = row[m].status \/ (row[m].status = "absent" /\ row'[m].status = "pending")
            /\ row[m].status = "delivering" => row'[m].token = row[m].token
            /\ row'[m].lapsed => row[m].lapsed
  BY <1>1 DEF AddStateOutbox, RetryDelayEnds, LeaseEnds, Pending, OutboxRow, TypeOK
<1>6. Grows
  BY <1>1, <1>2 DEF Grows
<1>7. \A d \in Dispatchers : RunInv(d)'
  BY <1>1, <1>2, <1>6, OtherRun DEF OutboxInv
<1>8. \A k \in Messages : row'[k].status = "published" => reached'[k] > 0
  BY <1>2, <1>5 DEF OutboxInv
<1>9. ASSUME NEW k \in Messages, ~ disturbed'[k] PROVE QuietInv(k)'
  <2>1. QuietInv(k) /\ Left(k)
    BY <1>2, <1>9, StillRuns DEF OutboxInv
  <2>2. CASE k = m
    BY <1>2, <1>5, <1>9, <2>1, <2>2, QuietKept
  <2>3. CASE k # m
    BY <1>2, <2>1, <2>3, QuietKept
  <2> QED BY <2>2, <2>3
<1> QED BY <1>4, <1>7, <1>8, <1>9 DEF OutboxInv

\* claim_outbox: a message that was left in peace is claimed only while nobody has a claim on it.
LEMMA ClaimKeepsOutbox ==
    ASSUME OutboxInv, NEW d \in Dispatchers, NEW unlocked \in SUBSET Messages, ClaimOutbox(d, unlocked)
    PROVE  OutboxInv'
<1> DEFINE B == Batch(unlocked)
           E == Expired(unlocked)
<1>1. PICK tok \in [B -> Tokens] :
         /\ claims' = [claims EXCEPT ![d] = {[message |-> m, token |-> tok[m]] : m \in B}]
         /\ row' = [m \in Messages |->
                        IF m \in B THEN Delivering(tok[m])
                        ELSE IF m \in E THEN Pending(TRUE) ELSE row[m]]
  <2>1. (CHOOSE f \in Fresh(unlocked) : TRUE) \in Fresh(unlocked)
    BY DEF ClaimOutbox
  <2>2. (CHOOSE f \in Fresh(unlocked) : TRUE) \in [B -> Tokens]
    BY <2>1 DEF Fresh, Injection
  <2> QED BY <2>2 DEF ClaimOutbox
<1>2. /\ UNCHANGED <<outcome, crashes, reached, disturbed>>
      /\ claims[d] = {} /\ outcome[d] = "unsent"
  BY DEF ClaimOutbox, Idle, OutboxInv, RunInv
<1>3. /\ claims \in [Dispatchers -> SUBSET OutboxClaim]
      /\ row \in [Messages -> OutboxRow]
      /\ TypeOK
  BY DEF OutboxInv, TypeOK
<1>4. /\ B \subseteq Messages
      /\ \A m \in B : (row[m].status = "pending") \/ (row[m].status = "delivering" /\ row[m].lapsed)
      /\ E \subseteq Messages /\ \A m \in E : row[m].lapsed
  BY DEF Batch, Claimable, Expired
<1> HIDE DEF B, E
<1> DEFINE New == {[message |-> m, token |-> tok[m]] : m \in B}
<1>5. New \subseteq OutboxClaim /\ \A c \in New : c.message \in B /\ c.token = tok[c.message]
  BY <1>4 DEF OutboxClaim
<1>6. \A c1, c2 \in New : c1.message = c2.message => c1 = c2
  OBVIOUS
<1>7. claims'[d] = New /\ \A e \in Dispatchers : e # d => claims'[e] = claims[e]
  BY <1>1, <1>3
<1>8. claims' \in [Dispatchers -> SUBSET OutboxClaim]
  BY <1>1, <1>3, <1>5
<1> HIDE DEF New
<1>9. \A m \in Messages :
         /\ m \in B => row'[m] = Delivering(tok[m])
         /\ m \notin B /\ m \in E => row'[m] = Pending(TRUE)
         /\ m \notin B /\ m \notin E => row'[m] = row[m]
  BY <1>1
<1>10. /\ \A t : /\ Delivering(t).status = "delivering" /\ Delivering(t).token = t
                  /\ Delivering(t).lapsed = FALSE
       /\ Pending(TRUE).status = "pending"
  BY DEF Delivering, Pending
<1>11. row' \in [Messages -> OutboxRow]
  <2>1. \A t \in Tokens : Delivering(t) \in OutboxRow
    BY DEF Delivering, OutboxRow
  <2>2. Pending(TRUE) \in OutboxRow
    BY DEF Pending, OutboxRow
  <2> QED BY <1>1, <1>3, <2>1, <2>2
<1>12. TypeOK'
  BY <1>2, <1>3, <1>8, <1>11 DEF TypeOK
<1>13. ASSUME NEW e \in Dispatchers PROVE RunInv(e)'
  <2>1. CASE e = d
    BY <1>2, <1>6, <1>7, <2>1 DEF RunInv, Sent, Raised
  <2>2. CASE e # d
    <3>1. Grows
      BY <1>2 DEF Grows
    <3> QED BY <1>2, <1>3, <1>7, <2>2, <3>1, OtherRun DEF OutboxInv
  <2> QED BY <2>1, <2>2
<1>14. ASSUME NEW m \in Messages, row'[m].status = "published" PROVE reached'[m] > 0
  <2>1. row'[m] = row[m]
    BY <1>9, <1>14, <1>10
  <2> QED BY <1>2, <1>14, <2>1 DEF OutboxInv
<1>15. ASSUME NEW m \in Messages, ~ disturbed'[m] PROVE QuietInv(m)'
  <2>1. QuietInv(m)
    BY <1>2, <1>15 DEF OutboxInv
  <2>2. CASE m \in B
    <3>1. row[m].status = "pending" /\ reached[m] = 0
      BY <1>4, <2>1, <2>2 DEF QuietInv
    <3>2. \A e \in Dispatchers : \A c \in claims[e] : c.message # m
      BY <2>1, <3>1 DEF QuietInv
    <3>3. row'[m].status = "delivering" /\ row'[m].token = tok[m] /\ row'[m].lapsed = FALSE
      <4>1. row'[m] = Delivering(tok[m])
        BY <1>9, <2>2
      <4>2. /\ Delivering(tok[m]).status = "delivering"
            /\ Delivering(tok[m]).token = tok[m] /\ Delivering(tok[m]).lapsed = FALSE
        BY DEF Delivering
      <4> QED BY <4>1, <4>2
    <3>4. \A e \in Dispatchers : \A c \in claims'[e] : c.message = m =>
             e = d /\ row'[m].token = c.token
      BY <1>5, <1>7, <3>2, <3>3
    <3>5. \A e \in Dispatchers : ClaimsOn(e, m)' # {} => e = d
      BY <3>4 DEF ClaimsOn
    <3> QED BY <1>2, <3>1, <3>3, <3>4, <3>5 DEF QuietInv
  <2>3. CASE m \notin B
    <3>1. row'[m] = row[m]
      BY <1>4, <1>9, <2>1, <2>3 DEF QuietInv
    <3>2. Left(m)
      BY <1>2, <1>5, <1>7, <2>3 DEF Left, Sent, Current
    <3> QED BY <1>2, <2>1, <3>1, <3>2, QuietKept
  <2> QED BY <2>2, <2>3
<1> QED BY <1>12, <1>13, <1>14, <1>15 DEF OutboxInv

\* The sink returned or raised: the row is not touched, the answer is kept for the run.
LEMMA AnswerKeepsOutbox ==
    ASSUME OutboxInv, NEW d \in Dispatchers, NotifyReturns(d) \/ NotifyRaises(d)
    PROVE  OutboxInv'
<1> DEFINE cur == Current(d)
<1>1. /\ TypeOK /\ claims[d] # {} /\ outcome[d] = "unsent" /\ UNCHANGED <<row, claims, crashes>>
  BY DEF NotifyReturns, NotifyRaises, Idle, OutboxInv
<1>2. cur \in claims[d] /\ cur.message \in Messages
  BY <1>1, CurrentIsClaim DEF TypeOK, OutboxClaim
<1>3. PICK m \in Messages : m = cur.message
  BY <1>2
<1>4. \A e \in Dispatchers : Current(e)' = Current(e)
  BY <1>1 DEF Current
<1>5. /\ \A e \in Dispatchers : e # d => outcome'[e] = outcome[e]
      /\ \A k \in Messages : k # m => reached'[k] = reached[k] /\ disturbed'[k] = disturbed[k]
      /\ outcome' \in [Dispatchers -> {"unsent", "sent", "raised"}]
      /\ disturbed' \in [Messages -> BOOLEAN]
      /\ disturbed[m] => disturbed'[m]
  BY <1>1, <1>3 DEF NotifyReturns, NotifyRaises, Reach, TypeOK
<1>6. \/ /\ outcome'[d] = "sent" /\ UNCHANGED disturbed
         /\ reached' = [reached EXCEPT ![m] = IF @ = 2 THEN 2 ELSE @ + 1]
      \/ /\ outcome'[d] = "raised" /\ disturbed'[m]
         /\ \/ reached' = [reached EXCEPT ![m] = IF @ = 2 THEN 2 ELSE @ + 1]
            \/ UNCHANGED reached
  BY <1>1, <1>3 DEF NotifyReturns, NotifyRaises, Reach, TypeOK
<1>7. /\ reached \in [Messages -> 0 .. 2]
      /\ \A k \in Messages : reached[k] \in 0 .. 2
  BY <1>1 DEF TypeOK
<1>8. /\ reached' \in [Messages -> 0 .. 2]
      /\ reached[m] > 0 => reached'[m] > 0
      /\ outcome'[d] = "sent" => reached'[m] > 0 /\ (reached[m] = 0 => reached'[m] = 1)
  BY <1>6, <1>7
<1>9. TypeOK'
  BY <1>1, <1>5, <1>8 DEF TypeOK
<1>10. Grows
  BY <1>5, <1>8 DEF Grows
<1> HIDE DEF cur
<1>11. ASSUME NEW e \in Dispatchers PROVE RunInv(e)'
  <2>1. CASE e = d
    <3>1. Current(d) = cur
      BY DEF cur
    <3>2. \A c \in claims'[d] : Sent(d, c)' => c.message = m /\ outcome'[d] = "sent"
      BY <1>3, <1>4, <3>1 DEF Sent
    <3>3. \A c \in claims'[d] : Raised(d, c)' => c.message = m /\ outcome'[d] = "raised"
      BY <1>3, <1>4, <3>1 DEF Raised
    <3>4. outcome'[d] = "raised" => disturbed'[m]
      BY <1>6
    <3>5. RunInv(d)
      BY DEF OutboxInv
    <3> QED BY <1>1, <1>8, <2>1, <3>2, <3>3, <3>4, <3>5 DEF RunInv
  <2>2. CASE e # d
    BY <1>1, <1>5, <1>10, <2>2, OtherRun DEF OutboxInv
  <2> QED BY <2>1, <2>2
<1>12. ASSUME NEW k \in Messages, row'[k].status = "published" PROVE reached'[k] > 0
  BY <1>1, <1>10, <1>12 DEF Grows, OutboxInv
<1>13. ASSUME NEW k \in Messages, ~ disturbed'[k] PROVE QuietInv(k)'
  <2>1. QuietInv(k)
    BY <1>10, <1>13 DEF OutboxInv, Grows
  <2>2. CASE k = m
    <3>1. outcome'[d] = "sent"
      BY <1>6, <1>13, <2>2
    <3>2. row[m].status = "delivering" /\ row[m].token = cur.token /\ reached[m] = 0
      BY <1>1, <1>2, <1>3, <2>1, <2>2 DEF QuietInv, Sent
    <3>3. reached'[m] = 1
      BY <1>8, <3>1, <3>2
    <3>4. ASSUME NEW e \in Dispatchers, NEW c \in claims[e], c.message = m
          PROVE  e = d /\ c = cur
      <4>1. ClaimsOn(e, m) # {} /\ ClaimsOn(d, m) # {}
        BY <1>2, <1>3, <3>4 DEF ClaimsOn
      <4>2. e = d
        BY <2>1, <2>2, <4>1 DEF QuietInv
      <4> QED BY <1>2, <1>3, <3>4, <4>2 DEF OutboxInv, RunInv
    <3>5. \A e \in Dispatchers : \A c \in claims'[e] : c.message = m =>
              /\ row'[m].status = "delivering"
              /\ row'[m].token = c.token
              /\ Sent(e, c)'
      BY <1>1, <1>4, <3>1, <3>2, <3>4 DEF Sent, cur
    <3>6. \A e, o \in Dispatchers : ClaimsOn(e, m)' # {} /\ ClaimsOn(o, m)' # {} => e = o
      BY <1>1, <3>4 DEF ClaimsOn
    <3> QED BY <1>1, <2>1, <2>2, <3>2, <3>3, <3>5, <3>6 DEF QuietInv
  <2>3. CASE k # m
    <3>1. ASSUME NEW e \in Dispatchers, NEW c \in claims'[e], c.message = k
          PROVE  c \in claims[e] /\ (Sent(e, c) => Sent(e, c)')
      BY <1>1, <1>4, <1>5 DEF Sent
    <3> QED BY <1>1, <1>5, <2>1, <2>3, <3>1, QuietKept DEF Left
  <2> QED BY <2>2, <2>3
<1> QED BY <1>9, <1>11, <1>12, <1>13 DEF OutboxInv

\* ack_outbox, nack_outbox and the end of a run: only the holder of a row settles it.
LEMMA SettleKeepsOutbox ==
    ASSUME OutboxInv, NEW d \in Dispatchers, AckOutbox(d) \/ NackOutbox(d) \/ Crash(d)
    PROVE  OutboxInv'
<1> DEFINE cur == Current(d)
<1>1. /\ TypeOK /\ claims[d] # {} /\ RunInv(d) /\ UNCHANGED <<reached, disturbed>>
  BY DEF AckOutbox, NackOutbox, Crash, Idle, OutboxInv
<1>2. cur \in claims[d] /\ cur.message \in Messages
  BY <1>1, CurrentIsClaim DEF TypeOK, OutboxClaim
<1>3. PICK m \in Messages : m = cur.message
  BY <1>2
<1>4. /\ claims' = [claims EXCEPT ![d] = @ \ {Current(d)}] \/ claims' = [claims EXCEPT ![d] = {}]
      /\ outcome' = [outcome EXCEPT ![d] = "unsent"]
  BY DEF AckOutbox, NackOutbox, Crash, NextClaim, AbandonRun
<1>5. /\ claims' \in [Dispatchers -> SUBSET OutboxClaim]
      /\ outcome' \in [Dispatchers -> {"unsent", "sent", "raised"}]
      /\ claims'[d] \subseteq claims[d] \ {Current(d)} /\ outcome'[d] = "unsent"
      /\ \A e \in Dispatchers : e # d => claims'[e] = claims[e] /\ outcome'[e] = outcome[e]
      /\ RunInv(d)'
      /\ \A k \in Messages : Left(k)
  BY <1>1, <1>4, RunMoves
<1>6. \/ UNCHANGED row
      \/ row' = [row EXCEPT ![m] = Published] /\ outcome[d] = "sent"
      \/ outcome[d] = "raised" /\ \E due \in BOOLEAN : row' = [row EXCEPT ![m] = Pending(due)]
  BY <1>3 DEF AckOutbox, NackOutbox, Crash
<1>7. /\ row \in [Messages -> OutboxRow]
      /\ Published \in OutboxRow /\ \A due \in BOOLEAN : Pending(due) \in OutboxRow
  BY <1>1 DEF TypeOK, Published, Pending, OutboxRow
<1>8. row' \in [Messages -> OutboxRow] /\ \A k \in Messages : k # m => row'[k] = row[k]
  BY <1>6, <1>7
<1>9. TypeOK'
  <2>1. crashes' \in 0 .. MaxCrashes
    BY <1>1, OutboxConstants DEF TypeOK, AckOutbox, NackOutbox, Crash
  <2> QED BY <1>1, <1>5, <1>8, <2>1 DEF TypeOK
<1>10. \A e \in Dispatchers : RunInv(e)'
  <2>1. Grows
    BY <1>1 DEF Grows
  <2>2. \A e \in Dispatchers : e # d => RunInv(e)'
    BY <1>1, <1>5, <2>1, OtherRun DEF OutboxInv
  <2> QED BY <1>5, <2>2
<1>11. outcome[d] = "sent" => reached[m] > 0
  BY <1>1, <1>2, <1>3 DEF RunInv, Sent
<1>12. outcome[d] = "raised" => disturbed[m]
  BY <1>1, <1>2, <1>3 DEF RunInv, Raised
<1> HIDE DEF cur
<1>13. ASSUME NEW k \in Messages, row'[k].status = "published" PROVE reached'[k] > 0
  <2>1. CASE row'[k] = row[k]
    BY <1>1, <1>13, <2>1 DEF OutboxInv
  <2>2. CASE row'[k] # row[k]
    <3>1. k = m /\ (outcome[d] = "sent" \/ \E due \in BOOLEAN : row'[m] = Pending(due))
      BY <1>6, <1>7, <1>8, <2>2
    <3>2. \A due \in BOOLEAN : Pending(due).status # "published"
      BY DEF Pending
    <3> QED BY <1>1, <1>11, <1>13, <3>1, <3>2
  <2> QED BY <2>1, <2>2
<1>14. ASSUME NEW k \in Messages, ~ disturbed'[k] PROVE QuietInv(k)'
  <2>1. QuietInv(k) /\ Left(k)
    BY <1>1, <1>5, <1>14 DEF OutboxInv
  <2>2. CASE row'[k] = row[k]
    BY <1>1, <2>1, <2>2, QuietKept
  <2>3. CASE row'[k] # row[k]
    <3>1. k = m /\ row'[m] = Published
      BY <1>1, <1>6, <1>7, <1>8, <1>12, <1>14, <2>3
    <3>2. ASSUME NEW e \in Dispatchers, NEW c \in claims'[e], c.message = m PROVE FALSE
      <4>1. c \in claims[e]
        BY <2>1, <3>1, <3>2 DEF Left
      <4>2. ClaimsOn(e, m) # {} /\ ClaimsOn(d, m) # {}
        BY <1>2, <1>3, <3>2, <4>1 DEF ClaimsOn
      <4>3. e = d
        BY <2>1, <3>1, <4>2 DEF QuietInv
      <4>4. c = cur
        BY <1>1, <1>2, <1>3, <3>2, <4>1, <4>3 DEF RunInv
      <4> QED BY <1>5, <3>2, <4>3, <4>4 DEF cur
    <3>3. \A e \in Dispatchers : ClaimsOn(e, m)' = {}
      BY <3>2 DEF ClaimsOn
    <3>4. row'[m].status = "published" /\ row'[m].lapsed = FALSE
      BY <3>1 DEF Published
    <3> QED BY <1>1, <2>1, <3>1, <3>2, <3>3, <3>4 DEF QuietInv
  <2> QED BY <2>2, <2>3
<1> QED BY <1>9, <1>10, <1>13, <1>14 DEF OutboxInv

LEMMA OutboxInvariance == Spec => []OutboxInv
<1>1. Init => OutboxInv
  <2> SUFFICES ASSUME Init PROVE OutboxInv
    OBVIOUS
  <2>1. TypeOK
    BY OutboxConstants DEF Init, TypeOK, Absent, OutboxRow
  <2>2. \A d \in Dispatchers : RunInv(d)
    BY DEF Init, RunInv
  <2>3. \A m \in Messages : row[m] = Absent /\ reached[m] = 0
    BY DEF Init
  <2>4. \A m \in Messages : QuietInv(m)
    BY <2>3 DEF Init, QuietInv, Absent, ClaimsOn
  <2> QED BY <2>1, <2>2, <2>3, <2>4 DEF OutboxInv, Absent
<1>2. OutboxInv /\ [Next]_vars => OutboxInv'
  <2> SUFFICES ASSUME OutboxInv, [Next]_vars PROVE OutboxInv'
    OBVIOUS
  <2>1. CASE \E m \in Messages : AddStateOutbox(m) \/ RetryDelayEnds(m) \/ LeaseEnds(m)
    BY <2>1, RowChanges
  <2>2. CASE \E d \in Dispatchers : Dispatch(d) \/ Crash(d)
    BY <2>2, ClaimKeepsOutbox, AnswerKeepsOutbox, SettleKeepsOutbox DEF Dispatch
  <2>3. CASE UNCHANGED vars
    <3>1. UNCHANGED <<row, claims, outcome, crashes, reached, disturbed>>
      BY <2>3 DEF vars
    <3>2. \A d \in Dispatchers : RunInv(d)'
      BY <3>1, OtherRun DEF OutboxInv, Grows
    <3>3. ASSUME NEW m \in Messages, ~ disturbed[m] PROVE QuietInv(m)'
      BY <3>1, <3>3, StillRuns, QuietKept DEF OutboxInv
    <3>4. TypeOK'
      BY <3>1 DEF OutboxInv, TypeOK
    <3> QED BY <3>1, <3>2, <3>3, <3>4 DEF OutboxInv
  <2> QED BY <2>1, <2>2, <2>3 DEF Next
<1> QED BY <1>1, <1>2, PTL DEF Spec

\* No hint is lost or doubled for nothing, in whatever order dispatchers claim, call,
\* settle and crash.
THEOREM HintsAccounted == Spec => []DeliveriesAccounted
<1>1. OutboxInv => DeliveriesAccounted
  BY DEF OutboxInv, QuietInv, DeliveriesAccounted
<1> QED BY <1>1, OutboxInvariance, PTL

\* Late answers do not reopen a published row.
THEOREM PublishedStays == Spec => PublishedIsFinal
<1>1. OutboxInv /\ [Next]_vars =>
          [\A m \in Messages : row[m].status = "published" => row'[m] = row[m]]_vars
  <2> SUFFICES ASSUME OutboxInv, [Next]_vars, NEW m \in Messages, row[m].status = "published"
               PROVE  row'[m] = row[m]
    OBVIOUS
  <2>1. row \in [Messages -> OutboxRow]
    BY DEF OutboxInv, TypeOK
  <2>2. ASSUME NEW k \in Messages, AddStateOutbox(k) \/ RetryDelayEnds(k) \/ LeaseEnds(k)
        PROVE  row'[m] = row[m]
    BY <2>1, <2>2 DEF AddStateOutbox, RetryDelayEnds, LeaseEnds
  <2>3. ASSUME NEW d \in Dispatchers, NEW unlocked \in SUBSET Messages, ClaimOutbox(d, unlocked)
        PROVE  row'[m] = row[m]
    <3>1. m \notin Batch(unlocked) /\ m \notin Expired(unlocked)
      BY DEF Batch, Claimable, Expired
    <3> QED BY <2>3, <3>1 DEF ClaimOutbox
  <2>4. ASSUME NEW d \in Dispatchers, NotifyReturns(d) \/ NotifyRaises(d) \/ Crash(d)
        PROVE  row'[m] = row[m]
    BY <2>4 DEF NotifyReturns, NotifyRaises, Crash
  <2>5. ASSUME NEW d \in Dispatchers, AckOutbox(d) \/ NackOutbox(d)
        PROVE  row'[m] = row[m]
    BY <2>1, <2>5 DEF AckOutbox, NackOutbox, Holds
  <2>6. CASE UNCHANGED vars
    BY <2>6 DEF vars
  <2> QED BY <2>2, <2>3, <2>4, <2>5, <2>6 DEF Next, Dispatch
<1> QED BY <1>1, OutboxInvariance, PTL DEF Spec, PublishedIsFinal

-----------------------------------------------------------------------------
(* Alerts *)

Rows == Seq(Occurrence)

OpenIn(rows) == {i \in DOMAIN rows : IsOpen(rows[i])}

\* What the inductive invariant says of one rule
RowsInv(rows) ==
    /\ OpenIn(rows) \subseteq {Len(rows)}
    /\ \A i \in DOMAIN rows : rows[i].status = "firing" => rows[i].by = Nobody

AlertInv == AlertTypeOK /\ \A r \in Rules : RowsInv(alerts[r])

\* A new occurrence comes after rows that are all resolved.
LEMMA FiredRows ==
    ASSUME NEW rows \in Rows, RowsInv(rows), OpenIn(rows) = {}
    PROVE  LET new == Append(rows, Fired)
           IN new \in Rows /\ RowsInv(new) /\ Keeps(rows, new)
  <1> DEFINE new == Append(rows, Fired)
  <1>1. Fired \in Occurrence
    BY DEF Fired, Occurrence
  <1>2. new \in Rows /\ Len(new) = Len(rows) + 1
    BY <1>1 DEF Rows
  <1>3. /\ \A i \in DOMAIN rows : new[i] = rows[i] /\ i \in DOMAIN new
        /\ new[Len(new)] = Fired
        /\ \A i \in DOMAIN new : i = Len(new) \/ i \in DOMAIN rows
    BY DEF Rows
  <1> HIDE DEF new
  <1>4. RowsInv(new)
    <2>1. \A i \in DOMAIN rows : ~ IsOpen(rows[i])
      BY DEF OpenIn
    <2>2. OpenIn(new) \subseteq {Len(new)}
      BY <1>3, <2>1 DEF OpenIn
    <2>3. ASSUME NEW i \in DOMAIN new, new[i].status = "firing"
          PROVE  new[i].by = Nobody
      <3>1. CASE i = Len(new)
        <4>1. Fired.by = Nobody
          BY DEF Fired
        <4> QED
          BY <1>3, <3>1, <4>1
      <3>2. CASE i \in DOMAIN rows
        BY <1>3, <2>3, <3>2 DEF RowsInv
      <3> QED
        BY <1>3, <3>1, <3>2
    <2> QED
      BY <2>2, <2>3 DEF RowsInv
  <1>5. Keeps(rows, new)
    <2>1. ASSUME NEW i \in DOMAIN rows, rows[i].by # Nobody
          PROVE  rows[i].status # "firing"
      BY <2>1 DEF RowsInv
    <2> QED
      BY <1>3, <2>1 DEF Keeps
  <1> QED
    BY <1>2, <1>4, <1>5 DEF new

\* An open row is replaced by one that is acknowledged or resolved and keeps its actor.
LEMMA ReplacedRows ==
    ASSUME NEW rows \in Rows, RowsInv(rows),
           NEW i \in DOMAIN rows, IsOpen(rows[i]),
           NEW occ \in Occurrence, occ.status # "firing",
           rows[i].by = Nobody \/ occ.by = rows[i].by
    PROVE  LET new == [rows EXCEPT ![i] = occ]
           IN new \in Rows /\ RowsInv(new) /\ Keeps(rows, new)
  <1> DEFINE new == [rows EXCEPT ![i] = occ]
  <1>1. new \in Rows /\ Len(new) = Len(rows)
    BY DEF Rows
  <1>2. /\ DOMAIN new = DOMAIN rows
        /\ new[i] = occ
        /\ \A j \in DOMAIN rows : j # i => new[j] = rows[j]
    OBVIOUS
  <1> HIDE DEF new
  <1>3. OpenIn(new) \subseteq OpenIn(rows)
    BY <1>2 DEF OpenIn
  <1>4. RowsInv(new)
    BY <1>1, <1>2, <1>3 DEF RowsInv
  <1>5. Keeps(rows, new)
    <2>1. rows[i].status # "resolved"
      BY DEF IsOpen
    <2>2. ASSUME NEW j \in DOMAIN rows, rows[j].by # Nobody
          PROVE  rows[j].status # "firing"
      BY <2>2 DEF RowsInv
    <2> QED
      BY <1>2, <2>1, <2>2 DEF Keeps
  <1> QED
    BY <1>1, <1>4, <1>5 DEF new

\* Rows that stay keep themselves.
LEMMA SameRows == ASSUME NEW rows \in Rows, RowsInv(rows) PROVE Keeps(rows, rows)
  <1>1. ASSUME NEW j \in DOMAIN rows, rows[j].by # Nobody
        PROVE  rows[j].status # "firing"
    BY <1>1 DEF RowsInv
  <1> QED
    BY <1>1 DEF Keeps

\* A step that changes the rows of one rule as above keeps the part of the invariant that
\* is about rows.
RowStep(r, new) == new \in Rows /\ RowsInv(new) /\ Keeps(alerts[r], new)

Good == alerts' \in [Rules -> Rows] /\ \A r \in Rules : RowsInv(alerts'[r]) /\ Keeps(alerts[r], alerts'[r])

LEMMA LiftedStep ==
    ASSUME AlertInv, NEW r \in Rules, NEW new, RowStep(r, new), alerts' = [alerts EXCEPT ![r] = new]
    PROVE  Good
  <1>1. alerts \in [Rules -> Rows]
    BY DEF AlertInv, AlertTypeOK, Rows
  <1>2. \A q \in Rules : alerts'[q] = IF q = r THEN new ELSE alerts[q]
    BY <1>1
  <1>3. \A q \in Rules : Keeps(alerts[q], alerts[q])
    BY <1>1, SameRows DEF AlertInv
  <1>4. alerts' \in [Rules -> Rows]
    BY <1>1 DEF RowStep
  <1>5. \A q \in Rules : RowsInv(alerts'[q]) /\ Keeps(alerts[q], alerts'[q])
    BY <1>2, <1>3 DEF RowStep, AlertInv
  <1> QED
    BY <1>4, <1>5 DEF Good

LEMMA QuietRows == ASSUME AlertInv, UNCHANGED alerts PROVE Good
  <1>1. alerts \in [Rules -> Rows]
    BY DEF AlertInv, AlertTypeOK, Rows
  <1> QED
    BY <1>1, SameRows DEF AlertInv, Good

\* An observation, applied under the rule's lock
LEMMA ApplyRows == ASSUME AlertInv, NEW s \in Schedulers, Apply(s) PROVE Good
  <1> DEFINE r == pass[s].rule
             seen == pass[s].seen
             open == OpenRow(r)
             new == IF rules[r] = "enabled" THEN Observed(alerts[r], open, seen) ELSE alerts[r]
  <1>1. r \in Rules
    BY DEF AlertInv, AlertTypeOK, Apply
  <1>2. alerts[r] \in Rows /\ RowsInv(alerts[r])
    BY <1>1 DEF AlertInv, AlertTypeOK, Rows
  <1>3. open = OpenIn(alerts[r])
    BY DEF OpenRow, OpenRows, OpenIn
  <1>4. alerts' = [alerts EXCEPT ![r] = new]
    BY DEF Apply
  <1>5. RowStep(r, new)
    <2>1. CASE rules[r] = "enabled" /\ open = {} /\ seen = "met"
      BY <1>2, <1>3, <2>1, FiredRows DEF RowStep, Observed
    <2>2. CASE rules[r] = "enabled" /\ open # {} /\ seen # "met"
      <3> DEFINE n == Len(alerts[r])
                 occ == Cleared(alerts[r][n], seen)
      <3>1. open = {n}
        BY <1>2, <1>3, <2>2 DEF RowsInv
      <3>2. Max({n}) = n
        BY <1>2 DEF Max, Rows
      <3>3. n \in DOMAIN alerts[r] /\ IsOpen(alerts[r][n]) /\ alerts[r][n] \in Occurrence
        BY <1>2, <1>3, <3>1 DEF OpenIn, Rows
      <3>4. occ \in Occurrence /\ occ.status # "firing" /\ occ.by = alerts[r][n].by
        BY <3>3 DEF Cleared, Occurrence
      <3>5. new = [alerts[r] EXCEPT ![n] = occ]
        BY <2>2, <3>1, <3>2 DEF Observed
      <3> HIDE DEF n, occ
      <3> QED
        BY <1>2, <3>3, <3>4, <3>5, ReplacedRows DEF RowStep
    <2>3. CASE ~ (rules[r] = "enabled" /\ (open = {} <=> seen = "met"))
      BY <1>2, <2>3, SameRows DEF RowStep, Observed
    <2> QED
      BY <2>1, <2>2, <2>3
  <1> QED
    BY <1>1, <1>4, <1>5, LiftedStep

LEMMA AcknowledgeRows == ASSUME AlertInv, NEW a \in Actors, NEW r \in Rules, Acknowledge(a, r) PROVE Good
  <1>1. alerts \in [Rules -> Rows] /\ RowsInv(alerts[r])
    BY DEF AlertInv, AlertTypeOK, Rows
  <1>2. PICK i \in DOMAIN alerts[r] :
           /\ alerts[r][i].status = "firing"
           /\ alerts' = [alerts EXCEPT ![r][i] = [status |-> "acknowledged", by |-> a, reason |-> alerts[r][i].reason]]
    BY DEF Acknowledge, MayAcknowledge
  <1> DEFINE occ == [status |-> "acknowledged", by |-> a, reason |-> alerts[r][i].reason]
             new == [alerts[r] EXCEPT ![i] = occ]
  <1>3. alerts' = [alerts EXCEPT ![r] = new]
    BY <1>1, <1>2
  <1>4. alerts[r][i] \in Occurrence
    BY <1>1, <1>2 DEF Rows
  <1>5. occ \in Occurrence /\ occ.status # "firing"
    BY <1>4 DEF Occurrence
  <1>6. IsOpen(alerts[r][i]) /\ alerts[r][i].by = Nobody
    BY <1>1, <1>2 DEF IsOpen, RowsInv
  <1> HIDE DEF occ
  <1>7. RowStep(r, new)
    BY <1>1, <1>2, <1>5, <1>6, ReplacedRows DEF RowStep
  <1> QED
    BY <1>3, <1>7, LiftedStep

LEMMA ResolveRows == ASSUME AlertInv, NEW r \in Rules, Resolve(r) PROVE Good
  <1>1. alerts \in [Rules -> Rows] /\ RowsInv(alerts[r])
    BY DEF AlertInv, AlertTypeOK, Rows
  <1>2. PICK i \in DOMAIN alerts[r] :
           /\ IsOpen(alerts[r][i])
           /\ alerts' = [alerts EXCEPT ![r][i] = [status |-> "resolved", by |-> alerts[r][i].by, reason |-> "manual"]]
    BY DEF Resolve, MayResolve
  <1> DEFINE occ == [status |-> "resolved", by |-> alerts[r][i].by, reason |-> "manual"]
             new == [alerts[r] EXCEPT ![i] = occ]
  <1>3. alerts' = [alerts EXCEPT ![r] = new]
    BY <1>1, <1>2
  <1>4. alerts[r][i] \in Occurrence
    BY <1>1, <1>2 DEF Rows
  <1>5. occ \in Occurrence /\ occ.status # "firing" /\ occ.by = alerts[r][i].by
    BY <1>4 DEF Occurrence
  <1> HIDE DEF occ
  <1>6. RowStep(r, new)
    BY <1>1, <1>2, <1>5, ReplacedRows DEF RowStep
  <1> QED
    BY <1>3, <1>6, LiftedStep

\* The rest of the state keeps its types.
LEMMA PassTypes ==
    ASSUME AlertInv, [AlertNext]_alertVars
    PROVE  /\ rules' \in [Rules -> {"absent", "enabled", "disabled"}]
           /\ signal' \in [Rules -> Signals]
           /\ pass' \in [Schedulers -> [todo : SUBSET Rules, rule : Rules \cup {0}, seen : Signals]]
  <1> USE DEF AlertInv, AlertTypeOK
  <1>1. CASE \E r \in Rules : \E state \in {"enabled", "disabled"} : AddRule(r, state)
    BY <1>1 DEF AddRule
  <1>2. CASE \E r \in Rules, x \in Signals : SignalChanges(r, x)
    BY <1>2 DEF SignalChanges
  <1>3. ASSUME NEW s \in Schedulers, ListRules(s)
        PROVE  pass' \in [Schedulers -> [todo : SUBSET Rules, rule : Rules \cup {0}, seen : Signals]]
    BY <1>3 DEF ListRules
  <1>4. ASSUME NEW s \in Schedulers, Observe(s)
        PROVE  pass' \in [Schedulers -> [todo : SUBSET Rules, rule : Rules \cup {0}, seen : Signals]]
    <2>1. PICK r \in pass[s].todo :
             pass' = [pass EXCEPT ![s] =
                IF r \in Broken THEN Between(AfterError(pass[s].todo, r))
                ELSE [todo |-> pass[s].todo \ {r}, rule |-> r, seen |-> signal[r]]]
      BY <1>4 DEF Observe
    <2>2. pass[s].todo \subseteq Rules /\ r \in Rules /\ signal[r] \in Signals
      OBVIOUS
    <2>3. Between(AfterError(pass[s].todo, r)) \in [todo : SUBSET Rules, rule : Rules \cup {0}, seen : Signals]
      BY <2>2 DEF Between, AfterError, Signals
    <2> QED
      BY <2>1, <2>2, <2>3
  <1>5. ASSUME NEW s \in Schedulers, Apply(s)
        PROVE  pass' \in [Schedulers -> [todo : SUBSET Rules, rule : Rules \cup {0}, seen : Signals]]
    BY <1>5 DEF Apply, Between, Signals
  <1>6. ASSUME NEW s \in Schedulers, StopScheduler(s)
        PROVE  pass' \in [Schedulers -> [todo : SUBSET Rules, rule : Rules \cup {0}, seen : Signals]]
    BY <1>6 DEF StopScheduler, NoPass, Between, Signals
  <1>7. CASE \E s \in Schedulers : AlertPass(s) \/ StopScheduler(s)
    BY <1>3, <1>4, <1>5, <1>6, <1>7 DEF AlertPass, ListRules, Observe, Apply, StopScheduler
  <1>8. CASE \E r \in Rules : Resolve(r) \/ \E a \in Actors : Acknowledge(a, r)
    BY <1>8 DEF Resolve, Acknowledge
  <1>9. CASE UNCHANGED alertVars
    BY <1>9 DEF alertVars
  <1> QED
    BY <1>1, <1>2, <1>7, <1>8, <1>9 DEF AlertNext

LEMMA RowsGood == ASSUME AlertInv, [AlertNext]_alertVars PROVE Good
  <1>1. CASE \E r \in Rules : \E state \in {"enabled", "disabled"} : AddRule(r, state)
    BY <1>1, QuietRows DEF AddRule
  <1>2. CASE \E r \in Rules, x \in Signals : SignalChanges(r, x)
    BY <1>2, QuietRows DEF SignalChanges
  <1>3. ASSUME NEW s \in Schedulers, AlertPass(s) \/ StopScheduler(s)
        PROVE  Good
    <2>1. CASE ListRules(s)
      BY <2>1, QuietRows DEF ListRules
    <2>2. CASE Observe(s)
      BY <2>2, QuietRows DEF Observe
    <2>3. CASE StopScheduler(s)
      BY <2>3, QuietRows DEF StopScheduler
    <2> QED
      BY <1>3, <2>1, <2>2, <2>3, ApplyRows DEF AlertPass
  <1>4. CASE \E r \in Rules : Resolve(r) \/ \E a \in Actors : Acknowledge(a, r)
    BY <1>4, ResolveRows, AcknowledgeRows
  <1>5. CASE UNCHANGED alertVars
    BY <1>5, QuietRows DEF alertVars
  <1> QED
    BY <1>1, <1>2, <1>3, <1>4, <1>5 DEF AlertNext

LEMMA InitAlertInv == AlertInit => AlertInv
  <1> SUFFICES ASSUME AlertInit PROVE AlertInv
    OBVIOUS
  <1>1. AlertTypeOK
    BY DEF AlertInit, AlertTypeOK, NoPass, Between, Signals
  <1>2. \A r \in Rules : RowsInv(alerts[r])
    BY DEF AlertInit, RowsInv, OpenIn
  <1> QED
    BY <1>1, <1>2 DEF AlertInv

LEMMA AlertInvariance == AlertSpec => []AlertInv
  <1>1. AlertInv /\ [AlertNext]_alertVars => AlertInv'
    <2> SUFFICES ASSUME AlertInv, [AlertNext]_alertVars PROVE AlertInv'
      OBVIOUS
    <2>1. Good
      BY RowsGood
    <2>2. AlertTypeOK'
      BY <2>1, PassTypes DEF AlertTypeOK, Good, Rows
    <2> QED
      BY <2>1, <2>2 DEF AlertInv, Good
  <1> QED
    BY <1>1, InitAlertInv, PTL DEF AlertSpec

\* Every reachable state is well typed.
THEOREM AlertsTypeCorrect == AlertSpec => []AlertTypeOK
  <1>1. AlertInv => AlertTypeOK
    BY DEF AlertInv
  <1> QED
    BY <1>1, AlertInvariance, PTL

\* A rule has one open occurrence at most, the one fired last.
THEOREM OneOpen == AlertSpec => []OneOpenOccurrence
  <1>1. AlertInv => OneOpenOccurrence
    BY DEF AlertInv, RowsInv, OpenIn, OpenRows, OneOpenOccurrence
  <1> QED
    BY <1>1, AlertInvariance, PTL

\* Resolved occurrences are final, and actors stay on record.
THEOREM HistoryStands == AlertSpec => AlertHistoryStands
  <1>1. AlertInv /\ [AlertNext]_alertVars => [\A r \in Rules : Keeps(alerts[r], alerts'[r])]_alerts
    BY RowsGood DEF Good
  <1> QED
    BY <1>1, AlertInvariance, PTL DEF AlertSpec, AlertHistoryStands
=============================================================================
