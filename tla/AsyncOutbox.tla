---------------------------- MODULE AsyncOutbox ----------------------------
(***************************************************************************)
(* Delivery of the async_outbox rows as Redis hints: claim_outbox,         *)
(* ack_outbox and nack_outbox of SqlAlchemyAsyncRepository, driven by      *)
(* OutboxHintDispatcher.run_once in several scheduler processes.           *)
(*                                                                         *)
(* A run claims a batch in one transaction, then for each claim calls the  *)
(* sink and settles the row in a transaction of its own.  Between any two  *)
(* of these steps the process may die or its lease may run out and another *)
(* dispatcher take the row.                                                *)
(*                                                                         *)
(* The code compares available_at and lease_expires_at with the clock in   *)
(* claim_outbox only, so a row records whether each has passed; a caller's *)
(* slow clock makes it miss rows, which SKIP LOCKED allows in any case.    *)
(***************************************************************************)
EXTENDS Naturals, FiniteSets, Functions

CONSTANTS
    Messages,     \* outbox_ids, numbers in insertion order
    Dispatchers,  \* scheduler processes
    Tokens,       \* delivery tokens (uuid4)
    Limit,        \* rows claimed by one run
    MaxCrashes,   \* bound on dispatcher crashes
    NoToken

ASSUME OutboxConstants ==
    /\ Messages \subseteq Nat
    /\ Limit \in Nat \ {0}
    /\ MaxCrashes \in Nat
    /\ NoToken \notin Tokens

VARIABLES
    row,        \* async_outbox row of each message
    claims,     \* claims a dispatcher's current run has still to settle
    outcome,    \* of the sink call for the first of them
    crashes,
    reached,    \* history: how often the hint reached the sink (0, 1, 2 = more)
    disturbed   \* history: the lease ran out or the sink raised for the message

vars == <<row, claims, outcome, crashes, reached, disturbed>>

-----------------------------------------------------------------------------

OutboxRow ==
    [status : {"absent", "pending", "delivering", "published"},
     token  : Tokens \cup {NoToken},
     due    : BOOLEAN,     \* available_at has passed
     lapsed : BOOLEAN]     \* lease_expires_at has passed

OutboxClaim == [message : Messages, token : Tokens]

Pending(due) == [status |-> "pending", token |-> NoToken, due |-> due, lapsed |-> FALSE]

Delivering(token) == [status |-> "delivering", token |-> token, due |-> TRUE, lapsed |-> FALSE]

Published == [status |-> "published", token |-> NoToken, due |-> TRUE, lapsed |-> FALSE]

Absent == [status |-> "absent", token |-> NoToken, due |-> FALSE, lapsed |-> FALSE]

TypeOK ==
    /\ row \in [Messages -> OutboxRow]
    /\ claims \in [Dispatchers -> SUBSET OutboxClaim]
    /\ outcome \in [Dispatchers -> {"unsent", "sent", "raised"}]
    /\ crashes \in 0 .. MaxCrashes
    /\ reached \in [Messages -> 0 .. 2]
    /\ disturbed \in [Messages -> BOOLEAN]

Init ==
    /\ row = [m \in Messages |-> Absent]
    /\ claims = [d \in Dispatchers |-> {}]
    /\ outcome = [d \in Dispatchers |-> "unsent"]
    /\ crashes = 0
    /\ reached = [m \in Messages |-> 0]
    /\ disturbed = [m \in Messages |-> FALSE]

-----------------------------------------------------------------------------
(* The queue's transactions and the clock *)

\* A job transaction inserts the row; available_at is its own time.
AddStateOutbox(m) ==
    /\ row[m].status = "absent"
    /\ row' = [row EXCEPT ![m] = Pending(TRUE)]
    /\ UNCHANGED <<claims, outcome, crashes, reached, disturbed>>

RetryDelayEnds(m) ==
    /\ row[m].status = "pending"
    /\ ~ row[m].due
    /\ row' = [row EXCEPT ![m].due = TRUE]
    /\ UNCHANGED <<claims, outcome, crashes, reached, disturbed>>

LeaseEnds(m) ==
    /\ row[m].status = "delivering"
    /\ ~ row[m].lapsed
    /\ row' = [row EXCEPT ![m].lapsed = TRUE]
    /\ disturbed' = [disturbed EXCEPT ![m] = TRUE]
    /\ UNCHANGED <<claims, outcome, crashes, reached>>

-----------------------------------------------------------------------------
(* OutboxHintDispatcher.run_once *)

Idle(d) == claims[d] = {}

InUse ==
    {row[m].token : m \in Messages} \cup {c.token : c \in UNION {claims[d] : d \in Dispatchers}}

\* (variant) No delivery is ever taken over.
ExpiredNever(unlocked) == {}

Expired(unlocked) == {m \in unlocked : row[m].status = "delivering" /\ row[m].lapsed}

Claimable(unlocked) ==
    {m \in unlocked : row[m].status = "pending" /\ row[m].due} \cup Expired(unlocked)

\* The first Limit claimable rows, by outbox_id.
Batch(unlocked) ==
    {m \in Claimable(unlocked) : Cardinality({k \in Claimable(unlocked) : k < m}) < Limit}

\* A token for each row of the batch.
Fresh(unlocked) == Injection(Batch(unlocked), Tokens \ InUse)

\* claim_outbox.  `unlocked' is the rows no other transaction holds (SKIP LOCKED).  Tokens are
\* only compared with each other, so it does not matter which of the unused ones a row gets.
ClaimOutbox(d, unlocked) ==
    /\ Idle(d)
    /\ Batch(unlocked) # {}
    /\ Fresh(unlocked) # {}
    /\ LET token == CHOOSE f \in Fresh(unlocked) : TRUE
       IN /\ claims' = [claims EXCEPT ![d] =
                 {[message |-> m, token |-> token[m]] : m \in Batch(unlocked)}]
          /\ row' = [m \in Messages |->
                        IF m \in Batch(unlocked) THEN Delivering(token[m])
                        ELSE IF m \in Expired(unlocked) THEN Pending(TRUE)
                        ELSE row[m]]
    /\ UNCHANGED <<outcome, crashes, reached, disturbed>>

\* The claims of a run are in the order of their outbox_id.
Current(d) == CHOOSE c \in claims[d] : \A o \in claims[d] : c.message <= o.message

Reach(m) == reached' = [reached EXCEPT ![m] = IF @ = 2 THEN 2 ELSE @ + 1]

NotifyReturns(d) ==
    /\ ~ Idle(d)
    /\ outcome[d] = "unsent"
    /\ outcome' = [outcome EXCEPT ![d] = "sent"]
    /\ Reach(Current(d).message)
    /\ UNCHANGED <<row, claims, crashes, disturbed>>

\* (variant) The sink's exception is swallowed.
NotifyRaisesUnseen(d) ==
    /\ ~ Idle(d)
    /\ outcome[d] = "unsent"
    /\ outcome' = [outcome EXCEPT ![d] = "sent"]
    /\ Reach(Current(d).message) \/ UNCHANGED reached
    /\ disturbed' = [disturbed EXCEPT ![Current(d).message] = TRUE]
    /\ UNCHANGED <<row, claims, crashes>>

\* The sink raised; the hint may have got through all the same.
NotifyRaises(d) ==
    /\ ~ Idle(d)
    /\ outcome[d] = "unsent"
    /\ outcome' = [outcome EXCEPT ![d] = "raised"]
    /\ Reach(Current(d).message) \/ UNCHANGED reached
    /\ disturbed' = [disturbed EXCEPT ![Current(d).message] = TRUE]
    /\ UNCHANGED <<row, claims, crashes>>

Holds(d) ==
    /\ row[Current(d).message].status = "delivering"
    /\ row[Current(d).message].token = Current(d).token

NextClaim(d) ==
    /\ claims' = [claims EXCEPT ![d] = @ \ {Current(d)}]
    /\ outcome' = [outcome EXCEPT ![d] = "unsent"]

\* LeaseLost escapes run_once: the rest of the batch is left to its lease.
AbandonRun(d) ==
    /\ claims' = [claims EXCEPT ![d] = {}]
    /\ outcome' = [outcome EXCEPT ![d] = "unsent"]

AckOutbox(d) ==
    /\ ~ Idle(d)
    /\ outcome[d] = "sent"
    /\ \/ /\ row[Current(d).message].status = "published"
          /\ NextClaim(d)
          /\ UNCHANGED row
       \/ /\ Holds(d)
          /\ row' = [row EXCEPT ![Current(d).message] = Published]
          /\ NextClaim(d)
       \/ /\ row[Current(d).message].status # "published"
          /\ ~ Holds(d)
          /\ AbandonRun(d)
          /\ UNCHANGED row
    /\ UNCHANGED <<crashes, reached, disturbed>>

\* (variant) The token is not compared.
NackOutboxUnfenced(d) ==
    /\ ~ Idle(d)
    /\ outcome[d] = "raised"
    /\ \E due \in BOOLEAN : row' = [row EXCEPT ![Current(d).message] = Pending(due)]
    /\ NextClaim(d)
    /\ UNCHANGED <<crashes, reached, disturbed>>

\* available_at counts from the start of the run, so it may have passed already.
NackOutbox(d) ==
    /\ ~ Idle(d)
    /\ outcome[d] = "raised"
    /\ \/ /\ Holds(d)
          /\ \E due \in BOOLEAN : row' = [row EXCEPT ![Current(d).message] = Pending(due)]
          /\ NextClaim(d)
       \/ /\ ~ Holds(d)
          /\ AbandonRun(d)
          /\ UNCHANGED row
    /\ UNCHANGED <<crashes, reached, disturbed>>

Crash(d) ==
    /\ ~ Idle(d)
    /\ crashes < MaxCrashes
    /\ crashes' = crashes + 1
    /\ AbandonRun(d)
    /\ UNCHANGED <<row, reached, disturbed>>

-----------------------------------------------------------------------------

Dispatch(d) ==
    \/ \E unlocked \in SUBSET Messages : ClaimOutbox(d, unlocked)
    \/ NotifyReturns(d)
    \/ NotifyRaises(d)
    \/ AckOutbox(d)
    \/ NackOutbox(d)

Next ==
    \/ \E m \in Messages : AddStateOutbox(m) \/ RetryDelayEnds(m) \/ LeaseEnds(m)
    \/ \E d \in Dispatchers : Dispatch(d) \/ Crash(d)

Spec == Init /\ [][Next]_vars

\* Schedulers poll and settle what they claimed; time passes; the sink is not
\* down for ever.
Fairness ==
    /\ \A m \in Messages : WF_vars(RetryDelayEnds(m)) /\ WF_vars(LeaseEnds(m))
    /\ \A m \in Messages : SF_vars(\E d \in Dispatchers : NotifyReturns(d) /\ Current(d).message = m)
    /\ \A d \in Dispatchers :
          /\ WF_vars(ClaimOutbox(d, Messages))
          /\ WF_vars(NotifyReturns(d) \/ NotifyRaises(d))
          /\ WF_vars(AckOutbox(d) \/ NackOutbox(d))

FairSpec == Spec /\ Fairness

-----------------------------------------------------------------------------
(* Properties *)

\* No hint is lost or doubled for nothing: a row is marked published only if its hint got
\* through, and a hint goes out twice only if its lease ran out, as after a crash, or the sink
\* raised, though the calls, acknowledgements and leases of dispatchers race with each other.
DeliveriesAccounted ==
    \A m \in Messages :
        /\ row[m].status = "published" => reached[m] > 0
        /\ reached[m] = 2 => disturbed[m]

\* Late answers do not reopen a row: once published it stays so.
PublishedIsFinal ==
    [][\A m \in Messages : row[m].status = "published" => row'[m] = row[m]]_vars

\* Every hint is published in the end, whatever the order of sink failures and
\* crashes, provided that leases stop running out: a batch has one lease for all
\* its calls, and dispatchers that never settle a batch within it can take the
\* rows from each other for ever.
LeasesSuffice == <>[][\A m \in Messages : ~ LeaseEnds(m)]_vars

EventuallyPublished ==
    LeasesSuffice =>
        \A m \in Messages : row[m].status = "pending" ~> row[m].status = "published"
=============================================================================
