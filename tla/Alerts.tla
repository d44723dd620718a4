------------------------------- MODULE Alerts -------------------------------
(***************************************************************************)
(* Alert rules and their occurrences (api/app/alerts/service.py), evaluated*)
(* by every scheduler process (worker/scheduler.py) and acknowledged or    *)
(* resolved by operators.  A metric is what it comes to for its rule: the  *)
(* condition met, cleared, or too few samples.  An evaluation reads it     *)
(* before the transaction that locks the rule, so observations of two      *)
(* schedulers may be applied in another order than they were made.         *)
(***************************************************************************)
EXTENDS Naturals, Sequences, FiniteSets, FiniteSetsExt

CONSTANTS
    RuleCount,
    Broken,          \* rules whose metric raises an error
    Schedulers,
    Restarted,       \* those that may be stopped and started again and again
    Actors,
    Nobody,
    MaxOccurrences   \* bound: with so many, the metric and the operators rest

ASSUME AlertConstants == RuleCount \in Nat /\ MaxOccurrences \in Nat

VARIABLES
    rules,    \* alert_rules, by id: whether each is there and enabled
    signal,   \* what the metric of each rule comes to now
    alerts,   \* alert_occurrences of each rule, in the order they were fired
    pass      \* AlertEvaluationScheduler.run_once of each scheduler

alertVars == <<rules, signal, alerts, pass>>

-----------------------------------------------------------------------------

Rules == 1 .. RuleCount

Signals == {"met", "cleared", "thin"}

Occurrence ==
    [status : {"firing", "acknowledged", "resolved"},
     by     : Actors \cup {Nobody},
     reason : {"", "threshold_cleared", "insufficient_samples", "manual"}]

\* A pass that has these rules left
Between(todo) == [todo |-> todo, rule |-> 0, seen |-> "thin"]

NoPass == Between({})

AlertTypeOK ==
    /\ rules \in [Rules -> {"absent", "enabled", "disabled"}]
    /\ signal \in [Rules -> Signals]
    /\ alerts \in [Rules -> Seq(Occurrence)]
    /\ pass \in [Schedulers -> [todo : SUBSET Rules, rule : Rules \cup {0}, seen : Signals]]

AlertInit ==
    /\ rules = [r \in Rules |-> "absent"]
    /\ signal = [r \in Rules |-> "thin"]
    /\ alerts = [r \in Rules |-> <<>>]
    /\ pass = [s \in Schedulers |-> NoPass]

IsOpen(row) == row.status \in {"firing", "acknowledged"}

\* The rows that are not resolved.
OpenRows(r) == {i \in DOMAIN alerts[r] : IsOpen(alerts[r][i])}

-----------------------------------------------------------------------------
(* The surroundings *)

\* add_rule; a known rule_id is left as it is, or refused.
AddRule(r, state) ==
    /\ rules[r] = "absent"
    /\ rules' = [rules EXCEPT ![r] = state]
    /\ UNCHANGED <<signal, alerts, pass>>

SignalChanges(r, s) ==
    /\ Len(alerts[r]) < MaxOccurrences
    /\ s # signal[r]
    /\ signal' = [signal EXCEPT ![r] = s]
    /\ UNCHANGED <<rules, alerts, pass>>

-----------------------------------------------------------------------------
(* Evaluation *)

ListRules(s) ==
    /\ pass[s] = NoPass
    /\ pass' = [pass EXCEPT ![s].todo = {r \in Rules : rules[r] = "enabled"}]
    /\ UNCHANGED <<rules, signal, alerts>>

\* (variant) An error ends the pass.
AfterErrorNothing(todo, r) == {}

\* A rule whose metric is not available must not starve the others.
AfterError(todo, r) == todo \ {r}

\* The rules in the order of their ids: evaluate observes, without a lock.
Observe(s) ==
    /\ pass[s].rule = 0
    /\ \E r \in pass[s].todo :
          /\ \A q \in pass[s].todo : r <= q
          /\ pass' = [pass EXCEPT ![s] =
                IF r \in Broken THEN Between(AfterError(pass[s].todo, r))
                ELSE [todo |-> pass[s].todo \ {r}, rule |-> r, seen |-> signal[r]]]
    /\ UNCHANGED <<rules, signal, alerts>>

\* (variant) The open row is looked for among those that fire.
OpenRowFiring(r) == {i \in DOMAIN alerts[r] : alerts[r][i].status = "firing"}

\* The newest of the rows that are not resolved.
OpenRow(r) == OpenRows(r)

Fired == [status |-> "firing", by |-> Nobody, reason |-> ""]

Cleared(row, seen) ==
    [status |-> "resolved", by |-> row.by,
     reason |-> IF seen = "thin" THEN "insufficient_samples" ELSE "threshold_cleared"]

\* What an observation makes of a rule's rows, of which these are open
Observed(rows, open, seen) ==
    IF open = {} THEN (IF seen = "met" THEN Append(rows, Fired) ELSE rows)
    ELSE IF seen = "met" THEN rows
    ELSE [rows EXCEPT ![Max(open)] = Cleared(rows[Max(open)], seen)]

\* apply_observation, under the lock of the rule's row
Apply(s) ==
    LET r == pass[s].rule
    IN /\ r # 0
       /\ pass' = [pass EXCEPT ![s] = Between(pass[s].todo)]
       /\ alerts' = [alerts EXCEPT ![r] =
             IF rules[r] = "enabled" THEN Observed(alerts[r], OpenRow(r), pass[s].seen) ELSE alerts[r]]
       /\ UNCHANGED <<rules, signal>>

StopScheduler(s) ==
    /\ s \in Restarted
    /\ pass[s] # NoPass
    /\ pass' = [pass EXCEPT ![s] = NoPass]
    /\ UNCHANGED <<rules, signal, alerts>>

-----------------------------------------------------------------------------
(* Operators *)

\* A second actor gets a conflict, the first one the row as it is.
MayAcknowledge(row) == row.status = "firing"

Acknowledge(a, r) ==
    \E i \in DOMAIN alerts[r] :
        /\ MayAcknowledge(alerts[r][i])
        /\ alerts' = [alerts EXCEPT ![r][i] = [status |-> "acknowledged", by |-> a, reason |-> alerts[r][i].reason]]
        /\ UNCHANGED <<rules, signal, pass>>

MayResolve(row) == IsOpen(row)

Resolve(r) ==
    /\ Len(alerts[r]) < MaxOccurrences
    /\ \E i \in DOMAIN alerts[r] :
          /\ MayResolve(alerts[r][i])
          /\ alerts' = [alerts EXCEPT ![r][i] = [status |-> "resolved", by |-> alerts[r][i].by, reason |-> "manual"]]
    /\ UNCHANGED <<rules, signal, pass>>

-----------------------------------------------------------------------------

AlertPass(s) == ListRules(s) \/ Observe(s) \/ Apply(s)

AlertNext ==
    \/ \E r \in Rules : \E state \in {"enabled", "disabled"} : AddRule(r, state)
    \/ \E r \in Rules, s \in Signals : SignalChanges(r, s)
    \/ \E s \in Schedulers : AlertPass(s) \/ StopScheduler(s)
    \/ \E r \in Rules : Resolve(r) \/ \E a \in Actors : Acknowledge(a, r)

AlertSpec == AlertInit /\ [][AlertNext]_alertVars

-----------------------------------------------------------------------------
(* Properties *)

\* What a step may make of a rule's rows
Keeps(old, new) ==
    \A i \in DOMAIN old :
        /\ i \in DOMAIN new
        /\ old[i].status = "resolved" => new[i] = old[i]
        /\ old[i].by # Nobody => new[i].by = old[i].by /\ new[i].status # "firing"

\* Whatever the schedulers and operators do, a rule has one open occurrence at most, and
\* it is the one that was fired last.
OneOpenOccurrence == \A r \in Rules : OpenRows(r) \subseteq {Len(alerts[r])}

\* The history of a rule is only added to: a resolved occurrence stays as it was resolved,
\* and an acknowledged one keeps its actor until and after it is resolved (proved in
\* Alerts_proofs).
AlertHistoryStands ==
    [][\A r \in Rules : Keeps(alerts[r], alerts'[r])]_alerts

\* However late observations are applied, once the metric stays as it is the alert comes
\* to follow it, whatever the rules before this one do.
AlertsFollow ==
    \A r \in Rules \ Broken :
        /\ <>[](rules[r] = "enabled" /\ signal[r] = "met") => <>[](OpenRows(r) # {})
        /\ <>[](rules[r] = "enabled" /\ signal[r] # "met") => <>[](OpenRows(r) = {})
=============================================================================
