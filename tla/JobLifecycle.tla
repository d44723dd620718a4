---------------------------- MODULE JobLifecycle ----------------------------
(***************************************************************************)
(* What the durable queue promises its clients about a job, with no word   *)
(* of attempts rows, leases, fences, clocks or messages: a job gets at     *)
(* most a fixed number of turns, one at a time, and a result is final.     *)
(* DurableJobs.tla implements this specification.                          *)
(***************************************************************************)
EXTENDS Naturals

CONSTANT Jobs

VARIABLE life   \* phase of each job and the turns it may still be given

Submit(old, new) ==
    /\ old.phase = "absent"
    /\ new.phase = "queued"
    /\ new.left > 0

\* A turn begins; the job may be taken over from a holder that is gone.
BeginTurn(old, new) ==
    /\ old.phase \in {"queued", "running"}
    /\ old.left > 0
    /\ new = [phase |-> "running", left |-> old.left - 1]

\* A turn ends: with a result, for another try if a turn is left, or in vain.
EndTurn(old, new) ==
    /\ old.phase = "running"
    /\ new.left = old.left
    /\ \/ new.phase \in {"succeeded", "failed", "cancelled"}
       \/ new.phase = "queued" /\ old.left > 0

Withdraw(old, new) ==
    /\ old.phase = "queued"
    /\ new = [old EXCEPT !.phase = "cancelled"]

\* A failed job is queued again only if a turn is left.
Reopen(old, new) ==
    /\ old.phase = "failed"
    /\ old.left > 0
    /\ new = [old EXCEPT !.phase = "queued"]

JobStep(old, new) ==
    \/ Submit(old, new)
    \/ BeginTurn(old, new)
    \/ EndTurn(old, new)
    \/ Withdraw(old, new)
    \/ Reopen(old, new)

Init == \A j \in Jobs : life[j] = [phase |-> "absent", left |-> 0]

\* One transaction of the queue may move several jobs.
Next == \A j \in Jobs : life'[j] = life[j] \/ JobStep(life[j], life'[j])

Spec == Init /\ [][Next]_life
=============================================================================
