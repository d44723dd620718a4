---------------------------- MODULE DurableLeases ----------------------------
(***************************************************************************)
(* What a lease of the durable job queue is worth when clocks disagree.    *)
(* The repository writes a lease from the clock of the claimer or of the   *)
(* holder and compares it with the clock of whoever calls next, so         *)
(* DurableJobs alone cannot say what its holder is promised in true time.  *)
(* The variable added here is a history of the queue's steps: none of them *)
(* reads it.                                                               *)
(***************************************************************************)
EXTENDS DurableJobs

VARIABLE granted  \* true time at which the lease now on a job was written

leaseVars == <<job, attempt, outbox, now, granted>>

LeasesInit == Init /\ granted = [j \in Jobs |-> 0]

\* A claim or a heartbeat writes the lease of attempt n.
WritesLease(j, n) == attempt'[j][n].status = "running" /\ attempt'[j][n] # attempt[j][n]

Notes == granted' = [j \in Jobs |-> IF \E n \in Numbers : WritesLease(j, n) THEN now ELSE granted[j]]

LeasesNext == Next /\ Notes

LeasesSpec == LeasesInit /\ [][LeasesNext]_leaseVars

-----------------------------------------------------------------------------
(* Properties *)

\* Recovery takes attempt n from its holder.
Takes(j, n) == attempt[j][n].status = "running" /\ attempt'[j][n].status = "lease_expired"

\* A heartbeat or a report of the holder of attempt n is accepted.
Accepts(j, n) ==
    /\ attempt[j][n].status = "running"
    /\ WritesLease(j, n) \/ attempt'[j][n].status \in {"succeeded", "failed"}

\* A lease counts in true time, to within the errors of two clocks.  A worker is
\* not robbed: however slow the clock that wrote its lease and however fast the
\* one that recovers, LeaseSeconds less both errors have passed since.  And a
\* worker believed dead is not heard for ever: once LeaseSeconds and both errors
\* have passed, no heartbeat or report of its own is accepted, though nobody may
\* have recovered the attempt.
LeaseHonoured ==
    [][\A j \in Jobs, n \in Numbers :
          /\ Takes(j, n) => granted[j] + LeaseSeconds <= now + 2 * ClockSkew
          /\ Accepts(j, n) => now < granted[j] + LeaseSeconds + 2 * ClockSkew]_leaseVars

-----------------------------------------------------------------------------
(* Inductive invariant (used by DurableJobs_proofs) *)

\* The lease of a running attempt is off its true end by one clock's error at most.
LeaseInv(rows, time) ==
    \A n \in Numbers :
        rows[n].status = "running" =>
            /\ rows[n].lease <= time + LeaseSeconds + ClockSkew
            /\ time + LeaseSeconds <= rows[n].lease + ClockSkew

LeasesInv ==
    /\ IInv
    /\ granted \in [Jobs -> Nat]
    /\ \A j \in Jobs : LeaseInv(attempt[j], granted[j])
=============================================================================
