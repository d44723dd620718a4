--------------------------- MODULE ModelActivation ---------------------------
(***************************************************************************)
(* Publication of models: registration as READY                            *)
(* (models_registry/registration.py), the activation handler of the        *)
(* internal listener (models_registry/router.py and service.py) and the    *)
(* slot the API process serves from (runtime.py).                          *)
(*                                                                         *)
(* A handler runs three transactions with work between them: it stages the *)
(* artifact and commits a STARTED attempt; under an advisory lock it       *)
(* compares and swaps the ACTIVE row; it then puts the staged model into   *)
(* the slot, outside the lock.  A refused activation rolls back and        *)
(* records its failure in a transaction of its own.  The process may die   *)
(* between any two of these.                                               *)
(*                                                                         *)
(* ModelRegistryRepository.transition_model, which no code in src/ calls,  *)
(* is left out: nothing makes an ARCHIVED model READY again.               *)
(***************************************************************************)
EXTENDS Naturals

CONSTANTS
    Models,
    Requests,     \* calls of the activation endpoint
    NoModel,
    MaxCrashes    \* bound on restarts of the API process

ASSUME ActivationConstants ==
    /\ NoModel \notin Models
    /\ MaxCrashes \in Nat

VARIABLES
    status,     \* model_versions.status
    attempt,    \* model_activation_attempts row of each request
    request,    \* the handler of each request
    slot,       \* AtomicRuntimeModelSlot: version of the model served
    up,         \* the API process is serving
    crashes

vars == <<status, attempt, request, slot, up, crashes>>

-----------------------------------------------------------------------------

Request ==
    [phase    : {"idle", "prepared", "refused", "committed", "over"},
     model    : Models \cup {NoModel},
     expected : Models \cup {NoModel}]   \* expected_current_version

TypeOK ==
    /\ status \in [Models -> {"absent", "ready", "active", "archived"}]
    /\ attempt \in [Requests -> {"none", "started", "succeeded", "failed"}]
    /\ request \in [Requests -> Request]
    /\ slot \in Models \cup {NoModel}
    /\ up \in BOOLEAN
    /\ crashes \in 0 .. MaxCrashes

Init ==
    /\ status = [m \in Models |-> "absent"]
    /\ attempt = [q \in Requests |-> "none"]
    /\ request = [q \in Requests |-> [phase |-> "idle", model |-> NoModel, expected |-> NoModel]]
    /\ slot = NoModel
    /\ up = FALSE
    /\ crashes = 0

Active == {m \in Models : status[m] = "active"}

\* The model an activation finds current.
Current == IF Active = {} THEN {NoModel} ELSE Active

InFlight == {q \in Requests : request[q].phase \notin {"idle", "over"}}

Moves(q, phase) == request' = [request EXCEPT ![q].phase = phase]

-----------------------------------------------------------------------------

\* ReadyModelRegistrationService.register; a replay changes nothing.
Register(m) ==
    /\ status[m] = "absent"
    /\ status' = [status EXCEPT ![m] = "ready"]
    /\ UNCHANGED <<attempt, request, slot, up, crashes>>

\* authenticate, begin_attempt and prepare: the model was READY before it was staged (it
\* may have become more since), and the attempt is committed.
Prepare(q, m, expected) ==
    /\ up
    /\ request[q].phase = "idle"
    /\ status[m] # "absent"
    /\ request' = [request EXCEPT ![q] = [phase |-> "prepared", model |-> m,
                                          expected |-> expected]]
    /\ attempt' = [attempt EXCEPT ![q] = "started"]
    /\ UNCHANGED <<status, slot, up, crashes>>

\* The model is not READY, or its artifact does not stage.
PrepareFails(q, m, expected) ==
    /\ up
    /\ request[q].phase = "idle"
    /\ status[m] # "absent"
    /\ request' = [request EXCEPT ![q] = [phase |-> "over", model |-> m,
                                          expected |-> expected]]
    /\ attempt' = [attempt EXCEPT ![q] = "failed"]
    /\ UNCHANGED <<status, slot, up, crashes>>

\* _validate_target under the lock.
StillReady(q) == status[request[q].model] = "ready"

\* (variant) No comparison with the current model.
ExpectsAnything(q) == TRUE

ExpectsCurrent(q) == request[q].expected \in Current

Promoted(m) ==
    [n \in Models |-> IF n = m THEN "active"
                      ELSE IF status[n] = "active" THEN "archived" ELSE status[n]]

\* activate_prepared, committed: the row and the attempt change together.
Activate(q) ==
    /\ request[q].phase = "prepared"
    /\ StillReady(q)
    /\ ExpectsCurrent(q)
    /\ status' = Promoted(request[q].model)
    /\ attempt' = [attempt EXCEPT ![q] = "succeeded"]
    /\ Moves(q, "committed")
    /\ UNCHANGED <<slot, up, crashes>>

\* activate_prepared raises ApiError (not READY, not current, or the serving
\* resource cannot be integrated) and is rolled back.
Refuse(q) ==
    /\ request[q].phase = "prepared"
    /\ Moves(q, "refused")
    /\ UNCHANGED <<status, attempt, slot, up, crashes>>

RecordFailure(q) ==
    /\ request[q].phase = "refused"
    /\ attempt' = [attempt EXCEPT ![q] = "failed"]
    /\ Moves(q, "over")
    /\ UNCHANGED <<status, slot, up, crashes>>

\* Any other exception leaves the attempt STARTED.
ActivateRaises(q) ==
    /\ request[q].phase \in {"prepared", "refused"}
    /\ Moves(q, "over")
    /\ UNCHANGED <<status, attempt, slot, up, crashes>>

\* runtime.swap, the last thing the handler does.
Swap(q) ==
    /\ request[q].phase = "committed"
    /\ slot' = request[q].model
    /\ Moves(q, "over")
    /\ UNCHANGED <<status, attempt, up, crashes>>

\* The API process dies and takes its handlers along.
Crash ==
    /\ up
    /\ crashes < MaxCrashes
    /\ crashes' = crashes + 1
    /\ up' = FALSE
    /\ slot' = NoModel
    /\ request' = [q \in Requests |-> IF q \in InFlight
                                      THEN [request[q] EXCEPT !.phase = "over"] ELSE request[q]]
    /\ UNCHANGED <<status, attempt>>

\* restore_active_model before the listeners open; if it fails they open with an
\* empty slot.
Start ==
    /\ ~ up
    /\ up' = TRUE
    /\ slot' \in Current \cup {NoModel}
    /\ UNCHANGED <<status, attempt, request, crashes>>

-----------------------------------------------------------------------------

Handler(q) ==
    \/ \E m \in Models, expected \in Models \cup {NoModel} :
          Prepare(q, m, expected) \/ PrepareFails(q, m, expected)
    \/ Activate(q)
    \/ Refuse(q)
    \/ RecordFailure(q)
    \/ ActivateRaises(q)
    \/ Swap(q)

Next ==
    \/ \E m \in Models : Register(m)
    \/ \E q \in Requests : Handler(q)
    \/ Crash
    \/ Start

Spec == Init /\ [][Next]_vars

-----------------------------------------------------------------------------
(* Properties *)

Won == {q \in Requests : attempt[q] = "succeeded"}

\* At most one model is ACTIVE (the partial unique index never refuses).
OneActive == \A m, n \in Active : m = n

\* Of the activations that expect the same current model at most one succeeds,
\* and none that succeeded is forgotten: each archived or active model has its
\* own SUCCEEDED attempt.
ActivationsAccounted ==
    /\ \A q, r \in Won : q # r => request[q].expected # request[r].expected
    /\ \A m \in Models :
          status[m] \in {"active", "archived"} <=> \E q \in Won : request[q].model = m

\* No model is activated twice or served before its activation has committed.
ServedWasActivated ==
    /\ slot # NoModel => status[slot] \in {"active", "archived"}
    /\ \A q, r \in Won : q # r => request[q].model # request[r].model

\* The slot is never behind the database once no handler is between its commit
\* and its swap: it holds the ACTIVE model, or none if it could not be restored.
SlotFollowsActive ==
    (\A q \in Requests : request[q].phase # "committed") => slot \in Active \cup {NoModel}

-----------------------------------------------------------------------------
(* Inductive invariant (used by Models_proofs) *)

Published(m) == status[m] \in {"active", "archived"}

\* The attempt and the handler agree.
HandlerInv ==
    \A q \in Requests :
        /\ request[q].phase = "idle" => attempt[q] = "none"
        /\ request[q].phase \in {"prepared", "refused"} => attempt[q] = "started"
        /\ request[q].phase = "committed" => attempt[q] = "succeeded"
        /\ request[q].phase # "idle" => request[q].model \in Models

\* The winners form a chain: each replaced a model that is archived since, but
\* for the first, and while there are winners a model is active.
ChainInv ==
    /\ \A q \in Won :
          /\ Published(request[q].model)
          /\ request[q].expected # NoModel => status[request[q].expected] = "archived"
    /\ Won # {} => Active # {}

IInv ==
    /\ TypeOK
    /\ OneActive
    /\ HandlerInv
    /\ ActivationsAccounted
    /\ ServedWasActivated
    /\ ChainInv
=============================================================================
