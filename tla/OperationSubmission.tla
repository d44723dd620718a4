------------------------- MODULE OperationSubmission -------------------------
(***************************************************************************)
(* How an operator's decision becomes an operation                         *)
(* (apps/web/src/features/admin: useOperationsController,                  *)
(* OperationSubmissionTracker, OperationsExperience): the form and the     *)
(* item as it was selected are given an id, which is kept while the        *)
(* network leaves the outcome open, and the server takes an id once        *)
(* (operations/router.py, operation_jobs/router.py).  A request may be     *)
(* lost, or reach the server after its caller has given up.                *)
(***************************************************************************)
EXTENDS Naturals, FiniteSets

CONSTANTS
    MaxPresses,   \* bounds: of presses of the button,
    MaxEdits,     \* of changes of the form,
    MaxVersion,   \* of versions of the item
    NoId

ASSUME SubmissionConstants == MaxPresses \in Nat /\ MaxEdits \in Nat /\ MaxVersion \in Nat /\ NoId \notin Nat

VARIABLES
    form,       \* draft and selection
    listed,     \* version of the item in the list
    pending,    \* OperationSubmissionTracker.pending
    call,       \* the call the page waits for; presses counts them
    presses,
    wire,       \* requests that may reach the server
    operation,  \* what the server has, by id
    stored,     \* items.state_version
    edits,
    decision,   \* history: the user's decisions: number of the current one,
    decided     \* and the ids each was sent with

submissionVars == <<form, listed, pending, call, presses, wire, operation, stored, edits, decision, decided>>

-----------------------------------------------------------------------------

Ids == 1 .. MaxPresses

\* Draft 0 does not validate.
Forms == [draft : 0 .. 2, scheduled : BOOLEAN, version : 0 .. MaxVersion]

NoPending == [form |-> [draft |-> 0, scheduled |-> FALSE, version |-> 0], id |-> NoId]

NoCall == [press |-> 0, answer |-> "none"]

Unknown == [status |-> "none", selected |-> 0, found |-> 0]

SubmissionInit ==
    /\ form = [draft |-> 1, scheduled |-> FALSE, version |-> 0]
    /\ listed = 0
    /\ pending = NoPending
    /\ call = NoCall
    /\ presses = 0
    /\ wire = {}
    /\ operation = [i \in Ids |-> Unknown]
    /\ stored = 0
    /\ edits = 0
    /\ decision = 0
    /\ decided = [d \in 0 .. MaxPresses + MaxEdits + 1 |-> {}]

SubmissionTypeOK ==
    /\ form \in Forms
    /\ listed \in 0 .. stored
    /\ pending.id \in Ids \cup {NoId} /\ pending.form \in Forms
    /\ call \in [press : 0 .. MaxPresses, answer : {"none", "taken", "refused"}]
    /\ \A r \in wire : r.id \in Ids /\ r.press \in 1 .. MaxPresses /\ r.form \in Forms
    /\ operation \in [Ids -> [status : {"none", "succeeded", "failed", "queued"},
                              selected : 0 .. MaxVersion, found : 0 .. MaxVersion]]
    /\ stored \in 0 .. MaxVersion

-----------------------------------------------------------------------------
(* The page *)

Decides == decision' = decision + 1

\* A field is changed, or the item taken out of the selection and, as it is listed now, in.
Edits ==
    /\ edits < MaxEdits
    /\ edits' = edits + 1
    /\ form' \in {[form EXCEPT !.draft = d] : d \in 0 .. 2} \cup {[form EXCEPT !.scheduled = ~ @], [form EXCEPT !.version = listed]}
    /\ form' # form
    /\ Decides
    /\ UNCHANGED <<listed, pending, call, presses, wire, operation, stored, decided>>

\* search
Lists ==
    /\ listed' = stored
    /\ UNCHANGED <<form, pending, call, presses, wire, operation, stored, edits, decision, decided>>

\* The fingerprint of draft and targets, versions included
SameForm == pending.id # NoId /\ pending.form = form

\* prepare: the same form is the same operation.
Prepared == IF SameForm THEN pending.id ELSE presses + 1

Waiting == call.press # 0

\* submit; the button is disabled while it waits.
Press ==
    /\ ~ Waiting
    /\ presses < MaxPresses
    /\ form.draft # 0
    /\ presses' = presses + 1
    /\ pending' = [form |-> form, id |-> Prepared]
    /\ call' = [press |-> presses + 1, answer |-> "none"]
    /\ wire' = wire \cup {[press |-> presses + 1, id |-> Prepared, form |-> form]}
    /\ decided' = [decided EXCEPT ![decision] = @ \cup {Prepared}]
    /\ UNCHANGED <<form, listed, operation, stored, edits, decision>>

\* validateDraft raises OperationValidationError.
PressInvalid ==
    /\ ~ Waiting
    /\ form.draft = 0
    /\ pending' = NoPending
    /\ UNCHANGED <<form, listed, call, presses, wire, operation, stored, edits, decision, decided>>

\* Any answer ends the operation for the tracker; success lists the items again.
Answered ==
    /\ call.answer # "none"
    /\ pending' = NoPending
    /\ call' = NoCall
    /\ listed' \in IF call.answer = "taken" THEN listed .. stored ELSE {listed}
    /\ Decides
    /\ UNCHANGED <<form, presses, wire, operation, stored, edits, decided>>

\* (variant) A network error ends it as well.
AfterNetworkErrorNothing == NoPending

AfterNetworkError == pending

NetworkError ==
    /\ Waiting
    /\ call' = NoCall
    /\ pending' = AfterNetworkError
    /\ UNCHANGED <<form, listed, presses, wire, operation, stored, edits, decision, decided>>

-----------------------------------------------------------------------------
(* The server *)

\* The caller hears of it if it still waits for this request.
Answers(r, answer) == call' = IF call.press = r.press THEN [call EXCEPT !.answer = answer] ELSE call

\* create_batch (OperationBatches): applied to the item as it is, or failed and recorded.
TakesBatch(r) ==
    /\ ~ r.form.scheduled
    /\ operation[r.id].status = "none"
    /\ \/ /\ stored < MaxVersion
          /\ stored' = stored + 1
          /\ operation' = [operation EXCEPT ![r.id] = [status |-> "succeeded", selected |-> r.form.version, found |-> stored]]
          /\ Answers(r, "taken")
       \/ /\ operation' = [operation EXCEPT ![r.id].status = "failed"]
          /\ Answers(r, "refused")
          /\ UNCHANGED stored

\* _existing_batch: the recorded outcome
RepeatsBatch(r) ==
    /\ ~ r.form.scheduled
    /\ operation[r.id].status # "none"
    /\ Answers(r, IF operation[r.id].status = "failed" THEN "refused" ELSE "taken")
    /\ UNCHANGED <<operation, stored>>

\* create_operation_job: the versions go along.
TakesJob(r) ==
    /\ r.form.scheduled
    /\ operation[r.id].status = "none"
    /\ operation' = [operation EXCEPT ![r.id].status = "queued"]
    /\ Answers(r, "taken")
    /\ UNCHANGED stored

\* The payload that is compared holds the time of the request: never the same.
RepeatsJob(r) ==
    /\ r.form.scheduled
    /\ operation[r.id].status # "none"
    /\ Answers(r, "refused")
    /\ UNCHANGED <<operation, stored>>

\* The session or role is refused, or the transaction raises: nothing is kept.
Refuses(r) == Answers(r, "refused") /\ UNCHANGED <<operation, stored>>

Receives(r) ==
    /\ wire' = wire \ {r}
    /\ TakesBatch(r) \/ RepeatsBatch(r) \/ TakesJob(r) \/ RepeatsJob(r) \/ Refuses(r)
    /\ UNCHANGED <<form, listed, pending, presses, edits, decision, decided>>

\* The request of a caller that has given up may get lost.
Lost(r) ==
    /\ wire' = wire \ {r}
    /\ UNCHANGED <<form, listed, pending, call, presses, operation, stored, edits, decision, decided>>

\* Another operator
ItemChanges ==
    /\ stored < MaxVersion
    /\ stored' = stored + 1
    /\ UNCHANGED <<form, listed, pending, call, presses, wire, operation, edits, decision, decided>>

SubmissionNext ==
    \/ Edits \/ Lists \/ Press \/ PressInvalid \/ Answered \/ NetworkError
    \/ \E r \in wire : Receives(r) \/ Lost(r)
    \/ ItemChanges

SubmissionSpec == SubmissionInit /\ [][SubmissionNext]_submissionVars

-----------------------------------------------------------------------------
(* Properties *)

Taken(id) == operation[id].status \in {"succeeded", "queued"}

\* However often the button is pressed while the network fails, and whenever the requests
\* arrive: a decision, which ends with an answer or a change of the form, becomes at most
\* one operation.
OneOperationPerDecision == \A d \in DOMAIN decided : Cardinality({id \in decided[d] : Taken(id)}) <= 1

\* "Selected state versions are checked by the server before any target changes."
\* (OperationsExperience.tsx; the code fails it: see the run selected_versions.)
SelectedVersionsChecked ==
    \A id \in Ids : operation[id].status = "succeeded" => operation[id].found = operation[id].selected
=============================================================================
