# A verification project for microlens-recsys

The repository is a short-video recommender: a FastAPI service over PostgreSQL, worker and scheduler
processes, Redis and Elasticsearch as helpers that may be missing, a React client, and a Python
package that prepares data and trains models. What can go wrong without a test noticing lies mostly
between these: transactions of several processes on the same rows, leases, crashes between a commit
and what should follow it, answers that come late, files and rows that must fit each other. That is
what these TLA+ modules are about. They are checked with TLC on small instances; most of what the
runs check about safety, and the refinements, is proved with TLAPS for every value of the constants.

Contents: [the system](#the-system), [modules](#modules-and-the-code), [runs](#runs),
[bounds](#bounds), [fairness](#fairness), [proofs](#proofs), [findings](#findings),
[what a reader should know](#what-a-reader-of-the-code-should-know),
[what is left out](#not-modelled), [plan](#plan).

## The system

Paths are under `src/apps/api/app` unless they start with `worker/` or `web/` (`src/apps/...`) or
`recsys/` (`src/recsys/...`).

| Part | State | Operations | Interacts with | Module |
|---|---|---|---|---|
| Durable job queue, `async_runtime/` | `async_jobs`, `async_job_attempts`, `async_outbox` | enqueue, claim_next, heartbeat, succeed, fail, cancel, retry | everything that enqueues; workers | JobLifecycle, DurableJobs, DurableLeases |
| Outbox delivery, `async_runtime/service.py` | status, token, lease and due time of outbox rows | claim_outbox, sink.notify, ack_outbox, nack_outbox | queue, Redis hints | AsyncOutbox |
| Workers and schedulers, `worker/async_tasks.py`, `worker/scheduler.py` | none that survives | poll, run the handler, report | queue, handlers | DurableWorkers |
| Operation jobs, `operation_jobs/`, `worker/durable_runtime.py` | items' state versions, `operation_batches` as receipts | submit, cancel, retry, apply_all | queue, workers, operation batches | OperationJobs |
| Operation batches, `operations/`, `worker/operations.py` | items, batches, audit, `promotion_rules` | create_batch, apply_due_batches, _reconcile_promotions | row locks | OperationBatches |
| Operation form, `web/src/features/admin` | form, pending submission | select, edit, submit, apply the answer | operation batches and jobs | OperationSubmission |
| Training jobs, `worker/jobs.py`, `worker/runtime.py` | `training_jobs`, `job_attempts`, model directories | enqueue, claim, heartbeat, succeed, fail, cancel, recover, publish | training subprocess | TrainingJobs |
| Alerts, `alerts/` | rules, occurrences | list, observe, apply, acknowledge, resolve | schedulers | Alerts |
| Datasets, `recsys/data` | dataset directories and manifests | import, add an export, publish, load | event exports, training | TrainingData |
| Model training, `recsys/models` | checkpoints, stages | train, resume, select, finalize | datasets, model artifacts | StageTraining |
| Experiments, `recsys/experiments` | output root, `run.json` | claim, validate, select, test, fail | training | ExperimentMatrix |
| Model registry and slot, `models_registry/`, `runtime.py` | `model_versions`, activation attempts, the slot | register, prepare, activate, swap, restore | feeds | ModelActivation |
| Serving resources, `feeds/resources.py` | demo users' mapping, items' titles, the staged data | stage, verify, sync | activation, operations | ServingResources |
| Search index, `search/indexing.py` | indices, alias, registry of builds, task receipts | full build, incremental task, repair | Elasticsearch, PostgreSQL | SearchIndex |
| Search queries, `search/service.py` | none | search, fall back, fill | index, items, users | SearchQueries |
| Versioned cache and feed request, `cache/`, `feeds/service.py` | Redis and process entries, snapshots | authority, look up, load, store, create the snapshot | slot, profile, items | FeedSnapshots |
| Retrieval and ranking, `feeds/retrieval.py`, `feeds/ranking.py` | none | recall, fall back, filter, rank, promote | the snapshot | FeedRanking |
| Feed pages, `feeds/service.py` | snapshot rows, cursors | continue | items, web feed | FeedPages |
| Feed in the browser, `web/src/features/feed` | shown rows, cursor, generation | first page, more, switch, retry, event | feeds, profile | FeedView |
| Event queue in the browser, `event-queue.ts` | records, batch ids | enqueue, send, retry | event ingest | EventQueue |
| Event ingest, `events/service.py` | events, batches, profiles | submit, submit_batch | exports, feeds | EventIngest |
| Exports, `events/export.py`, `recsys/analytics` | watermarks, directories, manifests | claim, write, publish, complete, collect | events | EventLog, EventExport, AnalyticsExport |
| Auth, admin queries, settings, migrations, generated client | users, tokens | | | not modelled |

What makes each correct, and what is hard about it:

* **Job queue.** One good claim per job; the attempt budget; results final; the outbox says what
  happened. Hard: a worker believed dead reports late, with a clock of its own, while its successor
  runs.
* **Outbox.** No hint lost, none sent twice without cause, all sent in the end. Hard: the send is no
  part of any transaction, one lease covers a whole batch, one refused settlement abandons it.
* **Operation jobs and batches.** An operation takes effect once, on all its targets or none, on the
  versions it expected, and its row tells which; everything ends. Hard: the receipt is looked for before
  anything is locked; savepoints inside a pass that keeps its locks; deadlocks.
* **Operation form.** One decision, one operation. Hard: a POST whose answer is lost is pressed again.
* **Training jobs.** A job succeeds only with its model in place, keeps the promise of the durable queue
  and ends. Hard: the subprocess outlives its lease and publishes beside its successor.
* **Alerts.** One open occurrence per rule, which follows the metric. Hard: observations are made before
  the lock and applied out of order by several schedulers; a broken rule comes first.
* **Datasets.** What is evaluated comes after what is learned, and what happened is learned as often as
  it happened. Hard: chains of exports, some twice or overlapping, each a new split.
* **Training stages, experiments.** A resumed run is the undisturbed one; the test split is read once
  and after the selection. Hard: kills at any point, two checkpoints, contenders for a directory.
* **Activation and resources.** One ACTIVE model, reached by a chain of recorded activations, served
  with data and rows that fit it. Hard: staging takes long and outside the lock, the process may die.
* **Search.** The alias leads to a complete index, documents do not get older, and registry and alias
  agree in the end. Hard: two systems without a common transaction, locks that are lost, repeats.
* **Feeds.** One generation per snapshot, no item lost or doubled by ranking or paging. Hard: model,
  profile, items and cache change between the reads.
* **Browser.** What is shown is a prefix of one snapshot; an event is never settled against the facts.
  Hard: answers in any order, for a feed or a profile that is no longer asked for.
* **Exports.** Every event is in one export, and what is recorded is on the disk. Hard: ids become
  visible out of order, and the file system does not roll back with the transaction.

## Modules and the code

`map` in PROJECT.json gives the lines of every definition. Conventions: one action per transaction
or per step between two awaits or calls; a method that raises rolls its transaction back, so it has
an action only when something outlives the rollback. Definitions marked *(variant)* are seeded
faults: each is the definition below it with a plausible mistake, nothing in a specification uses
them, and the mutants of PROJECT.json put them in to see that the named property notices.

### Jobs and operations

**JobLifecycle** is what the queue promises, without attempts, leases, clocks or messages: turns of
a job are exclusive and bounded, results are final, only a failed job with a turn left is reopened.

**DurableJobs** (`async_runtime/repository.py`, `service.py`) has the rows of the three tables.
`Heartbeat`, `Succeed`, `FailAndRequeue`, `FailForGood`, `Enqueue`, `Cancel`, `Retry` are the methods;
`ClaimNext` and `Reconcile` are `claim_next` with and without a job to return, each with the recovery of
expired leases that the method starts with, since both commit together. Its clients are the most
general: any claim may be presented at any later time, repeatedly, with a clock that is up to
`ClockSkew` slow or fast (`Readings`). An attempt number stands for `attempt_id` and `fence_token`. It
implements JobLifecycle under the mapping `LifeOf`.

**DurableLeases** adds the true time at which the lease of a job was written, as history. The code
has no such time: it writes `lease_expires_at` with one clock and compares it with others, so only
with this variable can be said what a lease is worth to its holder and what it costs the queue.

**AsyncOutbox** (`claim_outbox`, `ack_outbox`, `nack_outbox`, `OutboxHintDispatcher.run_once`) has
the rows as the deliverer sees them, and in each dispatcher the claims its run has still to settle.
`NotifyReturns` and `NotifyRaises` are the sink call, `AbandonRun` is what `LeaseLost` does to the rest
of a batch. Time is reduced to whether a row's due time and lease have passed.

**DurableWorkers** extends DurableJobs with `RunOnceWorker`: `Poll`, `Handle`, `Report`, and
`Crash`, which also stands for a report that raises.

**OperationJobs** extends DurableWorkers: `LookForReceipt`, then `Commits`, `CommitsUnheard` (the
answer to the commit is lost), `Conflicts` or `ApplyRaises`, are the handler of an operation.
`ChangeItem` is any other writer of items.

**OperationBatches** takes the transactions of `OperationService` apart, down to single row locks
(`LockItem`), because deadlock and savepoints are what matters there. A transaction keeps a log of audit
entries; its effects are derived from the log and published by `Commit`. `Fails` is the rollback to the
savepoint and `_record_failed_batch`. It also has the Session: `objects` are the `Item`s a runner still
holds when it comes to its next batch, `Object` what a SELECT then gives it (an object that is held
keeps its attributes, however its row has changed), `Row` what the row is. A batch that succeeds leaves
objects whose rows it keeps locked; a batch that raises leaves those it had not modified (`Unmodified`),
and their rows are free. `LockRules` is the SELECT of `_reconcile_promotions`, which skips rules another
runner has locked. PostgreSQL's locks and deadlock detector are external definitions. The module and
OperationJobs meet in the items: each sees the other's writers only as changes of version.

**OperationSubmission** (`operation-submission.ts`, `useOperationsController.ts`) has the form, the
tracker's pending submission and the requests on the wire, which may arrive after their caller has
given up. `AfterNetworkError` is why a press after a lost answer is the same operation. A decision,
which ends with an answer or a change of the form, is history.

**TrainingJobs** (`worker/jobs.py`, `worker/runtime.py`, `recsys/models/artifacts.py`) has one trainer
per worker: `Claim` (with recovery), `Start` of the subprocess, `Look` at the directory that the content
names, `Publish`, then `ReportSuccess` or `ReportFailure`; `Lapse` is a lease nobody renewed,
`RegistrationFails` a registration of the finished model that raises, which leaves its directory,
`TrainerDies` a crash. The row that registration writes is ModelActivation's. It implements JobLifecycle
too.

**Alerts** (`alerts/service.py`) has one pass per scheduler, `ListRules`, `Observe`, `Apply`, so that
an observation may be older than what is applied before it. `AfterError` is what a pass does when
one rule raises.

### Data and models

**TrainingData** (`recsys/data`) names a dataset by what it was built from: the official rows, then
the exports that were added, each under a mapping of events to labels. The split is by time
(`Earlier`), a dataset has its rows as bags, and the manifest's counts are those the builder writes.
`Loadable` is what `load_model_data` accepts.

**StageTraining** (`entrypoint.py`, `training.py`, `early_stopping.py`) trains the recall stage, then
the ranker over its examples. An epoch's metric comes from a curve chosen at the start: training is
deterministic. `Interrupted` may come between any two epochs; `FromCheckpoint` is the resumption.
`again` is history: a stage resumed from its last epoch trains on (see below).

**ExperimentMatrix** (`phase7a.py`) has one process per call: `FindsEmpty`, `ClaimsRoot`, `MakesRun`,
`OpensRecord`, `Validates` per experiment, `FreezesSelection`, `ReadsTest`, `Passes`; `RunRaises` and
`MarksFailed` are the handler around all of it, `RunnerDies` the container's end.

**ModelActivation** (`models_registry/`, `runtime.py`) has one handler per request: `Prepare` or
`PrepareFails`, then `Activate` or `Refuse` with `RecordFailure`, then `Swap`; `Crash` takes all
handlers and the slot along; `Start` is `restore_active_model`. `Refuse` has no guard: integration
of the staged model may fail for reasons the module leaves out. **ServingResources**
(`feeds/resources.py`) gives these reasons: it extends ModelActivation with the files of bundle and
data, which may be damaged at any time, the mapping of the three demo users to users of the data,
the items' rows and the operators who change them. Each of its steps is a step of ModelActivation or
leaves its variables alone, and it is the one that is run.

### Search and feeds

**SearchIndex** (`search/indexing.py`, `worker/search_tasks.py`) has the indices and the alias of
Elasticsearch, and in PostgreSQL the builds, the advisory lock, which can be lost with its
connection, and the receipts of the incremental tasks. A reindex is built, filled, recorded,
switched and marked in steps between which it may die or be repeated. The switch is three calls, each
a step: `LooksUp` (`alias_targets`), `Switches` (`update_aliases`, for which removing an alias that is
not there is no error) and `Verifies`. The alias is a set of targets, for after a lost lock a
late switch leaves it on two indexes.

**SearchQueries** (`search/service.py`) has one search: hits from Elasticsearch, which may be stale
or missing, the rows that stand in PostgreSQL, the second session that fills the page; items go off
line and come back in between, and the user may be deactivated. **Orderings** has what searches and
feeds do to lists, sorting and picking, by definitions that need no recursion.

**FeedSnapshots** (`feeds/service.py`, `cache/runtime.py`) has the request of a first page, one
action per await: authority, look-up in Redis or memory, load, the second authority (`Confirmed`),
the entry's write, the catalogue, the promotions and the snapshot. Content is told apart by the
generations it was computed from.

**FeedRanking** (`retrieval.py`, `ranking.py`) is the algorithm in the steps of the code, with the
recalls and scores as parameters: merging of the sources, the topic limit, the diversified order,
and the promotions with their slots. The model's recalls rank the whole stock (`Recalled`); what is
off line goes afterwards, as in the code.

**FeedPages** has one snapshot's cursors (`_page_from_snapshot`): any cursor may be used by any tab
at any time and again, while items go off line and come back. A page selected before the snapshot
expires may be recorded after it, since the request compares with its own `now`.

**FeedView** (`useFeedController.ts` and neighbours) has the calls under way with the generation that
asked for them; `FirstPage`, `MorePage` and the failures apply an answer, `SetFeedType`, `LoadMore`,
`Retry`, `RetryProfile`, `Acts` and `SendsAgain` are the user's. The profile rail has its own calls.
An event belongs to the feed shown when it was sent, or when its retry was pressed.

### Events

**EventIngest** (`EventService.submit`, `submit_batch`) has the transactions of one user's requests,
which meet at the batch's row, the events' and the profile's. An event's part in the profile is the
number of times it was counted. `UndoItem` is what a batch does with an item that raises,
`DeadlockVictim` PostgreSQL's detector, which batches and retries do meet.

**EventQueue** extends it with the browser (`event-queue.ts`). `EnqueueAndSend`, `Retry` and
`RetryFailedBatch` are what the user does; `ApplyResults`, `Refused`, `ServerError`, `Lost` and
`Disconnected` are the ways a promise settles. After `Disconnected` the request runs on in the API
with nobody to hear it.

**EventLog** is the events table as its readers see it: ids are drawn on insertion, rows become
visible on commit. **EventExport** (`events/export.py`) adds the training exporters, one action per
step between which a process may die: `Begin`, `Claim`, the look at what is there (`Reuse`,
`Collide`, `WriteDirectory`), the two renames (`SetAside`, `Publish`), and `Complete`. `recorded` and
`contested` are history. **AnalyticsExport** (`recsys/analytics`) adds the three reads of `collect`
and the chain of follow-up exports.

### How they meet

DurableWorkers and OperationJobs *contain* the queue's variables and actions, EventQueue those of
EventIngest, ServingResources those of ModelActivation. AsyncOutbox takes over rows where DurableJobs'
`outbox` has them inserted; the hints only wake pollers, which poll anyway. EventLog is what
EventIngest's commits look like to a reader of the table. TrainingData begins with the events
that EventExport has written. FeedPages takes the rows FeedSnapshots has created, FeedView the
pages of FeedPages: each states what it takes from its neighbour (a prefix of rows, a cursor, a
generation) as its own environment.

## Runs

| Run | What it shows |
|---|---|
| async_outbox | Nothing lost or acknowledged unsent, duplicates only with a cause (`DeliveriesAccounted`), published is final (`PublishedIsFinal`), everything published if leases suffice (`EventuallyPublished`). |
| operation_jobs | Applied once to the versions it expected (`AppliedOnce`); job states tell the outcome (`StateTellsOutcome`). |
| events | *queue*: every event counts once (`CountedOnce`), the queue settles and drops only what is true of the database (`SettledIsTrue`). *export*: every event up to a watermark is in exactly one of its recorded exports (`NothingMissed`). *collisions*: recorded exports are on the disk, unless exporters of two names had claimed the range at once (`RecordedStands`). |
| settling | *events*: no record stays in flight (`CallsSettle`), under fair scheduling. *training*: `ModelInPlace`, the lifecycle (`TrainingKeepsLifecycle`), every job ends (`TrainingEnds`). |
| recurring | *queue*: one holder per job (`SingleHolder`), a truthful outbox (`OutboxTruthful`), leases good in true time (`LeaseHonoured`), and DurableJobs implements JobLifecycle (`KeepsLifecycle`). *jobs*: the same with workers, and every queued job ends (`WorkersEndJobs`). *batches*: `AllOrNone`, `VersionChain`, and every scheduled batch and promotion runs its course (`BatchesRunTheirCourse`). *alerts*: `OneOpenOccurrence`, `AlertsFollow`. *submission*: `OneOperationPerDecision`. |
| serving | *data*: `EvaluationUnseen`, `LearnedAsOften`. *stages*: `ResumedAsUndisturbed`. *experiments*: `TestedOnceAsSelected`. *resources*: `ActivationsAccounted`, `ResourcesFit`. *index*: `AliasIsComplete`, `NeverServesOlder`, `RegistryFollowsAlias`. *queries*: `PageStands`. *snapshots*: `CacheHoldsItsKey`, `SnapshotOfOneGeneration`. *ranking*: `FeedStands`. *pages*: `CursorsMissNothing`. *view*: `OneSnapshotShown`, `OwnEventsFollowed`. |
| quality_trainable, selected_versions, duplicate_operation, stale_slot, analytics_gap, lost_update | The [findings](#findings): each violates the property named there. |

`events`, `settling`, `recurring` and `serving` hold several components that share no variable. A
variable `focus`, chosen at the start, says which one moves; the others rest in an initial state, so the
states are the sum and not the product of the components', and each property is checked exactly as in a
run of its own. What the components of a run might share (who is on line, which model is active) each
module has as a variable and a free environment of its own.

The comment over each property says in words what it claims and what it exempts. The exemptions are
the cases in which the code really does otherwise; they are listed
[below](#what-a-reader-of-the-code-should-know).

## Bounds

| Run | Instance |
|---|---|
| async_outbox | 2 dispatchers, 2 rows, batches of 2, 1 crash |
| operation_jobs | 2 operations sharing one of 2 items, the first a promotion, 2 workers, 1 crash, 1 foreign change, clock 0..1 |
| events | queue: 3 events (1 mismatched), 2 requests at once, a queue of 2, 1 batch id, 1 fault. export: 2 requests, 3 ids, 2 watermarks, 1 exporter at a time. collisions: 1 id, 2 exporters at once, 2 watermarks; any number of crashes in both |
| settling | events: 2 events, otherwise as *queue*. training: 2 jobs of 2 tries and possibly one content, 2 workers |
| recurring | queue: 1 job of 2 attempts, lease 3, clocks 1 slow or fast, clock 0..20, any callers. jobs: the same with 2 workers and 1 crash. batches: 2 runners, 1 request, 3 batches over 2 items, 1 fault, clock 0..1. alerts: 2 rules, the first broken, 2 schedulers, 1 operator, 2 occurrences. submission: 2 presses, 1 foreign edit, 2 versions |
| serving | data: 3 official sources, 6 events, 11 exports, at most 3 datasets. stages: 4 epochs of every curve over 2 metrics, patience 2. experiments: 2 runners, 2 run ids, a matrix of 3 with 2 configurations, metrics 1..2. resources: 3 models of 2 datasets, 2 requests, 1 crash, 4 source users, 2 items. index: 1 item, 3 indices reindexed in a chain, 1 task, 2 indexers. queries: 3 items, pages of 2. snapshots: 2 readers, 1 change of model, profile and operations each, 1 commit, slot and ACTIVE row aligned. ranking: 3 items of 2 topics, 2 sets of recalls, 3 models, 2 rules. pages: a snapshot of 3, limits 1 and 2, 2 tabs. view: 3 rows in pages of 1, 3 first calls, 2 calls of the rail, 1 event |
| lost_update | 1 runner, 1 request, 4 batches over 2 items, no fault, clock 0..1 |

Why they are enough. One job: transactions of the queue touch one job each, except a claim, which
recovers several and takes one; every formula about the queue is about one job at a time, and the proofs
are for any number. Operations of two jobs meet in operation_jobs. Two attempts: the first retry, the
exhausted budget and the fence between an old and a new claim all occur. A lease of three instants is
longer than two errors of the clocks, so a claim can be taken too early and heard too late by one
instant of true time; the clock goes far enough for every lease and delay of both attempts. Two
dispatchers and two rows give every overlap of two batches. In operation_jobs one tick is what a lease
needs to lapse with the handler between its look-up and its commit. In *batches*, batch 3 asks for items
1 and 2 in order and a runner with batches 1 and 2 in the other: that is the deadlock, and
`DeadlockVictim` fires; a promotion that starts at 0 ends while the clock runs, one that starts at 1 is
applied late. Two runners are two passes of which one finds the rules of the other locked and skips
them. In lost_update a batch of both items fails on one, and the other's object meets a change. In
*queue* the two records make a batch, two requests at once are a batch and a retry, or a batch and its
own replay; the third event makes the queue full. Calls that wait for each other need two events, which
is why *events* in settling has no more. In *export* three ids are an event that commits below one
already visible and one above both, ranges that follow each other, and exports that died over each of
them; in *collisions* one id suffices for two exporters to claim one range. In *training* the two jobs
meet over one content, and two workers over one job whose lease lapsed. In *alerts* the second
occurrence is the reopening of the first, and the broken rule stands before a good one. In *data* the
exports include successive, overlapping, equal and empty windows, and one that lacks an item. In
*stages* four epochs with patience two stop early, late or not at all. In *experiments* the second
runner contends or comes after, equal metrics need the tie-break and the matrix is not in id order. In
*resources* two models share a dataset and the third's data, titles and users differ. In *index* three
indices are two switches, of which either may be cut. *data* has few datasets, *index* one task and
*snapshots* one commit for the sake of time. In *pages* and *view* three rows are a first, a middle and
a last page.

What rests on these bounds alone is liveness ([only model-checked](#proofs)): every invariant and action
property of the runs that pass is proved for any bounds.

Symmetry is used only in runs without liveness properties. Deadlock is not checked: the systems may
stop, as rows, crashes, requests, presses and the clock are used up, and idle processes wait.

The type invariants (`TypeOK`, `AlertTypeOK`, ...) describe the state for the reader. They hold on the
instances of the runs (name them under INVARIANTS of the cfg to see it), and they, or the types that
matter of them, are part of the inductive invariants.

## Fairness

* *Workers*: `serve` catches every exception and polls again, so each process keeps polling,
  handling and reporting; handlers are assumed to return; time goes on.
* *Outbox* (`FairSpec`): the same for dispatchers. The sink is strongly fair per row: it is not down
  for ever. `EventuallyPublished` has one condition, `LeasesSuffice`. One lease covers a batch and is
  not renewed, so dispatchers that never finish a batch in time could take its rows from each other
  for ever, and TLC shows that without the condition; the defaults make the lease long.
* *Operation batches*: runners poll, and a transaction that can take its next step does,
  including PostgreSQL's detector picking a victim. Requests need no fairness.
* *Training*: workers call `run_once` for ever (`serve`), and a lease whose holder is gone runs out
  (`Abandoned`); nothing is assumed of a holder that lives.
* *Alerts*: schedulers keep making passes; observations are assumed to answer or raise.
* *Events* (`FairSpec` of EventQueue): a request that can take its next step does, with strong fairness
  because PostgreSQL serves those that wait for a row in turn; the browser handles the answers it
  gets. Retries are the user's, and nothing is assumed of them.

Fairness per component is spelled out in `RecurringFairness` and `SettlingFairness`. Nothing is assumed
of clients, crashes and faults; crashes are bounded in number by `MaxCrashes` and `MaxFaults`, without
which no progress could be expected. `serving` has no liveness property: nothing there is promised to
end.

## Proofs

Eight modules hold the proofs: `DurableJobs_proofs` (the queue, and OperationJobs over it),
`Operations_proofs` (OperationSubmission, OperationBatches), `TrainingJobs_proofs`, `Schedulers_proofs`
(AsyncOutbox, Alerts), `Events_proofs` (EventIngest, EventQueue, EventExport), `Models_proofs`
(TrainingData, StageTraining, ExperimentMatrix, ModelActivation, ServingResources), `Listings_proofs`
(SearchQueries, FeedRanking) and `ServedViews_proofs` (FeedSnapshots, SearchIndex, FeedPages, FeedView).
They hold for any sets of jobs, models, requests, rules, events, files and processes, and any limits,
under the named assumptions of the modules on their constants, which TLC evaluates in the runs. Most of
these say that bounds are numbers and that a mark such as `NoToken` or `NoPosition` is none of the
things it is told from. The others: what is ordered in the code has numbers for names (`Messages`,
`Events`, `Items`, `Batches`, the matrix); each batch and operation has targets, a batch finitely many
(`BatchConstants`, `OperationConstants`); files hold finitely many rows and times are numbers
(`DataConstants`); each model has data, whose items are among all items (`ResourcesConstants`); a
reindex replaces another index than its own (`SearchConstants`); scores, likenesses and priorities are
numbers, the items of a feed and its rules finitely many (`RankingConstants`).

The shape is the same everywhere: what the run checks is seldom inductive, so an invariant is
stated that is, first checked with TLC on the run's instance, then proved action by action. In
the following `IInv` and the like are these invariants, and the text says what they add and why.

*DurableJobs.* The invariants of the run are not inductive alone: `SingleHolder` says nothing about
how attempts are numbered, so a claim could reopen an old one. `IInv` adds, per job, `CountInv` (a
queued job has an attempt left; a running or finished one has used one), `LedgerInv` (attempts 1 to
`attempt_count` exist, the last one mirrors the job's state, exactly running ones have a lease) and
`KeysInv` (which outbox keys may be in use given the state). All of it is about one job, so the
proof first shows, row by row, what each transaction does to a triple (job, attempts, keys), then
lifts that to the tables, where a claim moves many jobs at once. From `IInv`: `TypeCorrect`,
`OneHolder`, `LedgerCorrect`, `BudgetKept` (the branch of `claim_next` for an overdrawn budget is
never needed), `HoldersExpire` (no running attempt can escape recovery), `OutboxCorrect`,
`KeysStayFree`, the action property `Fencing` and `ImplementsLifecycle`, the refinement of
JobLifecycle.

`HonoursLeases` (the run's `LeaseHonoured`) is about DurableLeases. `LeaseInv` is the strengthening: the
lease of a running attempt is off its true end by one clock's error at most, in either direction. A
claim and a heartbeat establish it, with their clock; a recovery or an acceptance compares it with
another clock, and the two errors add up. Nothing is assumed of the lease or of the error: if two
errors exceed a lease the statement is weak, as it must be.

*OperationJobs.* `OperationsInv` keeps `IInv` of the queue, with the retry delay of the workers, and
adds three parts. `ClaimsInv`: busy workers have distinct attempts, which nobody but recovery and
cancellation closes before them, and one that will report success has its receipt. `OutcomeInv`, for
`JobsTellOutcome`: an applied job without an expired attempt or a doubtful commit has succeeded, was
cancelled, or is held by a worker that will report success; `StateTellsOutcome` alone does not
survive the step between commit and report. `CountedInv`, for `OperationsApplyOnce`: the version of an
item is the number of direct changes and of applied operations on it; the set of applied jobs is
finite though `Jobs` need not be. `OperationsKeepLifecycle` is the refinement again, with the handler's
steps as stutters.

*OperationSubmission.* `DecidedOnce`: `SentInv` says that what the current decision has sent is what
the tracker still holds, and that later decisions have sent nothing; `CountInv` that there is a place
for each decision.

*OperationBatches.* `BatchesAtomic` and `VersionsChained` need what a transaction that has not committed
has done so far: `TxGood` says of its log that each batch in it is whole unless it is the one at work,
and that its entries continue the chain of each item from the committed version, which the lock on the
row keeps in place, unless one of them was written from a stale object (`Overtaken`; entries carry that
as history, and the run lost_update shows that it happens). `AuditInv` says the same of what is
committed: one entry per batch and target, a batch that is no longer open has all of them with its own
outcome, and the entries of an item lead from 0 to its version.

*AsyncOutbox.* `HintsAccounted`: a claim's lease is told by the row, but a dispatcher whose lease ran
out does not know. `QuietInv` is therefore about messages never disturbed: whoever has a claim on
one is alone and holds the row with its token, and it has been sent at most once, not at all before the
sink has answered. `RunInv` is about dispatchers: one claim per message, and what the sink's answer
says of the current one. That tokens differ is not needed.

*ModelActivation.* Of two winners that expected the same predecessor, the second must have found it
current after the first archived it. `IInv` therefore has `ChainInv`: what a winner expected is
archived since, and from the first winner on some model is active; and `HandlerInv`, which ties each
attempt row to the point its handler has reached. From it: `TypeCorrect`, `SingleActive`,
`ActivationChain` and `ServedOnlyActivated`.

*TrainingData.* `HoldoutUnseen`: `DataInv` says the same of the datasets that are being built, and
that all times are numbers. For files the split is by rank (`HoldsOutTheLast`), for exports by windows
and by what the base held out (`InTheirSplit`, `ExportUnseen`). Only the domains of the bags matter.
`NoneLostNoneDoubled` (the run's `LearnedAsOften`) is about the numbers in them. `Learned` says of each
dataset, built or being built, that its three bags hold an interaction as often as its version does:
once if the official rows have it, and once for each event of each added export that the mapping makes
one of it, less what cutoffs added later drop. The sum over a chain of exports is the cardinality of
one set of pairs (step of the chain, event), so an addition is one more slice of it, disjoint from
those before, and no induction over the chain is needed.

*StageTraining.* `ResumedAsIfUndisturbed`: the undisturbed run is a recursive function of the epoch
(`Course`), which has to be shown to exist before anything can be said of its values; induction over
the set of epochs for which it does so (`ByInduction`) takes the place of the library's theorems.
`StagesInv` says that every stage and every checkpoint that was not taken up again after its end is a
value of it, and that the ranker's examples are those of the undisturbed recall stage's best epoch.
That the course stays where it is from the epoch at which it stops makes it the same for the runs that
end there and the one that would look further.

*ExperimentMatrix.* `TestSplitReadOnce`: `RootInv` says that whoever is past the marker is the one it
names, `MemoryInv` that its record covers the first experiments of the matrix and that its best is
the best of those, `FrozenInv` that what it has frozen is on record unless a refused runner has marked
it; `TestInv` that whoever has read is past the reading, so nobody reads twice; `PassedInv` that only a
whole matrix passes.

*ServingResources.* `ImplementsActivation` shows that each action, with the files it reads and the
rows it writes, is one of ModelActivation or leaves its variables alone, so `IInv` of
ModelActivation holds here too. `ServedFits` (the run's `ResourcesFit`) needs more than it says
itself: what a slot serves must fit even after its model was archived, so `MappedInv` says that from
the first activation on the demo users are mapped to the selection of every model that was ever
ACTIVE; `HeldInv` that a handler past its checks holds a bundle and data as published, whatever
happens to the files since, and `ServesInv` the same of the slot; `CatalogInv` that `online` of a
row is the operator's last word, or the default.

*TrainingJobs.* `Fits` says of a row what its status tells of its tries: a queued job has one left,
a running one has begun one. With it each operation on a row is a step of JobLifecycle or leaves it
where it was, recovery and the claim that follows it in one transaction together being one turn
(`TrainingImplementsLifecycle`, the run's `TrainingKeepsLifecycle`). `ModelsInPlace` (the run's
`ModelInPlace`) needs the workers: `Holding` says what each may rely on at its point of the handler,
and `Crowded` that of two workers in their handlers for one model each is marked, so the one whose
renaming comes second fails beside a witness.

*Alerts.* `OneOpen` (the run's `OneOpenOccurrence`) is inductive with the types once it is said of
one rule's rows: `Observed`, `Acknowledge` and `Resolve` keep the open row the last one.
`HistoryStands` follows from the same lemmas: no step touches a resolved row or takes an
acknowledged one from its actor, though the observation it applies may be older than the
acknowledgement.

*EventIngest and EventQueue.* `EventsCountOnce` and `SettledRecordsAreTrue`: `CountedOnce` is about
what is committed, so `RowInv` says of each request what its copy of the profile counts, namely what
is stored and what it has inserted itself, less the item between its insert and its count; `Apart`
that the unique index and the row lock keep two requests from both having such a copy. `ResultsInv`
says of results on their way to a receipt that they will be true once their request has committed;
`CallInv` ties a call of the browser to its request, for a refusal settles all that was sent.

*EventExport.* `ExportsMissNothing` rests on `NoneBehind`: no id can still appear at or below a
watermark, and none at all while an exporter holds the table's lock; `HolderInv` says that the range
it works on goes from the watermark to the newest id. `RecordedExportsStand` rests on `AloneInv`: of a
range that no two have claimed, the one that holds it replaces no recorded export, and its own is in
place before it is recorded.

*FeedSnapshots.* `CacheKeysTrue` and `SnapshotsOfOneGeneration`: `ReaderInv` says what a request knows
at each await, that the versions it read are not after those now committed, that its key names them
and that what it got was computed from what the key names, wherever it came from.

*SearchIndex.* For `SearchMeetsCompleteIndexes`, `TraceInv` says that everything the alias has
passed through was recorded, which only whole indexes are. `RegistryAndAliasGoOn` is about `Passed`,
the smallest set of indexes closed under what a build expected: the registry's index is in it for
some target of the alias, even when a late switch adds an index that was replaced, because
`update_aliases` takes away only what the new index was built to follow. Where no run has lost its
lock, the one at the switch is alone, and what it looked up is still there.
`SearchGoesForward` (the run's `NeverServesOlder`) needs `NewsInv`: no document is newer than its item,
and a run that has kept the lock is alone, so what it will write or switch to is not older than what
is served.

*SearchQueries.* Under it are lemmas about lists (`SortedStands`, `AtStands`, `UniqueStands`,
`JoinStands`): the element of a finite set that has n - 1 before it in a strict order exists and is
the n-th, so sorting needs no recursion. `PagesStand` (the run's `PageStands`) adds `QueryInv`: what
the first session left of the hits has none twice and all on line at some time since the query came,
and is what was proposed unless the query is degraded by then; what was on line all along still is
when the second session fills the rest.

*FeedRanking.* `FeedsStand` (the run's `FeedStands`) is an invariant per step of the pipeline. What a
source recalled has numbers for scores. For the merged feed, `MergedScores` bounds the score: an item
that leads a source has the whole unit, one that leads none and that no second source found has less,
so sorting separates them. For the natural one, `DeduplicateStands` counts the items of a topic that
come before one that goes, and `DiversifyStands` shows that choosing the best of what remains, step by
step, goes through all of it once, whatever it prefers. For the promoted one, `SlotsStand` says that
each placement has a slot of its own at its target or behind slots that are all taken, and
`WeavingStands` keeps `IsWeave` through the loop: what is out so far is a beginning of the natural
items in their order and the slots that were due, each in its place unless the natural items had run
out before it. Slots, diversified order and weave are functions recursive in their steps; one lemma
(`StepByStep`) says for all of them that such a function exists and stays in whatever sets its steps
lead through.

*FeedPages.* `CursorsAreSound`: `PagesInv` says it of the cursors still to be recorded too. The lemma
under it is `FirstAreAll`: the first rows on line are all of them up to the last one, so what lies
between two cursors was either delivered or off line.

*FeedView.* `EventsFollowed`: `FollowInv` says that unless an event is kept whose success is unheard,
the call that counts was asked after all of them, or, if there is none, what is shown was; each
generation asks once, so a late answer of an old one cannot be mistaken for it. `OneSnapshotIsShown`:
`RowsInv` says that what is shown is the beginning of its snapshot and the cursor leads to the next
row; `CallsInv` that at most one call for more counts, which follows on what is shown unless a first
page came in between, and that a first page to come is of a newer snapshot than all that is shown;
`WaitInv` that who waits has a call.

Only model-checked: the liveness properties, `AlertsFollow` among them, for liveness under fairness and
ENABLED are out of the proof system's reach. The library's theorems of induction take an operator,
which no prover here can instantiate; the proofs above use induction over a set instead
(`ByInduction`). Nothing is proved of what networks and metrics come to, which is a parameter.

## Findings

1. **quality_trainable** (`QualityTrainable`). The builder of a `quality_evaluation` dataset writes
   `validation_interactions`, `validation_users`, `test_interactions` and `test_users` as its holdout
   counts (`recsys/data/events.py:607`); the loader compares `holdout_counts["validation"]` and
   `["test"]` (`recsys/models/data.py:249`, `308`) and refuses every such dataset, the only kind whose
   manifest says `activation_eligible`. The model tests write the loader's keys by hand.
2. **selected_versions** (`SelectedVersionsChecked`). The page says that "Selected state versions are
   checked by the server before any target changes". An immediate operation posts item ids only, and the
   server takes the versions of the moment: a target changed since it was selected is changed again,
   without a conflict.
3. **duplicate_operation** (`DuplicateGetsResult`). `AtomicOperationExecutor` promises that "A duplicate
   operation_id returns the original result without applying again". `apply_all` looks for the receipt
   under a row lock, but a row that does not exist cannot be locked. Two workers of one operation (the
   first one's lease ran out) can both find none; the second to commit fails with a conflict and,
   holding the current lease, marks the job FAILED though the operation was applied. Nothing is applied
   twice (`AppliedOnce`).
4. **stale_slot** (`SlotFollowsActive`). The activation commits, releases its lock and then swaps the
   slot. Two activations in a row can swap in the other order, and the slot keeps the archived model
   until the next activation or restart; feeds fall back meanwhile. The repository's README says
   activation is validated and then switched atomically.
5. **analytics_gap** (`LateArrivalsFollow`). The analytics cutoff is the newest visible id, read without
   the lock that the training export takes. An event with a lower id that commits later is in no export:
   not in the one that passed it, nor in a follow-up, which begins above it.
   docs/analytics-hive-compatible.md sends late arrivals to the follow-up.
6. **lost_update** (`NoChangeReplaced`). A scheduled batch whose target was changed is meant to fail ("A
   target changed after the batch was scheduled", `operations/service.py:185`). A pass applies all due
   batches in one Session. When one fails, its savepoint's rollback frees the row locks, but the
   unmodified `Item`s stay referenced by `items`, and `_lock_items` (269-274) selects the rows again
   without `populate_existing`. If a request changes such an item and commits in between, the next batch
   compares the old `state_version`, finds it as expected, and writes the same next version over the
   request's change. The trace: batch 1 of both items and batch 4 of item 1 are scheduled, an immediate
   batch changes item 2, so batch 1 fails; another changes item 1 before batch 4 locks it. The test of
   the comparison (`tests/api/test_operations.py:172`) has one batch. The remedy is `populate_existing`
   on that query, as `feeds/service.py:568-573` has it; `VersionChain` exempts items this has happened
   to.

## What a reader of the code should know

Choices of the code, or consequences of them, that contradict no document but that the modules
reach. Where a property exempts one, it is named.

* *Events.* An item of a batch that fails for a passing reason, a deadlock for one, is answered
  `rejected`, which the receipt repeats and the browser settles for good (`dismissed` in
  `SettledIsTrue`).
* *Event export.* Two watermark names that export the same range at once both pass the collision check;
  the later one replaces the directory whose checksum the first has recorded (`contested` in
  `RecordedStands`). The collision test runs them one after the other.
* *Operation form.* A scheduled POST that is repeated is answered 409, since its payload holds the time
  of the request; the page takes that as an answer, and the next press is a second operation. Changing
  the form and back between two network errors also makes two.
* *Training.* A model's directory may be published by a trainer whose lease lapsed while its successor
  builds the same content: one of them fails (`crowded` in `ModelInPlace`).
* *Datasets.* An export may be added twice and windows may overlap: the rows then count twice. For
  systems_only datasets base rows at or after the cutoff are dropped, and for frozen windows all that
  lies outside of them.
* *Resuming.* A stage resumed from the checkpoint of the epoch it stopped at trains on (`again` in
  `ResumedAsUndisturbed`). The state of dropout's random numbers is not in a checkpoint, so with dropout
  the resumed run draws others: the metrics the module takes as given would differ.
* *Experiments.* A runner that is refused marks the record of its run_id as failed if it had looked
  before that directory was there, and may put back an older record of the runner it lost to
  (`Contended` in `TestedOnceAsSelected`); the launcher's `mkdir` normally keeps two runs apart. The
  root of a crashed run cannot be used again.
* *Resources.* A model whose data select other demo users than those mapped now can never be activated:
  the transaction is rolled back with 422. Titles that an activation changes reach search only with the
  next reindex. A restart's restore takes no lock: one API process is assumed.
* *Search.* A crash between the alias switch and `mark_active`, followed by a reindex under another
  name, leaves a registry that refuses every later build. A build recorded before a crash and activated
  later is of the day it was recorded (`resumed` in `NeverServesOlder`), and two indexers whose lock was
  lost may go back (`crowded`). A switch that comes after another run's, for a lost lock or a late
  request, leaves the alias on two indexes (`crowded` in `RegistryFollowsAlias`): `switch_alias` sees it
  and raises, every later task refuses the alias, the search falls back to PostgreSQL and the health
  check reports it, until somebody repairs the alias by hand.
* *Snapshots.* The check that a snapshot is of one generation (`_assert_same_generation`) compares ORM
  objects of one identity map, refreshed in place, so the profile's version never differs there:
  `SnapshotOfOneGeneration` is about the model, the catalogue and the promotions, for which it holds. A
  cached entry may be of an older profile than its key names (`CacheHoldsItsKey` says no later one).
* *Browser.* A call for more rows of the old snapshot that is answered during a refresh can take the
  cursor of the new one away and show "Feed snapshot changed". Retry does nothing after a failed call
  for more if a first page without a cursor has come since. An event sent from the popular feed and
  answered after a switch to the personalized one does not refresh it.

## Not modelled

* Networks, losses, metrics and embeddings: an epoch has a metric and a next state, a recall has scores.
* Authentication, sessions and rate limits: token formats and hashing are library calls, and the
  limiter is one script that Redis runs atomically.
* Pure I/O and layout: CSV exports, admin aggregations, the generated API client, rendering, settings,
  migrations (their constraints are in the modules that rely on them), smoke and fixture scripts.
* Within what is modelled: payloads, fingerprints and result bodies; the wording of errors;
  PostgreSQL's deadlock abort between `_recover_expired` and the claim holders' transactions (they
  lock job and attempt in different orders; an abort undoes one of them whole); events whose id is
  used with other content; the queue's loss when the page is closed; `transition_model`, which has no
  caller; the failure text of a model; impressions and the contents of profiles; the dwell timer; cursor
  signatures; explanations; the Redis wake-up of trainers; partitions and reconciliation of the
  analytics files; serving ablations and source attestation of the experiments.
* `components` in PROJECT.json gives every part with its status, and `hazards` every hazard with the
  properties that are about it.

## Plan

Left, in the order of what it would show:

1. The limiter of registrations and the dwell timer, small state machines of their own.
2. Reconciliation of the analytics files against their manifest, as a checked pure operator.
