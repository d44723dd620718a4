--------------------------- MODULE ServingResources ---------------------------
(***************************************************************************)
(* What a model is served with (feeds/resources.py, runtime.py): its       *)
(* bundle and the processed data it was trained on, staged from files that *)
(* may change at any moment, and the rows of the database that have to fit *)
(* them: the catalogue, and the source users behind the three demo users.  *)
(*                                                                         *)
(* Every step is one of ModelActivation or leaves its variables alone.     *)
(***************************************************************************)
EXTENDS ModelActivation, FiniteSets, FiniteSetsExt, Functions

CONSTANTS
    DataOf,        \* data version of each model
    BundleUsers,   \* user_ids of each model's bundle
    Titles,        \* metadata of the items of each data version
    Signature,     \* of each data version: what each user's history recalls; 0 is nothing
    Servable,      \* data versions whose tables decode and agree with each other
    Shelf,         \* all items
    NoRow,
    NoResource,
    Unseeded, Unmapped

VARIABLES
    damaged,   \* the file (a model's bundle, a data version) that is not as published; one at most
    catalog,   \* items rows
    decided,   \* history: the last word of an operator on each item
    demo,      \* source_user_id of the demo users
    held,      \* what the handler of each request has captured
    serves     \* the slot's resource

resourceVars == <<vars, damaged, catalog, decided, demo, held, serves>>

-----------------------------------------------------------------------------
(* Files *)

AsPublished(file) == damaged # file

\* load_bundle: fields, checksums, identity and shapes all fit.
BundleLoads(m) == AsPublished(m)

\* _capture_version: the manifest is the registered one, and the tables fit the manifest.
Captured(d) == AsPublished(d)

\* The tables decode, are complete, and histories and interactions agree.
Decodes(d) == d \in Servable

DataLoads(d) == Captured(d) /\ Decodes(d)

\* _validate_bundle_lineage and the checksums: what was captured is what was registered.
Verified(resource) == resource.bundle /\ resource.data

-----------------------------------------------------------------------------
(* Rows *)

\* Users of the bundle whose history recalls something, in the order of their ids
DemoSources(m) == {u \in BundleUsers[m] : Signature[DataOf[m]][u] # 0}

UnlikeFirst(m) == {u \in DemoSources(m) : Signature[DataOf[m]][u] # Signature[DataOf[m]][Min(DemoSources(m))]}

CanSelect(m) == Cardinality(DemoSources(m)) >= 3 /\ UnlikeFirst(m) # {}

\* _select_demo_source_users: the first, the first that is recalled other items, the next.
SelectedUsers(m) ==
    LET first  == Min(DemoSources(m))
        second == Min(UnlikeFirst(m))
    IN <<first, second, Min(DemoSources(m) \ {first, second})>>

CatalogRow == [title : UNION {Range(Titles[d]) : d \in Range(DataOf)}, online : BOOLEAN]

ASSUME ResourcesConstants ==
    /\ DataOf \in [Models -> Range(DataOf)]
    /\ \A m \in Models : DOMAIN Titles[DataOf[m]] \subseteq Shelf
    /\ \A m \in Models : CanSelect(m) => SelectedUsers(m) \notin {Unseeded, Unmapped}
    /\ Unseeded # Unmapped
    /\ NoRow \notin CatalogRow

\* (variant) A mapping that is there already is replaced.
IntegrableAnyway(m) == CanSelect(m) /\ demo # Unseeded

Integrable(m) == CanSelect(m) /\ demo \in {Unmapped, SelectedUsers(m)}

\* sync_serving_resource: new items are on line, known ones keep their status.
Synced(m) ==
    LET titles == Titles[DataOf[m]]
    IN [i \in Shelf |->
          IF i \notin DOMAIN titles THEN catalog[i]
          ELSE [title |-> titles[i], online |-> IF catalog[i] = NoRow THEN TRUE ELSE catalog[i].online]]

Syncs(m) ==
    /\ Integrable(m)
    /\ catalog' = Synced(m)
    /\ demo' = SelectedUsers(m)

ResourcesInit ==
    /\ Init
    /\ damaged = NoResource
    /\ catalog = [i \in Shelf |-> NoRow]
    /\ decided = [i \in Shelf |-> TRUE]
    /\ demo = Unseeded
    /\ held = [q \in Requests |-> NoResource]
    /\ serves = NoResource

ResourcesTypeOK ==
    /\ damaged \in Models \cup Range(DataOf) \cup {NoResource}
    /\ catalog \in [Shelf -> CatalogRow \cup {NoRow}]
    /\ decided \in [Shelf -> BOOLEAN]
    /\ \A q \in Requests : held[q] # NoResource => held[q].model \in Models
    /\ (slot = NoModel) = (serves = NoResource)

-----------------------------------------------------------------------------
(* Around the API process *)

Damage(file) == damaged = NoResource /\ damaged' = file /\ UNCHANGED <<vars, catalog, decided, demo, held, serves>>

Repair == damaged # NoResource /\ damaged' = NoResource /\ UNCHANGED <<vars, catalog, decided, demo, held, serves>>

\* An operation of an administrator; it and a sync write different columns.
Decide(i) ==
    /\ catalog[i] # NoRow
    /\ catalog' = [catalog EXCEPT ![i] = [title |-> catalog[i].title, online |-> ~ catalog[i].online]]
    /\ decided' = [decided EXCEPT ![i] = ~ @]
    /\ UNCHANGED <<vars, damaged, demo, held, serves>>

\* stage_for_registration loads the bundle alone.
RegisterBundle(m) ==
    /\ BundleLoads(m)
    /\ Register(m)
    /\ UNCHANGED <<damaged, catalog, decided, demo, held, serves>>

-----------------------------------------------------------------------------
(* The activation handler *)

Holds(q, resource) == held' = [held EXCEPT ![q] = resource]

\* stage_activation: the model is READY, and the bundle is captured and loaded ...
StageBundle(q, m, expected) ==
    /\ up
    /\ request[q].phase = "idle" /\ held[q] = NoResource
    /\ status[m] = "ready"
    /\ BundleLoads(m)
    /\ Holds(q, [model |-> m, expected |-> expected, bundle |-> AsPublished(m), data |-> FALSE])
    /\ UNCHANGED <<vars, damaged, catalog, decided, demo, serves>>

\* ... then the data of the row; the attempt is committed.
StageData(q) ==
    /\ held[q] # NoResource
    /\ DataLoads(DataOf[held[q].model])
    /\ Prepare(q, held[q].model, held[q].expected)
    /\ Holds(q, [model |-> held[q].model, expected |-> held[q].expected,
                 bundle |-> held[q].bundle, data |-> AsPublished(DataOf[held[q].model])])
    /\ UNCHANGED <<damaged, catalog, decided, demo, serves>>

\* The model is not READY, or one of the two does not load.
StagingFails(q) ==
    /\ IF held[q] = NoResource
       THEN \E m \in Models, expected \in Models \cup {NoModel} :
               (status[m] # "ready" \/ ~ BundleLoads(m)) /\ PrepareFails(q, m, expected)
       ELSE PrepareFails(q, held[q].model, held[q].expected)
    /\ Holds(q, NoResource)
    /\ UNCHANGED <<damaged, catalog, decided, demo, serves>>

\* activate_prepared with its resource_integrator, in one transaction
Integrate(q) ==
    /\ Activate(q)
    /\ Syncs(request[q].model)
    /\ UNCHANGED <<damaged, decided, held, serves>>

GiveUp(q) ==
    /\ Refuse(q) \/ RecordFailure(q) \/ ActivateRaises(q)
    /\ Holds(q, NoResource)
    /\ UNCHANGED <<damaged, catalog, decided, demo, serves>>

Publish(q) ==
    /\ Swap(q)
    /\ serves' = [bundle |-> held[q].bundle, data |-> held[q].data]
    /\ Holds(q, NoResource)
    /\ UNCHANGED <<damaged, catalog, decided, demo>>

-----------------------------------------------------------------------------
(* The API process *)

ProcessDies ==
    /\ Crash
    /\ serves' = NoResource
    /\ held' = [q \in Requests |-> NoResource]
    /\ UNCHANGED <<damaged, catalog, decided, demo>>

\* The demo users are seeded; then the ACTIVE model is staged and synced again, or the
\* process opens its listeners with an empty slot.
StartEmpty ==
    /\ Start
    /\ slot' = NoModel
    /\ demo' = IF demo = Unseeded THEN Unmapped ELSE demo
    /\ UNCHANGED <<damaged, catalog, decided, held, serves>>

RestoreActive ==
    /\ Start
    /\ slot' # NoModel
    /\ BundleLoads(slot') /\ DataLoads(DataOf[slot'])
    /\ Syncs(slot')
    /\ serves' = [bundle |-> TRUE, data |-> TRUE]
    /\ UNCHANGED <<damaged, decided, held>>

ResourcesNext ==
    \/ \E file \in Models \cup Range(DataOf) : Damage(file)
    \/ Repair
    \/ \E i \in Shelf : Decide(i)
    \/ \E m \in Models : RegisterBundle(m)
    \/ \E q \in Requests :
          \/ \E m \in Models, expected \in Models \cup {NoModel} : StageBundle(q, m, expected)
          \/ StageData(q)
          \/ StagingFails(q)
          \/ Integrate(q)
          \/ GiveUp(q)
          \/ Publish(q)
    \/ ProcessDies
    \/ StartEmpty
    \/ RestoreActive

ResourcesSpec == ResourcesInit /\ [][ResourcesNext]_resourceVars

-----------------------------------------------------------------------------
(* Properties *)

\* Whatever files were damaged and repaired between two reads, however activations, restarts
\* and operators interleave: what is served was verified whole, each of its items has a row,
\* and the demo users are the source users that model was made with; the catalogue describes
\* the items of the ACTIVE model as its data do; and no activation or restart undoes what an
\* operator decided about an item.
ResourcesFit ==
    /\ slot # NoModel =>
          /\ Verified(serves)
          /\ demo = SelectedUsers(slot)
          /\ \A i \in DOMAIN Titles[DataOf[slot]] : catalog[i] # NoRow
    /\ \A m \in Active : \A i \in DOMAIN Titles[DataOf[m]] :
          catalog[i] # NoRow /\ catalog[i].title = Titles[DataOf[m]][i]
    /\ \A i \in Shelf : catalog[i] # NoRow => catalog[i].online = decided[i]
=============================================================================
