----------------------------- MODULE EventExport -----------------------------
(***************************************************************************)
(* The export of events for training (events/export.py, run by             *)
(* cli/export_training_events.py): one transaction claims the range from a *)
(* watermark to the newest event, publishes the range as a directory named *)
(* by its bounds, and moves the watermark.  The file system does not roll  *)
(* back with the transaction, so a process that dies leaves what it has    *)
(* published; and exports of different watermark names, which share the    *)
(* root, do not exclude each other.                                        *)
(***************************************************************************)
EXTENDS EventLog

CONSTANTS
    Names,      \* of watermarks
    Exporters,  \* processes
    NoExport

VARIABLES
    described,   \* whether the items of the events have complete metadata
    watermark,   \* training_export_watermarks.last_event_id, as committed
    recorded,    \* history: the exports each watermark has recorded
    directory,   \* what is at root/<start>-<end>
    run,         \* the process of each exporter
    contested    \* history: the ranges that exporters of two names have claimed at once

exportVars == <<logVars, described, watermark, recorded, directory, run, contested>>

-----------------------------------------------------------------------------

Ranges == (0 .. MaxId) \X (0 .. MaxId)

Exports == [name : Names, accepted : SUBSET Ids, rejected : SUBSET Ids]

ASSUME ExportConstants == NoExport \notin Names \cup Exports

Run ==
    [phase  : {"idle", "waiting", "claimed", "writing", "setAside", "clear", "published"},
     name   : Names \cup {NoExport},
     range  : Ranges,
     export : Exports \cup {NoExport},     \* what the database says it must be
     aside  : Exports \cup {NoExport}]     \* the directory it has moved away

Idle == [phase |-> "idle", name |-> NoExport, range |-> <<0, 0>>, export |-> NoExport, aside |-> NoExport]

ExportTypeOK ==
    /\ LogTypeOK
    /\ described \in BOOLEAN
    /\ watermark \in [Names -> 0 .. lastId]
    /\ \A n \in Names : recorded[n] \subseteq Ranges \X Exports
    /\ directory \in [Ranges -> Exports \cup {NoExport}]
    /\ run \in [Exporters -> Run]
    /\ contested \subseteq Ranges
    /\ \A r \in Ranges : directory[r] # NoExport =>
          directory[r].accepted \cap directory[r].rejected = {}

ExportInit ==
    /\ LogInit
    /\ described = FALSE
    /\ watermark = [n \in Names |-> 0]
    /\ recorded = [n \in Names |-> {}]
    /\ directory = [r \in Ranges |-> NoExport]
    /\ run = [p \in Exporters |-> Idle]
    /\ contested = {}

-----------------------------------------------------------------------------
(* The tables under the exporters *)

\* p holds the SHARE lock on events and items.
Holding(p) == run[p].phase \notin {"idle", "waiting"}

Shared == \E p \in Exporters : Holding(p)

Write(w) ==
    /\ \/ ~ Shared /\ Insert(w)
       \/ CommitEvents(w)
       \/ Discard(w)
    /\ UNCHANGED <<described, watermark, recorded, directory, run, contested>>

\* The import completes the items' metadata.
Describe ==
    /\ ~ described
    /\ ~ Shared
    /\ described' = TRUE
    /\ UNCHANGED <<logVars, watermark, recorded, directory, run, contested>>

-----------------------------------------------------------------------------
(* export *)

Proceeds(p, next) == run' = [run EXCEPT ![p] = next]

\* pg_advisory_xact_lock, by name
Begin(p, n) ==
    /\ run[p].phase = "idle"
    /\ \A q \in Exporters : run[q].name # n
    /\ Proceeds(p, [Idle EXCEPT !.phase = "waiting", !.name = n])
    /\ UNCHANGED <<logVars, described, watermark, recorded, directory, contested>>

\* (variant) The table is not locked.
QuietAlways == TRUE

\* LOCK TABLE events IN SHARE MODE is granted.
Quiet == \A w \in Writers : inserted[w] = {}

\* _partition
Expected(name, range) ==
    LET rows == Between(range[1], range[2])
    IN [name     |-> name,
        accepted |-> IF described THEN rows ELSE {},
        rejected |-> IF described THEN {} ELSE rows]

Claim(p) ==
    /\ run[p].phase = "waiting"
    /\ Quiet
    /\ LET range == <<watermark[run[p].name], Newest>>
       IN /\ Proceeds(p, [run[p] EXCEPT !.phase = "claimed", !.range = range, !.export = Expected(run[p].name, range)])
          /\ contested' = contested \cup
                {range : q \in {q \in Exporters : Holding(q) /\ run[q].range = range}}
    /\ UNCHANGED <<logVars, described, watermark, recorded, directory>>

There(p) == directory[run[p].range]

OfAnother(p) == There(p) # NoExport /\ There(p).name # run[p].name

\* _validate_existing: what is there is used again if it is what the database says.
Reuse(p) ==
    /\ run[p].phase = "claimed"
    /\ There(p) = run[p].export
    /\ Proceeds(p, [run[p] EXCEPT !.phase = "published"])
    /\ UNCHANGED <<logVars, described, watermark, recorded, directory, contested>>

\* ExportNamespaceCollision
Collide(p) ==
    /\ run[p].phase = "claimed"
    /\ OfAnother(p)
    /\ Proceeds(p, Idle)
    /\ UNCHANGED <<logVars, described, watermark, recorded, directory, contested>>

\* _write_directory, in a temporary directory
WriteDirectory(p) ==
    /\ run[p].phase = "claimed"
    /\ There(p) # run[p].export
    /\ ~ OfAnother(p)
    /\ Proceeds(p, [run[p] EXCEPT !.phase = "writing"])
    /\ UNCHANGED <<logVars, described, watermark, recorded, directory, contested>>

\* _publish_directory moves away what is there by now, whatever it is.
SetAside(p) ==
    /\ run[p].phase = "writing"
    /\ LET phase == IF There(p) = NoExport THEN "clear" ELSE "setAside"
       IN Proceeds(p, [run[p] EXCEPT !.phase = phase, !.aside = There(p)])
    /\ directory' = [directory EXCEPT ![run[p].range] = NoExport]
    /\ UNCHANGED <<logVars, described, watermark, recorded, contested>>

Publishing(p) == run[p].phase \in {"clear", "setAside"}

\* What was set aside is removed.
Publish(p) ==
    /\ Publishing(p)
    /\ There(p) = NoExport
    /\ directory' = [directory EXCEPT ![run[p].range] = run[p].export]
    /\ Proceeds(p, [run[p] EXCEPT !.phase = "published", !.aside = NoExport])
    /\ UNCHANGED <<logVars, described, watermark, recorded, contested>>

\* The rename fails, because another directory is there or for the disk's reasons: what
\* was set aside is put back if its place is free, and the transaction is undone.
PublishFails(p) ==
    /\ Publishing(p)
    /\ directory' = IF There(p) = NoExport THEN [directory EXCEPT ![run[p].range] = run[p].aside]
                    ELSE directory
    /\ Proceeds(p, Idle)
    /\ UNCHANGED <<logVars, described, watermark, recorded, contested>>

\* (variant) The watermark moves before the directory is in place.
DoneOnceWritten(p) == run[p].phase \in {"clear", "setAside", "published"}

Done(p) == run[p].phase = "published"

\* complete, and the commit of the transaction.  Nobody else has moved the watermark.
Complete(p) ==
    /\ Done(p)
    /\ watermark' = [watermark EXCEPT ![run[p].name] = run[p].range[2]]
    /\ recorded' = [recorded EXCEPT ![run[p].name] = @ \cup {<<run[p].range, run[p].export>>}]
    /\ Proceeds(p, Idle)
    /\ UNCHANGED <<logVars, described, directory, contested>>

\* The process dies, a statement fails, or the commit does.
ExporterDies(p) ==
    /\ run[p].phase # "idle"
    /\ Proceeds(p, Idle)
    /\ UNCHANGED <<logVars, described, watermark, recorded, directory, contested>>

Export(p) ==
    \/ \E n \in Names : Begin(p, n)
    \/ Claim(p)
    \/ Reuse(p)
    \/ Collide(p)
    \/ WriteDirectory(p)
    \/ SetAside(p)
    \/ Publish(p)
    \/ PublishFails(p)
    \/ Complete(p)
    \/ ExporterDies(p)

ExportNext ==
    \/ \E w \in Writers : Write(w)
    \/ Describe
    \/ \E p \in Exporters : Export(p)

ExportSpec == ExportInit /\ [][ExportNext]_exportVars

-----------------------------------------------------------------------------
(* Properties *)

Rows(export) == export.accepted \cup export.rejected

\* Every event at or below a watermark is in exactly one of the exports it has
\* recorded, although ids become visible out of order and whatever was left by exports
\* that died: none is passed by and none is trained on twice.
NothingMissed ==
    \A n \in Names : \A i \in committed :
        Cardinality({r \in recorded[n] : i \in Rows(r[2])}) = IF i <= watermark[n] THEN 1 ELSE 0

\* A recorded export is on the disk as it was recorded, whatever later exports of its
\* name or another find there, crash with and replace, unless exporters of two names had
\* claimed its range at once.
RecordedStands ==
    \A n \in Names : \A r \in recorded[n] : r[1] \in contested \/ directory[r[1]] = r[2]
=============================================================================
