------------------------------ MODULE MCEvents ------------------------------
(***************************************************************************)
(* Events on their way in and out, which share no variable here: the       *)
(* browser's queue against the API, and the exports for training.  A       *)
(* behaviour is one of the part in focus, and the others rest in their     *)
(* initial state.                                                          *)
(*                                                                         *)
(* queue: three events of which the last matches no exposure, in a queue   *)
(* of two: a batch of both records, one sent again at the same time, and   *)
(* an eviction.  export: two requests whose ids commit out of order, below *)
(* one exporter that takes turns with two watermarks.  collisions: two     *)
(* exporters whose ranges are one and the same.                            *)
(***************************************************************************)
EXTENDS EventQueue, EventExport, TLC

CONSTANTS s1, s2, w1, w2, p1, p2, n1, n2

TwoSlots == {s1, s2}

ThreeEvents == 1 .. 3

LastEvent == {3}

OneBatch == {1}

TwoWriters == {w1, w2}

TwoExporters == {p1, p2}

TwoNames == {n1, n2}

Alike == Permutations(TwoSlots) \cup Permutations(TwoWriters) \cup Permutations(TwoNames) \cup Permutations(TwoExporters)

-----------------------------------------------------------------------------

VARIABLE focus

EventsInit == focus \in {"queue", "export", "collisions"} /\ Init /\ ExportInit

QueueOnly == focus = "queue" /\ Next /\ UNCHANGED <<focus, exportVars>>

ExportOnly ==
    /\ focus = "export" /\ ExportNext
    /\ Cardinality({p \in Exporters : run'[p] # Idle}) <= 1
    /\ UNCHANGED <<focus, vars>>

CollisionsOnly ==
    /\ focus = "collisions" /\ ExportNext
    /\ lastId' <= 1
    /\ UNCHANGED <<focus, vars>>

EventsNext == QueueOnly \/ ExportOnly \/ CollisionsOnly

EventsSpec == EventsInit /\ [][EventsNext]_<<focus, vars, exportVars>>
=============================================================================
