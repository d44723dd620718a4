-------------------------- MODULE MCAnalyticsExport --------------------------
(* Two requests and a chain of two exports. *)
EXTENDS AnalyticsExport

CONSTANTS w1, w2

TwoWriters == {w1, w2}
=============================================================================
