------------------------- MODULE MCOperationBatches -------------------------
(* One runner, and requests that come one after the other, are enough for an update to be
   lost: a batch of both items fails on one of them, and the object of the other stays. *)
EXTENDS OperationBatches

CONSTANTS r1, q1

OneRunner == {r1}

OneRequest == {q1}

TwoItems == 1 .. 2

FourBatches == 1 .. 4

Kinds == <<"offline", "restore", "offline", "offline">>

TargetSets == <<{1, 2}, {1}, {2}, {1}>>

Windows == <<0, 0, 0, 0>>
=============================================================================
