--------------------------- MODULE MCOperationJobs ---------------------------
(* Two workers; two operations that share an item: a promotion of it, and one that
   changes it and another item. *)
EXTENDS OperationJobs, TLC

CONSTANTS a, b, w1, w2, i1, i2

OneJob == {a}

TwoJobs == {a, b}

TwoWorkers == {w1, w2}

OneItem == {i1}

TwoItems == {i1, i2}

OneTarget == [j \in {a} |-> {i1}]

SharedTargets == [j \in TwoJobs |-> IF j = a THEN {i1} ELSE {i1, i2}]

First == {{a}}

None == {{}}

Symmetry == Permutations(TwoWorkers)
=============================================================================
