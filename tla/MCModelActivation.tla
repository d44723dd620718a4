------------------------- MODULE MCModelActivation -------------------------
(* Three models and three activation requests. *)
EXTENDS ModelActivation, TLC

CONSTANTS m1, m2, m3, q1, q2, q3

MCModels == {m1, m2, m3}

MCRequests == {q1, q2, q3}

Symmetry == Permutations(MCModels) \cup Permutations(MCRequests)
=============================================================================
