--------------------------- MODULE MCAsyncOutbox ---------------------------
(* Two dispatchers, two messages. *)
EXTENDS AsyncOutbox

CONSTANTS d1, d2

MCMessages == 1 .. 2

MCDispatchers == {d1, d2}

MCTokens == 1 .. 4
=============================================================================
