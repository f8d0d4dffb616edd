------------------------- MODULE MCAsyncTaskManager -------------------------
(* Two server processes with one run each. *)
EXTENDS AsyncTaskManager

CONSTANTS r1, r2, h1, h2

MCHostOf == [r \in {r1, r2} |-> IF r = r1 THEN h1 ELSE h2]
=============================================================================
