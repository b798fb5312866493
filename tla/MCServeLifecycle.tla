-------------------------- MODULE MCServeLifecycle --------------------------
(* Two requests: one can be in the database while the other is slow.       *)
EXTENDS ServeLifecycle

CONSTANTS r1, r2

MCRequests == {r1, r2}
==============================================================================
