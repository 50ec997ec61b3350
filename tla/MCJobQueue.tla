----------------------------- MODULE MCJobQueue -----------------------------
(* JobQueue on small instances.                                            *)
EXTENDS JobQueue, TLC

CONSTANTS j1, j2, w1, w2, p1, p2

MCPriority == (j1 :> 10) @@ (j2 :> 5)
=============================================================================
