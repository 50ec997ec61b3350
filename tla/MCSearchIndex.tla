--------------------------- MODULE MCSearchIndex ---------------------------
(* SearchIndex on small instances.                                         *)
EXTENDS SearchIndex, TLC

MCKeys == Ops \X (0..LastMinute)

\* Every search job has PRIORITY_NORMAL.
MCPriority == [k \in MCKeys |-> 5]

\* Runners, and requests, are interchangeable.
MCSymmetry == Permutations(Workers) \cup Permutations(Producers)
=============================================================================
