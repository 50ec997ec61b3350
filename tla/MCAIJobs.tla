------------------------------ MODULE MCAIJobs ------------------------------
(* AIJobs on small instances.                                              *)
EXTENDS AIJobs, TLC

MCPriority == [k \in Keys |-> 10]

\* Jobs of one priority, runners, and requests are interchangeable.
MCSymmetry == Permutations(Keys) \cup Permutations(Workers) \cup Permutations(Producers)
=============================================================================
