---------------------------- MODULE MCMembership ----------------------------
EXTENDS Membership, TLC
MCSymmetry == Permutations(Invites) \cup Permutations(Threads)
\* What nothing reads: the role and the deadline of a settled invitation.
Settled(i) == invite[i].status \notin {"none", "pending"}
Matters == [i \in Invites |->
  IF Settled(i) THEN [invite[i] EXCEPT !.role = "editor", !.overdue = FALSE] ELSE invite[i]]
MCView == <<registered, member, rows, Matters, req, edits, admitted, uses>>
=============================================================================
