------------------------------- MODULE Tally -------------------------------
(***************************************************************************)
(* The sum of a function with natural values over a finite domain, as the  *)
(* number of units it stands for: f[k] units for each k.  (A sum written   *)
(* this way needs no recursion to reason about.)                           *)
(***************************************************************************)
EXTENDS Integers, FiniteSets

Units(f) == UNION {{k} \X (1..f[k]) : k \in DOMAIN f}

Total(f) == Cardinality(Units(f))
=============================================================================
