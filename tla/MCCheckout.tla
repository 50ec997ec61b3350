----------------------------- MODULE MCCheckout -----------------------------
(* Checkout on small instances.                                            *)
EXTENDS Checkout, TLC

CONSTANTS s1, s2, t1, t2, c1, c2, k1, k2, v1, v2

MCOwnerOne == (c1 :> s1)
MCOwnerTwo == (c1 :> s1) @@ (c2 :> s2)
MCStockOne == (v1 :> 2)
MCStockTight == (v1 :> 1) @@ (v2 :> 1)
\* Checkout ids and requests are interchangeable, and so are two customers
\* with their carts.
Ids == {p @@ t : p \in Permutations(Checkouts), t \in Permutations(Threads)}
Customers == (s1 :> s2) @@ (s2 :> s1) @@ (c1 :> c2) @@ (c2 :> c1)
CustomersToo == Ids \cup {p @@ Customers : p \in Ids}
=============================================================================
