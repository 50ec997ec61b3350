---------------------------- MODULE StockClaims ----------------------------
(***************************************************************************)
(* What the two-phase checkout promises about stock, without its counters. *)
(* A claim (a checkout session) asks for a number of units of each         *)
(* variant, is granted all of them or none, and later gives them back or   *)
(* turns them into a sale.  The units granted are never more than there    *)
(* were.  Checkout.tla implements this with Inventory.on_hand,             *)
(* Inventory.reserved and StockReservation rows.                           *)
(***************************************************************************)
EXTENDS Integers, FiniteSets, Tally

CONSTANTS Claims,     \* checkout sessions
          Variants,   \* product variants
          Limited,    \* the variants whose stock is finite
          Stock,      \* units there are of each variant at the start
          MaxQty      \* largest quantity a claim asks of one variant

VARIABLES phase, want

claimVars == <<phase, want>>

Phases == {"none", "held", "sold", "released"}

(* The units of v that claims have been granted and not given back.        *)
TakenBy(v) ==
  [k \in Claims |-> IF phase[k] \in {"held", "sold"} THEN want[k][v] ELSE 0]

Taken(v) == Total(TakenBy(v))

ClaimTypeOK ==
  /\ phase \in [Claims -> Phases]
  /\ want \in [Claims -> [Variants -> 0..MaxQty]]

ClaimInit ==
  /\ phase = [k \in Claims |-> "none"]
  /\ want = [k \in Claims |-> [v \in Variants |-> 0]]

Grant(k) ==
  /\ phase[k] = "none"
  /\ \E w \in [Variants -> 0..MaxQty] :
       /\ \A v \in Limited : Taken(v) + w[v] <= Stock[v]
       /\ want' = [want EXCEPT ![k] = w]
  /\ phase' = [phase EXCEPT ![k] = "held"]

GiveBack(k) ==
  /\ phase[k] = "held"
  /\ phase' = [phase EXCEPT ![k] = "released"]
  /\ UNCHANGED want

Sell(k) ==
  /\ phase[k] = "held"
  /\ phase' = [phase EXCEPT ![k] = "sold"]
  /\ UNCHANGED want

ClaimNext == \E k \in Claims : Grant(k) \/ GiveBack(k) \/ Sell(k)

ClaimSpec == ClaimInit /\ [][ClaimNext]_claimVars

(* However claims overlap, the units held by open checkouts and the units  *)
(* sold never exceed the stock of a variant whose stock is finite.         *)
NeverOverpromised == \A v \in Limited : Taken(v) <= Stock[v]
=============================================================================
