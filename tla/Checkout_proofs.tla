-------------------------- MODULE Checkout_proofs --------------------------
(***************************************************************************)
(* The bookkeeping of Checkout, for any sessions, requests, carts,         *)
(* checkouts, variants and stock.  ReservedIsSum is not inductive: that a  *)
(* counter goes down by what one reservation holds, without the clamps at  *)
(* zero ever biting, needs the reservations to follow the life of their    *)
(* session and needs Reserved <= OnHand; and that an order placed without  *)
(* a checkout session, which writes the copy on the variant, disturbs none *)
(* of it needs that the copy stays between zero and the stock and no       *)
(* longer matters once a reservation was made.                             *)
(***************************************************************************)
EXTENDS Checkout, FiniteSetTheorems, TLAPS

(* A tally over finitely many keys has finitely many units.                *)
LEMMA UnitsFinite ==
  ASSUME NEW K, IsFiniteSet(K), NEW f \in [K -> Nat]
  PROVE  IsFiniteSet(Units(f))
<1> DEFINE share == [k \in K |-> {k} \X (1..f[k])]
           Shares == {{k} \X (1..f[k]) : k \in K}
<1>1. share \in Surjection(K, Shares)
  BY DEF Surjection
<1>2. IsFiniteSet(Shares)
  BY <1>1, FS_Surjection
<1>3. ASSUME NEW T \in Shares PROVE IsFiniteSet(T)
  <2>1. PICK k \in K : T = {k} \X (1..f[k])
    OBVIOUS
  <2>2. IsFiniteSet({k})
    BY FS_Singleton
  <2>3. f[k] \in Int
    OBVIOUS
  <2>4. IsFiniteSet(1..f[k])
    BY <2>3, FS_Interval
  <2> QED BY <2>1, <2>2, <2>4, FS_Product
<1>4. IsFiniteSet(UNION Shares)
  BY <1>2, <1>3, FS_UNION
<1> QED BY <1>4 DEF Units

(* Taking one key out of a tally takes its units out of the total.         *)
LEMMA TotalSplit ==
  ASSUME NEW K, IsFiniteSet(K), NEW f \in [K -> Nat], NEW k \in K
  PROVE  LET rest == {u \in Units(f) : u[1] # k} IN
         /\ IsFiniteSet(rest)
         /\ Cardinality(rest) \in Nat
         /\ Total(f) = Cardinality(rest) + f[k]
<1> DEFINE rest == {u \in Units(f) : u[1] # k}
           own == {k} \X (1..f[k])
<1>1. IsFiniteSet(rest)
  BY UnitsFinite, FS_Subset
<1>2. IsFiniteSet(own) /\ Cardinality(own) = f[k]
  <2>1. IsFiniteSet({k}) /\ Cardinality({k}) = 1
    BY FS_Singleton
  <2>2. IsFiniteSet(1..f[k]) /\ Cardinality(1..f[k]) = f[k]
    BY FS_Interval
  <2>3. IsFiniteSet(own) /\ Cardinality(own) = 1 * f[k]
    BY <2>1, <2>2, FS_Product
  <2> QED BY <2>3
<1>3. Units(f) = rest \cup own /\ rest \cap own = {}
  BY DEF Units
<1>4. Cardinality(rest) \in Nat
  BY <1>1, FS_CardinalityType
<1>5. Cardinality(rest \cup own) = Cardinality(rest) + Cardinality(own) - Cardinality(rest \cap own)
  BY <1>1, <1>2, FS_Union
<1>6. Cardinality(rest \cap own) = 0
  BY <1>3, FS_EmptySet
<1> HIDE DEF rest, own
<1>7. Total(f) = Cardinality(rest) + f[k]
  BY <1>2, <1>3, <1>4, <1>5, <1>6 DEF Total
<1> QED BY <1>1, <1>4, <1>7 DEF rest

(* Every entry of a tally is within its total.                             *)
LEMMA TotalBounds ==
  ASSUME NEW K, IsFiniteSet(K), NEW f \in [K -> Nat]
  PROVE  /\ Total(f) \in Nat
         /\ \A k \in K : f[k] <= Total(f)
<1>1. Total(f) \in Nat
  BY UnitsFinite, FS_CardinalityType DEF Total
<1>2. ASSUME NEW k \in K PROVE f[k] <= Total(f)
  <2> DEFINE rest == {u \in Units(f) : u[1] # k}
  <2>1. Cardinality(rest) \in Nat /\ Total(f) = Cardinality(rest) + f[k]
    BY TotalSplit
  <2> HIDE DEF rest
  <2> QED BY <2>1
<1> QED BY <1>1, <1>2

(* Changing one entry changes the total by the difference.                 *)
LEMMA TotalChange ==
  ASSUME NEW K, IsFiniteSet(K), NEW f \in [K -> Nat], NEW g \in [K -> Nat],
         NEW k \in K, \A j \in K \ {k} : g[j] = f[j]
  PROVE  Total(g) = Total(f) - f[k] + g[k]
<1> DEFINE restf == {u \in Units(f) : u[1] # k}
           restg == {u \in Units(g) : u[1] # k}
<1>1. restf = restg
  BY DEF Units
<1>2. Total(f) = Cardinality(restf) + f[k] /\ Cardinality(restf) \in Nat
  BY TotalSplit
<1>3. Total(g) = Cardinality(restg) + g[k]
  BY TotalSplit
<1> HIDE DEF restf, restg
<1> QED BY <1>1, <1>2, <1>3

(* A tally of nothing is zero.                                             *)
LEMMA TotalZero ==
  ASSUME NEW K, NEW f \in [K -> Nat], \A k \in K : f[k] = 0
  PROVE  Total(f) = 0
<1>1. Units(f) = {}
  BY DEF Units
<1> QED BY <1>1, FS_EmptySet DEF Total

(* Two tallies that share no key add up.                                   *)
LEMMA TotalUnion ==
  ASSUME NEW K, IsFiniteSet(K), NEW f \in [K -> Nat], NEW g \in [K -> Nat],
         NEW h \in [K -> Nat],
         \A k \in K : \/ f[k] = 0 /\ h[k] = g[k]
                      \/ g[k] = 0 /\ h[k] = f[k]
  PROVE  Total(h) = Total(f) + Total(g)
<1>1. Units(h) = Units(f) \cup Units(g)
  BY DEF Units
<1>2. Units(f) \cap Units(g) = {}
  BY DEF Units
<1>3. IsFiniteSet(Units(f)) /\ IsFiniteSet(Units(g))
  BY UnitsFinite
<1>4. Cardinality(Units(f)) \in Nat /\ Cardinality(Units(g)) \in Nat
  BY <1>3, FS_CardinalityType
<1>5. Cardinality(Units(f) \cap Units(g)) = 0
  BY <1>2, FS_EmptySet
<1>6. Cardinality(Units(f) \cup Units(g)) =
        Cardinality(Units(f)) + Cardinality(Units(g)) - Cardinality(Units(f) \cap Units(g))
  BY <1>3, FS_Union
<1> QED BY <1>1, <1>4, <1>5, <1>6 DEF Total

-----------------------------------------------------------------------------
(* What holds between the counters and the rows.                            *)

(* Which reservations a session in each status can have.                   *)
LifeCycle ==
  /\ \A k \in Checkouts : status[k] # "none" => ofCart[k] \in Carts
  /\ \A k \in Checkouts, v \in Variants :
       /\ resv[k][v].status # "none" => v \in Tracked
       /\ resv[k][v].status = "none" => resv[k][v].quantity = 0
       /\ resv[k][v].status = "reserved" => status[k] = "open"
       /\ resv[k][v].status = "committed" => status[k] = "completed"
       /\ status[k] = "none" => resv[k][v].status = "none"
       /\ status[k] = "open" => resv[k][v].status \in {"none", "reserved"}
       /\ status[k] = "completed" => resv[k][v].status \in {"none", "committed"}
  /\ \A k \in Checkouts : orders[k] = IF status[k] = "completed" THEN 1 ELSE 0

Counters == ReservedIsSum /\ StockConserved /\ ReservedOnHand

(* What is left of the stock after an order without a checkout session.    *)
LeftInBounds(r) ==
  r.op = "order" => \A v \in Reservable(r.lines) : 0 <= r.left[v] /\ r.left[v] <= Stock[v]

(* The copy on the variant stands for the stock only where nothing was ever *)
(* reserved, and it is never more than the stock there was.                *)
Copies ==
  /\ \A k \in Checkouts, v \in Variants : resv[k][v].status # "none" => v \in rows
  /\ \A v \in Tracked : inventory[v] <= Stock[v]
  /\ \A t \in Threads : LeftInBounds(req[t])

CheckoutInv == TypeOK /\ LifeCycle /\ Counters /\ Copies

(* No request has just computed what an order leaves of the stock.         *)
NothingComputed == \A t \in Threads : req'[t] = req[t] \/ req'[t].op # "order"

(* What a reservation row contributes to a tally is a natural number.      *)
LEMMA QuantitiesType ==
  ASSUME TypeOK, NEW st, NEW v \in Variants
  PROVE  Quantities(st, v) \in [Checkouts -> Nat]
BY CheckoutAssumption DEF TypeOK, Quantities, Reservations

(* The counters of a variant after Inventory rows were written.            *)
LEMMA WriteStockEffect ==
  ASSUME TypeOK, NEW V \in SUBSET Variants, NEW hand \in [Variants -> Int],
         NEW held \in [Variants -> Nat], WriteStock(V, hand, held)
  PROVE  /\ rows' \subseteq Variants
         /\ onHand' \in [Variants -> Int]
         /\ reserved' \in [Variants -> Nat]
         /\ inventory' \in [Variants -> Int]
         /\ \A v \in Variants :
              /\ OnHand(v)' = IF v \in V THEN hand[v] ELSE OnHand(v)
              /\ Reserved(v)' = IF v \in V THEN held[v] ELSE Reserved(v)
BY DEF TypeOK, WriteStock, OnHand, Reserved

(* Writing Inventory rows keeps the copies on the variants in step.        *)
LEMMA CopiesKept ==
  ASSUME CheckoutInv, Counters', NothingComputed,
         NEW V \in SUBSET Variants, NEW hand, NEW held, WriteStock(V, hand, held),
         \A v \in Variants : OnHand(v)' \in Int /\ UnitsSold(v)' \in Nat,
         \A k \in Checkouts, v \in Variants :
           resv'[k][v].status # "none" => resv[k][v].status # "none" \/ v \in V
  PROVE  Copies'
<1> USE CheckoutAssumption
<1>1. \A k \in Checkouts, v \in Variants : resv'[k][v].status # "none" => v \in rows'
  BY DEF CheckoutInv, Copies, WriteStock
<1>2. ASSUME NEW v \in Tracked PROVE inventory'[v] <= Stock[v]
  <2>1. CASE v \in V
    <3>1. inventory'[v] = OnHand(v)'
      BY <2>1 DEF WriteStock, OnHand
    <3>2. OnHand(v)' + UnitsSold(v)' <= Stock[v]
      BY DEF Counters, StockConserved
    <3> QED BY <3>1, <3>2
  <2>2. CASE v \notin V
    BY <2>2 DEF WriteStock, CheckoutInv, Copies
  <2> QED BY <2>1, <2>2
<1>3. \A t \in Threads : LeftInBounds(req'[t])
  BY DEF NothingComputed, CheckoutInv, Copies, LeftInBounds
<1> QED BY <1>1, <1>2, <1>3 DEF Copies

(* The counters are numbers.                                               *)
LEMMA CounterTypes ==
  ASSUME TypeOK
  PROVE  /\ \A v \in Variants : OnHand(v) \in Int /\ Reserved(v) \in Nat
         /\ [v \in Variants |-> OnHand(v)] \in [Variants -> Int]
         /\ \A k \in Checkouts : LessReserved(k) \in [Variants -> Nat]
         /\ \A k \in Checkouts : LessOnHand(k) \in [Variants -> Int]
<1>1. \A v \in Variants : OnHand(v) \in Int /\ Reserved(v) \in Nat
  BY DEF TypeOK, OnHand, Reserved
<1>2. \A k \in Checkouts, v \in Variants : resv[k][v].quantity \in Nat
  BY CheckoutAssumption DEF TypeOK, Reservations
<1>3. \A k \in Checkouts : LessReserved(k) \in [Variants -> Nat]
  BY <1>1, <1>2 DEF LessReserved, AtLeastZero
<1>4. \A k \in Checkouts : LessOnHand(k) \in [Variants -> Int]
  BY <1>1, <1>2 DEF LessOnHand, AtLeastZero
<1> QED BY <1>1, <1>3, <1>4

(* When only the reservations of k change, the units of a variant in a     *)
(* status change by what k contributes to them.                            *)
LEMMA UnitsChange ==
  ASSUME TypeOK, TypeOK', NEW st, NEW v \in Variants, NEW k \in Checkouts,
         \A j \in Checkouts \ {k} : resv'[j] = resv[j]
  PROVE  /\ Total(Quantities(st, v)) \in Nat
         /\ Quantities(st, v)[k] \in Nat
         /\ Quantities(st, v)[k] <= Total(Quantities(st, v))
         /\ Total(Quantities(st, v))' = Total(Quantities(st, v))
                                          - Quantities(st, v)[k] + Quantities(st, v)'[k]
<1>1. Quantities(st, v) \in [Checkouts -> Nat]
  BY QuantitiesType
<1>2. Quantities(st, v)' \in [Checkouts -> Nat]
  BY CheckoutAssumption DEF TypeOK, Quantities, Reservations
<1>3. \A j \in Checkouts \ {k} : Quantities(st, v)'[j] = Quantities(st, v)[j]
  BY DEF Quantities
<1>4. Total(Quantities(st, v)') = Total(Quantities(st, v))
                                    - Quantities(st, v)[k] + Quantities(st, v)'[k]
  BY <1>1, <1>2, <1>3, CheckoutAssumption, TotalChange
<1>5. Total(Quantities(st, v)) \in Nat /\ Quantities(st, v)[k] <= Total(Quantities(st, v))
  BY <1>1, CheckoutAssumption, TotalBounds
<1> QED BY <1>1, <1>4, <1>5

(* The counter and the sum are numbers after a step, too.                  *)
LEMMA NumbersNext ==
  ASSUME TypeOK', NEW v \in Variants
  PROVE  OnHand(v)' \in Int /\ UnitsSold(v)' \in Nat
<1>1. OnHand(v)' \in Int
  BY DEF TypeOK, OnHand
<1>2. Quantities("committed", v)' \in [Checkouts -> Nat]
  BY CheckoutAssumption DEF TypeOK, Quantities, Reservations
<1>3. Total(Quantities("committed", v)') \in Nat
  BY <1>2, CheckoutAssumption, TotalBounds
<1> QED BY <1>1, <1>3 DEF UnitsSold

(* Nothing is reserved or sold at the start.                               *)
LEMMA InitInv == Init => CheckoutInv
<1> SUFFICES ASSUME Init PROVE CheckoutInv
  OBVIOUS
<1> USE CheckoutAssumption
<1>1. TypeOK
  BY DEF Init, TypeOK, Lines, NoLines, Idle, Requests, Reservations, NoReservation
<1>2. LifeCycle
  BY DEF Init, LifeCycle, NoReservation
<1>3. ASSUME NEW v \in Variants, NEW st \in {"reserved", "committed"}
      PROVE  Total(Quantities(st, v)) = 0
  <2>1. Quantities(st, v) \in [Checkouts -> Nat]
    BY <1>1, QuantitiesType
  <2>2. \A k \in Checkouts : Quantities(st, v)[k] = 0
    BY DEF Init, Quantities, NoReservation
  <2> QED BY <2>1, <2>2, TotalZero
<1>4. \A v \in Variants : OnHand(v) = Stock[v] /\ Reserved(v) = 0
  BY DEF Init, OnHand, Reserved
<1>5. Counters
  BY <1>3, <1>4 DEF Counters, ReservedIsSum, StockConserved, ReservedOnHand, UnitsHeld, UnitsSold
<1>6. Copies
  BY DEF Init, Copies, LeftInBounds, NoReservation, Idle
<1> QED BY <1>1, <1>2, <1>5, <1>6 DEF CheckoutInv

(* A step that leaves the Inventory rows and the reservations alone leaves *)
(* the counters and the sums alone.                                        *)
LEMMA CountersUnchanged ==
  ASSUME Counters, UNCHANGED <<stockVars, direct>>
  PROVE  Counters'
BY DEF Counters, ReservedIsSum, StockConserved, ReservedOnHand, UnitsHeld, UnitsSold,
       Quantities, OnHand, Reserved, stockVars

(* A new checkout session adds to reserved what its reservations add to    *)
(* the sum, and only what is available of a variant without backorders.    *)
LEMMA CreateKeepsInv ==
  ASSUME CheckoutInv, NEW t \in Threads, NEW k \in Checkouts, NEW code \in BOOLEAN,
         CreateCheckout(t, k, code)
  PROVE  CheckoutInv'
<1> USE CheckoutAssumption
<1> DEFINE lines == item[req[t].cart]
           V == Reservable(lines)
           hand == [v \in Variants |-> OnHand(v)]
           held == [v \in Variants |-> Reserved(v) + lines[v]]
<1>1. TypeOK /\ LifeCycle /\ Counters
  BY DEF CheckoutInv
<1>2. req[t].cart \in Carts
  BY <1>1 DEF CreateCheckout, TypeOK, Requests
<1>3. lines \in [Variants -> 0..MaxQty]
  BY <1>1, <1>2 DEF TypeOK, Lines
<1>4. V \in SUBSET Variants /\ hand \in [Variants -> Int] /\ held \in [Variants -> Nat]
  BY <1>1, <1>3, CounterTypes DEF Reservable
<1>5. WriteStock(V, hand, held)
  BY DEF CreateCheckout, Reserve
<1>6. /\ rows' \subseteq Variants
      /\ onHand' \in [Variants -> Int]
      /\ reserved' \in [Variants -> Nat]
      /\ inventory' \in [Variants -> Int]
      /\ \A v \in Variants :
           /\ OnHand(v)' = OnHand(v)
           /\ Reserved(v)' = IF v \in V THEN Reserved(v) + lines[v] ELSE Reserved(v)
  <2> HIDE DEF V, hand, held
  <2>1. \A v \in Variants :
          /\ OnHand(v)' = IF v \in V THEN hand[v] ELSE OnHand(v)
          /\ Reserved(v)' = IF v \in V THEN held[v] ELSE Reserved(v)
    BY <1>1, <1>4, <1>5, WriteStockEffect
  <2>2. \A v \in Variants : hand[v] = OnHand(v) /\ held[v] = Reserved(v) + lines[v]
    BY DEF hand, held
  <2> QED BY <1>1, <1>4, <1>5, <2>1, <2>2, WriteStockEffect
<1>7. /\ resv'[k] = [v \in Variants |-> IF v \in V
                                        THEN [status |-> "reserved", quantity |-> lines[v]]
                                        ELSE NoReservation]
      /\ resv' \in [Checkouts -> [Variants -> Reservations]]
      /\ \A j \in Checkouts \ {k} : resv'[j] = resv[j]
  BY <1>1, <1>3 DEF CreateCheckout, Reserve, TypeOK, Reservations, NoReservation
<1> HIDE DEF V, hand, held
<1>8. TypeOK'
  BY <1>1, <1>2, <1>3, <1>6, <1>7 DEF CreateCheckout, TypeOK, Lines, Requests, Idle, orderVars
<1>9. LifeCycle'
  BY <1>1, <1>2, <1>7
     DEF CreateCheckout, LifeCycle, TypeOK, orderVars, NoReservation, V, Reservable
<1>10. Counters'
  <2> SUFFICES ASSUME NEW v \in Variants
               PROVE  /\ Reserved(v)' = UnitsHeld(v)'
                      /\ v \in Tracked =>
                           /\ OnHand(v)' + UnitsSold(v)' <= Stock[v]
                           /\ direct[v] = 0 => OnHand(v)' + UnitsSold(v)' = Stock[v]
                      /\ v \in Tracked \ Backorder => Reserved(v)' <= OnHand(v)'
    BY DEF Counters, ReservedIsSum, StockConserved, ReservedOnHand, CreateCheckout, orderVars
  <2>1. /\ Quantities("reserved", v)[k] = 0
        /\ Quantities("committed", v)[k] = 0
        /\ Quantities("committed", v)'[k] = 0
        /\ Quantities("reserved", v)'[k] = IF v \in V THEN lines[v] ELSE 0
    BY <1>1, <1>7 DEF CreateCheckout, LifeCycle, Quantities, NoReservation
  <2>2. UnitsSold(v)' = UnitsSold(v)
    BY <1>1, <1>7, <1>8, <2>1, UnitsChange DEF UnitsSold
  <2>3. UnitsHeld(v)' = UnitsHeld(v) + (IF v \in V THEN lines[v] ELSE 0)
    BY <1>1, <1>3, <1>7, <1>8, <2>1, UnitsChange DEF UnitsHeld
  <2>4. /\ Reserved(v) = UnitsHeld(v)
        /\ v \in Tracked =>
             /\ OnHand(v) + UnitsSold(v) <= Stock[v]
             /\ direct[v] = 0 => OnHand(v) + UnitsSold(v) = Stock[v]
        /\ v \in Tracked \ Backorder => Reserved(v) <= OnHand(v)
    BY <1>1 DEF Counters, ReservedIsSum, StockConserved, ReservedOnHand
  <2>5. OnHand(v) \in Int /\ Reserved(v) \in Nat /\ lines[v] \in Nat
    BY <1>1, <1>3, CounterTypes
  <2>6. CASE v \in V /\ v \notin Backorder
    <3>1. lines[v] <= Available(v) /\ lines[v] > 0
      BY <2>6 DEF CreateCheckout, CheckoutAccepted, EnoughStock, V, Reservable
    <3>2. Reserved(v) + lines[v] <= OnHand(v)
      BY <2>5, <3>1 DEF Available, AtLeastZero
    <3> QED BY <1>6, <2>2, <2>3, <2>4, <2>5, <2>6, <3>2
  <2>7. CASE ~(v \in V /\ v \notin Backorder)
    BY <1>6, <2>2, <2>3, <2>4, <2>5, <2>7
  <2> QED BY <2>6, <2>7
<1>11. Copies'
  <2>1. NothingComputed
    BY <1>1 DEF CreateCheckout, NothingComputed, TypeOK, Idle
  <2>2. \A v \in Variants : OnHand(v)' \in Int /\ UnitsSold(v)' \in Nat
    BY <1>8, NumbersNext
  <2>3. \A j \in Checkouts, v \in Variants :
          resv'[j][v].status # "none" => resv[j][v].status # "none" \/ v \in V
    BY <1>7 DEF NoReservation
  <2> QED BY <1>4, <1>5, <1>10, <2>1, <2>2, <2>3, CopiesKept
<1> QED BY <1>8, <1>9, <1>10, <1>11 DEF CheckoutInv

(* Closing the reservations of an open session: what both a release and a  *)
(* commit do to the rows, and to the sums.                                 *)
LEMMA CloseReservations ==
  ASSUME CheckoutInv, NEW k \in Checkouts, status[k] = "open",
         NEW to \in {"expired", "committed"}, SetReservations(k, to)
  PROVE  /\ resv' \in [Checkouts -> [Variants -> Reservations]]
         /\ \A j \in Checkouts \ {k} : resv'[j] = resv[j]
         /\ \A v \in Variants :
              /\ resv'[k][v].quantity = resv[k][v].quantity
              /\ resv'[k][v].status = IF Held(k, v) THEN to ELSE resv[k][v].status
              /\ Held(k, v) => v \in Tracked
              /\ resv[k][v].quantity \in Nat
              /\ Quantities("reserved", v)'[k] = 0
              /\ Quantities("reserved", v)[k] = IF Held(k, v) THEN resv[k][v].quantity ELSE 0
              /\ Quantities("committed", v)[k] = 0
              /\ Quantities("committed", v)'[k] =
                   IF Held(k, v) /\ to = "committed" THEN resv[k][v].quantity ELSE 0
<1> USE CheckoutAssumption
<1>1. TypeOK /\ LifeCycle
  BY DEF CheckoutInv
<1>2. /\ resv' \in [Checkouts -> [Variants -> Reservations]]
      /\ \A j \in Checkouts \ {k} : resv'[j] = resv[j]
      /\ \A v \in Variants :
           /\ resv'[k][v].quantity = resv[k][v].quantity
           /\ resv'[k][v].status = IF Held(k, v) THEN to ELSE resv[k][v].status
  <2>1. \A v \in Variants : resv[k][v] \in Reservations
    BY <1>1 DEF TypeOK
  <2>2. ASSUME NEW v \in Variants
        PROVE  LET n == [resv[k][v] EXCEPT !.status = to] IN
               n \in Reservations /\ n.status = to /\ n.quantity = resv[k][v].quantity
    BY <2>1 DEF Reservations
  <2>3. resv' = [resv EXCEPT ![k] = [v \in Variants |->
                   IF Held(k, v) THEN [resv[k][v] EXCEPT !.status = to] ELSE resv[k][v]]]
    BY DEF SetReservations
  <2>4. resv'[k] = [v \in Variants |->
          IF Held(k, v) THEN [resv[k][v] EXCEPT !.status = to] ELSE resv[k][v]]
    BY <1>1, <2>3 DEF TypeOK
  <2>5. resv'[k] \in [Variants -> Reservations]
    BY <2>1, <2>2, <2>4
  <2>6. resv' \in [Checkouts -> [Variants -> Reservations]]
        /\ \A j \in Checkouts \ {k} : resv'[j] = resv[j]
    BY <1>1, <2>3, <2>4, <2>5 DEF TypeOK
  <2> QED BY <2>2, <2>4, <2>6
<1>3. \A v \in Variants : resv[k][v].quantity \in Nat /\ (Held(k, v) => v \in Tracked)
  BY <1>1 DEF TypeOK, Reservations, LifeCycle, Held
<1>4. \A v \in Variants : resv[k][v].status # "committed"
  BY <1>1 DEF LifeCycle
<1> QED BY <1>2, <1>3, <1>4 DEF Quantities, Held

(* Cancelling gives back exactly what the session still held.              *)
LEMMA CancelKeepsInv ==
  ASSUME CheckoutInv, NEW k \in Checkouts, CancelCheckout(k)
  PROVE  CheckoutInv'
<1> USE CheckoutAssumption
<1> DEFINE V == HeldBy(k) \cap Tracked
           hand == [v \in Variants |-> OnHand(v)]
<1>1. TypeOK /\ LifeCycle /\ Counters /\ status[k] = "open"
  BY DEF CheckoutInv, CancelCheckout
<1>2. SetReservations(k, "expired") /\ WriteStock(V, hand, LessReserved(k))
  BY DEF CancelCheckout, Release
<1>3. /\ V \in SUBSET Variants /\ hand \in [Variants -> Int]
      /\ LessReserved(k) \in [Variants -> Nat]
      /\ \A v \in Variants : OnHand(v) \in Int /\ Reserved(v) \in Nat
  BY <1>1, CounterTypes DEF HeldBy
<1>4. /\ resv' \in [Checkouts -> [Variants -> Reservations]]
      /\ \A j \in Checkouts \ {k} : resv'[j] = resv[j]
  BY <1>1, <1>2, CloseReservations
<1>5. \A v \in Variants :
        /\ resv'[k][v].quantity = resv[k][v].quantity
        /\ resv'[k][v].status = IF Held(k, v) THEN "expired" ELSE resv[k][v].status
        /\ Held(k, v) => v \in Tracked
        /\ resv[k][v].quantity \in Nat
        /\ Quantities("reserved", v)'[k] = 0
        /\ Quantities("reserved", v)[k] = IF Held(k, v) THEN resv[k][v].quantity ELSE 0
        /\ Quantities("committed", v)[k] = 0
        /\ Quantities("committed", v)'[k] = 0
  BY <1>1, <1>2, CloseReservations
<1>6. /\ rows' \subseteq Variants
      /\ onHand' \in [Variants -> Int]
      /\ reserved' \in [Variants -> Nat]
      /\ inventory' \in [Variants -> Int]
      /\ \A v \in Variants :
           /\ OnHand(v)' = OnHand(v)
           /\ Reserved(v)' = IF Held(k, v)
                             THEN AtLeastZero(Reserved(v) - resv[k][v].quantity)
                             ELSE Reserved(v)
  <2>1. \A v \in Variants : v \in V <=> Held(k, v)
    BY <1>5 DEF HeldBy
  <2>2. \A v \in Variants : /\ hand[v] = OnHand(v)
                            /\ LessReserved(k)[v] = AtLeastZero(Reserved(v) - resv[k][v].quantity)
    BY DEF LessReserved
  <2> HIDE DEF V, hand
  <2>3. /\ rows' \subseteq Variants
        /\ onHand' \in [Variants -> Int]
        /\ reserved' \in [Variants -> Nat]
        /\ inventory' \in [Variants -> Int]
        /\ \A v \in Variants :
             /\ OnHand(v)' = IF v \in V THEN hand[v] ELSE OnHand(v)
             /\ Reserved(v)' = IF v \in V THEN LessReserved(k)[v] ELSE Reserved(v)
    BY <1>1, <1>2, <1>3, WriteStockEffect
  <2> QED BY <2>1, <2>2, <2>3
<1> HIDE DEF V, hand
<1>7. TypeOK'
  BY <1>1, <1>4, <1>6 DEF CancelCheckout, TypeOK, cartVars, orderVars
<1>8. LifeCycle'
  <2>1. /\ status' \in [Checkouts -> {"none", "open", "completed", "expired"}]
        /\ status'[k] = "expired"
        /\ \A j \in Checkouts \ {k} : status'[j] = status[j]
        /\ ofCart' = ofCart
    BY <1>1 DEF CancelCheckout, TypeOK
  <2>2. \A j \in Checkouts : orders'[j] = IF status'[j] = "completed" THEN 1 ELSE 0
    BY <1>1, <2>1 DEF CancelCheckout, LifeCycle, TypeOK, orderVars
  <2>3. \A j \in Checkouts : status'[j] # "none" => ofCart'[j] \in Carts
    BY <1>1, <2>1 DEF LifeCycle
  <2>4. \A v \in Variants : resv[k][v].status \in {"none", "reserved"}
    BY <1>1 DEF LifeCycle
  <2>5. ASSUME NEW j \in Checkouts, NEW v \in Variants
        PROVE  /\ resv'[j][v].status # "none" => v \in Tracked
               /\ resv'[j][v].status = "none" => resv'[j][v].quantity = 0
               /\ resv'[j][v].status = "reserved" => status'[j] = "open"
               /\ resv'[j][v].status = "committed" => status'[j] = "completed"
               /\ status'[j] = "none" => resv'[j][v].status = "none"
               /\ status'[j] = "open" => resv'[j][v].status \in {"none", "reserved"}
               /\ status'[j] = "completed" => resv'[j][v].status \in {"none", "committed"}
    <3>1. CASE j = k
      BY <1>1, <1>5, <2>1, <2>4, <3>1 DEF LifeCycle, Held
    <3>2. CASE j # k
      BY <1>1, <1>4, <2>1, <3>2 DEF LifeCycle
    <3> QED BY <3>1, <3>2
  <2> QED BY <2>2, <2>3, <2>5 DEF LifeCycle
<1>9. Counters'
  <2> SUFFICES ASSUME NEW v \in Variants
               PROVE  /\ Reserved(v)' = UnitsHeld(v)'
                      /\ v \in Tracked =>
                           /\ OnHand(v)' + UnitsSold(v)' <= Stock[v]
                           /\ direct[v] = 0 => OnHand(v)' + UnitsSold(v)' = Stock[v]
                      /\ v \in Tracked \ Backorder => Reserved(v)' <= OnHand(v)'
    BY DEF Counters, ReservedIsSum, StockConserved, ReservedOnHand, CancelCheckout, orderVars
  <2>1. UnitsSold(v)' = UnitsSold(v)
    BY <1>1, <1>4, <1>5, <1>7, UnitsChange DEF UnitsSold
  <2>2. /\ UnitsHeld(v)' = UnitsHeld(v) - (IF Held(k, v) THEN resv[k][v].quantity ELSE 0)
        /\ Held(k, v) => resv[k][v].quantity <= UnitsHeld(v)
    BY <1>1, <1>4, <1>5, <1>7, UnitsChange DEF UnitsHeld
  <2>3. /\ Reserved(v) = UnitsHeld(v)
        /\ v \in Tracked =>
             /\ OnHand(v) + UnitsSold(v) <= Stock[v]
             /\ direct[v] = 0 => OnHand(v) + UnitsSold(v) = Stock[v]
        /\ v \in Tracked \ Backorder => Reserved(v) <= OnHand(v)
    BY <1>1 DEF Counters, ReservedIsSum, StockConserved, ReservedOnHand
  <2> QED BY <1>3, <1>5, <1>6, <2>1, <2>2, <2>3 DEF AtLeastZero
<1>10. Copies'
  <2>1. NothingComputed
    BY DEF CancelCheckout, NothingComputed, cartVars
  <2>2. \A v \in Variants : OnHand(v)' \in Int /\ UnitsSold(v)' \in Nat
    BY <1>7, NumbersNext
  <2>3. \A j \in Checkouts, v \in Variants :
          resv'[j][v].status # "none" => resv[j][v].status # "none" \/ v \in V
    BY <1>4, <1>5 DEF Held
  <2> QED BY <1>2, <1>3, <1>9, <2>1, <2>2, <2>3, CopiesKept
<1> QED BY <1>7, <1>8, <1>9, <1>10 DEF CheckoutInv

(* Completing takes the units a session held off the shelf, once.          *)
LEMMA CompleteKeepsInv ==
  ASSUME CheckoutInv, NEW k \in Checkouts, CompleteCheckout(k)
  PROVE  CheckoutInv'
<1> USE CheckoutAssumption
<1> DEFINE V == HeldBy(k) \cap Tracked
<1>1. TypeOK /\ LifeCycle /\ Counters /\ status[k] = "open"
  BY DEF CheckoutInv, CompleteCheckout
<1>2. SetReservations(k, "committed") /\ WriteStock(V, LessOnHand(k), LessReserved(k))
  BY DEF CompleteCheckout, Commit
<1>3. /\ V \in SUBSET Variants
      /\ LessOnHand(k) \in [Variants -> Int]
      /\ LessReserved(k) \in [Variants -> Nat]
      /\ \A v \in Variants : OnHand(v) \in Int /\ Reserved(v) \in Nat
  BY <1>1, CounterTypes DEF HeldBy
<1>4. /\ resv' \in [Checkouts -> [Variants -> Reservations]]
      /\ \A j \in Checkouts \ {k} : resv'[j] = resv[j]
  BY <1>1, <1>2, CloseReservations
<1>5. \A v \in Variants :
        /\ resv'[k][v].quantity = resv[k][v].quantity
        /\ resv'[k][v].status = IF Held(k, v) THEN "committed" ELSE resv[k][v].status
        /\ Held(k, v) => v \in Tracked
        /\ resv[k][v].quantity \in Nat
        /\ Quantities("reserved", v)'[k] = 0
        /\ Quantities("reserved", v)[k] = IF Held(k, v) THEN resv[k][v].quantity ELSE 0
        /\ Quantities("committed", v)[k] = 0
        /\ Quantities("committed", v)'[k] = IF Held(k, v) THEN resv[k][v].quantity ELSE 0
  BY <1>1, <1>2, CloseReservations
<1>6. /\ rows' \subseteq Variants
      /\ onHand' \in [Variants -> Int]
      /\ reserved' \in [Variants -> Nat]
      /\ inventory' \in [Variants -> Int]
      /\ \A v \in Variants :
           /\ OnHand(v)' = IF Held(k, v) THEN LessOnHand(k)[v] ELSE OnHand(v)
           /\ Reserved(v)' = IF Held(k, v) THEN LessReserved(k)[v] ELSE Reserved(v)
  <2>1. \A v \in Variants : v \in V <=> Held(k, v)
    BY <1>5 DEF HeldBy
  <2> HIDE DEF V
  <2>2. /\ rows' \subseteq Variants
        /\ onHand' \in [Variants -> Int]
        /\ reserved' \in [Variants -> Nat]
        /\ inventory' \in [Variants -> Int]
        /\ \A v \in Variants :
             /\ OnHand(v)' = IF v \in V THEN LessOnHand(k)[v] ELSE OnHand(v)
             /\ Reserved(v)' = IF v \in V THEN LessReserved(k)[v] ELSE Reserved(v)
    BY <1>1, <1>2, <1>3, WriteStockEffect
  <2> QED BY <2>1, <2>2
<1> HIDE DEF V
<1>7. ofCart[k] \in Carts
  BY <1>1 DEF LifeCycle
<1>8. TypeOK'
  BY <1>1, <1>4, <1>6, <1>7 DEF CompleteCheckout, TypeOK
<1>9. LifeCycle'
  <2>1. /\ status' \in [Checkouts -> {"none", "open", "completed", "expired"}]
        /\ status'[k] = "completed"
        /\ \A j \in Checkouts \ {k} : status'[j] = status[j]
        /\ ofCart' = ofCart
    BY <1>1 DEF CompleteCheckout, TypeOK
  <2>2. \A j \in Checkouts : orders'[j] = IF status'[j] = "completed" THEN 1 ELSE 0
    BY <1>1, <2>1 DEF CompleteCheckout, LifeCycle, TypeOK, orderVars
  <2>3. \A j \in Checkouts : status'[j] # "none" => ofCart'[j] \in Carts
    BY <1>1, <2>1 DEF LifeCycle
  <2>4. \A v \in Variants : resv[k][v].status \in {"none", "reserved"}
    BY <1>1 DEF LifeCycle
  <2>5. ASSUME NEW j \in Checkouts, NEW v \in Variants
        PROVE  /\ resv'[j][v].status # "none" => v \in Tracked
               /\ resv'[j][v].status = "none" => resv'[j][v].quantity = 0
               /\ resv'[j][v].status = "reserved" => status'[j] = "open"
               /\ resv'[j][v].status = "committed" => status'[j] = "completed"
               /\ status'[j] = "none" => resv'[j][v].status = "none"
               /\ status'[j] = "open" => resv'[j][v].status \in {"none", "reserved"}
               /\ status'[j] = "completed" => resv'[j][v].status \in {"none", "committed"}
    <3>1. CASE j = k
      BY <1>1, <1>5, <2>1, <2>4, <3>1 DEF LifeCycle, Held
    <3>2. CASE j # k
      BY <1>1, <1>4, <2>1, <3>2 DEF LifeCycle
    <3> QED BY <3>1, <3>2
  <2> QED BY <2>2, <2>3, <2>5 DEF LifeCycle
<1>10. Counters'
  <2> SUFFICES ASSUME NEW v \in Variants
               PROVE  /\ Reserved(v)' = UnitsHeld(v)'
                      /\ v \in Tracked =>
                           /\ OnHand(v)' + UnitsSold(v)' <= Stock[v]
                           /\ direct[v] = 0 => OnHand(v)' + UnitsSold(v)' = Stock[v]
                      /\ v \in Tracked \ Backorder => Reserved(v)' <= OnHand(v)'
    BY DEF Counters, ReservedIsSum, StockConserved, ReservedOnHand, CompleteCheckout
  <2> DEFINE q == IF Held(k, v) THEN resv[k][v].quantity ELSE 0
  <2>1. UnitsSold(v)' = UnitsSold(v) + q /\ UnitsSold(v) \in Nat
    BY <1>1, <1>4, <1>5, <1>8, UnitsChange DEF UnitsSold
  <2>2. UnitsHeld(v)' = UnitsHeld(v) - q /\ q <= UnitsHeld(v) /\ q \in Nat
    BY <1>1, <1>4, <1>5, <1>8, UnitsChange DEF UnitsHeld
  <2>3. /\ Reserved(v) = UnitsHeld(v)
        /\ v \in Tracked =>
             /\ OnHand(v) + UnitsSold(v) <= Stock[v]
             /\ direct[v] = 0 => OnHand(v) + UnitsSold(v) = Stock[v]
        /\ v \in Tracked \ Backorder => Reserved(v) <= OnHand(v)
    BY <1>1 DEF Counters, ReservedIsSum, StockConserved, ReservedOnHand
  <2>4. Reserved(v)' = Reserved(v) - q
    BY <1>3, <1>6, <2>2, <2>3 DEF LessReserved, AtLeastZero
  <2>5. v \in Tracked => OnHand(v)' = OnHand(v) - q
    BY <1>3, <1>6, <2>2, <2>3 DEF LessOnHand, AtLeastZero
  <2> HIDE DEF q
  <2> QED BY <1>3, <2>1, <2>2, <2>3, <2>4, <2>5
<1>11. Copies'
  <2>1. NothingComputed
    BY DEF CompleteCheckout, NothingComputed
  <2>2. \A v \in Variants : OnHand(v)' \in Int /\ UnitsSold(v)' \in Nat
    BY <1>8, NumbersNext
  <2>3. \A j \in Checkouts, v \in Variants :
          resv'[j][v].status # "none" => resv[j][v].status # "none" \/ v \in V
    BY <1>4, <1>5 DEF Held
  <2> QED BY <1>2, <1>3, <1>10, <2>1, <2>2, <2>3, CopiesKept
<1> QED BY <1>8, <1>9, <1>10, <1>11 DEF CheckoutInv

(* Every other request leaves the stock alone.                             *)
LEMMA OthersKeepInv ==
  ASSUME CheckoutInv, UNCHANGED <<stockVars, direct>>, NothingComputed, TypeOK', LifeCycle'
  PROVE  CheckoutInv'
<1>1. Copies'
  BY DEF CheckoutInv, Copies, NothingComputed, LeftInBounds, stockVars
<1> QED BY <1>1, CountersUnchanged DEF CheckoutInv

(* Placing an order only computes; what it computes is between zero and    *)
(* what it read.                                                           *)
LEMMA PlaceKeepsInv ==
  ASSUME CheckoutInv, NEW t \in Threads, NEW c \in Carts, NEW code \in BOOLEAN,
         PlaceOrder(t, c, code)
  PROVE  CheckoutInv'
<1> USE CheckoutAssumption
<1> DEFINE lines == item[c]
           left == [v \in Variants |-> IF v \in Reservable(lines)
                                       THEN AtLeastZero(inventory[v] - lines[v]) ELSE 0]
           r == [op |-> "order", cart |-> c, lines |-> lines, code |-> code,
                 left |-> left, uses |-> IF code THEN useCount ELSE 0]
<1>1. TypeOK /\ LifeCycle /\ Counters /\ Copies
  BY DEF CheckoutInv
<1>2. lines \in Lines /\ \A v \in Variants : lines[v] \in Nat /\ inventory[v] \in Int
  BY <1>1 DEF TypeOK, Lines
<1>3. \A v \in Variants : left[v] \in Int /\ left[v] >= 0
  BY <1>2 DEF AtLeastZero
<1>4. req' = [req EXCEPT ![t] = r] /\ UNCHANGED <<cart, item, chkVars, stockVars, orderVars>>
  BY DEF PlaceOrder
<1>5. r \in Requests
  <2>1. left \in [Variants -> Int]
    BY <1>3
  <2>2. (IF code THEN useCount ELSE 0) \in Nat
    BY <1>1 DEF TypeOK
  <2> HIDE DEF left, lines
  <2> QED BY <1>2, <2>1, <2>2 DEF Requests
<1>6. LeftInBounds(r)
  <2>1. ASSUME NEW v \in Reservable(lines) PROVE left[v] <= Stock[v]
    <3>1. v \in Tracked /\ v \in Variants
      BY <2>1 DEF Reservable
    <3>2. inventory[v] <= Stock[v] /\ Stock[v] \in Nat
      BY <1>1, <3>1 DEF Copies
    <3>3. left[v] = AtLeastZero(inventory[v] - lines[v])
      BY <3>1
    <3> HIDE DEF left, lines
    <3> QED BY <1>2, <3>1, <3>2, <3>3 DEF AtLeastZero
  <2>2. \A v \in Reservable(lines) : v \in Variants
    BY DEF Reservable
  <2> HIDE DEF left, lines
  <2> QED BY <1>3, <2>1, <2>2 DEF LeftInBounds
<1> HIDE DEF r
<1>7. TypeOK'
  BY <1>1, <1>4, <1>5 DEF TypeOK, chkVars, stockVars, orderVars
<1>8. LifeCycle'
  BY <1>1, <1>4 DEF LifeCycle, chkVars, stockVars, orderVars
<1>9. Copies'
  <2>1. req' \in [Threads -> Requests] /\ \A z \in Threads : req'[z] = IF z = t THEN r ELSE req[z]
    BY <1>1, <1>4, <1>7 DEF TypeOK
  <2>2. \A z \in Threads : LeftInBounds(req'[z])
    BY <1>1, <1>6, <2>1 DEF Copies
  <2> QED BY <1>1, <1>4, <2>2 DEF Copies, stockVars
<1>10. Counters'
  BY <1>1, <1>4, CountersUnchanged DEF orderVars
<1> QED BY <1>7, <1>8, <1>9, <1>10 DEF CheckoutInv

(* Finishing one writes the copies on the variants of its lines, and takes *)
(* their conservation out of the exact part of the claim.                  *)
LEMMA FinishKeepsInv ==
  ASSUME CheckoutInv, NEW t \in Threads, FinishOrder(t)
  PROVE  CheckoutInv'
<1> USE CheckoutAssumption
<1> DEFINE r == req[t]
           V == Reservable(r.lines)
<1>1. TypeOK /\ LifeCycle /\ Counters /\ Copies /\ r.op = "order"
  BY DEF CheckoutInv, FinishOrder
<1>2. r.cart \in Carts /\ r.lines \in Lines /\ r.left \in [Variants -> Int] /\ r.uses \in Nat
  BY <1>1 DEF TypeOK, Requests
<1>3. \A v \in Variants : r.lines[v] \in Nat
  BY <1>2 DEF Lines
<1>4. /\ \A v \in Variants : inventory'[v] = IF v \in V THEN r.left[v] ELSE inventory[v]
      /\ \A v \in Variants : direct'[v] = direct[v] + r.lines[v]
      /\ UNCHANGED <<item, chkVars, resv, rows, onHand, reserved, orders, ordered, refused>>
      /\ inventory' \in [Variants -> Int] /\ direct' \in [Variants -> Nat]
  BY <1>1, <1>2, <1>3 DEF FinishOrder, TypeOK
<1>5. cart' \in [Carts -> {"none", "open", "converted"}]
  BY <1>1, <1>2 DEF FinishOrder, TypeOK
<1>6. useCount' \in Nat /\ directUses' \in Nat /\ req' \in [Threads -> Requests]
  BY <1>1, <1>2 DEF FinishOrder, TypeOK, Requests, Idle
<1>7. LeftInBounds(r)
  BY <1>1 DEF Copies
<1>8. NothingComputed
  BY <1>1 DEF FinishOrder, NothingComputed, TypeOK, Idle
<1> HIDE DEF r, V
<1>9. TypeOK'
  BY <1>1, <1>4, <1>5, <1>6 DEF TypeOK, chkVars
<1>10. LifeCycle'
  BY <1>1, <1>4 DEF LifeCycle, chkVars
<1>11. \A v \in V : v \in Tracked /\ v \in Variants /\ r.lines[v] > 0
                  /\ 0 <= r.left[v] /\ r.left[v] <= Stock[v]
  BY <1>1, <1>7 DEF V, Reservable, LeftInBounds
<1>12. Copies'
  <2>1. \A z \in Threads : LeftInBounds(req'[z])
    BY <1>1, <1>8 DEF NothingComputed, Copies, LeftInBounds
  <2>2. \A v \in Tracked : inventory'[v] <= Stock[v]
    BY <1>1, <1>4, <1>11 DEF Copies
  <2> QED BY <1>1, <1>4, <2>1, <2>2 DEF Copies
<1>13. Counters'
  <2> SUFFICES ASSUME NEW v \in Variants
               PROVE  /\ Reserved(v)' = UnitsHeld(v)'
                      /\ v \in Tracked =>
                           /\ OnHand(v)' + UnitsSold(v)' <= Stock[v]
                           /\ direct'[v] = 0 => OnHand(v)' + UnitsSold(v)' = Stock[v]
                      /\ v \in Tracked \ Backorder => Reserved(v)' <= OnHand(v)'
    BY DEF Counters, ReservedIsSum, StockConserved, ReservedOnHand
  <2>1. UnitsHeld(v)' = UnitsHeld(v) /\ UnitsSold(v)' = UnitsSold(v) /\ Reserved(v)' = Reserved(v)
    BY <1>4 DEF UnitsHeld, UnitsSold, Quantities, Reserved
  <2>2. /\ Reserved(v) = UnitsHeld(v)
        /\ v \in Tracked =>
             /\ OnHand(v) + UnitsSold(v) <= Stock[v]
             /\ direct[v] = 0 => OnHand(v) + UnitsSold(v) = Stock[v]
        /\ v \in Tracked \ Backorder => Reserved(v) <= OnHand(v)
    BY <1>1 DEF Counters, ReservedIsSum, StockConserved, ReservedOnHand
  <2>3. CASE v \in rows \/ v \notin V
    <3>1. OnHand(v)' = OnHand(v)
      BY <1>4, <2>3 DEF OnHand
    <3>2. direct'[v] = 0 => direct[v] = 0
      BY <1>1, <1>3, <1>4 DEF TypeOK
    <3> QED BY <2>1, <2>2, <3>1, <3>2
  <2>4. CASE v \notin rows /\ v \in V
    <3>1. OnHand(v)' = r.left[v] /\ Reserved(v) = 0
      BY <1>4, <2>4 DEF OnHand, Reserved
    <3>2. \A k \in Checkouts : Quantities("committed", v)[k] = 0
      BY <1>1, <2>4 DEF Copies, Quantities
    <3>3. Quantities("committed", v) \in [Checkouts -> Nat]
      BY <1>1, QuantitiesType
    <3>4. UnitsSold(v) = 0
      BY <3>2, <3>3, TotalZero DEF UnitsSold
    <3>5. direct[v] \in Nat /\ direct'[v] # 0 /\ r.left[v] \in Int /\ Stock[v] \in Nat
      <4>1. direct[v] \in Nat /\ r.lines[v] \in Nat /\ r.lines[v] > 0 /\ direct'[v] = direct[v] + r.lines[v]
        BY <1>1, <1>3, <1>4, <1>11, <2>4 DEF TypeOK
      <4> QED BY <1>2, <4>1
    <3>6. 0 <= r.left[v] /\ r.left[v] <= Stock[v]
      BY <1>11, <2>4
    <3> QED BY <2>1, <2>2, <3>1, <3>4, <3>5, <3>6
  <2> QED BY <2>3, <2>4
<1> QED BY <1>9, <1>10, <1>12, <1>13 DEF CheckoutInv

LEMMA StepInv == CheckoutInv /\ [Next]_vars => CheckoutInv'
<1> SUFFICES ASSUME CheckoutInv, [Next]_vars PROVE CheckoutInv'
  OBVIOUS
<1> USE CheckoutAssumption
<1>1. TypeOK /\ LifeCycle
  BY DEF CheckoutInv
<1>2. ASSUME NEW c \in Carts, OpenCart(c) PROVE CheckoutInv'
  <2>1. TypeOK'
    BY <1>1, <1>2 DEF OpenCart, TypeOK, chkVars, stockVars, orderVars
  <2>2. LifeCycle'
    BY <1>1, <1>2 DEF OpenCart, LifeCycle, chkVars, stockVars, orderVars
  <2> QED BY <1>2, <2>1, <2>2, OthersKeepInv
        DEF OpenCart, NothingComputed, TypeOK, orderVars, cartVars, Idle, SaveRequest
<1>3. ASSUME NEW t \in Threads, NEW c \in Carts, NEW v \in Variants, NEW q \in 1..MaxQty,
             AddItem(t, c, v, q)
      PROVE  CheckoutInv'
  <2>1. item[c][v] + q \in 0..MaxQty /\ q \in 0..MaxQty
    BY <1>1, <1>3 DEF AddItem, TypeOK, Lines
  <2>2. item' \in [Carts -> Lines]
    BY <1>1, <1>3, <2>1 DEF AddItem, TypeOK, Lines
  <2>3. req' \in [Threads -> Requests]
    BY <1>1, <1>3, <2>1 DEF AddItem, TypeOK, Requests, SaveRequest, Idle
  <2>4. TypeOK'
    BY <1>1, <1>3, <2>2, <2>3 DEF AddItem, TypeOK, chkVars, stockVars, orderVars
  <2>5. LifeCycle'
    BY <1>1, <1>3 DEF AddItem, LifeCycle, chkVars, stockVars, orderVars
  <2> QED BY <1>3, <2>4, <2>5, OthersKeepInv
        DEF AddItem, NothingComputed, TypeOK, orderVars, cartVars, Idle, SaveRequest
<1>4. ASSUME NEW t \in Threads, NEW c \in Carts, NEW v \in Variants, NEW q \in 1..MaxQty,
             ChangeItem(t, c, v, q)
      PROVE  CheckoutInv'
  <2>1. req' \in [Threads -> Requests]
    BY <1>1, <1>4 DEF ChangeItem, TypeOK, Requests, SaveRequest
  <2>2. TypeOK'
    BY <1>1, <1>4, <2>1 DEF ChangeItem, TypeOK, chkVars, stockVars, orderVars
  <2>3. LifeCycle'
    BY <1>1, <1>4 DEF ChangeItem, LifeCycle, chkVars, stockVars, orderVars
  <2> QED BY <1>4, <2>2, <2>3, OthersKeepInv
        DEF ChangeItem, NothingComputed, TypeOK, orderVars, cartVars, Idle, SaveRequest
<1>5. ASSUME NEW t \in Threads, SaveItem(t) PROVE CheckoutInv'
  <2>1. req[t] \in Requests /\ req[t].op = "save"
    BY <1>1, <1>5 DEF SaveItem, TypeOK
  <2>2. req[t].cart \in Carts /\ req[t].variant \in Variants /\ req[t].quantity \in 0..MaxQty
    BY <2>1 DEF Requests
  <2>3. item' \in [Carts -> Lines]
    BY <1>1, <1>5, <2>2 DEF SaveItem, TypeOK, Lines
  <2>4. TypeOK'
    BY <1>1, <1>5, <2>3 DEF SaveItem, TypeOK, Requests, Idle, chkVars, stockVars, orderVars
  <2>5. LifeCycle'
    BY <1>1, <1>5 DEF SaveItem, LifeCycle, chkVars, stockVars, orderVars
  <2> QED BY <1>5, <2>4, <2>5, OthersKeepInv
        DEF SaveItem, NothingComputed, TypeOK, orderVars, cartVars, Idle, SaveRequest
<1>6. ASSUME NEW t \in Threads, NEW c \in Carts, NEW v \in Variants, RemoveItem(t, c, v)
      PROVE  CheckoutInv'
  <2>1. item' \in [Carts -> Lines]
    BY <1>1, <1>6 DEF RemoveItem, TypeOK, Lines
  <2>2. TypeOK'
    BY <1>1, <1>6, <2>1 DEF RemoveItem, TypeOK, chkVars, stockVars, orderVars
  <2>3. LifeCycle'
    BY <1>1, <1>6 DEF RemoveItem, LifeCycle, chkVars, stockVars, orderVars
  <2> QED BY <1>6, <2>2, <2>3, OthersKeepInv
        DEF RemoveItem, NothingComputed, TypeOK, orderVars, cartVars, Idle, SaveRequest
<1>7. ASSUME NEW t \in Threads, NEW c \in Carts, StartCheckout(t, c) PROVE CheckoutInv'
  <2>1. TypeOK'
    BY <1>1, <1>7 DEF StartCheckout, TypeOK, Requests, chkVars, stockVars, orderVars
  <2>2. LifeCycle'
    BY <1>1, <1>7 DEF StartCheckout, LifeCycle, chkVars, stockVars, orderVars
  <2> QED BY <1>7, <2>1, <2>2, OthersKeepInv
        DEF StartCheckout, NothingComputed, TypeOK, orderVars, cartVars, Idle, SaveRequest
<1>12. ASSUME NEW t \in Threads, PriceCheckout(t) PROVE CheckoutInv'
  <2>1. req[t].cart \in Carts
    BY <1>1, <1>12 DEF PriceCheckout, TypeOK, Requests
  <2>2. req' \in [Threads -> Requests]
    BY <1>1, <1>12, <2>1 DEF PriceCheckout, TypeOK, Requests
  <2>3. TypeOK'
    BY <1>1, <1>12, <2>2 DEF PriceCheckout, TypeOK, chkVars, stockVars, orderVars
  <2>4. LifeCycle'
    BY <1>1, <1>12 DEF PriceCheckout, LifeCycle, chkVars, stockVars, orderVars
  <2> QED BY <1>12, <2>3, <2>4, OthersKeepInv
        DEF PriceCheckout, NothingComputed, TypeOK, orderVars, cartVars, Idle, SaveRequest
<1>8. ASSUME NEW t \in Threads, NEW code \in BOOLEAN, RefuseCheckout(t, code)
      PROVE  CheckoutInv'
  <2>1. TypeOK'
    BY <1>1, <1>8 DEF RefuseCheckout, TypeOK, Requests, Idle, chkVars, stockVars, orderVars
  <2>2. LifeCycle'
    BY <1>1, <1>8 DEF RefuseCheckout, LifeCycle, chkVars, stockVars, orderVars
  <2> QED BY <1>8, <2>1, <2>2, OthersKeepInv
        DEF RefuseCheckout, NothingComputed, TypeOK, orderVars, cartVars, Idle, SaveRequest
<1>9. ASSUME NEW k \in Checkouts, PassDeadline(k) PROVE CheckoutInv'
  <2>1. TypeOK'
    BY <1>1, <1>9 DEF PassDeadline, TypeOK, cartVars, stockVars, orderVars
  <2>2. LifeCycle'
    BY <1>1, <1>9 DEF PassDeadline, LifeCycle, stockVars, orderVars
  <2> QED BY <1>9, <2>1, <2>2, OthersKeepInv
        DEF PassDeadline, NothingComputed, TypeOK, orderVars, cartVars, Idle, SaveRequest
<1>10. ASSUME NEW k \in Checkouts, CompleteOverdue(k) PROVE CheckoutInv'
  <2>1. TypeOK'
    BY <1>1, <1>10 DEF CompleteOverdue, TypeOK, cartVars, chkVars, stockVars
  <2>2. LifeCycle'
    BY <1>1, <1>10 DEF CompleteOverdue, LifeCycle, chkVars, stockVars
  <2> QED BY <1>10, <2>1, <2>2, OthersKeepInv
        DEF CompleteOverdue, NothingComputed, TypeOK, orderVars, cartVars, Idle, SaveRequest
<1>11. CASE UNCHANGED vars
  <2>1. TypeOK' /\ LifeCycle'
    BY <1>1, <1>11 DEF TypeOK, LifeCycle, vars, cartVars, chkVars, stockVars, orderVars
  <2> QED BY <1>11, <2>1, OthersKeepInv
        DEF vars, NothingComputed, TypeOK, orderVars, cartVars, Idle, SaveRequest
<1> QED
  BY <1>2, <1>3, <1>4, <1>5, <1>6, <1>7, <1>8, <1>9, <1>10, <1>11, <1>12,
     CreateKeepsInv, CancelKeepsInv, CompleteKeepsInv, PlaceKeepsInv, FinishKeepsInv
     DEF Next, CartNext, CheckoutNext

(* Only three requests touch a session's status or its reservations; an   *)
(* order without a session touches the copies on the variants and a cart,  *)
(* and opening a cart touches that.                                        *)
Quiet ==
  /\ UNCHANGED <<status, priced, ordered, coded, orders, useCount, directUses, stockVars>>
  /\ NothingComputed
  /\ cart' = cart \/ \E c \in Carts : OpenCart(c)

LEMMA StepKinds ==
  ASSUME TypeOK, [Next]_vars
  PROVE  \/ \E t \in Threads, k \in Checkouts, code \in BOOLEAN : CreateCheckout(t, k, code)
         \/ \E k \in Checkouts : CancelCheckout(k)
         \/ \E k \in Checkouts : CompleteCheckout(k)
         \/ \E t \in Threads, c \in Carts, code \in BOOLEAN : PlaceOrder(t, c, code)
         \/ \E t \in Threads : FinishOrder(t)
         \/ Quiet
<1>1. ASSUME NEW c \in Carts, OpenCart(c) PROVE Quiet
  BY <1>1 DEF Quiet, NothingComputed, OpenCart, chkVars, orderVars
<1>2. ASSUME NEW t \in Threads, NEW c \in Carts, NEW v \in Variants, NEW q \in 1..MaxQty,
             AddItem(t, c, v, q) \/ ChangeItem(t, c, v, q)
      PROVE  Quiet
  <2>1. NothingComputed
    BY <1>2 DEF NothingComputed, AddItem, ChangeItem, TypeOK, SaveRequest, Idle
  <2> QED BY <1>2, <2>1 DEF Quiet, AddItem, ChangeItem, chkVars, orderVars
<1>3. ASSUME NEW t \in Threads, SaveItem(t) PROVE Quiet
  BY <1>3 DEF Quiet, NothingComputed, SaveItem, TypeOK, Idle, chkVars, orderVars
<1>4. ASSUME NEW t \in Threads, NEW c \in Carts, NEW v \in Variants, RemoveItem(t, c, v)
      PROVE  Quiet
  BY <1>4 DEF Quiet, NothingComputed, RemoveItem, chkVars, orderVars
<1>5. ASSUME NEW t \in Threads, NEW c \in Carts, StartCheckout(t, c) PROVE Quiet
  BY <1>5 DEF Quiet, NothingComputed, StartCheckout, TypeOK, chkVars, orderVars
<1>11. ASSUME NEW t \in Threads, PriceCheckout(t) PROVE Quiet
  BY <1>11 DEF Quiet, NothingComputed, PriceCheckout, TypeOK, chkVars, orderVars
<1>6. ASSUME NEW t \in Threads, NEW code \in BOOLEAN, RefuseCheckout(t, code) PROVE Quiet
  BY <1>6 DEF Quiet, NothingComputed, RefuseCheckout, TypeOK, Idle, chkVars, orderVars
<1>7. ASSUME NEW k \in Checkouts, PassDeadline(k) \/ CompleteOverdue(k) PROVE Quiet
  BY <1>7 DEF Quiet, NothingComputed, PassDeadline, CompleteOverdue, cartVars, chkVars, orderVars
<1>8. CASE UNCHANGED vars
  BY <1>8 DEF Quiet, NothingComputed, vars, cartVars, chkVars, orderVars
<1>9. CASE CartNext
  BY <1>1, <1>2, <1>3, <1>4, <1>5, <1>9 DEF CartNext
<1>10. CASE CheckoutNext
  <2>1. CASE \E t \in Threads, code \in BOOLEAN : RefuseCheckout(t, code)
    BY <1>6, <2>1
  <2>2. CASE \E k \in Checkouts : PassDeadline(k) \/ CompleteOverdue(k)
    BY <1>7, <2>2
  <2>3. CASE \E t \in Threads : PriceCheckout(t)
    BY <1>11, <2>3
  <2> QED BY <1>10, <2>1, <2>2, <2>3 DEF CheckoutNext
<1> QED BY <1>8, <1>9, <1>10 DEF Next

(* CheckoutInv holds in every reachable state.                             *)
THEOREM Invariance == Spec => []CheckoutInv
BY InitInv, StepInv, PTL DEF Spec

(* Every variable keeps its type; in particular Inventory.reserved is      *)
(* never negative.                                                         *)
THEOREM Typing == Spec => []TypeOK
<1>1. CheckoutInv => TypeOK
  BY DEF CheckoutInv
<1> QED BY <1>1, Invariance, PTL

(* Inventory.reserved is the sum of the reservation rows in status         *)
(* reserved, whatever requests interleave.                                 *)
THEOREM ReservedExact == Spec => []ReservedIsSum
<1>1. CheckoutInv => ReservedIsSum
  BY DEF CheckoutInv, Counters
<1> QED BY <1>1, Invariance, PTL

(* What is on hand and what was committed to orders never exceed the stock *)
(* and, for a variant never ordered without a session, add up to it.       *)
THEOREM Conservation == Spec => []StockConserved
<1>1. CheckoutInv => StockConserved
  BY DEF CheckoutInv, Counters
<1> QED BY <1>1, Invariance, PTL

(* A variant without backorders is never promised beyond what is on hand.  *)
THEOREM NoOverselling == Spec => []ReservedOnHand
<1>1. CheckoutInv => ReservedOnHand
  BY DEF CheckoutInv, Counters
<1> QED BY <1>1, Invariance, PTL

(* Reservations live and die with their checkout session.                  *)
THEOREM ReservationLife == Spec => []ReservationFollowsCheckout
<1>1. CheckoutInv => ReservationFollowsCheckout
  BY DEF CheckoutInv, LifeCycle, ReservationFollowsCheckout
<1> QED BY <1>1, Invariance, PTL

(* While a request holds the cart, it has no line but those it was priced   *)
(* from: who would insert one waits.                                       *)
WindowClosed ==
  \A t \in Threads : req[t].op = "priced" =>
    \A v \in Variants : item[req[t].cart][v] > 0 => req[t].lines[v] > 0

(* The window is closed when it opens, and stays so.                       *)
LEMMA WindowKept ==
  ASSUME TypeOK, TypeOK', WindowClosed, [Next]_vars
  PROVE  WindowClosed'
<1> SUFFICES ASSUME NEW z \in Threads, req'[z].op = "priced", NEW w \in Variants,
                    item'[req'[z].cart][w] > 0
             PROVE  req'[z].lines[w] > 0
  BY DEF WindowClosed
<1> USE DEF TypeOK
<1>1. ASSUME NEW t \in Threads, PriceCheckout(t) PROVE req'[z].lines[w] > 0
  BY <1>1 DEF PriceCheckout, WindowClosed
<1>2. ASSUME req'[z] = req[z],
             \A c \in Carts, v \in Variants :
               item'[c][v] = item[c][v] \/ item[c][v] > 0 \/ ~Locked(c) \/ item'[c][v] = 0
      PROVE  req'[z].lines[w] > 0
  <2>1. req[z].cart \in Carts /\ req[z].op = "priced"
    BY <1>2 DEF Requests
  <2>2. Locked(req[z].cart)
    BY <2>1 DEF Locked
  <2>3. item[req[z].cart][w] \in 0..MaxQty /\ item'[req[z].cart][w] \in 0..MaxQty
    BY <2>1 DEF Lines
  <2>4. item'[req[z].cart][w] > 0
    BY <1>2
  <2>5. item[req[z].cart][w] > 0
    <3>1. PICK c \in Carts : c = req[z].cart
      BY <2>1
    <3>2. \/ item'[c][w] = item[c][w]
          \/ item[c][w] > 0
          \/ ~Locked(c)
          \/ item'[c][w] = 0
      BY <1>2
    <3> QED BY <2>2, <2>3, <2>4, <3>1, <3>2, CheckoutAssumption
  <2>6. req[z].lines[w] > 0
    BY <2>1, <2>5 DEF WindowClosed
  <2> QED BY <1>2, <2>6
<1>3. ASSUME NEW t \in Threads, NEW c \in Carts, NEW v \in Variants, NEW q \in 1..MaxQty,
             AddItem(t, c, v, q)
      PROVE  req'[z].lines[w] > 0
  <2>1. req'[z] = req[z]
    BY <1>3 DEF AddItem, SaveRequest, Idle
  <2>2. \A d \in Carts, x \in Variants : item'[d][x] = item[d][x] \/ ~Locked(d)
    BY <1>3 DEF AddItem, Lines
  <2> QED BY <1>2, <2>1, <2>2
<1>4. ASSUME NEW t \in Threads, SaveItem(t) PROVE req'[z].lines[w] > 0
  <2>1. req'[z] = req[z]
    BY <1>4 DEF SaveItem, Idle
  <2>2. req[t].cart \in Carts /\ req[t].variant \in Variants
    BY <1>4 DEF SaveItem, Requests
  <2>3. \A d \in Carts, x \in Variants :
          item'[d][x] = item[d][x] \/ item[d][x] # 0 \/ ~Locked(d)
    BY <1>4, <2>2 DEF SaveItem, Lines
  <2>4. \A d \in Carts, x \in Variants : item[d][x] \in 0..MaxQty
    BY DEF Lines
  <2> QED BY <1>2, <2>1, <2>3, <2>4, CheckoutAssumption
<1>5. ASSUME NEW t \in Threads, NEW c \in Carts, NEW v \in Variants, RemoveItem(t, c, v)
      PROVE  req'[z].lines[w] > 0
  <2>1. req'[z] = req[z]
    BY <1>5 DEF RemoveItem
  <2>2. \A d \in Carts, x \in Variants : item'[d][x] = item[d][x] \/ item'[d][x] = 0
    BY <1>5 DEF RemoveItem, Lines
  <2> QED BY <1>2, <2>1, <2>2
<1>6. ASSUME item' = item, req'[z] = req[z] PROVE req'[z].lines[w] > 0
  BY <1>2, <1>6
<1>7. ASSUME NEW t \in Threads, NEW c \in Carts, NEW v \in Variants, NEW q \in 1..MaxQty,
             ChangeItem(t, c, v, q)
      PROVE  req'[z].lines[w] > 0
  BY <1>6, <1>7 DEF ChangeItem, SaveRequest
<1>8. ASSUME NEW t \in Threads, FinishOrder(t) PROVE req'[z].lines[w] > 0
  BY <1>6, <1>8 DEF FinishOrder, Idle
<1>9. ASSUME NEW t \in Threads, NEW c \in Carts, NEW code \in BOOLEAN,
             StartCheckout(t, c) \/ PlaceOrder(t, c, code)
      PROVE  req'[z].lines[w] > 0
  BY <1>6, <1>9 DEF StartCheckout, PlaceOrder
<1>10. ASSUME NEW t \in Threads, NEW code \in BOOLEAN, NEW k \in Checkouts,
              RefuseCheckout(t, code) \/ CreateCheckout(t, k, code)
       PROVE  req'[z].lines[w] > 0
  BY <1>6, <1>10 DEF RefuseCheckout, CreateCheckout, Idle
<1>11. ASSUME NEW t \in Threads, NEW code \in BOOLEAN, RefuseCheckout(t, code)
       PROVE  req'[z].lines[w] > 0
  BY <1>6, <1>11 DEF RefuseCheckout, Idle
<1>12. ASSUME NEW k \in Checkouts,
              PassDeadline(k) \/ CancelCheckout(k) \/ CompleteCheckout(k) \/ CompleteOverdue(k)
       PROVE  req'[z].lines[w] > 0
  BY <1>6, <1>12 DEF PassDeadline, CancelCheckout, CompleteCheckout, CompleteOverdue, cartVars
<1>13. ASSUME NEW c \in Carts, OpenCart(c) PROVE req'[z].lines[w] > 0
  BY <1>6, <1>13 DEF OpenCart
<1>14. CASE UNCHANGED vars
  BY <1>6, <1>14 DEF vars, cartVars
<1>15. CASE CartNext
  BY <1>3, <1>4, <1>5, <1>7, <1>8, <1>9, <1>13, <1>15 DEF CartNext
<1>16. CASE CheckoutNext
  BY <1>1, <1>10, <1>11, <1>12, <1>16 DEF CheckoutNext
<1> QED BY <1>14, <1>15, <1>16 DEF Next

(* A session holds stock for the lines it was priced from and for no       *)
(* other, although both are read from the cart one after the other.        *)
THEOREM PricedHeld == Spec => []PricedLinesReserved
<1> USE CheckoutAssumption
<1>1. Init => PricedLinesReserved /\ WindowClosed
  BY DEF Init, PricedLinesReserved, WindowClosed, Idle
<1>2. CheckoutInv /\ CheckoutInv' /\ WindowClosed /\ PricedLinesReserved /\ [Next]_vars
      => PricedLinesReserved' /\ WindowClosed'
  <2> SUFFICES ASSUME CheckoutInv, CheckoutInv', WindowClosed, PricedLinesReserved, [Next]_vars
               PROVE  PricedLinesReserved' /\ WindowClosed'
    OBVIOUS
  <2>1. TypeOK /\ TypeOK' /\ LifeCycle
    BY DEF CheckoutInv
  <2>2. WindowClosed'
    BY <2>1, WindowKept
  <2> SUFFICES ASSUME NEW j \in Checkouts, NEW v \in Tracked, status'[j] # "none"
               PROVE  priced'[j][v] > 0 <=> resv'[j][v].status # "none"
    BY <2>2 DEF PricedLinesReserved
  <2>3. v \in Variants
    OBVIOUS
  <2>4. ASSUME status'[j] = status[j] \/ status[j] # "none", priced'[j] = priced[j],
               resv'[j][v].status = "none" <=> resv[j][v].status = "none"
        PROVE  priced'[j][v] > 0 <=> resv'[j][v].status # "none"
    BY <2>4 DEF PricedLinesReserved
  <2>5. ASSUME NEW t \in Threads, NEW k \in Checkouts, NEW code \in BOOLEAN,
               CreateCheckout(t, k, code)
        PROVE  priced'[j][v] > 0 <=> resv'[j][v].status # "none"
    <3>1. CASE j = k
      <4>1. priced'[k] = req[t].lines /\ req[t].op = "priced" /\ LinesThere(req[t])
        BY <2>1, <2>5 DEF CreateCheckout, TypeOK
      <4>2. resv'[k][v] = IF item[req[t].cart][v] > 0
                          THEN [status |-> "reserved", quantity |-> item[req[t].cart][v]]
                          ELSE NoReservation
        BY <2>1, <2>3, <2>5 DEF CreateCheckout, Reserve, TypeOK, Reservable
      <4>3. req[t].lines[v] > 0 <=> item[req[t].cart][v] > 0
        BY <2>3, <4>1 DEF WindowClosed, LinesThere
      <4> QED BY <3>1, <4>1, <4>2, <4>3 DEF NoReservation
    <3>2. CASE j # k
      <4>1. status'[j] = status[j] /\ priced'[j] = priced[j] /\ resv'[j] = resv[j]
        BY <2>1, <2>5, <3>2 DEF CreateCheckout, Reserve, TypeOK
      <4> QED BY <2>4, <4>1
    <3> QED BY <3>1, <3>2
  <2>6. ASSUME NEW k \in Checkouts, NEW to \in {"expired", "committed"}, status[k] = "open",
               SetReservations(k, to), priced' = priced, \A i \in Checkouts \ {k} : status'[i] = status[i]
        PROVE  priced'[j][v] > 0 <=> resv'[j][v].status # "none"
    <3>1. CASE j = k
      <4>1. resv'[k][v].status = IF Held(k, v) THEN to ELSE resv[k][v].status
        BY <2>3, <2>6, CloseReservations
      <4> QED BY <2>4, <2>6, <3>1, <4>1 DEF Held
    <3>2. CASE j # k
      <4>1. resv'[j] = resv[j]
        BY <2>6, <3>2, CloseReservations
      <4> QED BY <2>4, <2>6, <3>2, <4>1
    <3> QED BY <3>1, <3>2
  <2>7. ASSUME NEW k \in Checkouts, CancelCheckout(k)
        PROVE  priced'[j][v] > 0 <=> resv'[j][v].status # "none"
    <3>1. /\ status[k] = "open" /\ SetReservations(k, "expired") /\ priced' = priced
          /\ \A i \in Checkouts \ {k} : status'[i] = status[i]
      BY <2>1, <2>7 DEF CancelCheckout, Release, TypeOK
    <3> QED BY <2>6, <3>1
  <2>8. ASSUME NEW k \in Checkouts, CompleteCheckout(k)
        PROVE  priced'[j][v] > 0 <=> resv'[j][v].status # "none"
    <3>1. /\ status[k] = "open" /\ SetReservations(k, "committed") /\ priced' = priced
          /\ \A i \in Checkouts \ {k} : status'[i] = status[i]
      BY <2>1, <2>8 DEF CompleteCheckout, Commit, TypeOK
    <3> QED BY <2>6, <3>1
  <2>9. CASE UNCHANGED <<priced, status, resv>>
    BY <2>4, <2>9
  <2> QED BY <2>1, <2>5, <2>7, <2>8, <2>9, StepKinds
          DEF Quiet, PlaceOrder, FinishOrder, chkVars, stockVars
<1> QED BY <1>1, <1>2, Invariance, PTL DEF Spec

(* A checkout session yields one order, when it completes, and the uses of *)
(* the discount code are counted once each, until the one-step checkout    *)
(* writes back a count it read earlier: never a count ahead of the sales.  *)
UsesCounted ==
  LET sales == Cardinality(CodedSales) + directUses IN
  /\ useCount <= sales
  /\ directUses = 0 => useCount = sales
  /\ \A t \in Threads : req[t].op = "order" => req[t].uses <= sales

(* No sale with the code is undone, and with them grows what a pending     *)
(* request may have read.                                                  *)
LEMMA UsesKept ==
  ASSUME TypeOK, UsesCounted, NEW n \in Nat, Cardinality(CodedSales)' = Cardinality(CodedSales) + n,
         useCount' = useCount + n, directUses' = directUses, NothingComputed
  PROVE  UsesCounted'
<1>1. Cardinality(CodedSales) \in Nat /\ useCount \in Nat /\ directUses \in Nat
  BY FS_Subset, FS_CardinalityType, CheckoutAssumption DEF TypeOK, CodedSales
<1>2. ASSUME NEW t \in Threads, req'[t].op = "order"
      PROVE  req'[t].uses <= Cardinality(CodedSales)' + directUses'
  <2>1. req'[t] = req[t] /\ req[t].uses \in Nat
    BY <1>2 DEF NothingComputed, TypeOK, Requests
  <2>2. req[t].uses <= Cardinality(CodedSales) + directUses
    BY <1>2, <2>1 DEF UsesCounted
  <2> QED BY <1>1, <2>1, <2>2
<1>3. useCount <= Cardinality(CodedSales) + directUses
      /\ (directUses = 0 => useCount = Cardinality(CodedSales) + directUses)
  BY DEF UsesCounted
<1>4. useCount' <= Cardinality(CodedSales)' + directUses'
      /\ (directUses' = 0 => useCount' = Cardinality(CodedSales)' + directUses')
  BY <1>1, <1>3
<1> QED BY <1>2, <1>4 DEF UsesCounted

THEOREM OrderOnce == Spec => []OneOrderPerCheckout
<1> USE CheckoutAssumption
<1>1. Init => UsesCounted
  <2> SUFFICES ASSUME Init PROVE UsesCounted
    OBVIOUS
  <2>1. CodedSales = {} /\ Cardinality({}) = 0
    BY FS_EmptySet DEF Init, CodedSales
  <2> QED BY <2>1 DEF Init, UsesCounted, Idle
<1>2. CheckoutInv /\ UsesCounted /\ [Next]_vars => UsesCounted'
  <2> SUFFICES ASSUME CheckoutInv, UsesCounted, [Next]_vars PROVE UsesCounted'
    OBVIOUS
  <2>1. TypeOK /\ IsFiniteSet(CodedSales) /\ Cardinality(CodedSales) \in Nat
    BY FS_Subset, FS_CardinalityType DEF CheckoutInv, TypeOK, CodedSales
  <2>2. useCount \in Nat /\ directUses \in Nat
    BY <2>1 DEF TypeOK
  <2>3. ASSUME CodedSales' = CodedSales, useCount' = useCount, directUses' = directUses,
               NothingComputed
        PROVE  UsesCounted'
    <3>1. Cardinality(CodedSales)' = Cardinality(CodedSales) + 0 /\ useCount' = useCount + 0
      BY <2>1, <2>2, <2>3
    <3> QED BY <2>1, <2>3, <3>1, UsesKept
  <2>4. ASSUME NEW t \in Threads, NEW k \in Checkouts, NEW code \in BOOLEAN,
               CreateCheckout(t, k, code)
        PROVE  UsesCounted'
    <3>1. CodedSales' = CodedSales /\ useCount' = useCount /\ directUses' = directUses
      BY <2>1, <2>4 DEF CreateCheckout, CodedSales, TypeOK, orderVars
    <3>2. NothingComputed
      BY <2>1, <2>4 DEF CreateCheckout, NothingComputed, TypeOK, Idle
    <3> QED BY <2>3, <3>1, <3>2
  <2>5. ASSUME NEW k \in Checkouts, CancelCheckout(k) PROVE UsesCounted'
    <3>1. CodedSales' = CodedSales /\ useCount' = useCount /\ directUses' = directUses
      BY <2>1, <2>5 DEF CancelCheckout, CodedSales, TypeOK, orderVars
    <3>2. NothingComputed
      BY <2>5 DEF CancelCheckout, NothingComputed, cartVars
    <3> QED BY <2>3, <3>1, <3>2
  <2>6. ASSUME NEW k \in Checkouts, CompleteCheckout(k) PROVE UsesCounted'
    <3>1. NothingComputed /\ directUses' = directUses
      BY <2>6 DEF CompleteCheckout, NothingComputed
    <3>2. CASE k \in coded
      <4>1. CodedSales' = CodedSales \cup {k} /\ k \notin CodedSales /\ useCount' = useCount + 1
        BY <2>1, <2>6, <3>2 DEF CompleteCheckout, CodedSales, TypeOK
      <4>2. Cardinality(CodedSales)' = Cardinality(CodedSales) + 1
        BY <2>1, <4>1, FS_AddElement
      <4> QED BY <2>1, <3>1, <4>1, <4>2, UsesKept
    <3>3. CASE k \notin coded
      <4>1. CodedSales' = CodedSales /\ useCount' = useCount
        BY <2>1, <2>6, <3>3 DEF CompleteCheckout, CodedSales, TypeOK
      <4> QED BY <2>3, <3>1, <4>1
    <3> QED BY <3>2, <3>3
  <2>7. ASSUME NEW t \in Threads, NEW c \in Carts, NEW code \in BOOLEAN, PlaceOrder(t, c, code)
        PROVE  UsesCounted'
    <3>1. CodedSales' = CodedSales /\ useCount' = useCount /\ directUses' = directUses
      BY <2>7 DEF PlaceOrder, CodedSales, chkVars, orderVars
    <3>2. \A z \in Threads : req'[z] = req[z] \/ req'[z].uses = useCount \/ req'[z].uses = 0
      BY <2>1, <2>7 DEF PlaceOrder, TypeOK
    <3>3. \A z \in Threads : req'[z].op = "order" =>
                                 req'[z].uses <= Cardinality(CodedSales) + directUses
      BY <2>1, <2>2, <3>2 DEF UsesCounted
    <3> QED BY <3>1, <3>3 DEF UsesCounted
  <2>8. ASSUME NEW t \in Threads, FinishOrder(t) PROVE UsesCounted'
    <3>1. CodedSales' = CodedSales /\ NothingComputed /\ req[t].op = "order" /\ req[t].uses \in Nat
      BY <2>1, <2>8 DEF FinishOrder, CodedSales, chkVars, NothingComputed, TypeOK, Idle, Requests
    <3>2. CASE req[t].code
      <4>1. useCount' = req[t].uses + 1 /\ directUses' = directUses + 1
        BY <2>8, <3>2 DEF FinishOrder
      <4>2. \A z \in Threads : req'[z].op = "order" => req[z].op = "order" /\ req'[z].uses = req[z].uses
                                                         /\ req[z].uses \in Nat
        BY <2>1, <3>1 DEF NothingComputed, TypeOK, Requests
      <4>3. \A z \in Threads : req[z].op = "order" =>
                                   req[z].uses <= Cardinality(CodedSales) + directUses
        BY DEF UsesCounted
      <4>4. useCount' <= Cardinality(CodedSales) + directUses' /\ directUses' # 0
        BY <2>1, <2>2, <3>1, <4>1, <4>3
      <4>5. \A z \in Threads : req'[z].op = "order" =>
                                   req'[z].uses <= Cardinality(CodedSales) + directUses'
        BY <2>1, <2>2, <4>1, <4>2, <4>3
      <4> QED BY <3>1, <4>4, <4>5 DEF UsesCounted
    <3>3. CASE ~req[t].code
      <4>1. useCount' = useCount /\ directUses' = directUses
        BY <2>8, <3>3 DEF FinishOrder
      <4> QED BY <2>3, <3>1, <4>1
    <3> QED BY <3>2, <3>3
  <2>9. CASE Quiet
    BY <2>3, <2>9 DEF Quiet, CodedSales
  <2> QED BY <2>1, <2>4, <2>5, <2>6, <2>7, <2>8, <2>9, StepKinds
<1>3. CheckoutInv /\ UsesCounted => OneOrderPerCheckout
  <2> SUFFICES ASSUME CheckoutInv, UsesCounted PROVE OneOrderPerCheckout
    OBVIOUS
  <2>1. IsFiniteSet(CodedSales) /\ Cardinality(CodedSales) \in Nat
    BY FS_Subset, FS_CardinalityType DEF CheckoutInv, TypeOK, CodedSales
  <2> QED BY <2>1 DEF CheckoutInv, LifeCycle, OneOrderPerCheckout, UsesCounted
<1> QED BY <1>1, <1>2, <1>3, Invariance, PTL DEF Spec

(* Closed sessions and converted carts stay as they are.                   *)
THEOREM ClosedIsFinal == Spec => ClosedStaysClosed
<1> DEFINE Final ==
      /\ \A k \in Checkouts : status[k] \in {"completed", "expired"} =>
           /\ status'[k] = status[k]
           /\ resv'[k] = resv[k]
           /\ ordered'[k] = ordered[k]
      /\ \A c \in Carts : cart[c] = "converted" => cart'[c] = "converted"
<1>1. CheckoutInv /\ [Next]_vars => [Final]_vars
  <2> SUFFICES ASSUME CheckoutInv, Next PROVE Final
    OBVIOUS
  <2>1. TypeOK /\ LifeCycle
    BY DEF CheckoutInv
  <2>2. ASSUME NEW c \in Carts, OpenCart(c) PROVE Final
    BY <2>1, <2>2 DEF OpenCart, TypeOK, chkVars, stockVars, orderVars
  <2>3. ASSUME NEW t \in Threads, NEW k \in Checkouts, NEW code \in BOOLEAN,
               CreateCheckout(t, k, code)
        PROVE  Final
    BY <2>1, <2>3 DEF CreateCheckout, Reserve, TypeOK, orderVars
  <2>4. ASSUME NEW k \in Checkouts, CancelCheckout(k) PROVE Final
    BY <2>1, <2>4 DEF CancelCheckout, Release, SetReservations, TypeOK, cartVars, orderVars
  <2>5. ASSUME NEW k \in Checkouts, CompleteCheckout(k) PROVE Final
    BY <2>1, <2>5 DEF CompleteCheckout, Commit, SetReservations, TypeOK, LifeCycle
  <2>6. CASE UNCHANGED <<status, ordered, resv>> /\ cart' = cart
    BY <2>6
  <2>7. ASSUME NEW t \in Threads, FinishOrder(t) PROVE Final
    BY <2>1, <2>7 DEF FinishOrder, TypeOK, chkVars
  <2> HIDE DEF Final
  <2> QED BY <2>1, <2>2, <2>3, <2>4, <2>5, <2>6, <2>7, StepKinds
          DEF Quiet, PlaceOrder, chkVars, stockVars, orderVars
<1> QED BY <1>1, Invariance, PTL DEF Spec, ClosedStaysClosed

(* The claims of StockClaims as Checkout has them: what each session stands *)
(* for and what it asks of each variant.                                   *)
PhaseOf ==
  [k \in Checkouts |->
     CASE status[k] = "none" -> "none"
       [] status[k] = "open" -> "held"
       [] status[k] = "completed" -> "sold"
       [] status[k] = "expired" -> "released"]

WantOf == [k \in Checkouts |-> [v \in Variants |-> resv[k][v].quantity]]

ClaimType(ph, wt) ==
  /\ ph \in [Checkouts -> {"none", "held", "sold", "released"}]
  /\ wt \in [Checkouts -> [Variants -> 0..MaxQty]]

TakenFrom(ph, wt, v) ==
  [k \in Checkouts |-> IF ph[k] \in {"held", "sold"} THEN wt[k][v] ELSE 0]

(* StockClaims counts units as Tally does.                                 *)
LEMMA TakenIsTotal ==
  ASSUME NEW v \in Variants
  PROVE  /\ Claims!Taken(v) = Total(TakenFrom(PhaseOf, WantOf, v))
         /\ Claims!Taken(v)' = Total(TakenFrom(PhaseOf', WantOf', v))
BY DEF Claims!Taken, Claims!TakenBy, TakenFrom, PhaseOf, WantOf, Claims!Total, Claims!Units,
       Total, Units, Claims!Cardinality, Cardinality, Claims!IsFiniteSet, IsFiniteSet

(* The steps of the claims.                                                *)
LEMMA ClaimSteps ==
  /\ Claims!ClaimTypeOK <=> ClaimType(PhaseOf, WantOf)
  /\ Claims!ClaimTypeOK' <=> ClaimType(PhaseOf', WantOf')
  /\ Claims!ClaimInit <=>
       /\ PhaseOf = [k \in Checkouts |-> "none"]
       /\ WantOf = [k \in Checkouts |-> [v \in Variants |-> 0]]
  /\ \A k : Claims!Grant(k) <=>
       /\ PhaseOf[k] = "none"
       /\ \E w \in [Variants -> 0..MaxQty] :
            /\ \A v \in Tracked \ Backorder : Claims!Taken(v) + w[v] <= Stock[v]
            /\ WantOf' = [WantOf EXCEPT ![k] = w]
       /\ PhaseOf' = [PhaseOf EXCEPT ![k] = "held"]
  /\ \A k : Claims!GiveBack(k) <=>
       PhaseOf[k] = "held" /\ PhaseOf' = [PhaseOf EXCEPT ![k] = "released"] /\ WantOf' = WantOf
  /\ \A k : Claims!Sell(k) <=>
       PhaseOf[k] = "held" /\ PhaseOf' = [PhaseOf EXCEPT ![k] = "sold"] /\ WantOf' = WantOf
  /\ UNCHANGED Claims!claimVars <=> PhaseOf' = PhaseOf /\ WantOf' = WantOf
<1>1. (Claims!ClaimTypeOK <=> ClaimType(PhaseOf, WantOf))
      /\ (Claims!ClaimTypeOK' <=> ClaimType(PhaseOf', WantOf'))
  BY DEF Claims!ClaimTypeOK, Claims!Phases, ClaimType, PhaseOf, WantOf
<1>2. Claims!ClaimInit <=>
       /\ PhaseOf = [k \in Checkouts |-> "none"]
       /\ WantOf = [k \in Checkouts |-> [v \in Variants |-> 0]]
  BY DEF Claims!ClaimInit, PhaseOf, WantOf
<1>3. ASSUME NEW k
      PROVE  /\ Claims!Grant(k) <=>
                 /\ PhaseOf[k] = "none"
                 /\ \E w \in [Variants -> 0..MaxQty] :
                      /\ \A v \in Tracked \ Backorder : Claims!Taken(v) + w[v] <= Stock[v]
                      /\ WantOf' = [WantOf EXCEPT ![k] = w]
                 /\ PhaseOf' = [PhaseOf EXCEPT ![k] = "held"]
             /\ Claims!GiveBack(k) <=>
                 PhaseOf[k] = "held" /\ PhaseOf' = [PhaseOf EXCEPT ![k] = "released"] /\ WantOf' = WantOf
             /\ Claims!Sell(k) <=>
                 PhaseOf[k] = "held" /\ PhaseOf' = [PhaseOf EXCEPT ![k] = "sold"] /\ WantOf' = WantOf
  BY Zenon DEF Claims!Grant, Claims!GiveBack, Claims!Sell, PhaseOf, WantOf
<1>4. UNCHANGED Claims!claimVars <=> PhaseOf' = PhaseOf /\ WantOf' = WantOf
  BY DEF Claims!claimVars, PhaseOf, WantOf
<1> QED BY <1>1, <1>2, <1>3, <1>4

(* The claims stay well typed: phases are among the four, and a claim asks *)
(* for a natural number of units of each variant.                          *)
THEOREM ClaimTyping == Claims!ClaimSpec => []Claims!ClaimTypeOK
<1> USE CheckoutAssumption
<1>1. Claims!ClaimInit => Claims!ClaimTypeOK
  BY ClaimSteps DEF ClaimType
<1>2. Claims!ClaimTypeOK /\ [Claims!ClaimNext]_(Claims!claimVars) => Claims!ClaimTypeOK'
  <2> SUFFICES ASSUME ClaimType(PhaseOf, WantOf), [Claims!ClaimNext]_(Claims!claimVars)
               PROVE  ClaimType(PhaseOf', WantOf')
    BY ClaimSteps
  <2> USE DEF ClaimType
  <2>1. ASSUME NEW k \in Checkouts, Claims!Grant(k) PROVE ClaimType(PhaseOf', WantOf')
    <3>1. PICK w \in [Variants -> 0..MaxQty] : WantOf' = [WantOf EXCEPT ![k] = w]
      BY <2>1, ClaimSteps
    <3>2. PhaseOf' = [PhaseOf EXCEPT ![k] = "held"]
      BY <2>1, ClaimSteps
    <3> QED BY <3>1, <3>2
  <2>2. ASSUME NEW k \in Checkouts, Claims!GiveBack(k) PROVE ClaimType(PhaseOf', WantOf')
    BY <2>2, ClaimSteps
  <2>3. ASSUME NEW k \in Checkouts, Claims!Sell(k) PROVE ClaimType(PhaseOf', WantOf')
    BY <2>3, ClaimSteps
  <2>4. CASE UNCHANGED Claims!claimVars
    BY <2>4, ClaimSteps
  <2> QED BY <2>1, <2>2, <2>3, <2>4 DEF Claims!ClaimNext
<1> QED BY <1>1, <1>2, PTL DEF Claims!ClaimSpec

(* Claims that overlap in any way are never granted more units of a        *)
(* variant than there were: what open sessions hold and what was sold fit  *)
(* in the stock.                                                           *)
THEOREM Promise == Claims!ClaimSpec => []Claims!NeverOverpromised
<1> USE CheckoutAssumption
<1>1. Claims!ClaimInit => Claims!NeverOverpromised
  <2> SUFFICES ASSUME Claims!ClaimInit, NEW v \in Tracked \ Backorder PROVE Claims!Taken(v) <= Stock[v]
    BY DEF Claims!NeverOverpromised
  <2> DEFINE f == TakenFrom(PhaseOf, WantOf, v)
  <2>1. f \in [Checkouts -> Nat] /\ \A k \in Checkouts : f[k] = 0
    BY ClaimSteps DEF TakenFrom
  <2> HIDE DEF f
  <2>2. Total(f) = 0
    BY <2>1, TotalZero
  <2>3. Claims!Taken(v) = Total(f)
    BY TakenIsTotal DEF f
  <2> QED BY <2>2, <2>3
<1>2. Claims!ClaimTypeOK /\ Claims!ClaimTypeOK' /\ Claims!NeverOverpromised
      /\ [Claims!ClaimNext]_(Claims!claimVars) => Claims!NeverOverpromised'
  <2> SUFFICES ASSUME ClaimType(PhaseOf, WantOf), ClaimType(PhaseOf', WantOf'),
                      Claims!NeverOverpromised, [Claims!ClaimNext]_(Claims!claimVars),
                      NEW v \in Tracked \ Backorder
               PROVE  Claims!Taken(v)' <= Stock[v]
    BY ClaimSteps DEF Claims!NeverOverpromised
  <2> DEFINE f == TakenFrom(PhaseOf, WantOf, v)
             g == TakenFrom(PhaseOf', WantOf', v)
  <2>1. v \in Variants /\ Stock[v] \in Nat /\ Claims!Taken(v) <= Stock[v]
    BY DEF Claims!NeverOverpromised
  <2>2. f \in [Checkouts -> Nat] /\ g \in [Checkouts -> Nat]
    BY <2>1 DEF ClaimType, TakenFrom
  <2>3. /\ \A k \in Checkouts : f[k] = IF PhaseOf[k] \in {"held", "sold"} THEN WantOf[k][v] ELSE 0
        /\ \A k \in Checkouts : g[k] = IF PhaseOf'[k] \in {"held", "sold"} THEN WantOf'[k][v] ELSE 0
    BY DEF TakenFrom
  <2>4. PhaseOf' = PhaseOf /\ WantOf' = WantOf => g = f
    OBVIOUS
  <2>5. Claims!Taken(v) = Total(f) /\ Claims!Taken(v)' = Total(g)
    BY <2>1, TakenIsTotal
  <2> HIDE DEF f, g
  <2>6. Total(f) \in Nat
    BY <2>2, TotalBounds
  <2>7. ASSUME NEW k \in Checkouts, \A j \in Checkouts \ {k} : g[j] = f[j]
        PROVE  Total(g) = Total(f) - f[k] + g[k]
    BY <2>2, <2>7, TotalChange
  <2>8. ASSUME NEW k \in Checkouts, Claims!Grant(k) PROVE Total(g) <= Stock[v]
    <3>1. PICK w \in [Variants -> 0..MaxQty] :
            Claims!Taken(v) + w[v] <= Stock[v] /\ WantOf' = [WantOf EXCEPT ![k] = w]
      BY <2>8, ClaimSteps
    <3>2. PhaseOf[k] = "none" /\ PhaseOf' = [PhaseOf EXCEPT ![k] = "held"]
      BY <2>8, ClaimSteps
    <3>3. \A j \in Checkouts \ {k} : g[j] = f[j]
      BY <2>3, <3>1, <3>2 DEF ClaimType
    <3>4. f[k] = 0 /\ g[k] = w[v] /\ w[v] \in Nat
      BY <2>1, <2>3, <3>1, <3>2 DEF ClaimType
    <3> QED BY <2>5, <2>6, <2>7, <3>1, <3>3, <3>4
  <2>9. ASSUME NEW k \in Checkouts, Claims!GiveBack(k) \/ Claims!Sell(k) PROVE Total(g) <= Stock[v]
    <3>1. PICK p \in {"released", "sold"} :
            PhaseOf[k] = "held" /\ PhaseOf' = [PhaseOf EXCEPT ![k] = p] /\ WantOf' = WantOf
      BY <2>9, ClaimSteps
    <3>2. \A j \in Checkouts \ {k} : g[j] = f[j]
      BY <2>3, <3>1 DEF ClaimType
    <3>3. g[k] \in {0, f[k]} /\ f[k] \in Nat
      BY <2>2, <2>3, <3>1 DEF ClaimType
    <3> QED BY <2>1, <2>5, <2>6, <2>7, <3>2, <3>3
  <2>10. CASE UNCHANGED Claims!claimVars
    BY <2>1, <2>4, <2>5, <2>10, ClaimSteps
  <2> QED BY <2>5, <2>8, <2>9, <2>10 DEF Claims!ClaimNext
<1> QED BY <1>1, <1>2, ClaimTyping, PTL DEF Claims!ClaimSpec

(* The units StockClaims counts as taken are those held and those sold.    *)
LEMMA TakenIsHeldAndSold ==
  ASSUME CheckoutInv, NEW v \in Variants
  PROVE  Claims!Taken(v) = UnitsHeld(v) + UnitsSold(v)
<1> USE CheckoutAssumption
<1>1. TypeOK /\ LifeCycle
  BY DEF CheckoutInv
<1>2. Quantities("reserved", v) \in [Checkouts -> Nat] /\ Quantities("committed", v) \in [Checkouts -> Nat]
  BY <1>1, QuantitiesType
<1>3. Claims!TakenBy(v) \in [Checkouts -> Nat]
  BY <1>1 DEF Claims!TakenBy, TypeOK, Reservations
<1>4. ASSUME NEW k \in Checkouts
      PROVE  \/ Quantities("reserved", v)[k] = 0 /\ Claims!TakenBy(v)[k] = Quantities("committed", v)[k]
             \/ Quantities("committed", v)[k] = 0 /\ Claims!TakenBy(v)[k] = Quantities("reserved", v)[k]
  <2>1. status[k] \in {"none", "open", "completed", "expired"}
    BY <1>1 DEF TypeOK
  <2>2. CASE status[k] \in {"none", "expired"}
    BY <1>1, <2>2 DEF LifeCycle, Claims!TakenBy, Quantities
  <2>3. CASE status[k] = "open"
    BY <1>1, <2>3 DEF LifeCycle, Claims!TakenBy, Quantities
  <2>4. CASE status[k] = "completed"
    BY <1>1, <2>4 DEF LifeCycle, Claims!TakenBy, Quantities
  <2> QED BY <2>1, <2>2, <2>3, <2>4
<1>5. Total(Claims!TakenBy(v)) = Total(Quantities("reserved", v)) + Total(Quantities("committed", v))
  BY <1>2, <1>3, <1>4, TotalUnion
<1>6. Claims!Taken(v) = Total(Claims!TakenBy(v))
  BY DEF Claims!Taken, Claims!Total, Claims!Units, Total, Units,
         Claims!Cardinality, Cardinality, Claims!IsFiniteSet, IsFiniteSet
<1> QED BY <1>5, <1>6 DEF UnitsHeld, UnitsSold

(* The counters and rows of Checkout implement the claims of StockClaims:  *)
(* what is compared with on_hand and reserved is what is left of the stock.*)
THEOREM Refinement == Spec => ImplementsClaims
<1> USE CheckoutAssumption
<1> DEFINE ph == [k \in Checkouts |->
                    CASE status[k] = "none" -> "none"
                      [] status[k] = "open" -> "held"
                      [] status[k] = "completed" -> "sold"
                      [] status[k] = "expired" -> "released"]
           wt == [k \in Checkouts |-> [v \in Variants |-> resv[k][v].quantity]]
<1>1. Init => Claims!ClaimInit
  BY DEF Init, Claims!ClaimInit, NoReservation
<1>2. CheckoutInv /\ CheckoutInv' /\ [Next]_vars => [Claims!ClaimNext]_(Claims!claimVars)
  <2> SUFFICES ASSUME CheckoutInv, CheckoutInv', [Next]_vars
               PROVE  Claims!ClaimNext \/ UNCHANGED <<ph, wt>>
    BY DEF Claims!claimVars
  <2>1. TypeOK /\ LifeCycle /\ Counters /\ TypeOK'
    BY DEF CheckoutInv
  <2>2. ASSUME NEW t \in Threads, NEW k \in Checkouts, NEW code \in BOOLEAN,
               CreateCheckout(t, k, code)
        PROVE  Claims!Grant(k)
    <3> DEFINE lines == item[req[t].cart]
               w == [v \in Variants |-> resv'[k][v].quantity]
    <3>1. lines \in [Variants -> 0..MaxQty]
      BY <2>1, <2>2 DEF CreateCheckout, TypeOK, Lines, Requests
    <3>2. w \in [Variants -> 0..MaxQty]
      BY <2>1 DEF TypeOK, Reservations
    <3>3. ph[k] = "none" /\ ph' = [ph EXCEPT ![k] = "held"]
      BY <2>1, <2>2 DEF CreateCheckout, TypeOK
    <3>4. wt' = [wt EXCEPT ![k] = w]
      <4>1. \A j \in Checkouts \ {k} : resv'[j] = resv[j]
        BY <2>1, <2>2 DEF CreateCheckout, Reserve, TypeOK
      <4> QED BY <4>1
    <3>5. ASSUME NEW v \in Tracked \ Backorder
          PROVE  Claims!Taken(v) + w[v] <= Stock[v]
      <4>1. w[v] = IF lines[v] > 0 THEN lines[v] ELSE 0
        BY <2>1, <2>2 DEF CreateCheckout, Reserve, TypeOK, Reservable, NoReservation
      <4>2. lines[v] \in Nat /\ OnHand(v) \in Int /\ Reserved(v) \in Nat
        BY <2>1, <3>1, CounterTypes
      <4>3. lines[v] > 0 => lines[v] <= Available(v)
        BY <2>2 DEF CreateCheckout, CheckoutAccepted, EnoughStock, Reservable
      <4>4. Reserved(v) + w[v] <= OnHand(v)
        <5>1. Reserved(v) <= OnHand(v)
          BY <2>1 DEF Counters, ReservedOnHand
        <5> HIDE DEF w, lines
        <5> QED BY <4>1, <4>2, <4>3, <5>1 DEF Available, AtLeastZero
      <4>5. Reserved(v) = UnitsHeld(v) /\ OnHand(v) + UnitsSold(v) <= Stock[v]
        BY <2>1 DEF Counters, ReservedIsSum, StockConserved
      <4>6. Claims!Taken(v) = UnitsHeld(v) + UnitsSold(v)
        BY TakenIsHeldAndSold
      <4>7. UnitsSold(v) \in Nat
        BY <2>1, QuantitiesType, TotalBounds DEF UnitsSold
      <4>8. w[v] \in Nat
        BY <3>2
      <4> HIDE DEF w, lines
      <4> QED BY <4>2, <4>4, <4>5, <4>6, <4>7, <4>8
    <3> HIDE DEF w, lines
    <3> QED BY <3>2, <3>3, <3>4, <3>5 DEF Claims!Grant
  <2>3. ASSUME NEW k \in Checkouts, CancelCheckout(k) PROVE Claims!GiveBack(k)
    <3>1. status[k] = "open" /\ SetReservations(k, "expired")
      BY <2>3 DEF CancelCheckout, Release
    <3>2. wt' = wt
      BY <2>1, <3>1, CloseReservations
    <3>3. ph[k] = "held" /\ ph' = [ph EXCEPT ![k] = "released"]
      BY <2>1, <2>3 DEF CancelCheckout, TypeOK
    <3> QED BY <3>2, <3>3 DEF Claims!GiveBack
  <2>4. ASSUME NEW k \in Checkouts, CompleteCheckout(k) PROVE Claims!Sell(k)
    <3>1. status[k] = "open" /\ SetReservations(k, "committed")
      BY <2>4 DEF CompleteCheckout, Commit
    <3>2. wt' = wt
      BY <2>1, <3>1, CloseReservations
    <3>3. ph[k] = "held" /\ ph' = [ph EXCEPT ![k] = "sold"]
      BY <2>1, <2>4 DEF CompleteCheckout, TypeOK
    <3> QED BY <3>2, <3>3 DEF Claims!Sell
  <2>5. CASE UNCHANGED <<status, resv>>
    BY <2>5
  <2> QED BY <2>1, <2>2, <2>3, <2>4, <2>5, StepKinds
          DEF Claims!ClaimNext, Quiet, PlaceOrder, FinishOrder, chkVars, stockVars
<1> QED BY <1>1, <1>2, Invariance, PTL DEF Spec, ImplementsClaims, Claims!ClaimSpec

(* So the checkout keeps the promise: what open sessions hold and what was *)
(* committed to orders fit in the stock of a variant without backorders.   *)
THEOREM PromiseKept == Spec => []Claims!NeverOverpromised
BY Refinement, Promise, PTL DEF ImplementsClaims
=============================================================================
