--------------------------- MODULE Pricing_proofs ---------------------------
(***************************************************************************)
(* What a shop charges, whatever rows staff and seeding have left.         *)
(*                                                                         *)
(* First the arithmetic of Money, for any cart, shipping price, discount   *)
(* and tax rate; then the rows (PricingTypeOK is inductive) and the choice *)
(* among them; then the prices a shopper can be shown.                     *)
(***************************************************************************)
EXTENDS Pricing, WellFoundedInduction, TLAPS

(* Rounding gives a natural number.                                        *)
LEMMA HalfUpType ==
  ASSUME NEW n \in Nat
  PROVE  HalfUp(n) \in Nat
BY DEF HalfUp, Whole

(* More is not rounded to less.                                            *)
LEMMA HalfUpMonotone ==
  ASSUME NEW m \in Nat, NEW n \in Nat, m <= n
  PROVE  HalfUp(m) <= HalfUp(n)
BY DEF HalfUp, Whole

(* k cents more are rounded to at most k cents more.                       *)
LEMMA HalfUpStep ==
  ASSUME NEW m \in Nat, NEW n \in Nat, NEW k \in Nat, n <= m + Whole * k
  PROVE  HalfUp(n) <= HalfUp(m) + k
BY DEF HalfUp, Whole

LEMMA HalfUpZero == HalfUp(0) = 0
BY DEF HalfUp, Whole

(* A code as validation leaves it, or none.                                *)
Sound(offer) ==
  /\ offer.value \in Nat
  /\ offer.type = "percentage" => offer.value <= Whole

(* A part of the goods that is not more than all of them.                  *)
LEMMA PartOfGoods ==
  ASSUME NEW s \in Nat, NEW v \in Nat, v <= Whole
  PROVE  /\ s * v \in Nat
         /\ s * v <= Whole * s
<1>1. s * v \in Nat
  OBVIOUS
<1>2. Whole - v \in Nat
  BY DEF Whole
<1>3. s * (Whole - v) \in Nat
  BY <1>2
<1>4. s * v + s * (Whole - v) = Whole * s
  BY DEF Whole
<1> QED BY <1>1, <1>3, <1>4 DEF Whole

(* A discount takes off part of the goods, at most all of them.            *)
LEMMA OffGoodsBounds ==
  ASSUME NEW s \in Nat, NEW offer, Sound(offer)
  PROVE  OffGoods(s, offer) \in 0..s
<1>1. CASE offer.type = "percentage"
  <2>1. s * offer.value \in Nat /\ s * offer.value <= 0 + Whole * s
    BY <1>1, PartOfGoods DEF Sound, Whole
  <2>2. HalfUp(s * offer.value) <= HalfUp(0) + s
    BY <2>1, HalfUpStep
  <2> QED BY <1>1, <2>1, <2>2, HalfUpType, HalfUpZero DEF OffGoods
<1>2. CASE offer.type = "fixed"
  BY <1>2 DEF OffGoods, Sound
<1>3. CASE offer.type \notin {"percentage", "fixed"}
  BY <1>3 DEF OffGoods
<1> QED BY <1>1, <1>2, <1>3

(* It takes off at most what the goods are dearer by.                      *)
LEMMA OffGoodsStep ==
  ASSUME NEW s \in Nat, NEW t \in Nat, s <= t, NEW offer, Sound(offer)
  PROVE  s - OffGoods(s, offer) <= t - OffGoods(t, offer)
<1>1. CASE offer.type = "percentage"
  <2> DEFINE k == t - s
  <2>1. k \in Nat /\ t = s + k
    OBVIOUS
  <2>2. k * offer.value <= Whole * k /\ k * offer.value \in Nat
    BY <1>1, <2>1, PartOfGoods DEF Sound
  <2>3. t * offer.value = s * offer.value + k * offer.value
    BY <2>1 DEF Sound
  <2>4. s * offer.value \in Nat /\ t * offer.value \in Nat
    BY DEF Sound
  <2>5. HalfUp(t * offer.value) <= HalfUp(s * offer.value) + k
    <3> HIDE DEF k
    <3>1. t * offer.value <= s * offer.value + Whole * k
      BY <2>1, <2>2, <2>3, <2>4 DEF Whole
    <3> QED BY <2>1, <2>4, <3>1, HalfUpStep
  <2> QED BY <1>1, <2>1, <2>4, <2>5, HalfUpType DEF OffGoods
<1>2. CASE offer.type = "fixed"
  BY <1>2 DEF OffGoods, Sound
<1>3. CASE offer.type \notin {"percentage", "fixed"}
  BY <1>3 DEF OffGoods
<1> QED BY <1>1, <1>2, <1>3

(* The shipping that is left is a natural number, and what is left and what *)
(* is waived make up the price.                                            *)
LEMMA OffShippingSplits ==
  ASSUME NEW p \in Int, NEW offer
  PROVE  /\ OffShipping(p, offer) \in Nat
         /\ NotBelowZero(p - OffShipping(p, offer)) \in Nat
         /\ NotBelowZero(p - OffShipping(p, offer)) + OffShipping(p, offer) = NotBelowZero(p)
BY DEF OffShipping, NotBelowZero

(* A tax is a natural number.                                              *)
LEMMA TaxType ==
  ASSUME NEW a \in Nat, NEW rate \in Nat
  PROVE  TaxOn(a, rate) \in Nat
<1>1. a * rate \in Nat
  OBVIOUS
<1> QED BY <1>1, HalfUpType DEF TaxOn

(* The tax on more is not less.                                            *)
LEMMA TaxGrows ==
  ASSUME NEW a \in Nat, NEW b \in Nat, a <= b, NEW rate \in Nat
  PROVE  TaxOn(a, rate) \in Nat /\ TaxOn(b, rate) \in Nat /\ TaxOn(a, rate) <= TaxOn(b, rate)
<1>1. a * rate \in Nat /\ b * rate \in Nat
  OBVIOUS
<1>2. (b - a) * rate \in Nat
  OBVIOUS
<1>3. b * rate = a * rate + (b - a) * rate
  OBVIOUS
<1>4. a * rate <= b * rate
  BY <1>1, <1>2, <1>3
<1> QED BY <1>1, <1>4, HalfUpType, HalfUpMonotone DEF TaxOn

(* The lines of a price, with the lower bounds out of the way.             *)
LEMMA ChargeLines ==
  ASSUME NEW s \in Nat, NEW p \in Int, NEW offer, Sound(offer), NEW rate \in Nat
  PROVE  LET off      == OffGoods(s, offer)
             shipping == NotBelowZero(p - OffShipping(p, offer))
             tax      == TaxOn(s - off + shipping, rate)
         IN /\ off \in 0..s /\ shipping \in Nat /\ tax \in Nat
            /\ Charge(s, p, offer, rate).tax = tax
            /\ Charge(s, p, offer, rate).discount = off + OffShipping(p, offer)
            /\ Charge(s, p, offer, rate).total = s - off + shipping + tax
<1> DEFINE off      == OffGoods(s, offer)
           shipping == NotBelowZero(p - OffShipping(p, offer))
           tax      == TaxOn(s - off + shipping, rate)
<1>1. off \in 0..s
  BY OffGoodsBounds
<1>2. shipping \in Nat
  BY OffShippingSplits
<1>3. s - off + shipping \in Nat
  BY <1>1, <1>2
<1>4. tax \in Nat
  <2> HIDE DEF off, shipping
  <2> QED BY <1>3, TaxType
<1>5. NotBelowZero(s - off) = s - off
  BY <1>1 DEF NotBelowZero
<1>6. NotBelowZero(s - off + shipping + tax) = s - off + shipping + tax
  BY <1>3, <1>4, <1>2, <1>1 DEF NotBelowZero
<1> QED BY <1>1, <1>2, <1>4, <1>5, <1>6 DEF Charge

(* The total is what the lines add up to: the bounds below zero that the    *)
(* code sets never come into play (calculate_cart_pricing).                *)
THEOREM ChargeAddsUp ==
  ASSUME NEW s \in Nat, NEW p \in Int, NEW offer, Sound(offer), NEW rate \in Nat
  PROVE  Charge(s, p, offer, rate).total
           = s - Charge(s, p, offer, rate).discount + Charge(s, p, offer, rate).tax
             + NotBelowZero(p)
<1> DEFINE off      == OffGoods(s, offer)
           waived   == OffShipping(p, offer)
           shipping == NotBelowZero(p - waived)
           tax      == TaxOn(s - off + shipping, rate)
<1>1. off \in 0..s /\ shipping \in Nat /\ tax \in Nat
  BY ChargeLines
<1>2. waived \in Nat /\ shipping + waived = NotBelowZero(p)
  BY OffShippingSplits
<1>3. /\ Charge(s, p, offer, rate).tax = tax
      /\ Charge(s, p, offer, rate).discount = off + waived
      /\ Charge(s, p, offer, rate).total = s - off + shipping + tax
  BY ChargeLines
<1> HIDE DEF off, waived, shipping, tax
<1> QED BY <1>1, <1>2, <1>3

(* Discount codes never make a price higher, whatever is rounded.          *)
THEOREM CodeSaves ==
  ASSUME NEW s \in Nat, NEW p \in Int, NEW offer, Sound(offer), NEW rate \in Nat
  PROVE  Charge(s, p, offer, rate).total <= Charge(s, p, NoCode, rate).total
<1> DEFINE off  == OffGoods(s, offer)
           with == NotBelowZero(p - OffShipping(p, offer))
           full == NotBelowZero(p)
<1>1. Sound(NoCode) /\ OffGoods(s, NoCode) = 0 /\ OffShipping(p, NoCode) = 0
  BY DEF Sound, NoCode, OffGoods, OffShipping
<1>2. p - OffShipping(p, NoCode) = p
  BY <1>1
<1>3. /\ full \in Nat
      /\ Charge(s, p, NoCode, rate).total = s - 0 + full + TaxOn(s - 0 + full, rate)
  BY <1>1, <1>2, ChargeLines
<1>4. /\ off \in 0..s /\ with \in Nat
      /\ Charge(s, p, offer, rate).total = s - off + with + TaxOn(s - off + with, rate)
  <2> DEFINE tax == TaxOn(s - off + with, rate)
  <2>1. off \in 0..s /\ with \in Nat
    BY ChargeLines
  <2>2. Charge(s, p, offer, rate).total = s - off + with + tax
    BY ChargeLines
  <2> QED BY <2>1, <2>2
<1>5. with <= full
  BY OffShippingSplits, <1>3
<1> HIDE DEF off, with, full
<1> DEFINE a == s - off + with
           b == s - 0 + full
<1>6. a \in Nat /\ b \in Nat /\ a <= b
  BY <1>3, <1>4, <1>5
<1>7. TaxOn(a, rate) \in Nat /\ TaxOn(b, rate) \in Nat /\ TaxOn(a, rate) <= TaxOn(b, rate)
  BY <1>6, TaxGrows
<1>8. Charge(s, p, offer, rate).total = a + TaxOn(a, rate)
  BY <1>4
<1>9. Charge(s, p, NoCode, rate).total = b + TaxOn(b, rate)
  BY <1>3
<1> HIDE DEF a, b
<1> QED BY <1>6, <1>7, <1>8, <1>9

(* With the same code, shipping and tax rate, more goods never cost less.   *)
THEOREM MoreGoodsCostMore ==
  ASSUME NEW s \in Nat, NEW t \in Nat, s <= t,
         NEW p \in Int, NEW offer, Sound(offer), NEW rate \in Nat
  PROVE  Charge(s, p, offer, rate).total <= Charge(t, p, offer, rate).total
<1> DEFINE shipping == NotBelowZero(p - OffShipping(p, offer))
           a == s - OffGoods(s, offer) + shipping
           b == t - OffGoods(t, offer) + shipping
<1>1. /\ OffGoods(s, offer) \in 0..s /\ shipping \in Nat
      /\ Charge(s, p, offer, rate).total = a + TaxOn(a, rate)
  BY ChargeLines
<1>2. /\ OffGoods(t, offer) \in 0..t
      /\ Charge(t, p, offer, rate).total = b + TaxOn(b, rate)
  BY ChargeLines
<1>3. s - OffGoods(s, offer) <= t - OffGoods(t, offer)
  BY OffGoodsStep
<1> HIDE DEF shipping
<1>4. a \in Nat /\ b \in Nat /\ a <= b
  BY <1>1, <1>2, <1>3
<1>5. TaxOn(a, rate) \in Nat /\ TaxOn(b, rate) \in Nat /\ TaxOn(a, rate) <= TaxOn(b, rate)
  BY <1>4, TaxGrows
<1> HIDE DEF a, b
<1> QED BY <1>1, <1>2, <1>4, <1>5
-----------------------------------------------------------------------------
(* The rows.                                                               *)

LEMMA SeedStep == PricingTypeOK /\ Seed => PricingTypeOK'
<1> SUFFICES ASSUME PricingTypeOK, Seed PROVE PricingTypeOK'
  OBVIOUS
<1>1. \A z \in Zones :
        /\ zones'[z] \in ZoneRows \cup {None}
        /\ zones'[z] # None => ZoneValid(zones'[z])
        /\ zones[z] # None \/ z \in DOMAIN SeedZones => zones'[z] # None
  <2> SUFFICES ASSUME NEW z \in Zones
               PROVE  /\ zones'[z] \in ZoneRows \cup {None}
                      /\ zones'[z] # None => ZoneValid(zones'[z])
                      /\ zones[z] # None \/ z \in DOMAIN SeedZones => zones'[z] # None
    OBVIOUS
  <2>1. CASE z \notin DOMAIN SeedZones
    BY <2>1 DEF Seed, PricingTypeOK
  <2>2. CASE z \in DOMAIN SeedZones
    <3> DEFINE named == SeedZones[z]
    <3>1. named \in SUBSET (Countries \cup {Anywhere}) /\ named # {}
      BY <2>2, RowAssumption DEF RowAssumption
    <3>2. CASE zones[z] = None
      <4>1. zones'[z] = [active |-> TRUE, countries |-> named]
        BY <2>2, <3>2 DEF Seed
      <4> HIDE DEF named
      <4>2. zones'[z] \in ZoneRows /\ ZoneValid(zones'[z])
        BY <3>1, <4>1 DEF ZoneRows, ZoneValid
      <4> QED BY <4>2, RowAssumption DEF RowAssumption
    <3>3. CASE zones[z] # None
      <4>1. zones[z] \in ZoneRows
        BY <3>3 DEF PricingTypeOK
      <4>2. zones'[z] = [zones[z] EXCEPT !.countries = named]
        BY <2>2, <3>3 DEF Seed
      <4> HIDE DEF named
      <4> QED BY <3>1, <4>1, <4>2, RowAssumption DEF RowAssumption, ZoneRows, ZoneValid
    <3> QED BY <3>2, <3>3
  <2> QED BY <2>1, <2>2
<1>2. \A r \in Rates :
        /\ rates'[r] \in RateRows \cup {None}
        /\ rates'[r] # None => rates[r] # None \/ RateZone[r] \in DOMAIN SeedZones
  BY RowAssumption DEF RowAssumption, Seed, PricingTypeOK, RateRows
<1>3. \A t \in Taxes :
        taxes'[t] \in TaxRows \cup {None} /\ (taxes'[t] # None => TaxValid(taxes'[t]))
  BY RowAssumption DEF RowAssumption, Seed, PricingTypeOK
<1>4. code' \in CodeRows /\ CodeValid(code') /\ edits' \in 0..MaxEdits
  BY RowAssumption DEF RowAssumption, Seed, PricingTypeOK
<1>5. /\ zones' \in [Zones -> ZoneRows \cup {None}]
      /\ rates' \in [Rates -> RateRows \cup {None}]
      /\ taxes' \in [Taxes -> TaxRows \cup {None}]
  <2>1. /\ zones' = [z \in Zones |-> zones'[z]]
        /\ rates' = [r \in Rates |-> rates'[r]]
        /\ taxes' = [t \in Taxes |-> taxes'[t]]
    BY DEF Seed
  <2> QED BY <1>1, <1>2, <1>3, <2>1
<1>6. \A r \in Rates : rates'[r] # None => zones'[RateZone[r]] # None
  BY <1>1, <1>2, PricingAssumption DEF PricingAssumption, PricingTypeOK
<1> QED BY <1>1, <1>3, <1>4, <1>5, <1>6 DEF PricingTypeOK

LEMMA ZoneStep ==
  ASSUME PricingTypeOK, NEW z \in Zones,
         DeleteZone(z) \/ \E form \in ZoneForms : PutZone(z, form)
  PROVE  PricingTypeOK'
<1>1. CASE DeleteZone(z)
  BY <1>1, PricingAssumption DEF PricingAssumption, DeleteZone, Edit, PricingTypeOK
<1>2. ASSUME NEW form \in ZoneForms, PutZone(z, form) PROVE PricingTypeOK'
  <2>1. form \in ZoneRows /\ form # None /\ ZoneValid(form)
    BY <1>2, RowAssumption DEF RowAssumption, PutZone
  <2> QED BY <1>2, <2>1, PricingAssumption DEF PricingAssumption, PutZone, Edit, PricingTypeOK
<1> QED BY <1>1, <1>2

LEMMA RateStep ==
  ASSUME PricingTypeOK, NEW r \in Rates,
         DeleteRate(r) \/ \E form \in RateForms : PutRate(r, form)
  PROVE  PricingTypeOK'
<1>1. CASE DeleteRate(r)
  BY <1>1, PricingAssumption DEF PricingAssumption, DeleteRate, Edit, PricingTypeOK
<1>2. ASSUME NEW form \in RateForms, PutRate(r, form) PROVE PricingTypeOK'
  <2>1. form \in RateRows
    BY RowAssumption DEF RowAssumption
  <2> QED BY <1>2, <2>1, PricingAssumption DEF PricingAssumption, PutRate, Edit, PricingTypeOK
<1> QED BY <1>1, <1>2

LEMMA TaxStep ==
  ASSUME PricingTypeOK, NEW t \in Taxes,
         DeleteTax(t) \/ \E form \in TaxForms : PutTax(t, form)
  PROVE  PricingTypeOK'
<1>1. CASE DeleteTax(t)
  BY <1>1, PricingAssumption DEF PricingAssumption, DeleteTax, Edit, PricingTypeOK
<1>2. ASSUME NEW form \in TaxForms, PutTax(t, form) PROVE PricingTypeOK'
  <2>1. form \in TaxRows
    BY RowAssumption DEF RowAssumption
  <2> QED BY <1>2, <2>1, PricingAssumption DEF PricingAssumption, PutTax, Edit, PricingTypeOK
<1> QED BY <1>1, <1>2

LEMMA CodeStep ==
  ASSUME PricingTypeOK, DeleteCode \/ CodeLapses \/ \E form \in CodeForms : PutCode(form)
  PROVE  PricingTypeOK'
<1>1. CASE DeleteCode
  BY <1>1, PricingAssumption DEF PricingAssumption, DeleteCode, Edit, PricingTypeOK
<1>2. CASE CodeLapses
  BY <1>2 DEF CodeLapses, PricingTypeOK, CodeRows, CodeValid
<1>3. ASSUME NEW form \in CodeForms, PutCode(form) PROVE PricingTypeOK'
  <2>1. form \in CodeRows
    BY RowAssumption DEF RowAssumption
  <2> QED BY <1>3, <2>1, PricingAssumption DEF PricingAssumption, PutCode, Edit, PricingTypeOK
<1> QED BY <1>1, <1>2, <1>3

(* Whatever staff and seeding do, and in whatever order, every row is valid *)
(* and every shipping rate has its zone.                                   *)
THEOREM PricingTyping == Spec => []PricingTypeOK
<1>1. Init => PricingTypeOK
  BY PricingAssumption DEF PricingAssumption, Init, PricingTypeOK
<1>2. PricingTypeOK /\ [Next]_vars => PricingTypeOK'
  <2>1. PricingTypeOK /\ UNCHANGED vars => PricingTypeOK'
    BY DEF vars, PricingTypeOK
  <2> QED BY <2>1, SeedStep, ZoneStep, RateStep, TaxStep, CodeStep DEF Next
<1> QED BY <1>1, <1>2, PTL DEF Spec

-----------------------------------------------------------------------------
(* The choice among the rows.                                              *)

(* Every set of natural numbers has a least one.                           *)
LEMMA LeastNumber ==
  ASSUME NEW S, S \subseteq Nat, S # {}
  PROVE  \E n \in S : \A m \in S : n <= m
<1> DEFINE R == OpToRel(<, Nat)
<1>1. IsWellFoundedOn(R, Nat)
  BY NatLessThanWellFounded
<1>2. \A x, y \in Nat : <<x, y>> \in R <=> x < y
  BY DEF OpToRel
<1> HIDE DEF R
<1>3. PICK n \in S : \A m \in S : ~(<<m, n>> \in R)
  BY <1>1, WFMin
<1>4. ASSUME NEW m \in S PROVE n <= m
  <2>1. n \in Nat /\ m \in Nat /\ ~(m < n)
    BY <1>2, <1>3
  <2> QED BY <2>1
<1> QED BY <1>4

(* The first of some numbers is one of them, and no larger than any, if     *)
(* none is below a bound.                                                  *)
LEMMA FirstIsLeast ==
  ASSUME NEW low \in Int, NEW S, \A n \in S : n \in Int /\ low <= n, S # {}
  PROVE  First(S) \in S /\ \A m \in S : First(S) <= m
<1> DEFINE T == {n - low : n \in S}
<1>1. T \subseteq Nat /\ T # {}
  OBVIOUS
<1>2. PICK t \in T : \A u \in T : t <= u
  BY <1>1, LeastNumber
<1>3. PICK n \in S : t = n - low
  OBVIOUS
<1>4. ASSUME NEW m \in S PROVE n <= m
  <2>1. t <= m - low
    BY <1>2
  <2> QED BY <1>3, <2>1
<1> QED BY <1>4 DEF First

LEMMA FirstOfRows ==
  ASSUME NEW S, S \subseteq Nat, S # {}
  PROVE  First(S) \in S
<1> DEFINE low == 0
<1>1. low \in Int /\ \A n \in S : n \in Int /\ low <= n
  OBVIOUS
<1> HIDE DEF low
<1> QED BY <1>1, FirstIsLeast

(* A zone that is found serves the country by name, or by "*" where no zone *)
(* names it.                                                               *)
LEMMA ZoneFound ==
  ASSUME PricingTypeOK, NEW c, ResolveShippingZone(c) # None
  PROVE  /\ c # None
         /\ ResolveShippingZone(c) \in IF Serving(c) # {} THEN Serving(c) ELSE Serving(Anywhere)
<1> DEFINE named == Serving(c)
           wild  == Serving(Anywhere)
<1>1. named \subseteq Nat /\ wild \subseteq Nat
  BY PricingAssumption DEF PricingAssumption, Serving
<1>2. ResolveShippingZone(c) =
        CASE c = None -> None
          [] c # None /\ named # {} -> First(named)
          [] c # None /\ named = {} /\ wild # {} -> First(wild)
          [] OTHER -> None
  BY DEF ResolveShippingZone
<1> HIDE DEF named, wild
<1>3. c # None /\ (named # {} \/ wild # {})
  BY <1>2
<1>4. CASE named # {}
  <2>1. First(named) \in named
    BY <1>1, <1>4, FirstOfRows
  <2> QED BY <1>2, <1>3, <1>4, <2>1 DEF named
<1>5. CASE named = {}
  <2>1. First(wild) \in wild
    BY <1>1, <1>3, <1>5, FirstOfRows
  <2> QED BY <1>2, <1>3, <1>5, <2>1 DEF named, wild
<1> QED BY <1>4, <1>5

(* The shipping price is one of the rates that are available, or nothing.   *)
LEMMA PriceFound ==
  ASSUME PricingTypeOK, NEW c, NEW asked, ~RateRefused(c, asked)
  PROVE  ShippingPrice(c, asked) \in Int
<1> DEFINE available == AvailableRates(c)
           prices == {rates[r].price : r \in available}
<1>1. \A r \in available : rates[r].price \in -MaxAmount..MaxAmount
  BY DEF AvailableRates, PricingTypeOK, RateRows
<1>2. ShippingPrice(c, asked) =
        CASE available = {} -> 0
          [] available # {} /\ asked # None -> rates[asked].price
          [] OTHER -> First(prices)
  BY DEF ShippingPrice
<1>3. available # {} /\ asked # None => asked \in available
  BY DEF RateRefused
<1> HIDE DEF available
<1>4. CASE available = {} \/ asked # None
  BY <1>1, <1>2, <1>3, <1>4, PricingAssumption DEF PricingAssumption
<1>5. CASE available # {} /\ asked = None
  <2>1. \A p \in prices : p \in Int /\ -MaxAmount <= p
    BY <1>1, PricingAssumption DEF PricingAssumption
  <2>2. -MaxAmount \in Int /\ prices # {}
    BY <1>5, PricingAssumption DEF PricingAssumption
  <2> HIDE DEF prices
  <2>3. First(prices) \in prices
    BY <2>1, <2>2, FirstIsLeast
  <2> QED BY <1>2, <1>5, <2>1, <2>3
<1> QED BY <1>4, <1>5

(* The tax rate is that of a row for the state where there is one, or that  *)
(* of a row for the country, or zero.                                      *)
LEMMA TaxFound ==
  ASSUME PricingTypeOK, NEW c, NEW s
  PROVE  LET candidates == {t \in Taxes : AppliesTo(t, c, s)}
             ofState    == {t \in candidates : taxes[t].states # {}}
         IN /\ TaxRate(c, s) \in Nat
            /\ ofState # {} => \E t \in ofState : taxes[t].rate = TaxRate(c, s)
<1> DEFINE candidates == {t \in Taxes : AppliesTo(t, c, s)}
           ofState    == {t \in candidates : taxes[t].states # {}}
<1>1. candidates \subseteq Nat /\ ofState \subseteq candidates
  BY PricingAssumption DEF PricingAssumption
<1>2. \A t \in candidates : taxes[t].rate \in Nat
  <2>1. \A t \in candidates : taxes[t].rate \in 0..Whole
    BY DEF AppliesTo, PricingTypeOK, TaxValid
  <2>2. 0..Whole \subseteq Nat
    BY DEF Whole
  <2> HIDE DEF candidates, ofState
  <2> QED BY <2>1, <2>2
<1>3. TaxRate(c, s) =
        CASE ofState # {} -> taxes[First(ofState)].rate
          [] ofState = {} /\ candidates # {} -> taxes[First(candidates)].rate
          [] OTHER -> 0
  BY DEF TaxRate
<1> HIDE DEF candidates, ofState
<1>4. CASE ofState # {}
  <2>1. First(ofState) \in ofState
    BY <1>1, <1>4, FirstOfRows
  <2>2. taxes[First(ofState)].rate = TaxRate(c, s) /\ First(ofState) \in candidates
    BY <1>1, <1>3, <1>4, <2>1
  <2>3. TaxRate(c, s) \in Nat
    <3> DEFINE t == First(ofState)
    <3>1. t \in candidates /\ taxes[t].rate = TaxRate(c, s)
      BY <2>2
    <3> HIDE DEF t
    <3> QED BY <1>2, <3>1
  <2> QED BY <2>1, <2>2, <2>3 DEF candidates, ofState
<1>5. CASE ofState = {} /\ candidates # {}
  <2>1. First(candidates) \in candidates
    BY <1>1, <1>5, FirstOfRows
  <2>2. taxes[First(candidates)].rate = TaxRate(c, s)
    BY <1>3, <1>5
  <2>3. TaxRate(c, s) \in Nat
    <3> DEFINE t == First(candidates)
    <3>1. t \in candidates /\ taxes[t].rate = TaxRate(c, s)
      BY <2>1, <2>2
    <3> HIDE DEF t
    <3> QED BY <1>2, <3>1
  <2> QED BY <1>5, <2>3 DEF candidates, ofState
<1>6. CASE ofState = {} /\ candidates = {}
  BY <1>3, <1>6 DEF candidates, ofState
<1> QED BY <1>4, <1>5, <1>6

-----------------------------------------------------------------------------
(* The prices.                                                             *)

LEMMA CodeSound ==
  ASSUME PricingTypeOK, NEW q
  PROVE  Sound(IF CodeOf(q) = None THEN NoCode ELSE code)
BY DEF PricingTypeOK, CodeOf, CodeRows, CodeValid, Sound, NoCode

(* What is charged for a request that is accepted.                         *)
LEMMA RequestPriced ==
  ASSUME PricingTypeOK, NEW q \in Requests, Accepted(q)
  PROVE  /\ q.subtotal \in Nat
         /\ ShippingPrice(q.country, q.asked) \in Int
         /\ TaxRate(q.country, q.state) \in Nat
<1>1. q.subtotal \in Nat
  BY PricingAssumption DEF PricingAssumption, Requests
<1>2. ~RateRefused(q.country, q.asked)
  BY DEF Accepted
<1> QED BY <1>1, <1>2, PriceFound, TaxFound

LEMMA AddsUp == PricingTypeOK => TotalsAddUp
<1> SUFFICES ASSUME PricingTypeOK, NEW q \in Requests, Accepted(q)
             PROVE  /\ Price(q).total = q.subtotal - Price(q).discount + Price(q).tax
                                        + NotBelowZero(ShippingPrice(q.country, q.asked))
                    /\ ~q.coded => ProviderTax(q) = Price(q).tax
  BY DEF TotalsAddUp
<1> DEFINE s == q.subtotal
           p == ShippingPrice(q.country, q.asked)
           rate == TaxRate(q.country, q.state)
           given == IF CodeOf(q) = None THEN NoCode ELSE code
<1>1. s \in Nat /\ p \in Int /\ rate \in Nat /\ Sound(given)
  BY RequestPriced, CodeSound
<1>2. Price(q) = Charge(s, p, given, rate)
  BY DEF Price
<1>3. ~q.coded => given = NoCode
  BY DEF CodeOf
<1>4. ProviderTax(q) = TaxOn(s + Price(q).shipping, rate)
  BY DEF ProviderTax
<1> HIDE DEF s, p, rate, given
<1>5. Price(q).total = s - Price(q).discount + Price(q).tax + NotBelowZero(p)
  BY <1>1, <1>2, ChargeAddsUp
<1>6. ASSUME given = NoCode PROVE ProviderTax(q) = Price(q).tax
  <2> DEFINE shipping == NotBelowZero(p - OffShipping(p, NoCode))
  <2>1. OffGoods(s, NoCode) = 0
    BY DEF OffGoods, NoCode
  <2>2. Charge(s, p, NoCode, rate).tax = TaxOn(NotBelowZero(s - 0) + shipping, rate)
    BY <2>1 DEF Charge
  <2>3. Charge(s, p, NoCode, rate).shipping = shipping
    BY DEF Charge
  <2>4. NotBelowZero(s - 0) = s
    BY <1>1 DEF NotBelowZero
  <2> HIDE DEF shipping
  <2> QED BY <1>2, <1>4, <1>6, <2>2, <2>3, <2>4
<1> QED BY <1>3, <1>5, <1>6 DEF s, p

(* In any state that staff and seeding can leave, the total of every request *)
(* a shopper can make is the sum of the lines shown to the cent, and the     *)
(* provider's tax is the one charged.                                       *)
THEOREM LinesAddUp == Spec => []TotalsAddUp
BY PricingTyping, AddsUp, PTL

LEMMA Monotone == PricingTypeOK => PriceMonotone
<1> SUFFICES ASSUME PricingTypeOK, NEW q \in Requests, Accepted(q)
             PROVE  /\ q.coded => Price(q).total <= Price([q EXCEPT !.coded = FALSE]).total
                    /\ \A more \in {m \in Subtotals : m > q.subtotal} :
                         LET r == [q EXCEPT !.subtotal = more]
                         IN Accepted(r) => Price(q).total <= Price(r).total
  BY DEF PriceMonotone
<1> DEFINE s == q.subtotal
           p == ShippingPrice(q.country, q.asked)
           rate == TaxRate(q.country, q.state)
           given == IF CodeOf(q) = None THEN NoCode ELSE code
<1>1. s \in Nat /\ p \in Int /\ rate \in Nat /\ Sound(given)
  BY RequestPriced, CodeSound
<1>2. Price(q) = Charge(s, p, given, rate)
  BY DEF Price
<1>3. Price([q EXCEPT !.coded = FALSE]) = Charge(s, p, NoCode, rate)
  BY DEF Price, CodeOf, Requests
<1>4. ASSUME NEW more \in Subtotals, more > q.subtotal
      PROVE  Price(q).total <= Price([q EXCEPT !.subtotal = more]).total
  <2>1. Price([q EXCEPT !.subtotal = more]) = Charge(more, p, given, rate)
    BY DEF Price, CodeOf, Requests
  <2>2. more \in Nat /\ s <= more
    BY <1>1, <1>4, PricingAssumption DEF PricingAssumption
  <2> HIDE DEF s, p, rate, given
  <2> QED BY <1>1, <1>2, <2>1, <2>2, MoreGoodsCostMore
<1>5. Price(q).total <= Price([q EXCEPT !.coded = FALSE]).total
  <2> HIDE DEF s, p, rate, given
  <2> QED BY <1>1, <1>2, <1>3, CodeSaves
<1> QED BY <1>4, <1>5

(* No code that validation lets through ever makes a cart dearer, and no    *)
(* larger cart is cheaper, whatever rows the shop has.                      *)
THEOREM PricesGrow == Spec => []PriceMonotone
BY PricingTyping, Monotone, PTL

LEMMA Specific == PricingTypeOK => SpecificWins
<1> SUFFICES ASSUME PricingTypeOK, NEW q \in Requests, q.country # None
             PROVE  /\ Serving(q.country) # {} =>
                         \A r \in AvailableRates(q.country) :
                           q.country \in zones[RateZone[r]].countries
                    /\ (\E t \in Taxes : AppliesTo(t, q.country, q.state) /\ taxes[t].states # {}) =>
                         \E t \in Taxes : /\ AppliesTo(t, q.country, q.state)
                                          /\ q.state \in taxes[t].states
                                          /\ taxes[t].rate = TaxRate(q.country, q.state)
  BY DEF SpecificWins
<1> DEFINE c == q.country
           s == q.state
<1>1. ASSUME Serving(c) # {}, NEW r \in AvailableRates(c)
      PROVE  c \in zones[RateZone[r]].countries
  <2>1. RateZone[r] = ResolveShippingZone(c) /\ RateZone[r] # None
    BY PricingAssumption, RowAssumption DEF PricingAssumption, RowAssumption, AvailableRates
  <2>2. RateZone[r] \in Serving(c)
    BY <1>1, <2>1, ZoneFound
  <2> QED BY <2>2 DEF Serving
<1>2. ASSUME NEW t \in Taxes, AppliesTo(t, c, s), taxes[t].states # {}
      PROVE  \E u \in Taxes : AppliesTo(u, c, s) /\ s \in taxes[u].states
                              /\ taxes[u].rate = TaxRate(c, s)
  <2> DEFINE ofState == {u \in {v \in Taxes : AppliesTo(v, c, s)} : taxes[u].states # {}}
  <2>1. \E u \in ofState : taxes[u].rate = TaxRate(c, s)
    BY <1>2, TaxFound
  <2> QED BY <2>1 DEF AppliesTo
<1> QED BY <1>1, <1>2

(* The names of rows never let "*" win over a country, or a country over a  *)
(* state of its own (resolve_shipping_zone, resolve_tax_rate).              *)
THEOREM SpecificFirst == Spec => []SpecificWins
BY PricingTyping, Specific, PTL

-----------------------------------------------------------------------------
(* Edits for other countries.                                              *)

(* The zones that serve a country are the same when none was touched.       *)
LEMMA ZonesUntouched ==
  ASSUME PricingTypeOK, NEW c, Untouched(zones, c)
  PROVE  /\ Serving(c)' = Serving(c)
         /\ Serving(Anywhere)' = Serving(Anywhere)
         /\ ResolveShippingZone(c)' = ResolveShippingZone(c)
<1>1. \A z \in Zones : zones'[z] = zones[z] \/ ~(Concerns(zones[z], c) \/ Concerns(zones'[z], c))
  BY DEF Untouched, PricingTypeOK
<1>2. Serving(c)' = Serving(c) /\ Serving(Anywhere)' = Serving(Anywhere)
  BY <1>1 DEF Serving, Concerns
<1> QED BY <1>2 DEF ResolveShippingZone

LEMMA RatesUntouched ==
  ASSUME PricingTypeOK, NEW c, Untouched(zones, c),
         \A r \in Rates :
           rates'[r] = rates[r] \/ ~(Concerns(zones[RateZone[r]], c) \/ Concerns(zones'[RateZone[r]], c))
  PROVE  /\ AvailableRates(c)' = AvailableRates(c)
         /\ \A r \in AvailableRates(c) : rates'[r] = rates[r]
<1> DEFINE zone == ResolveShippingZone(c)
<1>1. ResolveShippingZone(c)' = zone
  BY ZonesUntouched
<1>2. ASSUME NEW r \in Rates, RateZone[r] = zone PROVE rates'[r] = rates[r]
  <2>1. zone # None
    BY <1>2, PricingAssumption, RowAssumption DEF PricingAssumption, RowAssumption
  <2>2. zone \in Serving(c) \cup Serving(Anywhere)
    BY <2>1, ZoneFound
  <2>3. Concerns(zones[zone], c)
    BY <2>2 DEF Serving, Concerns
  <2> QED BY <1>2, <2>3
<1> QED BY <1>1, <1>2 DEF AvailableRates

LEMMA TaxesUntouched ==
  ASSUME PricingTypeOK, NEW c, NEW s, Untouched(taxes, c)
  PROVE  TaxRate(c, s)' = TaxRate(c, s)
<1> DEFINE candidates == {t \in Taxes : AppliesTo(t, c, s)}
           ofState    == {t \in candidates : taxes[t].states # {}}
<1>1. \A t \in Taxes : taxes'[t] = taxes[t] \/ ~(Concerns(taxes[t], c) \/ Concerns(taxes'[t], c))
  BY DEF Untouched, PricingTypeOK
<1>2. \A t \in Taxes : /\ AppliesTo(t, c, s) => taxes'[t] = taxes[t]
                       /\ AppliesTo(t, c, s)' => taxes'[t] = taxes[t]
  BY <1>1 DEF AppliesTo, Concerns
<1>3. candidates' = candidates
  BY <1>2 DEF AppliesTo
<1>4. ofState' = ofState
  BY <1>2, <1>3
<1>5. candidates \subseteq Nat /\ ofState \subseteq candidates
  BY PricingAssumption DEF PricingAssumption
<1>6. \A t \in candidates : taxes'[t] = taxes[t]
  BY <1>2
<1>7. TaxRate(c, s) =
        CASE ofState # {} -> taxes[First(ofState)].rate
          [] ofState = {} /\ candidates # {} -> taxes[First(candidates)].rate
          [] OTHER -> 0
  BY DEF TaxRate
<1>8. TaxRate(c, s)' =
        CASE ofState' # {} -> taxes'[First(ofState')].rate
          [] ofState' = {} /\ candidates' # {} -> taxes'[First(candidates')].rate
          [] OTHER -> 0
  BY DEF TaxRate, First
<1> HIDE DEF candidates, ofState
<1>9. /\ ofState # {} => First(ofState) \in ofState
      /\ candidates # {} => First(candidates) \in candidates
  BY <1>5, FirstOfRows
<1>10. CASE ofState # {}
  BY <1>3, <1>4, <1>5, <1>6, <1>7, <1>8, <1>9, <1>10
<1>11. CASE ofState = {} /\ candidates # {}
  BY <1>3, <1>4, <1>6, <1>7, <1>8, <1>9, <1>11
<1>12. CASE ofState = {} /\ candidates = {}
  BY <1>3, <1>4, <1>7, <1>8, <1>12
<1> QED BY <1>10, <1>11, <1>12

(* A step that changes only rows of other countries changes neither what is *)
(* on offer nor what it costs nor the tax for this one.                     *)
THEOREM OthersUnchanged == Spec => EditsAreLocal
<1> DEFINE Local ==
      \A c \in Countries :
        /\ Untouched(zones, c) /\ Untouched(taxes, c)
        /\ \A r \in Rates :
             rates'[r] = rates[r] \/ ~(Concerns(zones[RateZone[r]], c) \/ Concerns(zones'[RateZone[r]], c))
        => /\ \A asked \in Rates \cup {None} :
                ~RateRefused(c, asked) =>
                  ~RateRefused(c, asked)' /\ ShippingPrice(c, asked)' = ShippingPrice(c, asked)
           /\ \A s \in States \cup {None} : TaxRate(c, s)' = TaxRate(c, s)
<1>1. PricingTypeOK => Local
  <2> SUFFICES ASSUME PricingTypeOK, NEW c \in Countries,
                      Untouched(zones, c), Untouched(taxes, c),
                      \A r \in Rates : rates'[r] = rates[r]
                        \/ ~(Concerns(zones[RateZone[r]], c) \/ Concerns(zones'[RateZone[r]], c))
               PROVE  /\ \A asked \in Rates \cup {None} :
                           ~RateRefused(c, asked) =>
                             /\ ~RateRefused(c, asked)'
                             /\ ShippingPrice(c, asked)' = ShippingPrice(c, asked)
                      /\ \A s \in States \cup {None} : TaxRate(c, s)' = TaxRate(c, s)
    OBVIOUS
  <2>1. /\ AvailableRates(c)' = AvailableRates(c)
        /\ \A r \in AvailableRates(c) : rates'[r] = rates[r]
    BY RatesUntouched
  <2>2. ASSUME NEW asked, ~RateRefused(c, asked)
        PROVE  ~RateRefused(c, asked)' /\ ShippingPrice(c, asked)' = ShippingPrice(c, asked)
    <3>1. ~RateRefused(c, asked)'
      BY <2>1, <2>2 DEF RateRefused
    <3>2. {rates[r].price : r \in AvailableRates(c)} = {rates'[r].price : r \in AvailableRates(c)}
      BY <2>1
    <3>3. AvailableRates(c) # {} /\ asked # None => asked \in AvailableRates(c)
      BY <2>2 DEF RateRefused
    <3>4. asked # None /\ AvailableRates(c) # {} => rates'[asked] = rates[asked]
      BY <2>1, <3>3
    <3>5. First({rates'[r].price : r \in AvailableRates(c)}) = First({rates[r].price : r \in AvailableRates(c)})
      BY <3>2
    <3>6. ShippingPrice(c, asked)' =
            CASE AvailableRates(c) = {} -> 0
              [] AvailableRates(c) # {} /\ asked # None -> rates'[asked].price
              [] OTHER -> First({rates'[r].price : r \in AvailableRates(c)})
      BY <2>1 DEF ShippingPrice, First
    <3>7. ShippingPrice(c, asked)' = ShippingPrice(c, asked)
      BY <3>4, <3>5, <3>6 DEF ShippingPrice
    <3> QED BY <3>1, <3>7
  <2>3. \A s \in States \cup {None} : TaxRate(c, s)' = TaxRate(c, s)
    BY TaxesUntouched
  <2> QED BY <2>2, <2>3
<1> HIDE DEF Local
<1>2. PricingTypeOK /\ [Next]_vars => [Local]_vars
  BY <1>1
<1>3. Spec => [][Local]_vars
  BY <1>2, PricingTyping, PTL DEF Spec
<1> QED BY <1>3 DEF EditsAreLocal, Local
=============================================================================
