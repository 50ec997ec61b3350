------------------------------ MODULE Pricing ------------------------------
(***************************************************************************)
(* What a cart costs in one shop: the shipping zones with their rates, the *)
(* tax rates and a discount code, as staff and seeding leave them, and the *)
(* rules that pick among them for a shopper's address.                     *)
(*                                                                         *)
(* Zones and tax rates are numbered in the order of their names, by which  *)
(* the code breaks ties.  A row that is renamed, or a rate that is moved   *)
(* to another zone, is deleted and added.                                  *)
(***************************************************************************)
EXTENDS Money, FiniteSets

CONSTANTS
  Countries, States,
  Anywhere,           \* the country "*"
  Zones, Taxes,       \* the rows there may be, in the order of their names
  Rates, RateZone,    \* the shipping rates, and the zone of each
  SeedZones, SeedRates, SeedTaxes, SeedCode,  \* what seeding creates
  ZoneForms, RateForms, TaxForms, CodeForms,  \* what staff may submit
  Subtotals,          \* of the carts considered
  None,
  MaxAmount,          \* the largest amount a shipping price can hold
  MaxEdits            \* bound: edits by staff

Types == {"percentage", "fixed", "free_shipping"}

\* Rows as the columns can hold them.
ZoneRows == [active : BOOLEAN, countries : SUBSET (Countries \cup {Anywhere})]
RateRows == [active : BOOLEAN, price : -MaxAmount..MaxAmount]
TaxRows  == [active : BOOLEAN, countries : SUBSET (Countries \cup {Anywhere}),
             states : SUBSET States, rate : Int]
CodeRows == [type : Types, value : Int, min : Int, usable : BOOLEAN]

\* What validation asks of a row.
ZoneValid(row) == row.countries # {}
TaxValid(row)  == row.countries # {} /\ row.rate \in 0..Whole
CodeValid(row) == row.value >= 0 /\ (row.type = "percentage" => row.value <= Whole)

ASSUME PricingAssumption ==
  /\ Zones \subseteq Nat /\ Taxes \subseteq Nat
  /\ IsFiniteSet(Zones) /\ IsFiniteSet(Taxes) /\ IsFiniteSet(Rates)
  /\ RateZone \in [Rates -> Zones]
  /\ Anywhere \notin Countries /\ None \notin Countries \cup States \cup Rates
  /\ Subtotals \subseteq Nat
  /\ MaxAmount \in Nat /\ MaxEdits \in Nat

\* None is no row, and what is submitted or seeded fits the columns; what is
\* seeded is valid, and its rates are those of seeded zones.
ASSUME RowAssumption ==
  /\ None \notin Zones
  /\ None \notin ZoneRows /\ None \notin RateRows /\ None \notin TaxRows /\ None \notin CodeRows
  /\ ZoneForms \subseteq ZoneRows /\ RateForms \subseteq RateRows
  /\ TaxForms \subseteq TaxRows /\ CodeForms \subseteq CodeRows
  /\ \A z \in Zones \cap DOMAIN SeedZones :
       SeedZones[z] # {} /\ SeedZones[z] \subseteq Countries \cup {Anywhere}
  /\ \A r \in Rates \cap DOMAIN SeedRates :
       SeedRates[r] \in -MaxAmount..MaxAmount /\ RateZone[r] \in DOMAIN SeedZones
  /\ \A t \in Taxes \cap DOMAIN SeedTaxes : SeedTaxes[t] \in TaxRows /\ TaxValid(SeedTaxes[t])
  /\ SeedCode \in CodeRows /\ CodeValid(SeedCode)

VARIABLES
  zones,  \* [active, countries] or None
  rates,  \* [active, price] or None
  taxes,  \* [active, countries, states, rate] or None
  code,   \* the discount code: [type, value, min, usable] or None
  edits   \* edits by staff so far

vars == <<zones, rates, taxes, code, edits>>

\* A site that has just been created.
Init ==
  /\ zones = [z \in Zones |-> None]
  /\ rates = [r \in Rates |-> None]
  /\ taxes = [t \in Taxes |-> None]
  /\ code = None
  /\ edits = 0

-----------------------------------------------------------------------------
(* Which rows apply.  c is the country of the shipping address and s its   *)
(* state, None where the address has none.                                 *)

First(S) == CHOOSE n \in S : \A m \in S : n <= m

Serving(c) == {z \in Zones : zones[z] # None /\ zones[z].active /\ c \in zones[z].countries}

(* Mutant: the first zone that covers the country, by name or by "*". *)
ResolveShippingZone_FirstMatch(c) ==
  LET serving == Serving(c) \cup Serving(Anywhere)
  IN IF c = None \/ serving = {} THEN None ELSE First(serving)

ResolveShippingZone(c) ==
  LET named == Serving(c)
      wild  == Serving(Anywhere)
  IN CASE c = None -> None
       [] c # None /\ named # {} -> First(named)
       [] c # None /\ named = {} /\ wild # {} -> First(wild)
       [] OTHER -> None

AvailableRates(c) ==
  LET zone == ResolveShippingZone(c)
  IN {r \in Rates : RateZone[r] = zone /\ rates[r] # None /\ rates[r].active}

\* The rate asked for, if it is available; without one asked for, the cheapest.
\* Without any available, none, whatever is asked for.
RateRefused(c, asked) ==
  LET available == AvailableRates(c)
  IN available # {} /\ asked # None /\ asked \notin available

ShippingPrice(c, asked) ==
  LET available == AvailableRates(c)
  IN CASE available = {} -> 0
       [] available # {} /\ asked # None -> rates[asked].price
       [] OTHER -> First({rates[r].price : r \in available})

(* Mutant: a state is enough, whatever its country. *)
AppliesTo_StateAlone(t, c, s) ==
  /\ taxes[t] # None /\ taxes[t].active
  /\ IF taxes[t].states = {} THEN c \in taxes[t].countries ELSE s \in taxes[t].states

AppliesTo(t, c, s) ==
  /\ taxes[t] # None /\ taxes[t].active
  /\ c \in taxes[t].countries
  /\ taxes[t].states = {} \/ s \in taxes[t].states

\* Rates for a state come before those for a country; "*" is no country here.
TaxRate(c, s) ==
  LET candidates == {t \in Taxes : AppliesTo(t, c, s)}
      ofState    == {t \in candidates : taxes[t].states # {}}
  IN CASE ofState # {} -> taxes[First(ofState)].rate
       [] ofState = {} /\ candidates # {} -> taxes[First(candidates)].rate
       [] OTHER -> 0

\* is_valid; a subtotal of zero passes any minimum.
CodeRefused(subtotal) == ~code.usable \/ (subtotal # 0 /\ subtotal < code.min)

\* A shopper's request: the cart, the address, the rate asked for and whether
\* the code is given.  A code the shop does not have is ignored.
Requests ==
  [subtotal : Subtotals, country : Countries \cup {None}, state : States \cup {None},
   asked : Rates \cup {None}, coded : BOOLEAN]

CodeOf(q) == IF q.coded THEN code ELSE None

Accepted(q) ==
  /\ ~RateRefused(q.country, q.asked)
  /\ CodeOf(q) # None => ~CodeRefused(q.subtotal)

Price(q) ==
  Charge(q.subtotal, ShippingPrice(q.country, q.asked),
         IF CodeOf(q) = None THEN NoCode ELSE code, TaxRate(q.country, q.state))

\* The tax that the tax provider computes beside a price without a discount.
ProviderTax(q) == TaxOn(q.subtotal + Price(q).shipping, TaxRate(q.country, q.state))

-----------------------------------------------------------------------------
(* What staff and seeding do.                                               *)

Edit ==
  /\ edits < MaxEdits
  /\ edits' = edits + 1

PutZone(z, form) ==
  /\ ZoneValid(form)
  /\ zones' = [zones EXCEPT ![z] = form]
  /\ Edit /\ UNCHANGED <<rates, taxes, code>>

(* Mutant: no cascade. *)
DeleteZone_RatesKept(z) ==
  /\ zones[z] # None
  /\ zones' = [zones EXCEPT ![z] = None]
  /\ Edit /\ UNCHANGED <<rates, taxes, code>>

DeleteZone(z) ==
  /\ zones[z] # None
  /\ zones' = [zones EXCEPT ![z] = None]
  /\ rates' = [r \in Rates |-> IF RateZone[r] = z THEN None ELSE rates[r]]
  /\ Edit /\ UNCHANGED <<taxes, code>>

\* A price is not validated: it may be negative.
PutRate(r, form) ==
  /\ zones[RateZone[r]] # None
  /\ rates' = [rates EXCEPT ![r] = form]
  /\ Edit /\ UNCHANGED <<zones, taxes, code>>

DeleteRate(r) ==
  /\ rates[r] # None
  /\ rates' = [rates EXCEPT ![r] = None]
  /\ Edit /\ UNCHANGED <<zones, taxes, code>>

PutTax(t, form) ==
  /\ TaxValid(form)
  /\ taxes' = [taxes EXCEPT ![t] = form]
  /\ Edit /\ UNCHANGED <<zones, rates, code>>

DeleteTax(t) ==
  /\ taxes[t] # None
  /\ taxes' = [taxes EXCEPT ![t] = None]
  /\ Edit /\ UNCHANGED <<zones, rates, code>>

(* Mutant: a percentage may be more than 100. *)
PutCode_AnyPercent(form) ==
  /\ form.value >= 0
  /\ code' = form
  /\ Edit /\ UNCHANGED <<zones, rates, taxes>>

PutCode(form) ==
  /\ CodeValid(form)
  /\ code' = form
  /\ Edit /\ UNCHANGED <<zones, rates, taxes>>

DeleteCode ==
  /\ code # None
  /\ code' = None
  /\ Edit /\ UNCHANGED <<zones, rates, taxes>>

\* The code expires, or is used up.
CodeLapses ==
  /\ code # None /\ code.usable
  /\ code' = [code EXCEPT !.usable = FALSE]
  /\ UNCHANGED <<zones, rates, taxes, edits>>

\* The rows of the seed: created where missing; of one that is there, only the
\* countries of a zone are put back.
Seed ==
  /\ zones' = [z \in Zones |->
       CASE z \notin DOMAIN SeedZones -> zones[z]
         [] z \in DOMAIN SeedZones /\ zones[z] = None ->
              [active |-> TRUE, countries |-> SeedZones[z]]
         [] OTHER -> [zones[z] EXCEPT !.countries = SeedZones[z]]]
  /\ rates' = [r \in Rates |->
       IF rates[r] = None /\ r \in DOMAIN SeedRates
       THEN [active |-> TRUE, price |-> SeedRates[r]] ELSE rates[r]]
  /\ taxes' = [t \in Taxes |->
       IF taxes[t] = None /\ t \in DOMAIN SeedTaxes THEN SeedTaxes[t] ELSE taxes[t]]
  /\ code' = IF code = None THEN SeedCode ELSE code
  /\ UNCHANGED edits

Next ==
  \/ \E z \in Zones : DeleteZone(z) \/ \E form \in ZoneForms : PutZone(z, form)
  \/ \E r \in Rates : DeleteRate(r) \/ \E form \in RateForms : PutRate(r, form)
  \/ \E t \in Taxes : DeleteTax(t) \/ \E form \in TaxForms : PutTax(t, form)
  \/ DeleteCode \/ CodeLapses \/ \E form \in CodeForms : PutCode(form)
  \/ Seed

Spec == Init /\ [][Next]_vars

-----------------------------------------------------------------------------
\* The rows have their types, what staff must keep to is kept, and no rate is
\* without its zone.
PricingTypeOK ==
  /\ zones \in [Zones -> ZoneRows \cup {None}]
  /\ rates \in [Rates -> RateRows \cup {None}]
  /\ taxes \in [Taxes -> TaxRows \cup {None}]
  /\ code \in CodeRows \cup {None}
  /\ edits \in 0..MaxEdits
  /\ \A z \in Zones : zones[z] # None => ZoneValid(zones[z])
  /\ \A r \in Rates : rates[r] # None => zones[RateZone[r]] # None
  /\ \A t \in Taxes : taxes[t] # None => TaxValid(taxes[t])
  /\ code # None => CodeValid(code)

\* The total that is charged is what the shopper can add up from the lines
\* shown: goods, less the discount, plus the shipping before the discount, plus
\* the tax.  No lower bound of the code ever hides a discount larger than what
\* it is taken from, and the tax details that the shipping rates endpoint gets
\* from the tax provider are the tax of the price it returns beside them.
TotalsAddUp ==
  \A q \in Requests : Accepted(q) =>
    LET p == Price(q) IN
    /\ p.total = q.subtotal - p.discount + p.tax
                 + NotBelowZero(ShippingPrice(q.country, q.asked))
    /\ ~q.coded => ProviderTax(q) = p.tax

\* A discount code never makes a cart dearer, and goods added to it never make
\* it cheaper with the same code accepted for both, the rounding of discount
\* and tax included.
PriceMonotone ==
  \A q \in Requests : Accepted(q) =>
    /\ q.coded => Price(q).total <= Price([q EXCEPT !.coded = FALSE]).total
    /\ \A more \in {m \in Subtotals : m > q.subtotal} :
         LET r == [q EXCEPT !.subtotal = more]
         IN Accepted(r) => Price(q).total <= Price(r).total

\* A shopper whose country an active zone names is never served by a zone that
\* only covers it by "*", and one in a state with a tax of its own never pays
\* the tax of the country, however the rows are named.
SpecificWins ==
  \A q \in Requests : q.country # None =>
    /\ Serving(q.country) # {} =>
         \A r \in AvailableRates(q.country) : q.country \in zones[RateZone[r]].countries
    /\ (\E t \in Taxes : AppliesTo(t, q.country, q.state) /\ taxes[t].states # {}) =>
         \E t \in Taxes : /\ AppliesTo(t, q.country, q.state)
                          /\ q.state \in taxes[t].states
                          /\ taxes[t].rate = TaxRate(q.country, q.state)

\* What is edited for other countries leaves the shipping and the tax of this
\* one alone: zones and tax rates that name neither the country nor "*", before
\* and after, and the rates of such zones.
Concerns(row, c) == row # None /\ {c, Anywhere} \cap row.countries # {}

Untouched(rows, c) ==
  \A n \in DOMAIN rows : rows'[n] = rows[n] \/ ~(Concerns(rows[n], c) \/ Concerns(rows'[n], c))

EditsAreLocal ==
  [][\A c \in Countries :
       /\ Untouched(zones, c) /\ Untouched(taxes, c)
       /\ \A r \in Rates :
            rates'[r] = rates[r] \/ ~(Concerns(zones[RateZone[r]], c) \/ Concerns(zones'[RateZone[r]], c))
       => /\ \A asked \in Rates \cup {None} :
               ~RateRefused(c, asked) =>
                 ~RateRefused(c, asked)' /\ ShippingPrice(c, asked)' = ShippingPrice(c, asked)
          /\ \A s \in States \cup {None} : TaxRate(c, s)' = TaxRate(c, s)]_vars
=============================================================================
