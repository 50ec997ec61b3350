----------------------------- MODULE MCPricing -----------------------------
(* Pricing for the seeded shop, with a zone and a tax of its own.          *)
EXTENDS Pricing, TLC

MCCountries == {"US", "GB"}

\* 1 is the staff's ("Europe"), 2 International, 3 United States.
MCSeedZones == 2 :> {"GB", Anywhere} @@ 3 :> {"US"}
MCZoneForms ==
  {[active |-> TRUE, countries |-> {"US"}], [active |-> TRUE, countries |-> {Anywhere}],
   [active |-> FALSE, countries |-> {"US", "GB"}], [active |-> TRUE, countries |-> {}]}

MCRates == {"europe", "intl", "standard", "express"}
MCRateZone == "europe" :> 1 @@ "intl" :> 2 @@ "standard" :> 3 @@ "express" :> 3
MCSeedRates == "intl" :> 1600 @@ "standard" :> 750 @@ "express" :> 1800
MCRateForms ==
  {[active |-> TRUE, price |-> p] : p \in {-100, 0, 333}}
  \cup {[active |-> FALSE, price |-> 333]}

\* 1 is the staff's ("Texas"), 2 UK VAT, 3 US Sales Tax.
MCSeedTaxes ==
  2 :> [active |-> TRUE, countries |-> {"GB"}, states |-> {}, rate |-> 2000]
  @@ 3 :> [active |-> TRUE, countries |-> {"US"}, states |-> {}, rate |-> 825]
MCTaxForms ==
  {[active |-> TRUE, countries |-> {"US"}, states |-> {"TX"}, rate |-> 333],
   [active |-> TRUE, countries |-> {"US", "GB"}, states |-> {}, rate |-> 10000],
   [active |-> FALSE, countries |-> {"US"}, states |-> {"TX"}, rate |-> 5000],
   [active |-> TRUE, countries |-> {"US"}, states |-> {}, rate |-> 10001]}

\* SAVE10; staff also try a percentage of more than 100.
MCSeedCode == [type |-> "percentage", value |-> 1000, min |-> 0, usable |-> TRUE]
MCCodeForms ==
  {[type |-> "fixed", value |-> v, min |-> m, usable |-> TRUE] : v \in {-50, 150}, m \in {0, 150}}
  \cup {[type |-> "percentage", value |-> v, min |-> 0, usable |-> TRUE] : v \in {5000, 10000, 15000}}
  \cup {[type |-> "free_shipping", value |-> 0, min |-> 150, usable |-> TRUE]}
=============================================================================
