SPECIFICATION Spec
CONSTANTS
  Countries <- MCCountries
  States = {"TX"}
  Anywhere = "*"
  Zones = {1, 2, 3}
  Taxes = {1, 2, 3}
  Rates <- MCRates
  RateZone <- MCRateZone
  SeedZones <- MCSeedZones
  SeedRates <- MCSeedRates
  SeedTaxes <- MCSeedTaxes
  SeedCode <- MCSeedCode
  ZoneForms <- MCZoneForms
  RateForms <- MCRateForms
  TaxForms <- MCTaxForms
  CodeForms <- MCCodeForms
  Subtotals = {0, 1, 149, 150, 14900}
  None = None
  MaxAmount = 1800
  MaxEdits = 2
INVARIANTS PricingTypeOK TotalsAddUp PriceMonotone SpecificWins
PROPERTIES EditsAreLocal
