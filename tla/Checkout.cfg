SPECIFICATION Spec
CONSTANTS
  s1 = s1  s2 = s2  c1 = c1  c2 = c2
  t1 = t1  t2 = t2
  k1 = k1  k2 = k2  v1 = v1  v2 = v2
  Sessions = {s1}
  Threads = {t1, t2}
  Carts = {c1}
  OwnerOf <- MCOwnerOne
  Checkouts = {k1, k2}
  Variants = {v1, v2}
  Tracked = {v1, v2}
  Backorder = {v2}
  Stock <- MCStockTight
  MaxQty = 1
  MaxUses = 1
SYMMETRY Ids
INVARIANTS ReservedOnHand OneOrderPerCheckout ReservedIsSum StockConserved PricedLinesReserved
PROPERTIES ImplementsClaims
CHECK_DEADLOCK FALSE
