SPECIFICATION Spec
CONSTANTS
  s1 = s1  s2 = s2  c1 = c1  c2 = c2
  t1 = t1  t2 = t2
  k1 = k1  k2 = k2  v1 = v1  v2 = v2
  Sessions = {s1, s2}
  Threads = {t1, t2}
  Carts = {c1, c2}
  OwnerOf <- MCOwnerTwo
  Checkouts = {k1, k2}
  Variants = {v1}
  Tracked = {v1}
  Backorder = {}
  Stock <- MCStockOne
  MaxQty = 2
  MaxUses = 1
SYMMETRY CustomersToo
INVARIANTS ExpiredReleases
CHECK_DEADLOCK FALSE
