CONSTANTS
  Count = 5
  Order <- ByPriority
  Asin = {1, 2, 3, 4, 5}
  Listing <- Pages
  Cached = {2, 4}
  PriceCached = {2}
  Ranked = {1, 3, 4, 5}
  Sellable = {1, 2, 3, 5}
  FeeCached = {1, 3}
  Batch = 2
  Troubles = {"death", "preparation"}
  MaxTrouble = 1
SPECIFICATION Spec
INVARIANTS
  PreparedWhole
CHECK_DEADLOCK FALSE
