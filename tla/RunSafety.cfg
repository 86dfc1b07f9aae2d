CONSTANTS
  Count = 5
  Order <- ByPriority
  Asin = {1, 2, 3, 4, 5}
  Listing <- Pages
  Cached = {2, 4}
  PriceCached = {2}
  Ranked = {1, 3, 4, 5}
  Sellable = {1, 2, 3, 5}
  FeeCached = {1, 3}
  Batch = 2
  Troubles = {"death", "incomplete", "transient", "outage", "pause", "finalizer", "preparation"}
  MaxTrouble = 7
SPECIFICATION FairSpec
INVARIANTS
  TypeOK
  WorkbookWhole
  CatalogWhole
  RotationCatchesUp
  AskedOnce
  PhasesWhole
PROPERTIES
  SettledFeeKept
  RunComputedUnlessPaused
CHECK_DEADLOCK FALSE
