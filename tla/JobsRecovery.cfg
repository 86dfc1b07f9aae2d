CONSTANTS
  Job = {j1}
  Pid = {p1, p2}
  Launcher = {l1}
  None = none
  MaxAuto = 2
  MaxProgress = 0
  MaxHelp = 1
  Modes = {"manual", "auto", "storage", "export"}
  Legacy = {}
  Retention = FALSE
SPECIFICATION FairSpec
INVARIANTS
  TypeOK
  WorkNamesItsOwner
PROPERTIES
  RetryableRetried
  DeadOwnerFreed
CHECK_DEADLOCK FALSE
