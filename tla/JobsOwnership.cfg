CONSTANTS
  Job = {j1, j2}
  Pid = {p1, p2}
  Launcher = {l1, l2}
  None = none
  MaxAuto = 1
  MaxProgress = 1
  MaxHelp = 1
  Modes = {"manual"}
  Legacy = {j2}
  Retention = TRUE
SPECIFICATION Spec
SYMMETRY SafetySymmetry
INVARIANTS
  WorkNamesItsOwner
PROPERTIES
  KeepsContract
CHECK_DEADLOCK FALSE
