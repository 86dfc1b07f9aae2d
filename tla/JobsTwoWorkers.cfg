CONSTANTS
  Job = {j1}
  Pid = {p1, p2}
  Launcher = {l1, l2}
  None = none
  MaxAuto = 1
  MaxProgress = 0
  MaxHelp = 2
  Modes = {"manual"}
  Legacy = {}
  Retention = FALSE
SPECIFICATION Spec
SYMMETRY SafetySymmetry
INVARIANTS
  OneOwner
CHECK_DEADLOCK FALSE
