SPECIFICATION Spec
CONSTANTS
  Policies = {"v22"}
  Staged = FALSE
  Short = FALSE
  CandleTicks = 2
  TriggerEnd = 3
  MaxNow = 4
  MaxPauses = 0
  MaxResets = 0
  MaxFaults = 0
INVARIANTS GateEnforced
CHECK_DEADLOCK FALSE
