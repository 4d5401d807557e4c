SPECIFICATION Spec
CONSTANTS
  Policies = {"v211", "v22"}
  Staged = TRUE
  Short = FALSE
  CandleTicks = 2
  TriggerEnd = 3
  MaxNow = 4
  MaxPauses = 1
  MaxResets = 1
  MaxFaults = 1
CHECK_DEADLOCK FALSE
INVARIANTS DecisionSound
PROPERTIES DecisionFrozen SetupEnds
