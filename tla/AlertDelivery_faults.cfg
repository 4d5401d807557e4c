\* Two recognitions of one plan and a third setup, through faults and webhook changes.
SPECIFICATION Spec
CONSTANTS
  s1 = s1
  s2 = s2
  s3 = s3
  p1 = p1
  p2 = p2
  p3 = p3
  Signals = {s1, s2, s3}
  Plans = {p1, p3}
  Plan <- SharedPlan
  Event <- OwnEvent
  V22 = {s1}
  Opposes <- Unopposed
  Webhooks = {w1, w2}
  NoSignal = NoSignal
  NoHook = NoHook
  MaxFaults = 1
CHECK_DEADLOCK FALSE
INVARIANTS AtMostOneCard UpdatesHold
PROPERTIES ContractHolds
