\* Two opposing setups without faults, with fairness.
SPECIFICATION FairSpec
CONSTANTS
  s1 = s1
  s2 = s2
  s3 = s3
  p1 = p1
  p2 = p2
  p3 = p3
  Signals = {s1, s2}
  Plans = {p1, p2}
  Plan <- OwnPlan
  Event <- OwnEvent
  V22 = {s1}
  Opposes <- Opposed12
  Webhooks = {w1}
  NoSignal = NoSignal
  NoHook = NoHook
  MaxFaults = 0
CHECK_DEADLOCK FALSE
INVARIANTS LedgersAgree
PROPERTIES NotStranded CloseIsSeen
