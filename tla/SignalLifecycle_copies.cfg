SPECIFICATION FairSpec
CONSTANTS
  BarLen = 3
  TradeStale = 1
  TriggerDeadline = 2
  HoldDeadline = 4
  Horizon = 3
  QuietStart = FALSE
  Prices = {"below", "entry", "target", "stop"}
  MaxHolding = 2
  MaxRestarts = 1
  MaxRaises = 0
CHECK_DEADLOCK FALSE
INVARIANTS NoMissedStop OutcomeIsEarned
