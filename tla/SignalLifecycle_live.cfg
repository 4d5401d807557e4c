SPECIFICATION FairSpec
CONSTANTS
  BarLen = 2
  TradeStale = 0
  TriggerDeadline = 2
  HoldDeadline = 4
  Horizon = 4
  QuietStart = FALSE
  Prices = {"entry", "target", "stop"}
  MaxHolding = 1
  MaxRestarts = 0
  MaxRaises = 1
CHECK_DEADLOCK FALSE
PROPERTIES Closes
