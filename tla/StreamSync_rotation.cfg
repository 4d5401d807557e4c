SPECIFICATION FairSpec
CONSTANTS
  s1 = s1
  s2 = s2
  Syms = {s1, s2}
  Moving = {s1}
  MaxTrades = 2
  MaxDepth = 1
  TapeLen = 1
  MaxClock = 2
  MaxSelects = 2
  MaxFaults = 1
CHECK_DEADLOCK FALSE
INVARIANTS BookExact CoverageHonest
PROPERTIES Resync
