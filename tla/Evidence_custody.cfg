\* Two segments, two tasks that maintain, one fault; and the four systems beside.
SPECIFICATION PartsSpec
CONSTANTS
  Segments = 2
  Zips = 3
  Maintainers = {m1, m2}
  Reader = reader
  Nobody = nobody
  Dead = dead
  MaxFaults = 1
  Decision = 3
  Fill = 1
  Horizon = 2
  Warm = 2
  Stale = 2
  Grace = 1
  MaxNow = 6
  MaxLost = 1
  MaxHarm = 1
  Trades = 3
  Days = 3
  DayLen = 2
  Decides = 1
  Over = 4
  Young = 2
  Page = 2
  MaxSkips = 1
  Kinds <- EveryKind
  Minutes = 3
  Deadlines = {6}
  Window = 3
  Decay = 5
  Delay = 1
  Limit = 2
  MaxHoles = 1
  Venue = {binance, bybit}
  Symbol = {btc}
  FirstVenue = bybit
  Capacity = 1
  MaxSetups = 2
  MaxFails = 1
  None = none
CHECK_DEADLOCK FALSE
INVARIANTS EvidenceKept ReaderKeepsList RebuiltIsTrue RecoveredWhole HonestLabel HistoryKept
