\* A queue of three, segments of two, shedding before overflow, three faults;
\* and one stream of another venue: three updates, one trade, two faults.
SPECIFICATION PartsFairSpec
CONSTANTS
  QueueSize = 3
  ByteLimit = 4
  SegmentRows = 2
  MaxOffers = 6
  MaxFaults = 3
  Venues <- BothVenues
  MaxUpdates = 3
  MaxTrades = 1
  Lag = 1
  MaxHurts = 2
CHECK_DEADLOCK FALSE
INVARIANTS NothingLostSilently InSequence
PROPERTIES JournalHolds RowsSettle Released
