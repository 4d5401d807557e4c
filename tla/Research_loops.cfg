\* Two tasks, one length of window; three paths, no market down; two venues; two
\* decisions, four rows, a pass that dies.
SPECIFICATION PartsFairSpec
CONSTANTS
  Task = {scan, refresh}
  Lookback = {1}
  Flight = 2
  Merge = 0
  MaxGaps = 3
  Epoch = 1
  MaxNow = 4
  MaxSaves = 2
  Parent = {a, b, c}
  Market = {m1, m2}
  Down = {}
  PathsOf <- Paths
  SweepLimit = 1
  Picked = 2
  Groups = 1
  MaxLeft = 1
  None = None
  Row = {1, 2}
  Venue <- Venues
  At <- Second
  Need <- Chunks
  Gone = {1}
  Span = {1, 2}
  SpanAt <- Venues
  Refused = {1}
  BatchLimit = 1
  MaxClock = 5
  MaxRows = 4
  MaxDies = 1
  LastDecide = 2
  Stale = 1
  Fill = 1
  Hold = 2
  Margin = 2
  Fresh = 1
  a = a
  b = b
  c = c
  m1 = m1
  m2 = m2
CHECK_DEADLOCK FALSE
INVARIANTS OrdinalAsSaved EnrolledBlind LabelsExact
PROPERTIES Ingested PathsRestored Resolves
