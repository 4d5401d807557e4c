\* Two paths; the market of one of them is down.
SPECIFICATION FairSpec
CONSTANTS
  Parent = {a, c}
  Market = {m1, m2}
  Down = {m2}
  PathsOf <- Paths
  Limit = 1
  Picked = 2
  Groups = 1
  MaxLeft = 1
  None = None
  a = a
  c = c
  m1 = m1
  m2 = m2
CHECK_DEADLOCK FALSE
PROPERTIES NeitherStarves
