CONSTANTS
  r1 = r1
  r2 = r2
  r3 = r3
  Workers = {w1, w2, w3}
  Requests = {r1, r2, r3}
  NoRequest = NoRequest
  Ids = {1, 2, 3}
  IdOf <- MCDistinct
  HasScheduler = TRUE
  Delay = 1
  MinSize = 1
  Sizes = {0, 3}
SPECIFICATION FairSpec
INVARIANTS TypeOK ActiveExact NeverSaturates QueueFits
PROPERTIES BurstBounded ImplementsFrontier Drains
