SPECIFICATION FairSpec
CONSTANTS
  Conns = {c1}
  Capacity = 2
  PruneInterval = 1
  PruneBatch = 1
  PageLimit = 1
  QueueLimit = 1
  WireCapacity = 1
  MaxCursor = 3
  MaxFaults = 2
PROPERTY EventuallyDelivered
PROPERTY RefinesFeed
CHECK_DEADLOCK FALSE
