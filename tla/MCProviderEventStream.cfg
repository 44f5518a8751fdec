SPECIFICATION Spec
CONSTANTS
  Conns = {c1, c2}
  Capacity = 2
  PruneInterval = 1
  PruneBatch = 1
  PageLimit = 1
  QueueLimit = 1
  WireCapacity = 1
  MaxCursor = 3
  MaxFaults = 1
INVARIANTS TypeOK NoSilentGap NoDormantListener
SYMMETRY ConnSymmetry
CHECK_DEADLOCK FALSE
