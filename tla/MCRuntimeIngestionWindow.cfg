SPECIFICATION StreamedSpec
CONSTANTS
  m1 = m1
  m2 = m2
  NoItem = NoItem
  b1 = b1
  Items = {m1}
  Backends = {b1}
  Scripts <- LongMessage
  BufferLimit = 2
  Overlap = 1
  IdleHealth = FALSE
  Faults = {"crash"}
  MaxFaults = 1
INVARIANT NoDeltaTwice
CHECK_DEADLOCK FALSE
