SPECIFICATION Spec
CONSTANTS
  m1 = m1
  m2 = m2
  NoItem = NoItem
  b1 = b1
  b2 = b2
  Items = {m1, m2}
  Backends = {b1, b2}
  Scripts <- AllScripts
  BufferLimit = 1
  Overlap = 3
  IdleHealth = TRUE
  Faults = {"crash", "redelivery", "sql"}
  MaxFaults = 1
SYMMETRY Symmetry
INVARIANT TranscriptIsPrefix
INVARIANT WholeAtRest
INVARIANT CursorIsProgress
PROPERTY CursorMonotone
PROPERTY NothingTakenBack
CHECK_DEADLOCK FALSE
