SPECIFICATION FairSpec
CONSTANTS
  back = back
  clear = clear
  Ops = {back, clear}
  TargetOf <- MCTargetOf
  InitialTurns = 2
  MaxTurns = 3
  MaxControls = 3
  MaxLate = 1
  MaxFaults = 1
INVARIANT OriginalKept
INVARIANT TranscriptFollows
INVARIANT NothingResurrected
INVARIANT QueryOnCursor
PROPERTY RefinesHistory
PROPERTY RequestsSettle
CHECK_DEADLOCK FALSE
