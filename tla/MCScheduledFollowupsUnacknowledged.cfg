SPECIFICATION FairSpec
CONSTANTS
  daily = daily
  once = once
  Schedules = {daily, once}
  Limit <- MCLimit
  Recurring = {daily}
  MaxRuns = 1
  MaxDisturbances = 0
PROPERTY TakenIsSettled
CHECK_DEADLOCK FALSE
