SPECIFICATION FairSpec
CONSTANTS
  daily = daily
  once = once
  Schedules = {daily, once}
  Limit <- MCLimit
  Recurring = {daily}
  MaxRuns = 2
  MaxDisturbances = 2
INVARIANT TypeOK
INVARIANT OneAdmitted
INVARIANT LimitKept
PROPERTY OutcomesAreFinal
PROPERTY RefinesGrants
PROPERTY AdmittedIsSettled
CHECK_DEADLOCK FALSE
