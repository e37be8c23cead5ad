SPECIFICATION FairSpec
CONSTANTS
  p1 = p1  p2 = p2
  Pipelines = {p1, p2}
  PeriodsOf <- TwoAndOne
  MaxChanges = 4
  None = None
INVARIANTS
  ScheduledForPeriod
  DueScheduled
PROPERTIES
  ScheduledRuns
CHECK_DEADLOCK FALSE
