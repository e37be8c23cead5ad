SPECIFICATION FairSpec
CONSTANTS
  Nodes = {n1, n2}
  MaxRuns = 2
  MaxEvents = 2
  None = None
INVARIANTS
  ExecutedByOne
  NotGivenUp
PROPERTIES
  EndedOnce
  
CHECK_DEADLOCK FALSE
