SPECIFICATION FairSpec
CONSTANTS
  Nodes = {n1, n2}
  MaxVersion = 2
  Long = {1}
  MaxFailures = 2
INVARIANTS
  AppliedInOrder
  NeverTerminal
PROPERTIES
  ReadYourWrites
  Converges
CHECK_DEADLOCK FALSE
