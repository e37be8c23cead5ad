SPECIFICATION Spec
CONSTANTS
  p1 = p1  p2 = p2
  Pipelines = {p1, p2}
  MaxMessages = 3
  DestinationsOf <- FirstForBoth
  MinQueuedEventSize = 1
  MaxQueues = 2
  MaxUpdates = 1
  Transforms = {g1, g2}
  None = None
INVARIANT
  StillTransformed
CHECK_DEADLOCK FALSE
