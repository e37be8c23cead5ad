SPECIFICATION FairSpec
CONSTANTS
  e1 = e1  e2 = e2  e3 = e3  e4 = e4
  o1 = o1  o2 = o2  o3 = o3
  u1 = u1  u2 = u2
  Events = {e1, e2, e3, e4}
  Orderings = {o1, o2}
  Users = {u1, u2}
  OrderingOf <- ThreeAndOne
  UserOf <- TwoUsers
  Iterators = {i1}
  MaxQueuedEvents = 1
  Marker = Marker
  None = None
ACTION_CONSTRAINT CreatedInTurn
PROPERTIES
  EventuallyFinalized
  CloseTerminates
CHECK_DEADLOCK FALSE
