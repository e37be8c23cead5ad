SPECIFICATION Spec
CONSTANTS
  e1 = e1  e2 = e2  e3 = e3  e4 = e4
  o1 = o1  o2 = o2  o3 = o3
  u1 = u1  u2 = u2
  Events = {e1, e2, e3}
  Orderings = {o1}
  Users = {u1}
  OrderingOf <- OneOrdering
  UserOf <- OneUser
  Iterators = {i1, i2}
  MaxQueuedEvents = 1
  Marker = Marker
  None = None
INVARIANTS
  NoEventLost
CHECK_DEADLOCK FALSE
