SPECIFICATION Spec
CONSTANTS
  e1 = e1  e2 = e2  e3 = e3  e4 = e4
  o1 = o1  o2 = o2  o3 = o3
  u1 = u1  u2 = u2
  Events = {e1, e2, e3, e4}
  Orderings = {o1, o2, o3}
  Users = {u1, u2}
  OrderingOf <- OneEach
  UserOf <- TwoGroups
  Iterators = {i1, i2}
  MaxQueuedEvents = 2
  Marker = Marker
  None = None
ACTION_CONSTRAINT ClosedBeforeLast
SYMMETRY Symmetric
INVARIANTS
  TypeOK
  QueueAccounting
  TakenInOrder
  QueueInOrder
  NoEventLost
  SameUserBatch
PROPERTIES
  ImplementsDelivery
CHECK_DEADLOCK FALSE
