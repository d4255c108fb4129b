SPECIFICATION Spec
CONSTANTS
  q1 = q1
  q2 = q2
  b1 = b1
  r1 = r1
  h1 = h1
  h2 = h2
  h3 = h3
  e1 = e1
  f1 = f1
  v1 = v1
  v2 = v2
  Posting <- DispatchPosting
  WithCallback <- DispatchPosting
  QueueEvents = {}
  BooleanEvents = {b1}
  RelayEvents = {r1}
  Event = {e1}
  EventOf <- MCEventOf
  Handler <- MCHandler
  Priority <- MCPriority
  Facility = {f1}
  FacilityOf <- MCFacilityOf
  Value = {v1, v2}
  OwnValue <- SomeOwnValue
  Unusual = {}
INVARIANTS TypeOK CalledInOrder
CHECK_DEADLOCK FALSE
