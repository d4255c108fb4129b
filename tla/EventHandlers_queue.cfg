SPECIFICATION FairSpec
CONSTANTS
  q1 = q1
  q2 = q2
  b1 = b1
  r1 = r1
  h1 = h1
  h2 = h2
  h3 = h3
  e1 = e1
  f1 = f1
  v1 = v1
  v2 = v2
  Posting <- QueuePosting
  WithCallback <- QueuePosting
  QueueEvents <- QueuePosting
  BooleanEvents = {}
  RelayEvents = {}
  Event = {e1}
  EventOf <- MCEventOf
  Handler <- PairHandler
  Priority <- PairPriority
  Facility = {}
  FacilityOf <- PairFacilityOf
  Value = {}
  OwnValue <- NoOwnValueOfPair
  Unusual = {}
INVARIANTS AnsweredOnce
PROPERTIES AnswerAfterWaits QueueEventsEnd
CHECK_DEADLOCK FALSE
