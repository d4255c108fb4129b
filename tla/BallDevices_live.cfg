SPECIFICATION FairSpec
CONSTANTS
  Last = 2
  Capacity <- MCCapacity
  Balls = 1
  ByEvent = {}
  MaxMishaps = 1
  MaxWanted = 1
  Unusual = {}
INVARIANTS NoSleepWithRoom
PROPERTIES EjectsEnd
CHECK_DEADLOCK FALSE
