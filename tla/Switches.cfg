SPECIFICATION Spec
CONSTANTS
  Handlers <- MCHandlers
  HState <- MCState
  Ms <- MCMs
  Waiters = {"w"}
  Wrapped = {}
  Window = 2
  MaxTime = 4
  MaxLag = 1
  Unusual = {}
INVARIANTS TypeOK CalledRightly NoneForgotten EventsMatchState
CHECK_DEADLOCK FALSE
