SPECIFICATION FairSpec
CONSTANTS
  m1 = m1
  m2 = m2
  c1 = c1
  c2 = c2
  Mode = {m1, m2}
  AsyncMode = {m1}
  Caller = {c1}
  MaxStarts = 2
  EarlyStart = {}
  EarlyStop = {m1}
  LateControl = {}
  SharedQueue = {m2}
  Lost = {m2}
INVARIANTS TypeOK ActiveIsEquipped NothingLeftBehind CodeOnlyInMode AnsweredAfterStop
PROPERTIES RequestsEnd
CHECK_DEADLOCK FALSE
