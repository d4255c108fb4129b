SPECIFICATION Spec
CONSTANTS
  PerGroup = 2
  HoldTime = 2
  ReleaseTime = 1
  MaxOffset = 1
  MaxTime = 8
  ModeEnds = "quiet"
INVARIANTS QuietStateIsTrue
PROPERTIES BothMeansBoth
CHECK_DEADLOCK FALSE
