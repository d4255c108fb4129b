SPECIFICATION BallsSpec
CONSTANTS
  LiveBalls = 3
  SaveBalls = 1
  MultiBalls = 2
  BallsToLock = 2
  LockCapacity = 2
  Configs <- AllConfigs
  MaxTarget = 4
  MaxExcess = 1
  Irregular = {}
INVARIANTS BallsTypeOK InPlayMatches
PROPERTIES EachBallStartsClean EndsAndGoesOn
