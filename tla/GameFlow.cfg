SPECIFICATION FairSpec
CONSTANTS
  MaxPlayers = 3
  BallsPerGame = 2
  KnownBalls = 2
  Requests = 2
  MaxLuck = 2
  WaitForEmpty = TRUE
  Unusual = {}
INVARIANTS TypeOK PlayersWithinMax TurnsInOrder EverybodyPlayed BallsCounted
PROPERTIES GameEnds
CHECK_DEADLOCK FALSE
