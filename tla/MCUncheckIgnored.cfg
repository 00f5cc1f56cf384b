SPECIFICATION FairSpec
CONSTANTS
  Device = {speakers}
  Poll = {poll}
  AutoReconnect = TRUE
  MaxRetries = 3
  Moves = {"box"}
  MaxMoves = 1
PROPERTIES UncheckDrops
CHECK_DEADLOCK FALSE
