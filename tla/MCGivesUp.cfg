SPECIFICATION FairSpec
CONSTANTS
  Device = {speakers}
  Poll = {poll}
  AutoReconnect = TRUE
  MaxRetries = 3
  Moves = {"plug"}
  MaxMoves = 2
PROPERTIES ReaddedWhenBack
CHECK_DEADLOCK FALSE
