SPECIFICATION FairSpec
CONSTANTS
  Device = {speakers}
  Poll = {poll, tick}
  AutoReconnect = FALSE
  MaxRetries = 1
  Moves = {"crash", "pipe"}
  MaxMoves = 4
PROPERTIES ViewConverges
CHECK_DEADLOCK FALSE
