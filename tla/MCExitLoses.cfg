SPECIFICATION Spec
CONSTANTS
  Device = {speakers}
  Poll = {poll}
  AutoReconnect = TRUE
  MaxRetries = 1
  Moves = {}
  MaxMoves = 0
INVARIANTS SavedIsChosen
CHECK_DEADLOCK FALSE
