SPECIFICATION FairSpec
CONSTANTS
  Device = {speakers}
  Poll = {poll}
  AutoReconnect = TRUE
  MaxRetries = 3
  Moves = {"box", "toggle", "tray", "refresh", "setting", "plug", "capture", "crash", "pipe"}
  MaxMoves = 2
INVARIANTS TypeOK
PROPERTIES ViewConverges ReconnectConverges ToggleShowsResult
CHECK_DEADLOCK FALSE
