SPECIFICATION FairSpec
CONSTANTS
  Handle = {h1}
  NoHandle = NoHandle
  Chunks = {}
  MaxMessage = 2
  MaxClients = 1
  MaxInput = 0
  Failures = FALSE
PROPERTY StopReturns
CHECK_DEADLOCK FALSE
