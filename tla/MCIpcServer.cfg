SPECIFICATION FairSpec
CONSTANTS
  Handle = {h1, h2}
  NoHandle = NoHandle
  Chunks <- MCChunks
  MaxMessage = 2
  MaxClients = 2
  MaxInput = 3
  Failures = TRUE
INVARIANTS TypeOK OneCloser NothingLeft ShutdownIsLast BufferBounded
PROPERTY ShutdownCompletes
CHECK_DEADLOCK FALSE
