SPECIFICATION FairSpec
CONSTANTS
  MaxAutoRestarts = 1
  Task = {"poll", "reconnect"}
  Connector = {"poll", "init"}
  MaxCalls = 3
  MaxPipes = 2
INVARIANTS TypeOK EngineIsHeld StopIsFinal AnswersMatch
PROPERTIES EveryCallReturns ExitCompletes CrashRepaired
CHECK_DEADLOCK FALSE
