SPECIFICATION AnySpec
CHECK_DEADLOCK FALSE
CONSTANTS
  \* TurnActor
  MaxTurns = 2
  MaxBarges = 1
  MaxTools = 3
  Targets = {"x"}
  MaxIterations = 3
  \* LiveSessions
  Workers = {"w1", "w2"}
  Conns = {"c1", "c2"}
  Callers = {"grace"}
  Faults = {"crash"}
  MaxStarts = 3
INVARIANTS DrivenByOne
PROPERTIES CutOffTurnsDoNothing TurnsAreTakenUp LoneIsLetGo
