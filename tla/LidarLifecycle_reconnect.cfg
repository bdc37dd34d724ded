SPECIFICATION Spec
CONSTANTS
  Main = m
  Check = c
  ContinueLive = TRUE
  StopAnyTime = FALSE
  MaxPackets = 2
INVARIANTS
  SurvivesFatalError
CHECK_DEADLOCK FALSE
