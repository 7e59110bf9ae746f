CONSTANTS
  s1 = s1
  s2 = s2
  NoProc = NoProc
  Procs <- MCProcs
  MaxVersion = 2
  MaxEvents = 1
  MaxToken = 2
  MaxCalls = 3
  Modes = {TRUE}
  GracefulClose = FALSE
SPECIFICATION Spec
PROPERTY TurnEnds
CHECK_DEADLOCK FALSE
