CONSTANTS
  s1 = s1
  s2 = s2
  NoProc = NoProc
  Procs <- MCProcs
  MaxVersion = 2
  MaxEvents = 2
  MaxToken = 3
  MaxCalls = 3
  Modes = {TRUE}
  GracefulClose = FALSE
SPECIFICATION Spec
PROPERTY ArmedTurnEnds
CHECK_DEADLOCK FALSE
