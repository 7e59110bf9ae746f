CONSTANTS
  s1 = s1
  s2 = s2
  NoProc = NoProc
  Procs <- MCProcs
  MaxVersion = 2
  MaxEvents = 1
  MaxToken = 2
  MaxCalls = 3
  Modes = {FALSE}
  GracefulClose = FALSE
SPECIFICATION Spec
SYMMETRY Symmetry
INVARIANTS
  TypeOK
  TimedOutWhenLate
  ExecutedIsApplied
  OneHolder
PROPERTIES
  TimeoutEndsItsTurn
  TerminalIsFinal
CHECK_DEADLOCK FALSE
