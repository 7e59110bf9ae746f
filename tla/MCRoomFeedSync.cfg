CONSTANTS
  Ann = Ann
  Bob = Bob
  Timer = Timer
  None = None
  Clients <- MCClients
  Creator = Ann
  MaxVersion = 1
  MaxQueue = 2
  MaxLosses = 0
  MaxFailures = 0
  MaxForeign = 0
  MaxTrouble = 0
SPECIFICATION Spec
PROPERTY SyncEnds
CHECK_DEADLOCK FALSE
