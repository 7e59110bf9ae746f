CONSTANTS
  Ann = Ann
  Bob = Bob
  Timer = Timer
  None = None
  Clients <- MCClients
  Creator = Ann
  MaxVersion = 3
  MaxQueue = 2
  MaxLosses = 1
  MaxFailures = 1
  MaxForeign = 1
  MaxTrouble = 1
SPECIFICATION Spec
INVARIANTS
  TypeOK
  
  EachVersionOnce
CHECK_DEADLOCK FALSE
