SPECIFICATION SettlementSpec
CONSTANTS
  A = A
  B = B
  C = C
  D = D
  Players = {A, B, C, D}
  Members = {A, B, C, D}
  NoPlayer = NoPlayer
  Admin = Admin
  System = System
  FirstOwner = NoPlayer
  MaxPlayers = 4
  TotalRounds = 2
  PiaoMode = "strong"
  DeadlineEnabled = FALSE
  MaxZeng = 1
  MaxFlowers = 10
  MaxDelta = 0
  Busy = {A}
  Hands <- MCHands
  Facts <- MCFacts
  Ids = {s1, s2}
  Config <- MCConfig
  NoVersion = NoVersion
  MaxScored = 2
  MaxCommands = 3
INVARIANTS
  SettledOnce
  EngineAgreesWithRoom
PROPERTIES
  SettledAsRuled
SYMMETRY MCSymmetry
CHECK_DEADLOCK FALSE
