CONSTANTS
  p1 = p1
  p2 = p2
  p3 = p3
  NoPlayer = NoPlayer
  Admin = Admin
  System = System
  Players <- MCPlayers
  Members <- MCPlayers
  FirstOwner = NoPlayer
  MaxPlayers = 2
  TotalRounds = 1
  PiaoMode = "strong"
  DeadlineEnabled = TRUE
  MaxZeng = 0
  MaxFlowers = 0
  MaxDelta = 0
SPECIFICATION PresenceSpec
SYMMETRY Symmetry
INVARIANTS
  PresenceSurvives
CHECK_DEADLOCK FALSE
