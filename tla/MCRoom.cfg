CONSTANTS
  p1 = p1
  p2 = p2
  p3 = p3
  NoPlayer = NoPlayer
  Admin = Admin
  System = System
  Players <- MCPlayers
  Members <- MCMembers
  FirstOwner = NoPlayer
  MaxPlayers = 2
  TotalRounds = 2
  PiaoMode = "strong"
  DeadlineEnabled = TRUE
  MaxZeng = 1
  MaxFlowers = 1
  MaxDelta = 1
SPECIFICATION Spec
SYMMETRY Symmetry
INVARIANTS
  TypeOK
  ReplayAgrees
  ZeroSum
  TableInOrder
  TurnInOrder
  FlowersInOrder
PROPERTIES
  ImplementsLifecycle
