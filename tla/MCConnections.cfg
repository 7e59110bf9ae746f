SPECIFICATION Spec
CONSTANTS
  Users = {u1, u2}
  Nobody = Nobody
  Bannable = {u1, u2}
  Sessions = {s1, s2}
  Clients = {c1, c2}
  Sockets = {w1, w2}
  None = None
  r1 = r1
  r2 = r2
  Rooms <- TwoRooms
  MaxTokens = 2
  MaxCommands = 3
  MaxTrouble = 1
SYMMETRY Symmetry
INVARIANTS
  TypeOK
  OneLiveToken
  Indexed
  SubscribedAsSelf
  GoneIsOffline
  HereIsOnline
CHECK_DEADLOCK FALSE
