SPECIFICATION Spec
CONSTANTS
  Users = {u1, u2}
  Keys = {k1, k2}
  Texts = {a, b}
  Tickets = {t1, t2}
  None = None
  Calls = {c1, c2, c3}
  Commands = {d1}
  Payloads = {p1, p2}
  NoRoom = NoRoom
  MaxFailures = 2
  MaxRequests = 4
  MaxRestarts = 1
SYMMETRY Symmetry
INVARIANTS
  EachRequestOnce
  RetriesAgree
  AuditTells
  OneRoomPerCommand
  RoomsAreDurable
CHECK_DEADLOCK FALSE
