CONSTANTS
  Reconnect = Reconnect
  NextDeal = NextDeal
  Act = Act
  A1 = A1
  A2 = A2
  NoRequest = NoRequest
  NoActor = NoActor
  Actors <- MCActors
  Requests <- MCRequests
  Commands <- MCCommands
  CommandOf <- MCCommandOf
  Yields <- MCYields
  Backends = {"memory", "redis", "nolock"}
  ReadLimit = 8
  MaxDispatches = 3
SYMMETRY ActorSymmetry
SPECIFICATION Spec
INVARIANTS
  TypeOK
  AtMostOnce
  AckedEventIsDurable
  AnswersAgree
  IdleRoomIsDurable
PROPERTIES
  MemoryWritesFenced
  ImplementsLog
CHECK_DEADLOCK FALSE
