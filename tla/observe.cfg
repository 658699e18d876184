SPECIFICATION FairSpec
CONSTANTS
  a1 = a1
  a2 = a2
  w = w
  p = p
  q = q
  StepAgents <- OneStep
  SingleAgents <- OneSingle
  Output <- SmallOutput
  Ends <- EndsCounted
  Clients <- ThreeClients
  Setups <- SmallSetups
  Capacity = 2
  SocketSize = 1
  Watched = w
  FeedCapacity = 1
  MAX_LOG_ENTRIES = 2
INVARIANTS
  TypeOK
  TotalsMatchTable
  NobodyElseDropped
  CursorInRange
PROPERTIES
  NoGaps
  ImplementsStream
  Delivered
CHECK_DEADLOCK FALSE
