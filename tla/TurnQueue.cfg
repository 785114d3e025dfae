SPECIFICATION FairSpec
CONSTANTS
  m1 = m1
  m2 = m2
  m3 = m3
  Msgs = {m1, m2, m3}
  Workloads <- AllWorkloads
  MaxTurns = 4
  MaxItems = 4
CHECK_DEADLOCK FALSE
INVARIANTS
  ActiveHoldsGate
  NoMessageLost
  NoMessageTwice
  RecoveredOnce
PROPERTIES
  TokenReturns
  QueuedDuringTurnStarts
