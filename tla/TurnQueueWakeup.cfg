SPECIFICATION FairSpec
CONSTANTS
  m1 = m1
  m2 = m2
  m3 = m3
  Msgs = {m1, m2, m3}
  Workloads <- OnlySubmit
  MaxTurns = 4
  MaxItems = 4
CHECK_DEADLOCK FALSE
PROPERTIES
  QueuedStarts
