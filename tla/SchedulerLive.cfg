SPECIFICATION FairSpec
CONSTANTS
  l1 = l1
  Sources = {s1}
  ClientTypes = {tick}
  SourceSeqs = {1, 2}
  OutputCounts = {0}
  MaxPending = 2
  MaxSources = 1
  Lanes = {l1}
  SigSources = {1, 2}
  LaneSource = 2
  Coordinators = {c1, c2}
  JobCapacity = 3
  Updates = {TRUE}
  Workloads <- Live
PROPERTIES
  EventsProcessed
  SignalsEvaluated
  PeriodicLanesSettle
  EndedLeavesNothing
