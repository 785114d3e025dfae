SPECIFICATION Spec
CONSTANTS
  l1 = l1
  Sources = {s1}
  ClientTypes = {tick}
  SourceSeqs = {1, 2}
  OutputCounts = {0}
  MaxPending = 2
  MaxSources = 1
  Lanes = {l1}
  SigSources = {1, 2, 3}
  LaneSource = 3
  Coordinators = {c1, c2}
  JobCapacity = 2
  Updates = {TRUE}
  Workloads <- Safety
SYMMETRY CoordinatorSymmetry
INVARIANTS
  OneTaskUnlessRequeued
  NoOrphanJob
  NoSignalLost
