SPECIFICATION Spec
CONSTANTS
  a1 = a1
  j1 = j1
  JobSeq <- AllJobs
  AtJobs = {a1}
  Workloads <- Plain
  Period = 1
  MaxTime = 2
  MaxRuns = 3
CHECK_DEADLOCK FALSE
INVARIANTS
  AtOnce
