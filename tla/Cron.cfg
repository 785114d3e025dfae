SPECIFICATION FairSpec
CONSTANTS
  a1 = a1
  j1 = j1
  JobSeq <- AllJobs
  AtJobs = {a1}
  Workloads <- AllWorkloads
  Period = 1
  MaxTime = 2
  MaxRuns = 3
INVARIANTS
  OneRunPerJob
  KeyOnce
PROPERTIES
  DueIsTaken
  AtJobRuns
