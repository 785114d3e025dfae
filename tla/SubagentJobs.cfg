SPECIFICATION FairSpec
CONSTANTS
    j1 = j1
    j2 = j2
    Jobs = {j1, j2}
    Workloads <- AllWorkloads
    MaxConcurrent = 1
    MaxCycles = 1
    MaxRuns = 4
CHECK_DEADLOCK FALSE
INVARIANTS OneRunUnlessStray RunLimit RunningHasRun
PROPERTIES CanceledStays PendingStarts WaiterReturns
