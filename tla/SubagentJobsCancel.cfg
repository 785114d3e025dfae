SPECIFICATION Spec
CONSTANTS
    j1 = j1
    j2 = j2
    Jobs = {j1}
    Workloads <- EarlyCancel
    MaxConcurrent = 1
    MaxCycles = 1
    MaxRuns = 3
CHECK_DEADLOCK FALSE
INVARIANT OneRunPerJob
