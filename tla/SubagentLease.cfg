SPECIFICATION Spec
CONSTANTS
    j1 = j1
    j2 = j2
    Jobs = {j1, j2}
    Faults = {"error", "stall", "crash"}
    Beats = 3
    Grain = 3
    LostLimit = 3
    MaxTokens = 4
    MaxAge = 10
SYMMETRY JobSymmetry
INVARIANTS CanceledAfterOutage MissedBeatsKeepLease
