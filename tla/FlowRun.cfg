SPECIFICATION Spec
CONSTANT Workloads <- FlowWorkloads
CHECK_DEADLOCK FALSE
INVARIANTS
    EndedRunIsQuiet
    AttemptsBounded
    CompletedMeansRouted
    DependenciesCompleted
    RecordTellsResult
PROPERTIES
    ResultStays
    RunEnds
    InboxSettles
    WebhookTried
