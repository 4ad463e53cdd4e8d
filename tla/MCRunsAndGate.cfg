CONSTANTS
    Run = {r1}
    Flow <- AllFlows
    MaxSteps = 2
    MaxRetries <- RetriesOf
    Caller = {c1, c2}
    Engine = {e1, e2}
    Owner = {o1}
    Token <- OneToken
    Nobody = Nobody
    NoProc = NoProc
    Polling = TRUE
    MaxCalls = 2
    MaxFaults = 1
    Migrator = {ci, hand}
    Ci = ci
    Stop = {0, 2, 17}
    Witness <- TwoWitnesses
    MaxFlaws = 1
    Selections <- SomeSelections
    Retries = 2
SPECIFICATION BothSpec
INVARIANTS
    SchemaIsOfRevision
    GateKeepsItsWord
    LogTellsStory
    UsageMatchesCalls
    DeferredResultIsOwn
    DispatchedOnce
PROPERTIES
    ImplementsLifecycle
    PausedRunIsCompleted
CHECK_DEADLOCK FALSE
