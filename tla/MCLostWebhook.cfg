CONSTANTS
    Run = {r1}
    Flow <- OnlyVideo
    MaxSteps = 1
    MaxRetries <- RetriesOf
    Caller = {c1}
    Engine = {e1, e2}
    Owner = {o1}
    Token <- OneToken
    Nobody = Nobody
    NoProc = NoProc
    Polling = FALSE
    MaxCalls = 1
    MaxFaults = 0
SPECIFICATION FairSpec
PROPERTIES
    PausedRunIsCompleted
CHECK_DEADLOCK FALSE
