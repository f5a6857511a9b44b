SPECIFICATION ConnectSpec
CONSTANTS
    Timeout = 8
    InitialDelay = 1
    MaxDelay = 2
    AttemptBound = 1
    MaxLateness = 1
    MaxRuns = 2
    MaxCalls <- CallsByNetwork
INVARIANTS
    
    
    RestartLikeFresh
    CancellationSurfaces
