SPECIFICATION QueueFairSpec
CONSTANTS
    Workers = {w1, w2, w3}
    Master = "master"
    Checks <- MCChecks
    BlockOf <- MCBlockOf
    MaxBlocks = 2
    Bad = {"a1", "a2", "b2"}
    nBatchSize = 2
    None = "nullopt"
INVARIANTS
    CompleteMeansDone
PROPERTIES
    CompleteReturns
    DestructorReturns
