SPECIFICATION FairSpec
CONSTANTS
    Tasks = {f1, f2}
    MinimumDelay = 2
    MaximumRetries = 1
    BaseRetryDelay = 1
    RetryAfters = {0, 3}
    MaxLateness = 1
INVARIANTS
    SlotsSpaced
    BurstBounded
    BackoffHonoured
    TransientOnlyAfterAllRetries
PROPERTIES
    EveryFetchEnds
