SPECIFICATION TeardownFairSpec
CONSTANTS
    Runs = {r1, r2, r3}
    Callers = {c1}
    Owner = c1
    ConcurrentIterators = FALSE
    Files = 2
INVARIANTS
    ShutdownIsABarrier
    ReopenNeverLocked
PROPERTIES
    ShutdownReturns
