SPECIFICATION FairSpec
CONSTANTS
    MaxStarts = 3
    Starters = {s1, s2}
    Waiters = {w1}
    Bootstraps = {b1, b2}
    Clients = {c1}
    Habits = {"noReset", "noJoin", "lateBootstrap", "inFlightCalls"}
INVARIANTS
    OneInstance
    SocksUsable
    JoinMeansStopped
    
    
    
PROPERTIES
    JoinReturns
