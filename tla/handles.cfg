SPECIFICATION Spec
CONSTANTS
    Objects = {"n1", "v1"}
    Validation = {"v1"}
    Closures = {"l1", "l2"}
    Contexts = {c1, c2}
    BufferLines = 2
    Scopes <- MCScopes
INVARIANTS
    CalledObjectAlive
    RetainsBalanced
    LoggerFaithful
CHECK_DEADLOCK FALSE
