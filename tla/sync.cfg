SPECIFICATION FairSpec
CONSTANTS
    Blocks <- Tree
    Genesis = "g"
    Parent <- TreeParent
    Height <- TreeHeight
    Unconnectable = {"b2"}
    Malformed = {"a3"}
    Runs = {r1}
    BufferLimit = 2
    InitialTips = {"g", "a2"}
    SourceTips = {"a2", "a3", "b3"}
    SourceFails = TRUE
    CancelSurfacesAs = {"CancellationError", "BlockSourceError"}
    AppHeaders = {}
    NoBlock = "zero"
INVARIANTS
    TerminalNeverDropped
    
    ReportedTipsValidated
PROPERTIES
    
    RunsEnd
