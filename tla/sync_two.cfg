SPECIFICATION Spec
CONSTANTS
    Blocks <- Tree
    Genesis = "g"
    Parent <- TreeParent
    Height <- TreeHeight
    Unconnectable = {"b2"}
    Malformed = {}
    Runs = {r1, r2}
    BufferLimit = 1
    InitialTips = {"a1"}
    SourceTips = {"a2", "b2"}
    SourceFails = FALSE
    CancelSurfacesAs = {"CancellationError"}
    AppHeaders = {"b3"}
    NoBlock = "zero"

    
    
PROPERTIES
    TipsClimb
SYMMETRY Symmetry
