SPECIFICATION PlaneFairSpec
CONSTANTS
    Contents <- MCContents
    Loadable <- MCLoadable
    Oversized = {}
    Empty = ""
    Deleted = "deleted"
    BootPolicy = "A"
    MaxEvents = 1
    MaxRev = 2
    MaxTerminations = 1
    MaxEdits = 2
INVARIANTS
    UntouchedFileYields
PROPERTIES
    FileEditLoads
CHECK_DEADLOCK FALSE
