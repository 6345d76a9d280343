SPECIFICATION FairSpec
CONSTANTS
    Contents <- MCContents
    Loadable <- MCLoadable
    Oversized <- MCOversized
    Empty = ""
    Deleted = "deleted"
    BootPolicy = "A"
    MaxEvents = 2
    MaxRev = 2
    MaxTerminations = 0
PROPERTIES
    EventuallyConsistent
CHECK_DEADLOCK FALSE
