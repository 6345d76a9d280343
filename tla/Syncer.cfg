SPECIFICATION FairSpec
CONSTANTS
    Contents <- MCContents
    Loadable <- MCLoadable
    Oversized <- MCOversized
    Empty = ""
    Deleted = "deleted"
    BootPolicy = "A"
    MaxEvents = 2
    MaxRev = 3
    MaxTerminations = 1
INVARIANTS
    RecordedGoverns
PROPERTIES
    NeverRegresses
    ReadPolicyGoverns
    CloseStops
CHECK_DEADLOCK FALSE
