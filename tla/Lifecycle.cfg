SPECIFICATION FairSpec
CONSTANTS
    maxBlockStatsReasons = 2
    maxRecentBlocks = 1
    Reasons <- MCReasons
    NoFile = NoFile
    Torn = Torn
    MaxBlocks = 3
    MaxBoots = 2
INVARIANTS
    RunLeavesNothingOpen
    DiskBehindMemory
PROPERTIES
    CountersNeverFall
    ArmedSignalEnds
CHECK_DEADLOCK FALSE
