SPECIFICATION FairSpec
CONSTANTS
    maxBlockStatsReasons = 2
    maxRecentBlocks = 1
    Reasons <- MCReasons
    NoFile = NoFile
    Torn = Torn
    MaxBlocks = 1
    MaxBoots = 1
PROPERTIES
    SignalEnds
CHECK_DEADLOCK FALSE
