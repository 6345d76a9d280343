SPECIFICATION Spec
CONSTANTS
    maxBlockStatsReasons = 2
    maxRecentBlocks = 1
    Reasons <- MCReasons
    NoFile = NoFile
    Torn = Torn
    MaxBlocks = 1
    MaxBoots = 1
PROPERTIES
    OrderlyExitSaves
CHECK_DEADLOCK FALSE
