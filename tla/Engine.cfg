SPECIFICATION FairSpec
CONSTANTS
    maxBlockStatsReasons = 2
    maxRecentBlocks = 2
    Reasons = {"r1", "r2", "r3"}
    MaxPackets = 3
    MaxPanics = 1
INVARIANTS
    AcceptIsDecided
    CountersBracketVerdicts
    StatsAccountForPackets
    BlockLogExact
PROPERTIES
    PacketsGetVerdicts
CHECK_DEADLOCK FALSE
