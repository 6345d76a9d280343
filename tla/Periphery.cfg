SPECIFICATION PeripherySpec
CONSTANTS
    MaxTime = 4
    Lengths <- MCLengths
    IHLs <- MCIHLs
    ExtLens <- MCExtLens
    Addrs <- MCAddrs
    normalizeIP <- MCnormalizeIP
    Ports = {1, 2}
    MaxEntries = 3
    EvictionSampleSize = 2
    TicksPerSecond = 4
    ClampTicks = 2
    IdleThreshold = 2
    MaxRated = 3
    Hosts <- MCHosts
    hostOf <- MChostOf
    netOf <- MCnetOf
    netHosts <- MCnetHosts
    Junk = {"other"}
    Feeds <- MCFeeds
    SpacedFeeds = {"spaced"}
    maxBlocklistEntries = 3
    maxCIDRNetworks = 2
    MaxLines = 3
    Claimed <- MCAddrs
    normalizeIPKey <- MCnormalizeIP
    MACs <- MCMACs
    normalizeMAC <- MCnormalizeMAC
    NoMAC = "none"
    maxARP = 1
    MaxSize = 2
    MaxBackups = 2
    MaxEvents = 7
    MaxAuditRuns = 3
    MaxFiles = 2
    MaxPackets = 2
    MaxStamp = 7
    MaxRuns = 3
    AlertTypes = {"conn_limit", "opa_error"}
    Cooldown = 2
    PostTimeout = 3
    Loaders <- MCLoaders
    Evaluators <- MCEvaluators
    Policies <- MCPolicies
    Loadable <- MCLoadable
    Empty = ""
INVARIANTS
    ReadsInBounds
    TransportReported
    NeverOverrated
    NewThreatsListed
    OneClaimantPerBinding
    AcknowledgedKept
    OpenFileKept
    CapturesBounded
    PostsBounded
    LoadedGoverns
PROPERTIES
    BudgetsKept
    BlocksPersist
    FeedsAskedForever
    ImplementsRegister
    LoadsReturn
CHECK_DEADLOCK FALSE
