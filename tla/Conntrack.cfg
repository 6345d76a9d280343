SPECIFICATION Spec
CONSTANTS
    Addrs <- MCAddrs
    normalizeIP <- MCnormalizeIP
    Protocols <- MCProtocols
    Ports <- MCPorts
    Flags <- MCFlags
    idleTimeoutFor <- MCidleTimeoutFor
    MaxEntries = 3
    MaxFlowsPerSrcIP = 2
    PortScanMaxPorts = 1
    EvictionSampleSize = 2
    MaxTime = 2
    MaxCreated = 4
INVARIANTS
    CountsAgree
    WithinLimits
    TrackersFollowFlows
    FlowsConserved
    EstablishedAgrees
PROPERTIES
    PortsFollowFlows
    LiveFlowsKept
    TcpNeverRegresses
