SPECIFICATION PolicySpec
SYMMETRY AddrsAreAlike
CONSTANTS
    here = here
    there = there
    Addrs <- MCAddrs
    normalizeIP <- MCnormalizeIP
    Protocols <- MCProtocols
    Ports <- MCPorts
    Flags <- MCFlags
    idleTimeoutFor <- MCidleTimeoutFor
    MaxEntries = 2
    MaxFlowsPerSrcIP = 2
    PortScanMaxPorts = 2
    EvictionSampleSize = 2
    MaxTime = 2
    MaxCreated = 3
    blocked_ports <- MCBlockedPorts
    port_scan_threshold = 2
    max_new_connections_per_second = 1
    connRateWindowSecs = 2
INVARIANTS
    ScansDenied
    RingCountsWindow
