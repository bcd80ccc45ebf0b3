SPECIFICATION StatisticsSpec

CONSTANTS
    Keys <- MCKeys
    Paths <- MCPaths
    Values = {0, 1}
    Nil = Nil
    Isolations <- MCIsolations
    Events = {"page-faults", "L1-dcache-load-misses"}
    EventLists <- MCEventLists
    NoEvent = ""
    EventKey <- MCEventKey
    MatchPerf <- MCPerf
    MatchDisk <- MCDisk
    MatchNet <- MCNet
    Pressure <- MCPressure
    Swap <- MCSwap
    SwapEnabled = TRUE
    PerfSample <- MCSample
    PerfKey <- MCPerfKey

INVARIANTS
    SuppliedIsListed
    CollectedIsSent
