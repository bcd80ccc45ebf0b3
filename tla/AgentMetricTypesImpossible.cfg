SPECIFICATION StatisticsSpec

CONSTANTS
    Keys <- MCKeys
    Paths <- MCPaths
    Values = {0, 1}
    Nil = Nil
    Isolations <- MCNoMemory
    Events = {"page-faults", "cpu-cycles"}
    EventLists <- MCCycles
    NoEvent = ""
    EventKey <- MCEventKey
    MatchPerf <- MCPerf
    MatchDisk <- MCDisk
    MatchNet <- MCNet
    Pressure <- MCPressure
    Swap <- MCSwap
    SwapEnabled = FALSE
    PerfSample <- MCSample
    PerfKey <- MCAlternate

INVARIANT ListedIsSupplied
