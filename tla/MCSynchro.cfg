CONSTANTS
    g1 = g1  g2 = g2
    PreBalances <- TwoBalances
    MaxLIB = 4
    Batch = 2
    MaxRpcFault = 1
    MaxDbFault = 1
    MaxBootFault = 1
    MaxCrash = 2
SPECIFICATION FairService
INVARIANTS
    DatabaseHolds
    FailureCostsOneGroup
    FlagMeansLoaded
PROPERTIES
    ServiceCatchesUp
