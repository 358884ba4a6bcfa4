CONSTANTS
    h1 = h1
    h2 = h2
    h3 = h3
    Host <- ThreeHosts
    Num <- ThreeNum
    Peer <- ThreePeer
    Load <- ThreeLoads
    NoHost = NoHost
    MaxRows = 4
    MaxStray = 1

SPECIFICATION OrderlySpec

INVARIANTS
    RowsAreJoinedHosts
    MatrixIsTopology
    InjectionInOwnRow
    SharesBalance
    OneUnsafeAccess

CHECK_DEADLOCK FALSE
