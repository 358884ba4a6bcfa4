CONSTANTS
    h1 = h1
    h2 = h2
    h3 = h3
    Host <- ThreeHosts
    Num <- ThreeNum
    Peer <- ThreePeer
    Load <- ThreeLoads
    NoHost = NoHost
    MaxRows = 4
    MaxStray = 1

SPECIFICATION OrderlySpec

INVARIANT DiagonalIsTopology

CHECK_DEADLOCK FALSE
