CONSTANTS
    h1 = h1
    h2 = h2
    h3 = h3
    Host <- TwoHosts
    Num <- TwoNum
    Peer <- TwoPeer
    Load <- OneLoad
    NoHost = NoHost
    MaxRows = 2
    MaxStray = 0
    MaxQueue = 2
    MaxNotices = 1

SPECIFICATION AdmissionSpec

INVARIANT ShutGateMeansJoining

CHECK_DEADLOCK FALSE

SYMMETRY Swap
