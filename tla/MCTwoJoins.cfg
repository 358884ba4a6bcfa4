CONSTANTS
    h1 = h1
    h2 = h2
    h3 = h3
    Host <- TwoHosts
    Num <- TwoNum
    Peer <- TwoPeer
    Load <- OneLoad
    NoHost = NoHost
    MaxRows = 3
    MaxStray = 1
    MaxQueue = 2
    MaxNotices = 1

SPECIFICATION AdmissionSpec

INVARIANT OneJoinAtATime

CHECK_DEADLOCK FALSE
