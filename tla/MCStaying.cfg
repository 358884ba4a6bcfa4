CONSTANTS
    h1 = h1
    h2 = h2
    h3 = h3
    Host <- ThreeHosts
    Num <- ThreeNum
    Peer <- ThreePeer
    Load <- OneLoad
    NoHost = NoHost
    MaxRows = 4
    MaxStray = 0
    MaxQueue = 3
    MaxNotices = 0

SPECIFICATION StayingSpec

INVARIANTS
    OpenGateMeansIdle

PROPERTIES
    TurnstileSpec
    Admitted

CHECK_DEADLOCK FALSE
