CONSTANTS
    h1 = h1
    h2 = h2
    h3 = h3
    Host <- TwoHosts
    Num <- TwoNum
    Peer <- TwoPeer
    Load <- OneLoad
    NoHost = NoHost
    MaxRows = 6
    MaxStray = 1

SPECIFICATION Spec

PROPERTY CancelRemovesOneHost

CHECK_DEADLOCK FALSE
