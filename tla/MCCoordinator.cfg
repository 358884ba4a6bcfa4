CONSTANTS
    h1 = h1
    h2 = h2
    h3 = h3
    Host <- ThreeHosts
    Num <- ThreeNum
    Peer <- ThreePeer
    Load <- OneLoad
    NoHost = NoHost
    MaxRows = 4
    MaxStray = 0

SPECIFICATION Spec

INVARIANTS
    TypeOK
    MatrixSized
    IndexOneToOne
    OwnVoltages

CHECK_DEADLOCK FALSE
