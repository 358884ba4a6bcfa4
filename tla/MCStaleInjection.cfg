SPECIFICATION Spec
CONSTANTS
    p1 = p1
    p2 = p2
    p3 = p3
    p4 = p4
    p5 = p5
    c1 = c1
    c2 = c2
    Server = {s1, s2}
    SwitchPi = 5
    PI <- MCPI
    Pos <- MCPos
    Linked <- MCLinked
    Lines <- MCLines
    Fed <- MCFed
    Connection <- MCConnection
    Local <- MCLocal
    Messages <- MCMessages
    MaxConnections = 4
INVARIANTS InjectionIsLoad
CHECK_DEADLOCK FALSE
