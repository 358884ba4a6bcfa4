CONSTANTS
    Session = {s1, s2, s3, s4}
    Unclosed = {s1, s2}
    Backlog = 5
    MaxFd = 2
    None = None

SPECIFICATION SpacedSpec

INVARIANTS
    OneThreadOneSession
    NoLeak

PROPERTY EveryoneServed

CHECK_DEADLOCK FALSE
