SPECIFICATION Spec
CONSTANTS
    c1 = c1
    c2 = c2
    h1 = h1
    h2 = h2
    Component = {c1, c2}
    None = None
    Blocks <- MCBlocks
    EdgingLines <- MCEdgingLines
    Home <- MCHome
    Loopback <- MCLoopback
    Values <- MCValues
    MaxRestarts = 1
INVARIANTS AloneIsServed VoltagesComplete OnlyZerosStale
PROPERTY CalculationEnds
CHECK_DEADLOCK FALSE
