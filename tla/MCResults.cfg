SPECIFICATION Spec
CONSTANTS
    h1 = h1
    h2 = h2
    Host = {h1, h2}
    Nobody = Nobody
    Rows <- MCRows
    MaxLoads = 2

PROPERTY ResultsBeforeReply
CHECK_DEADLOCK FALSE
