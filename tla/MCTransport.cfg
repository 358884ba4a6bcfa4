SPECIFICATION Spec
CONSTANTS
    Packet = 8
    Buffer = 18
    Lengths = {1, 7, 12, 19}
INVARIANTS StringEnds RequestWhole
PROPERTY ConversationEnds
CHECK_DEADLOCK FALSE
