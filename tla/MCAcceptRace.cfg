CONSTANTS
    Session = {s1, s2, s3}
    Unclosed = {}
    Backlog = 5
    MaxFd = 3
    None = None

SPECIFICATION Spec

INVARIANT OneThreadOneSession

CHECK_DEADLOCK FALSE
