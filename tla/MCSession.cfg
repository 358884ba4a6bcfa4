SPECIFICATION Spec
CONSTANTS
    Thread = {t1, t2}
    MaxSessions = 2
INVARIANTS UpdatesExclude OrderlyIsSafe NoLostSession
PROPERTY MutexComesFree
CHECK_DEADLOCK FALSE
