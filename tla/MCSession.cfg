SPECIFICATION FairSpec
CONSTANTS
    a = a
    b = b
    Conns = {a, b}
    Sends <- MCSends
INVARIANTS
    TypeOK
    WaitingIsTimed
    PartsEndBeforeSession
    LogsOnlyFromAuthorized
    NothingLeftUnread
    ActiveIsUnreported
PROPERTIES
    ImplementsSessionStages
    SilentSessionEnds
CHECK_DEADLOCK FALSE
