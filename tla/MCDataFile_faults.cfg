SPECIFICATION Spec
CONSTANTS
    c1 = c1
    c2 = c2
    p1 = p1
    p2 = p2
    p3 = p3
    p4 = p4
    Null = Null
    Reread = Reread
    Consumers = {c1, c2}
    Portions = {p1, p2, p3, p4}
    Dest <- MCDest
    NmbOfLogs <- MCNmbOfLogs
    MaxSize = 14
    MaxFaults = 2
    MaxRestarts = 2
    MaxShutDowns = 1
INVARIANTS
    TypeOK
    EventsPointToLivePortion
    OutstandingIsCounted
    DeletedByCloseOnly
    HeaderIsCurrent
    WithinLimit
PROPERTY
    ImplementsPortionDelivery
CHECK_DEADLOCK FALSE
