SPECIFICATION FairSpec
CONSTANTS
    c1 = c1
    c2 = c2
    p1 = p1
    p2 = p2
    p3 = p3
    p4 = p4
    Null = Null
    Reread = Reread
    Consumers = {c1, c2}
    Portions = {p1, p2, p3}
    Dest <- MCDest
    NmbOfLogs <- MCNmbOfLogs
    MaxSize = 60
    MaxFaults = 2
    MaxRestarts = 0
    MaxShutDowns = 1
INVARIANTS
    EmptyMeansDelivered
    DiskIsOneWriteBehind
    OldestFirst
    RereadIsOldest
PROPERTY
    DistributedIsReleased
CHECK_DEADLOCK FALSE
