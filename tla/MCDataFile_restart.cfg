SPECIFICATION Spec
CONSTANTS
    c1 = c1
    c2 = c2
    p1 = p1
    p2 = p2
    p3 = p3
    p4 = p4
    Null = Null
    Reread = Reread
    Consumers = {c1, c2}
    Portions = {p1, p2, p3}
    Dest <- MCDest
    NmbOfLogs <- MCNmbOfLogs
    MaxSize = 30
    MaxFaults = 0
    MaxRestarts = 1
    MaxShutDowns = 1
INVARIANT
    WrittenIsStored
CHECK_DEADLOCK FALSE
