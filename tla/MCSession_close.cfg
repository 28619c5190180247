SPECIFICATION FairSpec
CONSTANTS
    a = a
    b = b
    Conns = {a}
    Sends <- MCSends
PROPERTY
    CloseCompletes
CHECK_DEADLOCK FALSE
