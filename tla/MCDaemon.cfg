SPECIFICATION FairSpec
CONSTANTS
    p1 = p1
    p2 = p2
    writer = writer
    printer = printer
    Providers <- MCProviders
    Consumers <- MCConsumers
    Writers = {writer}
    Causes = {"early", "SIGINT", "listen", "open", "write", "options"}
    MaxShutDowns = 2
INVARIANTS
    TypeOK
    DanglingWhileEnding
    StopsInOrder
    CleanEnd
PROPERTY
    OrdinaryShutDownEnds
CHECK_DEADLOCK FALSE
