SPECIFICATION FairSpec
CONSTANTS
    HeaderSize = 4
    Value <- MCValue
    Start <- MCStart
INVARIANTS
    TypeOK
    IdleIsCaughtUp
PROPERTIES
    ImplementsFraming
    LoopEnds
CHECK_DEADLOCK FALSE
