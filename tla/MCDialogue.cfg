SPECIFICATION FairDialogue
CONSTANTS
    a = a
    ours = ours
    other = other
    k = k
    l = l
    iv = iv
    NoKey = NoKey
    Conns = {a}
    Pairs = {ours, other}
    Suitable = {k, l}
    Iv <- MCIv
    KeyFiles <- MCKeyFiles
    Sends <- MCSends
INVARIANTS
    DialogueTypeOK
    ChainsInStep
    EndsAgree
    OneHasTheFloor
    FailsForAReason
PROPERTIES
    ImplementsHalfDuplex
    DialogueEnds
CHECK_DEADLOCK FALSE
