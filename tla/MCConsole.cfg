CONSTANTS
    Keys <- MCKeys
    MaxKeys = 3
SPECIFICATION FairSpec
INVARIANTS
    HandshakeInv
    NoInterruptAfterDelete
PROPERTIES
    EchoExact
    QuitEnds
