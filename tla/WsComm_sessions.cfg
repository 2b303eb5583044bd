SPECIFICATION FairSpec
CONSTANTS
    Sessions <- MCSessions
    MaxEvents = 5
INVARIANTS
    SessionsAccounted
    WritesInOrder
PROPERTIES
    ImplementsContract
    PeersServed
CHECK_DEADLOCK FALSE
