SPECIFICATION FairSpec
CONSTANTS
    Conns = {c1, c2}
    Nobody = nobody
    Expected = 2
    MaxPackets = 1
INVARIANTS
    NoSessionLost
    ReadyMeansAccepted
    StopsAreFinal
CHECK_DEADLOCK FALSE
PROPERTIES
    CallsReturn
    ClientsBecomeSessions
