SPECIFICATION Spec
CONSTANTS
    Direction = "inout"
    Fds <- MCFds
    Conns <- MCConns
    Senders = {s1, s2}
    Nobody = nobody
    Shapes = {"full", "empty", "bad"}
    SigpipeIgnored = TRUE
    MaxIn = 2
    MaxOut = 2
    MaxPackets = 2
INVARIANTS
    WholePackets
    FdsAccounted
    JoinedWhenStopped
    SendableWhenRunning
    DeliveredInOrder
PROPERTIES
    ImplementsContract
