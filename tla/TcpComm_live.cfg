SPECIFICATION FairSpec
CONSTANTS
    Direction = "inout"
    Fds <- MCFds
    Conns <- MCConns
    Senders = {}
    Nobody = nobody
    Shapes = {"full", "bad"}
    SigpipeIgnored = TRUE
    MaxIn = 1
    MaxOut = 0
    MaxPackets = 2
PROPERTIES
    StopReturns
    WaitingPeerServed
