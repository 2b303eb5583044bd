SPECIFICATION Spec
CONSTANTS
    Direction = "inout"
    Fds <- MCFds
    Conns <- MCConns
    Senders = {s1}
    Nobody = nobody
    Shapes = {"full"}
    SigpipeIgnored = TRUE
    MaxIn = 0
    MaxOut = 1
    MaxPackets = 1
INVARIANTS
    Framed
