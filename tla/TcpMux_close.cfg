SPECIFICATION Spec
CONSTANTS
    Conns = {c1, c2}
    Nobody = nobody
    Expected = 2
    MaxPackets = 1
SYMMETRY Clients
INVARIANTS
    CloseReleases
CHECK_DEADLOCK FALSE
