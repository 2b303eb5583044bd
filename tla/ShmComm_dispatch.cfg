SPECIFICATION Spec
CONSTANTS
    a = a
    b = b
    Nobody = nobody
    Insts = {a, b}
    Robots = {1}
    Names = {1, 2}
    Channels = {1, 2}
    Files <- MCFiles
    PduFile <- MCPduFile
    Deployments <- MCTwoPolls
    MaxRegs = 2
    MaxWrites = 1
INVARIANTS
    DispatchedToOwner
CHECK_DEADLOCK FALSE
