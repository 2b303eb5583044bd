SPECIFICATION FairSpec
CONSTANTS
    a = a
    b = b
    Nobody = nobody
    Insts = {a, b}
    Robots = {1}
    Names = {1, 2}
    Channels = {1, 2}
    Files <- MCFiles
    PduFile <- MCPduFile
    Deployments <- MCDeployments
    MaxRegs = 2
    MaxWrites = 2
INVARIANTS
    DispatchedToOwner
    MapsAgree
    ForgottenWhenClosed
    DefinitionsAgree
CHECK_DEADLOCK FALSE
PROPERTIES
    EveryWriteRead
