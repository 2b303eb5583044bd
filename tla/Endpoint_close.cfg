SPECIFICATION EndpointSpec
CONSTANTS
    k1 = k1
    k2 = k2
    short = short
    long = long
    s1 = s1
    s2 = s2
    NoValue = NoValue
    Keys = {k1, k2}
    Values = {short, long}
    Threads = {comm, reader}
    CommThread = comm
    Subscribers = {s1, s2}
    KeyOf <- MCKeyOf
    Kind = "buffer"
    Size <- MCSize
    Caps = {1}
    Depths <- MCDepths
    SizeMod = 16
    MaxHist = 1
    MaxReceived = 1
CHECK_DEADLOCK FALSE
INVARIANTS
    CallbackAlive
