SPECIFICATION EndpointFairSpec
CONSTANTS
    k1 = k1
    k2 = k2
    s1 = s1
    s2 = s2
    short = short
    long = long
    NoValue = NoValue
    Keys = {k1, k2}
    Values = {short, long}
    Threads = {comm, reader}
    CommThread = comm
    Subscribers = {s1, s2}
    KeyOf <- MCKeyOf
    Kind = "queue"
    Size <- MCSize
    Caps = {1, 2}
    Depths <- MCDepths
    SizeMod = 16
    MaxHist = 3
    MaxReceived = 3
INVARIANTS
    CacheOutlivesComm
    StoredBeforeNotified
    EverySubscriberOnce
    QuietAfterStop
    BadCallNeedsClose
    Window
PROPERTIES
    OwnerReturns
    ImplementsContract
CHECK_DEADLOCK FALSE
