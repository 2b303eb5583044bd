SPECIFICATION FairSpec
CONSTANTS
    long = long
    cut = cut
    plain = plain
    control = control
    NoOne = NoOne
    Robots = {long, cut}
    Cut <- MCCut
    NameLen <- MCNameLen
    Channels = {1}
    Bodies = {plain, control}
    BodyLen <- MCBodyLen
    ControlBodies = {control}
    Meta = 8
    Mod = 32
    MaxSize = 19
    Clients = {c1, c2}
    Configs <- MCConfigs
    Foreign <- MCForeign
    ToSend <- MCToSend
    MaxDelivered = 1
INVARIANTS
    RepliesGoToClients
    HeardCanBeAnswered
    FramingAgrees
PROPERTIES
    ImplementsContract
    StopReturns
CHECK_DEADLOCK FALSE
