SPECIFICATION FairSpec
CONSTANTS
    Peers = {p1, p2}
    NSlots = 1
    Ids <- MC_Ids
    ChIds <- MC_ChIds
    EventMax = 1
    ChannelMax = 1
    VarTypes <- MC_VarTypes
    VarAny = "ANY"
    VarNone = "NONE"
    Vals <- MC_Vals
    NoData = "none"
    NoId = "free"
    Ports = {1}
    ProtoMajor = 2
    ClientMajor = 2
    Garbage <- MC_Garbage
    MaxConns = 3
    MaxQ = 1
    MaxOut = 1
    MaxWrites = 0
    PerPkt = 1
    HostCalls = {}
    CChSlots = 1
    MaxFaults = 0
    CSlots = 1
    Calls <- QuitCalls
    MaxReads = 0
    MaxLists = 0
PROPERTY DisconnectReturns
\* Once syncs_disconnect has returned the client is gone and nothing is left to do.
CHECK_DEADLOCK FALSE
