SPECIFICATION FairSpec
CONSTANTS
    Peers = {p1}
    NSlots = 1
    Ids <- MC_Ids
    ChIds <- MC_ChIds
    EventMax = 1
    ChannelMax = 1
    VarTypes <- MC_VarTypes
    VarAny = "ANY"
    VarNone = "NONE"
    Vals <- MC_Vals
    NoData = "none"
    NoId = "free"
    Ports = {1}
    ProtoMajor = 2
    ClientMajor = 1
    Garbage <- MC_Garbage
    MaxConns = 1
    MaxQ = 2
    MaxOut = 1
    MaxWrites = 0
    PerPkt = 1
    HostCalls = {}
    CChSlots = 0
    MaxFaults = 0
    CSlots = 1
    Calls <- NoCalls
    MaxReads = 0
    MaxLists = 0
PROPERTY RefusedClientExits
CHECK_DEADLOCK FALSE
