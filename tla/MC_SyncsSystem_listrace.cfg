SPECIFICATION Spec
CONSTANTS
    Peers = {p1}
    NSlots = 1
    Ids <- MC_Ids2
    ChIds <- MC_ChIds
    EventMax = 2
    ChannelMax = 1
    VarTypes <- MC_VarTypes
    VarAny = "ANY"
    VarNone = "NONE"
    Vals <- MC_Vals
    NoData = "none"
    NoId = "free"
    Ports = {1}
    ProtoMajor = 2
    ClientMajor = 2
    Garbage <- MC_Garbage
    MaxConns = 2
    MaxQ = 2
    MaxOut = 2
    MaxWrites = 1
    PerPkt = 1
    HostCalls = {}
    CChSlots = 0
    MaxFaults = 1
    CSlots = 1
    Calls <- ListCalls
    MaxReads = 0
    MaxLists = 2
INVARIANT ListAnswersOwnRequest
