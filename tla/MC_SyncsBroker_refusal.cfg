CONSTANTS
    Peers = {p1}
    NSlots = 2
    Ids <- MC_Ids
    ChIds <- MC_ChIds
    EventMax = 1
    ChannelMax = 1
    VarTypes <- MC_VarTypes
    VarAny = "ANY"
    VarNone = "NONE"
    Vals <- MC_Vals
    NoData = "none"
    Ports = {1}
    ProtoMajor = 2
    Reqs <- OldReqs
    Garbage <- MC_Garbage
    MaxConns = 1
    MaxQ = 2
    MaxWrites = 0
    PerPkt = 1
    HostCalls = {}
    MaxOut = 1
    MaxFaults = 0
SPECIFICATION Spec
INVARIANT ConsumersLive
