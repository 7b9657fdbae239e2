CONSTANTS
    Peers = {p1, p2}
    NSlots = 2
    Ids <- MC_Ids
    ChIds <- MC_ChIds
    EventMax = 1
    ChannelMax = 1
    VarTypes <- MC_VarTypes
    VarAny = "ANY"
    VarNone = "NONE"
    Vals <- MC_Vals
    NoData = "none"
    Ports = {1}
    ProtoMajor = 2
    Reqs <- EventReqs
    Garbage <- MC_Garbage
    MaxConns = 2
    MaxQ = 1
    MaxWrites = 1
    PerPkt = 1
    HostCalls = {}
    MaxOut = 1
    MaxFaults = 1
SYMMETRY MC_Symmetry
SPECIFICATION Spec
INVARIANT ConsumersLive
