CONSTANTS
    Peers = {p1}
    NSlots = 2
    Ids <- MC_Ids
    ChIds <- MC_ChIds
    EventMax = 1
    ChannelMax = 1
    VarTypes <- MC_VarTypes
    VarAny = "ANY"
    VarNone = "NONE"
    Vals <- MC_Vals
    NoData = "none"
    Ports = {1}
    ProtoMajor = 2
    Reqs <- ChannelReqs
    Garbage <- MC_Garbage
    MaxConns = 2
    MaxQ = 1
    MaxWrites = 0
    PerPkt = 1
    HostCalls <- EventHostCalls
    MaxOut = 1
    MaxFaults = 0
SYMMETRY MC_Symmetry
SPECIFICATION Spec
INVARIANT TypeOK
INVARIANT ChannelsLive
INVARIANT ConsumersLive
