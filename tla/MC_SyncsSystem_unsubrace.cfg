SPECIFICATION Spec
CONSTANTS
    Peers = {p1, p2}
    NSlots = 1
    Ids <- MC_Ids
    ChIds <- MC_ChIds
    EventMax = 1
    ChannelMax = 1
    VarTypes <- MC_VarTypes
    VarAny = "ANY"
    VarNone = "NONE"
    Vals <- MC_Vals
    NoData = "none"
    NoId = "free"
    Ports = {1}
    ProtoMajor = 2
    ClientMajor = 2
    Garbage <- MC_Garbage
    MaxConns = 2
    MaxQ = 2
    MaxOut = 1
    MaxWrites = 0
    PerPkt = 1
    HostCalls = {}
    CChSlots = 0
    MaxFaults = 1
    CSlots = 1
    Calls <- SubCalls
    MaxReads = 0
    MaxLists = 0
SYMMETRY MC_Symmetry
INVARIANT BrokerSubsKnown
