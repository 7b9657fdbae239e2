SPECIFICATION Spec
CONSTANTS
    Ids <- MC_Ids
    NoId = free
    NoData = nodata
    CSlots = 2
    MaxPubs = 3
INVARIANT WaitReturnsOwnValue
