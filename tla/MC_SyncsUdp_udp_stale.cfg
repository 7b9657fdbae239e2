SPECIFICATION Spec
CONSTANTS
    Clients = {c1, c2}
    HostOf <- MC_HostOf
    Ports = {1, 2, 3}
    NSlots = 2
    Vals = {v1}
    MaxSends = 4
    MaxDups = 1
    NoId = noid
    NoAddr = noaddr
    NoData = nodata
INVARIANT RegisteredAtCurrentAddr
