SPECIFICATION Spec
CONSTANTS
    Clients <- MC_Clients
    Skew <- MC_Skew
    NsPerSec = 10
    NsPerMs = 1
    DefaultOffset = 3
    Offsets = {3, 9}
    Base = 13
    MaxSends = 2
    LastSend = 20
    MaxDelay = 3
    MaxT = 44

PROPERTY DeliveredOnTime SyncDelivered
\* The model's clock stops at MaxT, after every EVENT has been handed on.
CHECK_DEADLOCK FALSE
