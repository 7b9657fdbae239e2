\* A recv() shorter than a header, with no other fault.
CONSTANTS
    HdrLen = 2
    DSizes = {0, 1}
    MaxPkts = 3
    NConns = 1
    BufSize = 6
    WireCap = 9
    MinRead = 1
    KeepBuffer = FALSE
    MaxFaults = 0
SPECIFICATION Spec
INVARIANT FramesInOrder
\* The sender stops after its last packet and the last connection is
\* closed or idle: the stream really ends.
CHECK_DEADLOCK FALSE
