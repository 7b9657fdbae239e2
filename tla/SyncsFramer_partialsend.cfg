\* A send() that fails on a full socket after writing part of a packet.
CONSTANTS
    HdrLen = 2
    DSizes = {1}
    MaxPkts = 2
    NConns = 1
    BufSize = 6
    WireCap = 2
    MinRead = 2
    KeepBuffer = FALSE
    MaxFaults = 0
SPECIFICATION Spec
INVARIANT FramesInOrder
\* The sender stops after its last packet and the last connection is
\* closed or idle: the stream really ends.
CHECK_DEADLOCK FALSE
