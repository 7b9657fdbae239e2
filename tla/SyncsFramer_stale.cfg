\* Broker slot reused after a client left part of a packet in the receive buffer.
CONSTANTS
    HdrLen = 2
    DSizes = {1}
    MaxPkts = 1
    NConns = 2
    BufSize = 6
    WireCap = 2
    MinRead = 2
    KeepBuffer = TRUE
    MaxFaults = 0
SPECIFICATION Spec
INVARIANT ConnectionIsolation
\* The sender stops after its last packet and the last connection is
\* closed or idle: the stream really ends.
CHECK_DEADLOCK FALSE
