\* Client receive loop under every fault: any split, a full socket failing a send, a connection dropped in a send.
CONSTANTS
    HdrLen = 2
    DSizes = {0, 1}
    MaxPkts = 2
    NConns = 2
    BufSize = 6
    WireCap = 2
    MinRead = 1
    KeepBuffer = FALSE
    MaxFaults = 1
SPECIFICATION Spec
INVARIANT IntactFramesInOrder ConnectionIsolation
\* The sender stops after its last packet and the last connection is
\* closed or idle: the stream really ends.
CHECK_DEADLOCK FALSE
