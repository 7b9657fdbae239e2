\* Broker receive loop, TCP splitting the stream anywhere but never into a
\* piece shorter than a header, sends never failing.
CONSTANTS
    HdrLen = 2
    DSizes = {0, 1, 2}
    MaxPkts = 4
    NConns = 1
    BufSize = 8
    WireCap = 16
    MinRead = 2
    KeepBuffer = TRUE
    MaxFaults = 0
SPECIFICATION FairSpec
INVARIANT TypeOK
PROPERTY StreamRefined
\* The sender stops after its last packet and the connection is closed or
\* idle: the stream really ends.
CHECK_DEADLOCK FALSE
