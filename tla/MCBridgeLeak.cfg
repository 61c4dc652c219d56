CONSTANTS
    Conns = {a, b}
    Fds = {0, 1}
    NoConn = NoConn
    PktLens = {1}
    SbSize = 2
    TxChunk = 1
    RxChunk = 1
    HostPktLen = 1
    MaxPkts = 2
    MaxHostUnits = 0
SPECIFICATION Spec
INVARIANTS
    NoCrossHostLeak
