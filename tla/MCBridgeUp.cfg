CONSTANTS
    Conns = {a, b}
    Fds = {0, 1}
    NoConn = NoConn
    PktLens = {1}
    SbSize = 1
    TxChunk = 1
    RxChunk = 3
    HostPktLen = 2
    MaxPkts = 1
    MaxHostUnits = 3
SPECIFICATION Spec
SYMMETRY ConnSymmetry
INVARIANTS
    TypeOK
    RecvNeverBlocks
    OneHostPerPacket
