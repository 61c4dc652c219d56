CONSTANTS
    Conns = {a, b}
    Fds = {0, 1}
    NoConn = NoConn
    PktLens = {2}
    SbSize = 3
    TxChunk = 1
    RxChunk = 3
    HostPktLen = 2
    MaxPkts = 2
    MaxHostUnits = 0
SPECIFICATION FairSpec
INVARIANTS TxParkedWhileDraining HostStreamWhole FailureIsOwn FdsAccounted NoPartialWrite
PROPERTY AcceptCompletes
