SPECIFICATION FairSpec
CONSTANTS
    b1 = b1
    b2 = b2
    Boards = {b1, b2}
    Ips = {i1, i2, i3}
    Ctxs = {c1, c2}
    NoCtx = NoCtx
    Permitted = {b1, b2}
    Pinned = {}
    Subnet = {i1, i2}
    FlagKeys <- GivenKeys
    Alive = {b2}
    MaxKey = 2
    MaxEvents = 1
INVARIANTS ClaimHeld MapHoldsLiveCtx
PROPERTIES RevokedDropped KeyedBoardAttaches
