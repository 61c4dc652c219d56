SPECIFICATION NetFairSpec
CONSTANTS
    Kinds = {"good", "bare", "deaf", "crash"}
    Chunks = 2
    OTA_MAX_RECV_TIMEOUTS = 6
    MaxUploads = 3
    MaxLosses = 2
    Alphabet = {97, 32, 202}
    MaxSsid = 3
    MaxPass = 3
    SsidLen = 4
    PassLen = 4
    BodyLen = 18
INVARIANTS FallbackIntact FormStored
PROPERTIES UploadEnds SettlesOrAsks NetworkReturns ImplementsFirmware
