CONSTANTS
    MaxData = 2
    MaxKills = 2
SPECIFICATION FairSpec
INVARIANTS
    KillHitsLiveStream
    PumpsOwnHandles
    FailureReported
PROPERTIES
    SessionEnds
    KillEnds
