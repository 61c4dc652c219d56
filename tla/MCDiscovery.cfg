SPECIFICATION Spec
CONSTANTS
    Ips = {i1, i2}
    NoIp = NoIp
    Millis = 8
    ANNOUNCE_INTERVAL_MS = 4
    RecvTimeout = 2
    Window = 2
    PROBE_REPLIES_PER_S = 2
    MaxKey = 1
INVARIANTS AnnounceFresh AnnouncedInTime RepliesBounded
