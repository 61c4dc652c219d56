SPECIFICATION Spec
CONSTANTS
    Hosts = {h1, h2}
    Keyed = {h1}
    Mimic = Mimic
    NoOne = NoOne
    Deadline = 4
    Grain = 2
    MaxConns = 2
    MaxRestarts = 1
INVARIANTS HostSure BoardSure ClosedOnceReleased SameKeyAgrees HandshakeBounded
CHECK_DEADLOCK FALSE
