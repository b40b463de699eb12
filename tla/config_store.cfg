SPECIFICATION FairSpec
CONSTANTS
    Clients = {c1, c2}
    Signal = signal
    None = none
    Settings = {"sleep", "hold"}
    OnByDefault = {"sleep"}
    Unsupported = {"sleep"}
    Limits = {20, 80}
    Deltas = {2, 60}
    MaxRequests = 2
    MaxReloads = 1
    MaxTroubles = 1
INVARIANTS
    PromisesKept
    FileAgrees
PROPERTIES
    RequestsEnd
\* Requests are bounded, and a garbled file keeps the daemon from starting.
CHECK_DEADLOCK FALSE
