SPECIFICATION Spec
CONSTANTS
    Mode = "Firmware"
    Limits = {60, 100}
    Deltas = {2, 90}
    InitialDelta = 2
    Charges = {10, 59, 100}
    Threshold = 15
    Durations = {1}
    MaxTime = 1
    Requests <- AllRequests
    SaveOutcomes = {"ok"}
    PersistOutcomes = {"ok", "die"}
    HardwareOutcomes = {TRUE}
INVARIANTS
    TypeOK
    AdapterRecoverable
PROPERTIES
    CutIsBacked
    PausedSessionEndsRestored
    ImplementsService
\* The clock stops at MaxTime and users may ask for nothing more.
CHECK_DEADLOCK FALSE
