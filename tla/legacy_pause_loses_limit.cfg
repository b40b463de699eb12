SPECIFICATION Spec
CONSTANTS
    Mode = "Legacy"
    Limits = {60}
    Deltas = {2}
    InitialDelta = 2
    Charges = {10, 59, 100}
    Threshold = 15
    Durations = {1}
    MaxTime = 1
    Requests <- PauseRequests
    SaveOutcomes = {"ok"}
    PersistOutcomes = {"ok"}
    HardwareOutcomes = {TRUE}
PROPERTIES
    PausedSessionEndsRestored
\* The clock stops at MaxTime and users may ask for nothing more.
CHECK_DEADLOCK FALSE
