SPECIFICATION Spec
CONSTANTS
    Mode = "Firmware"
    Limits = {60}
    Deltas = {2}
    InitialDelta = 2
    Charges = {10, 100}
    Threshold = 15
    Durations = {1}
    MaxTime = 1
    Requests <- ReloadRequests
    SaveOutcomes = {"ok"}
    PersistOutcomes = {"ok"}
    HardwareOutcomes = {TRUE}
PROPERTIES
    CutIsBacked
\* The clock stops at MaxTime and users may ask for nothing more.
CHECK_DEADLOCK FALSE
