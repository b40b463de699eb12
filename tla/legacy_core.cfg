SPECIFICATION Spec
CONSTANTS
    Mode = "Legacy"
    Limits = {60, 100}
    Deltas = {2}
    InitialDelta = 2
    Charges = {10, 59, 100}
    Threshold = 15
    Durations = {1}
    MaxTime = 1
    Requests <- AllRequests
    SaveOutcomes = {"ok"}
    PersistOutcomes = {"ok", "die"}
    HardwareOutcomes = {TRUE}
INVARIANTS
    AdapterRecoverable
PROPERTIES
    OnlyTwoStepsForget
\* The clock stops at MaxTime and users may ask for nothing more.
CHECK_DEADLOCK FALSE
