SPECIFICATION Spec
CONSTANTS
    Mode = "Legacy"
    Limits = {60}
    Deltas = {2}
    InitialDelta = 2
    Charges = {10, 100}
    Threshold = 15
    Durations = {1}
    MaxTime = 1
    Requests <- FailureRequests
    SaveOutcomes = {"ok", "fail", "torn"}
    PersistOutcomes = {"ok", "die"}
    HardwareOutcomes = {TRUE, FALSE}
INVARIANTS
    CheckedConflictsStay
    AssertionMatchesSession
PROPERTIES
    ConflictsComeFromFile
    PoweredWhileCharging
    OnlyTwoStepsForget
\* The clock stops at MaxTime and users may ask for nothing more.
CHECK_DEADLOCK FALSE
