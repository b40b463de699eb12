SPECIFICATION Spec
CONSTANTS
    Periods = {4}
    Delays = {2}
    SleepLengths = {}
    Lead = 1
    OverdueDelay = 1
    RetryDelay = 1
    MaxAttempts = 1
    Capacity = 1
    WakeHook = FALSE
    Prompt = TRUE
    Requests = {"schedule", "skip", "postpone"}
    SaveOutcomes = {TRUE}
    PreCheckOutcomes = {TRUE, FALSE}
    Clients = {c1, c2}
    Runners = {r1}
    MaxTime = 10
SYMMETRY ClientSymmetry
INVARIANTS
    GraceEnds
PROPERTIES
    HeededSkipsHold
    PostponedRunsWait
\* The clock stops at MaxTime.
CHECK_DEADLOCK FALSE
