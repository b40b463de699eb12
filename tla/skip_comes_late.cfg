SPECIFICATION Spec
CONSTANTS
    Periods = {3}
    Delays = {}
    SleepLengths = {}
    Lead = 1
    OverdueDelay = 2
    RetryDelay = 1
    MaxAttempts = 1
    Capacity = 4
    WakeHook = FALSE
    Prompt = TRUE
    Requests = {"skip"}
    SaveOutcomes = {TRUE}
    PreCheckOutcomes = {TRUE}
    Clients = {c1}
    Runners = {r1}
    MaxTime = 6
PROPERTIES
    SkippedRunsDoNotStart
\* The clock stops at MaxTime.
CHECK_DEADLOCK FALSE
