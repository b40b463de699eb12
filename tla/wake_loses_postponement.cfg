SPECIFICATION Spec
CONSTANTS
    Periods = {5}
    Delays = {3}
    SleepLengths = {1}
    Lead = 1
    OverdueDelay = 2
    RetryDelay = 1
    MaxAttempts = 1
    Capacity = 4
    WakeHook = TRUE
    Prompt = TRUE
    Requests = {"postpone"}
    SaveOutcomes = {TRUE}
    PreCheckOutcomes = {TRUE}
    Clients = {c1}
    Runners = {r1}
    MaxTime = 10
PROPERTIES
    PostponedRunsWait
\* The clock stops at MaxTime.
CHECK_DEADLOCK FALSE
