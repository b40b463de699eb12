SPECIFICATION Spec
CONSTANTS
    Periods = {9}
    Delays = {3}
    SleepLengths = {}
    Lead = 2
    OverdueDelay = 2
    RetryDelay = 1
    MaxAttempts = 1
    Capacity = 2
    WakeHook = FALSE
    Prompt = TRUE
    Requests = {"postpone"}
    SaveOutcomes = {TRUE}
    PreCheckOutcomes = {TRUE, FALSE}
    Clients = {c1}
    Runners = {r1}
    MaxTime = 15
PROPERTIES
    RunsAreDue
\* The clock stops at MaxTime.
CHECK_DEADLOCK FALSE
