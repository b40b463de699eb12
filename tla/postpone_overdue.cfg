SPECIFICATION Spec
CONSTANTS
    Periods = {5}
    Delays = {2}
    SleepLengths = {4}
    Lead = 1
    OverdueDelay = 2
    RetryDelay = 1
    MaxAttempts = 1
    Capacity = 4
    WakeHook = FALSE
    Prompt = TRUE
    Requests = {"postpone"}
    SaveOutcomes = {TRUE}
    PreCheckOutcomes = {TRUE}
    Clients = {c1}
    Runners = {r1}
    MaxTime = 14
PROPERTIES
    NoticeKept
\* The clock stops at MaxTime.
CHECK_DEADLOCK FALSE
