SPECIFICATION FairSpec
CONSTANTS
    Periods = {3}
    Delays = {}
    SleepLengths = {1}
    Lead = 1
    OverdueDelay = 2
    RetryDelay = 1
    MaxAttempts = 1
    Capacity = 1
    WakeHook = TRUE
    Prompt = TRUE
    Requests = {"schedule", "disable", "restart"}
    SaveOutcomes = {TRUE, FALSE}
    PreCheckOutcomes = {TRUE, FALSE}
    Clients = {c1, c2}
    Runners = {r1, r2}
    MaxTime = 6
INVARIANTS
    RunningIsTrue
    ExpressionIsServed
PROPERTIES
    RunsKeepTime
    NoRunStartsTwice
    StopEnds
\* The clock stops at MaxTime.
CHECK_DEADLOCK FALSE
