SPECIFICATION FairSpec
CONSTANTS
    Threshold = 3
    MaxRecordCount = 2
    PreSleepDelay = 2
    PostSleepDelay = 1
    SleepGrace = 1
    SleepLengths = {1}
    Notices = {TRUE, FALSE}
    HardwareOutcomes = {TRUE}
    PluggedIn = {TRUE}
    InitialConf <- Defaults
    Requests = {"preventSystemSleep"}
PROPERTIES
    IdleSleepDenied
    ChargeResumes
    AssertionReleased
