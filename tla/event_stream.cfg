SPECIFICATION FairSpec
CONSTANTS
    Publishers = {calibration}
    MaxEvents = 3
    MaxConnections = 2
    HubCapacity = 1
    WireCapacity = 2
    ClientCapacity = 1
INVARIANTS
    NoSendOnClosed
    EventsArriveWhole
PROPERTIES
    PublishReturns
    StreamsEnd
    QueuedEventsArrive
