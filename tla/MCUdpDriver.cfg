SPECIFICATION FairSpec
CONSTANTS
    m1 = m1
    d1 = d1
    Message <- MCMessage
    Datagram <- MCDatagram
    Patient = TRUE
    Orderly = TRUE
    MaxSession = 3
    MaxPosted = 1
    MaxInbox = 1
INVARIANTS
    NodeTypeOK
    QueueDrained
    ErrorBelongsToSession
    InboundFindsPublisher
PROPERTIES
    ClientIsUsedSerially
    ReconnectAttempts
    ConfigureConnects
