SPECIFICATION FairSpec
CONSTANTS
    m1 = m1
    Message <- MCMessage
    Patient = TRUE
    Orderly = TRUE
    MaxSession = 3
    MaxPosted = 1
INVARIANTS
    InboundFindsPublisher
    ShutdownQuiesces
PROPERTIES
    ClientIsUsedSerially
    ReconnectAttempts
