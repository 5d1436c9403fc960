SPECIFICATION FairSpec
CONSTANTS
    m1 = m1
    d1 = d1
    Message <- MCMessage
    Datagram <- MCDatagram
    Patient = FALSE
    Orderly = TRUE
    MaxSession = 3
    MaxPosted = 2
    MaxInbox = 1
INVARIANTS
    ShutdownQuiesces
    ConnectedUntilSent
PROPERTIES
    OneConnectAtATime
    CallbacksReturn
    KeepsRadioLink
