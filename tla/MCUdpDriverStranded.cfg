SPECIFICATION FairSpec
CONSTANTS
    m1 = m1
    d1 = d1
    Message <- MCMessage
    Datagram <- MCDatagram
    Patient = FALSE
    Orderly = TRUE
    MaxSession = 2
    MaxPosted = 1
    MaxInbox = 1
PROPERTY
    ConfigureConnects
