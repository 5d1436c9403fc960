SPECIFICATION FairSpec
CONSTANTS
    m1 = m1
    d1 = d1
    Message <- MCMessage
    Datagram <- MCDatagram
    Patient = TRUE
    Orderly = TRUE
    MaxSession = 2
    MaxPosted = 1
    MaxInbox = 1
PROPERTY
    ErrorIsDealtWith
