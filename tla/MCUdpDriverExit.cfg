SPECIFICATION Spec
CONSTANTS
    m1 = m1
    d1 = d1
    Message <- MCMessage
    Datagram <- MCDatagram
    Patient = TRUE
    Orderly = FALSE
    MaxSession = 2
    MaxPosted = 1
    MaxInbox = 1
INVARIANT
    ShutdownQuiesces
