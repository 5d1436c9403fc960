SPECIFICATION Spec
CONSTANTS
    m1 = m1
    Message <- MCMessage
    Patient = FALSE
    Orderly = TRUE
    MaxSession = 2
    MaxPosted = 1
INVARIANT
    ReconnectIsSafe
