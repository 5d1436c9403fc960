SPECIFICATION FairSpec
CONSTANTS
    m1 = m1
    Message <- MCMessage
    Patient = FALSE
    Orderly = TRUE
    MaxSession = 3
    MaxPosted = 1
PROPERTIES
    CallbacksReturn
