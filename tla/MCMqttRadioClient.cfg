SPECIFICATION FairSpec
CONSTANTS
    p1 = p1
    p2 = p2
    Packet <- MCPacket
    MaxSession = 3
    MaxPosted = 2
INVARIANTS
    TypeOK
    ClientDiscipline
    CallbackFindsItsClient
    CloseQuiesces
    OutgoingIsCurrent
    NoFault
PROPERTIES
    CallsReturn
    KeepsRadioLink
