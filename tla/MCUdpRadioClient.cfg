SPECIFICATION FairSpec
CONSTANTS
    p1 = p1
    p2 = p2
    d1 = d1
    Packet <- MCPacket
    Datagram <- MCDatagram
    MaxSession = 3
    MaxPosted = 2
    MaxInbox = 2
INVARIANTS
    TypeOK
    ConnectedSessionIsWhole
    HandlersSafe
    SessionDiscipline
    NoStaleTraffic
    CloseQuiesces
    SerialFaults
PROPERTIES
    CallsReturn
    KeepsRadioLink
