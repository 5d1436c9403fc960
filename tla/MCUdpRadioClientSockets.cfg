SPECIFICATION Spec
CONSTANTS
    p1 = p1
    p2 = p2
    d1 = d1
    Packet <- MCPacket
    Datagram <- MCDatagram
    MaxSession = 2
    MaxPosted = 2
    MaxInbox = 1
INVARIANT
    CloseClosesAllSockets
