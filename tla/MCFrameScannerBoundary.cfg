SPECIFICATION Spec
CONSTANTS
    SizeT = 1048576
    Lengths = {124, 125, 126, 127, 128}
    DsrcMsgIds <- MCDsrcMsgIds
    Psids <- MCPsids
    Datagrams <- MCDatagrams
CHECK_DEADLOCK FALSE
INVARIANT
    ReportsTheFrame
