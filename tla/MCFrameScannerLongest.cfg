SPECIFICATION Spec
CONSTANTS
    SizeT = 1048576
    Lengths = {16380, 16383}
    DsrcMsgIds <- MCDsrcMsgIds
    Psids <- MCPsids
    Datagrams <- MCDatagrams
CHECK_DEADLOCK FALSE
INVARIANT
    ReportsTheFrame
