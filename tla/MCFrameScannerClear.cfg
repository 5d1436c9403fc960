SPECIFICATION Spec
CONSTANTS
    SizeT = 1048576
    Lengths = {9, 20, 53, 109, 124, 128, 129, 255, 256, 16370}
    DsrcMsgIds <- MCDsrcMsgIds
    Psids <- MCPsids
    Datagrams <- MCDatagrams
CHECK_DEADLOCK FALSE
INVARIANT EntryIsClear
