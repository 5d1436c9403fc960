--------------------------- MODULE MCFrameScanner ---------------------------
(***************************************************************************)
(* Datagrams built as the radio builds them: an optional header, a frame   *)
(* whose payload may itself contain a frame, perhaps cut short or followed *)
(* by a stray byte.  The ids and PSIDs are those of etc/wave.json.         *)
(***************************************************************************)
EXTENDS FrameScanner

CONSTANTS Lengths  \* payload lengths

MCDsrcMsgIds == {18, 19, 20, 31, 32, 41} \cup 240 .. 247
MCPsids == {32, 130, 131, 39, 32784, 49134, 32771, 32773}

FrameHead(id, len) ==
    <<id \div 256, id % 256>> \o
    (IF len < 128 THEN <<len>> ELSE <<128 + len \div 256, len % 256>>)

\* A payload that starts with what looks like a complete BSM frame.
Nested(len) == IF len \in 4 .. 130 THEN <<0, 20, len - 3>> ELSE <<>>

Datagram(prefix, id, len, inner, extra) ==
    [head |-> prefix \o FrameHead(id, len) \o inner, fill |-> 1,
     size |-> Len(prefix) + Len(FrameHead(id, len)) + len + extra]

\* A byte short, complete, or followed by a stray byte.
Plain ==
    {Datagram(prefix, id, len, <<>>, 0) :
        prefix \in {<<>>, <<7>>, <<0, 18, 2>>}, id \in {20, 31, 32, 243},
        len \in Lengths}
    \cup
    {Datagram(<<>>, id, len, <<>>, extra) :
        id \in {20, 32}, len \in {n \in Lengths : n < 1000}, extra \in {-1, 1}}
    \cup
    {Datagram(<<>>, id, len, Nested(len), 0) : id \in {20, 31}, len \in Lengths}

\* The WSMP header of test/node_test.cpp: PSID 0x20, which is also the id of
\* a PSM, a length that fits, and the element 0x0380.
Headed ==
    {[head |-> <<0, 32, 3 + Len(FrameHead(id, len)) + len, 3, 128,
                 Len(FrameHead(id, len)) + len>> \o FrameHead(id, len),
      fill |-> 1, size |-> 6 + Len(FrameHead(id, len)) + len] :
        id \in {20}, len \in {n \in Lengths : n < 110}}

\* Payloads that end before isValidMsgAssumingBSMPSID() stops reading; the ids
\* are not PSIDs, so that nothing depends on what it reads.
Short ==
    {Datagram(prefix, id, len, <<>>, 0) :
        prefix \in {<<>>, <<7>>, <<0, 18, 2>>}, id \in {20, 31, 243}, len \in {1, 2, 8}}

\* The longest frame that is not given up.
Longest == {Datagram(<<>>, id, 16379, <<>>, 0) : id \in {20, 32}}

Tiny == {[head |-> <<0, 20>>, fill |-> 1, size |-> n] : n \in 0 .. 4}

\* A payload of 17000 bytes, in chunks: the first length byte is 193.
Chunked == {[head |-> <<0, 20, 193>>, fill |-> 1, size |-> 17005]}

MCDatagrams == Plain \cup Headed \cup Short \cup Longest \cup Tiny \cup Chunked
=============================================================================
