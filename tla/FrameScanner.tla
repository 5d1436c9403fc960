---------------------------- MODULE FrameScanner ----------------------------
(***************************************************************************)
(* BaseRadioClient::process (src/base_radio_client.cpp): the scan of one   *)
(* received datagram for a J2735 MessageFrame, with the checks it calls.   *)
(* A frame is a two-byte DSRCmsgID, a length and the payload; a WSMP       *)
(* header may come before it, and its PSID may look like a DSRCmsgID.      *)
(*                                                                         *)
(* A datagram is given by its first bytes, the byte that fills the rest,   *)
(* and its size.  Positions count from 0, as in the code.  The wave        *)
(* configuration is loaded; before that nothing is accepted.               *)
(***************************************************************************)
EXTENDS Integers, Sequences

CONSTANTS
    DsrcMsgIds,  \* wave_cfg_dsrc_msg_ids_, as numbers
    Psids,       \* wave_cfg_psids_, as numbers
    Datagrams,   \* the datagrams that may be received
    SizeT        \* 2 to the width of size_t: where size() - 3 wraps to

\* The longest frame that is looked at.
MaxFrame == 16383  \* 0x3FFF

Octet == 0 .. 255
Buffer == [head : Seq(Octet), fill : Octet, size : 0 .. SizeT - 1]

ASSUME DatagramsAssumption == SizeT \in Nat /\ Datagrams \subseteq Buffer

VARIABLES
    entry,    \* the datagram being processed
    i,        \* the position the loop is at
    pc,       \* "scan" in the loop, "done" after it
    reported  \* what onMessageReceived was given, NoFrame if nothing

vars == <<entry, i, pc, reported>>

NoFrame == [at |-> -1, id |-> -1]
BsmId == 20
BsmElement == 896  \* 0x0380

Byte(d, k) == IF k < Len(d.head) THEN d.head[k + 1] ELSE d.fill
Word(d, k) == 256 * Byte(d, k) + Byte(d, k + 1)

\* Mutant: only an empty datagram is refused.
RefusedEmpty(d) == d.size = 0
Refused(d) == d.size < 3

LoopsAt(d, k) == k < (d.size - 3) % SizeT

\* Mutant: a frame has a two-byte length from 127 bytes on.
isValidMsgSizeFrom127(d, s) ==
    LET n == d.size - s
    IN  IF n >= 127 THEN (Byte(d, s + 2) % 128) * 256 + Byte(d, s + 3) = n - 4
                    ELSE Byte(d, s + 2) = n - 3

\* The rest of the datagram has exactly the length that the frame states,
\* in two bytes if the whole frame has more than 127 bytes, else in one.
isValidMsgSize(d, s) ==
    LET n == d.size - s
    IN  IF n > 127 THEN (Byte(d, s + 2) % 128) * 256 + Byte(d, s + 3) = n - 4
                   ELSE Byte(d, s + 2) = n - 3

isPossiblePSID(id) == id \in Psids

\* Whether two bytes at k are, or with what lies past the end of the
\* datagram could be, the word w.
Is(d, k, w)    == k + 1 < d.size /\ Word(d, k) = w
MayBe(d, k, w) == /\ k < d.size => Byte(d, k) = w \div 256
                  /\ k + 1 < d.size => Byte(d, k + 1) = w % 256

\* isValidMsgAssumingBSMPSID looks for 0x0380 in the six words from s on, and
\* in the six words from there on for the id of a BSM.  It may read past the
\* end of the datagram, where any bytes may be: it answers true, or false.
MayAssumeBSMPSID(d, s) ==
    \E k \in s .. s + 5 : \E j \in k .. k + 5 :
        MayBe(d, k, BsmElement) /\ MayBe(d, j, BsmId)
MustAssumeBSMPSID(d, s) ==
    \E k \in s .. s + 5 : \E j \in k .. k + 5 :
        Is(d, k, BsmElement) /\ Is(d, j, BsmId)

-----------------------------------------------------------------------------

Init ==
    /\ entry \in Datagrams
    /\ i = 0
    /\ pc = "scan"
    /\ reported = NoFrame

\* The datagram is refused, or the loop has run to its end.
Finish ==
    /\ pc = "scan"
    /\ Refused(entry) \/ ~LoopsAt(entry, i)
    /\ pc' = "done"
    /\ UNCHANGED <<entry, i, reported>>

InLoop == pc = "scan" /\ ~Refused(entry) /\ LoopsAt(entry, i)
KnownId == InLoop /\ Word(entry, i) \in DsrcMsgIds
RightSize ==
    KnownId /\ entry.size - i <= MaxFrame /\ isValidMsgSize(entry, i)

Continue == i' = i + 1 /\ UNCHANGED <<entry, pc, reported>>

SkipUnknownId == InLoop /\ Word(entry, i) \notin DsrcMsgIds /\ Continue

\* Too long for a length field of two bytes: the scan is given up.
GiveUpOversize ==
    /\ KnownId
    /\ entry.size - i > MaxFrame
    /\ pc' = "done"
    /\ UNCHANGED <<entry, i, reported>>

SkipWrongSize ==
    KnownId /\ entry.size - i <= MaxFrame /\ ~isValidMsgSize(entry, i) /\ Continue

SkipPSID ==
    /\ RightSize
    /\ isPossiblePSID(Word(entry, i))
    /\ MayAssumeBSMPSID(entry, i)
    /\ Continue

\* onMessageReceived(msg_vec, msg_id); break.
Report ==
    /\ RightSize
    /\ ~isPossiblePSID(Word(entry, i)) \/ ~MustAssumeBSMPSID(entry, i)
    /\ reported' = [at |-> i, id |-> Word(entry, i)]
    /\ pc' = "done"
    /\ UNCHANGED <<entry, i>>

Next ==
    \/ Finish \/ SkipUnknownId \/ GiveUpOversize \/ SkipWrongSize
    \/ SkipPSID \/ Report

Spec == Init /\ [][Next]_vars

-----------------------------------------------------------------------------
(* What a frame is *)

\* The format that base_radio_client.h:143-146 describes: the length of a
\* payload below 128 bytes takes one byte, that of a longer one two, the
\* first of which has its top bit set and the next clear.
FrameAt(d, s) ==
    /\ s + 3 < d.size
    /\ LET b == Byte(d, s + 2)
       IN  \/ b < 128 /\ d.size - s - 3 = b
           \/ b \in 128 .. 191 /\ d.size - s - 4 = (b - 128) * 256 + Byte(d, s + 3)

MessageAt(d, s) ==
    /\ Word(d, s) \in DsrcMsgIds
    /\ FrameAt(d, s)
    /\ ~(Word(d, s) \in Psids /\ MustAssumeBSMPSID(d, s))

\* The first message of a datagram.
Expected(d) ==
    LET found == {s \in 0 .. d.size : MessageAt(d, s)}
    IN  IF found = {} THEN NoFrame
        ELSE LET first == CHOOSE s \in found : \A t \in found : s <= t
             IN  [at |-> first, id |-> Word(d, first)]

\* Where isValidMsgSize() and the format part ways: a payload of 125 to 127
\* bytes with a length of one byte, a shorter one with a length of two, and
\* a length of two bytes that lacks the top bit.
Misjudged(d, s) ==
    LET n == d.size - s
        b == Byte(d, s + 2)
        c == Byte(d, s + 3)
    IN  \/ n \in 128 .. 130 /\ b = n - 3
        \/ n < 128 /\ b >= 128 /\ (b - 128) * 256 + c = n - 4
        \/ n > 127 /\ b < 128 /\ b * 256 + c = n - 4

\* Where a frame may begin, as far as the scan has to go.
Candidate(d, s) ==
    /\ s + 3 < d.size
    /\ Word(d, s) \in DsrcMsgIds
    /\ \A t \in 0 .. s - 1 : ~MessageAt(d, t)

\* A datagram on which the code and the format cannot disagree: no candidate
\* is misjudged, none that is given up for its size hides a message, and one
\* whose id may be a PSID is as long as isValidMsgAssumingBSMPSID reads.
Clear(d) ==
    \A s \in 0 .. d.size : Candidate(d, s) =>
        /\ ~Misjudged(d, s)
        /\ d.size - s > MaxFrame => \A t \in s .. d.size : ~MessageAt(d, t)
        /\ Word(d, s) \in Psids /\ FrameAt(d, s) => s + 11 < d.size

-----------------------------------------------------------------------------
(* Properties *)

\* The scan stays inside the datagram, whatever its size: size() - 3 is an
\* unsigned subtraction that must not be reached with less than 3 bytes.
TypeOK ==
    /\ entry \in Datagrams
    /\ i \in 0 .. entry.size
    /\ pc \in {"scan", "done"}
    /\ reported = NoFrame \/ (reported.at = i /\ reported.id \in DsrcMsgIds)

\* process() reports the first MessageFrame of the datagram, past any WSMP
\* header whose PSID looks like one, and nothing if there is none.
ReportsTheFrame == pc = "done" => reported = Expected(entry)

\* The datagrams for which ReportsTheFrame is proved of every payload.
EntryIsClear == Clear(entry)
=============================================================================
