-------------------------- MODULE FrameScanner_proofs --------------------------
(***************************************************************************)
(* Proofs about FrameScanner, for every set of datagrams, ids and PSIDs:   *)
(* the scan stays inside the datagram, the code's rule for lengths is the  *)
(* format's but for three kinds of frame, and a datagram that holds none   *)
(* of these is scanned right.                                              *)
(*                                                                         *)
(* The inductive invariant IInv is that of a search: no message begins     *)
(* before the position the loop is at.                                     *)
(***************************************************************************)
EXTENDS FrameScanner, TLAPS

USE DatagramsAssumption

\* A search that has not ended has passed no message.
SearchInv == pc = "scan" => \A s \in 0 .. i - 1 : ~MessageAt(entry, s)

IInv ==
    /\ TypeOK
    /\ pc = "scan" => reported = NoFrame
    /\ Clear(entry) => SearchInv /\ ReportsTheFrame

-----------------------------------------------------------------------------
(* The checks of process() *)

\* What is read from a datagram is an octet, also past its end.
LEMMA ByteIsOctet ==
    ASSUME NEW d \in Buffer, NEW k \in Nat
    PROVE  Byte(d, k) \in 0 .. 255
<1>1. d.head \in Seq(Octet) /\ d.fill \in Octet
  BY DEF Buffer
<1>2. CASE k < Len(d.head)
  <2>1. d.head[k + 1] \in Octet
    BY <1>1, <1>2
  <2> QED  BY <1>2, <2>1 DEF Byte, Octet
<1>3. CASE ~(k < Len(d.head))
  BY <1>1, <1>3 DEF Byte, Octet
<1> QED  BY <1>2, <1>3

\* Once the datagram is known to have three bytes, the unsigned subtraction is
\* the ordinary one.
LEMMA LoopBound ==
    ASSUME NEW d \in Buffer, NEW k \in Nat, ~Refused(d)
    PROVE  LoopsAt(d, k) <=> k + 3 < d.size
<1>1. SizeT \in Nat /\ d.size \in 3 .. SizeT - 1
  BY DEF Buffer, Refused
<1>2. (d.size - 3) % SizeT = d.size - 3
  BY <1>1
<1> QED  BY <1>1, <1>2 DEF LoopsAt

\* How long the rest of a datagram is that is looked at.
LEMMA RestOfDatagram ==
    ASSUME NEW d \in Buffer, NEW s \in Nat, s + 3 < d.size, d.size - s <= MaxFrame
    PROVE  d.size - s \in 4 .. MaxFrame
<1>1. PICK z \in Nat : z = d.size
  BY DEF Buffer
<1>2. s + 3 < z /\ z - s <= MaxFrame
  BY <1>1
<1>3. z - s \in 4 .. MaxFrame
  BY <1>2, SMT DEF MaxFrame
<1> QED  BY <1>1, <1>3, Zenon

\* The two rules for a length, and where they differ, as arithmetic on the number
\* n of bytes from the id on and the two bytes b and c after the id.
CodeRule(n, b, c) == IF n > 127 THEN (b % 128) * 256 + c = n - 4 ELSE b = n - 3
FormatRule(n, b, c) ==
    \/ b < 128 /\ n - 3 = b
    \/ b \in 128 .. 191 /\ n - 4 = (b - 128) * 256 + c
Apart(n, b, c) ==
    \/ n \in 128 .. 130 /\ b = n - 3
    \/ n < 128 /\ b >= 128 /\ (b - 128) * 256 + c = n - 4
    \/ n > 127 /\ b < 128 /\ b * 256 + c = n - 4

\* They differ there and nowhere else.
LEMMA LengthRule ==
    ASSUME NEW n \in 4 .. MaxFrame, NEW b \in 0 .. 255, NEW c \in 0 .. 255
    PROVE  (CodeRule(n, b, c) <=> FormatRule(n, b, c)) <=> ~Apart(n, b, c)
<1> USE DEF CodeRule, FormatRule, Apart, MaxFrame
<1>1. b % 128 = IF b < 128 THEN b ELSE b - 128
  BY SMT
<1>2. CASE n > 127   BY <1>1, <1>2, SMT
<1>3. CASE n <= 127  BY <1>3, SMT
<1> QED  BY <1>2, <1>3, SMT

\* Where the code's rule for lengths and the format differ, exactly: for every
\* frame that is not given up for its size.
THEOREM SizeRule ==
    ASSUME NEW d \in Buffer, NEW s \in Nat, s + 3 < d.size, d.size - s <= MaxFrame
    PROVE  (isValidMsgSize(d, s) <=> FrameAt(d, s)) <=> ~Misjudged(d, s)
<1> DEFINE n == d.size - s
           b == Byte(d, s + 2)
           c == Byte(d, s + 3)
<1>1. n \in 4 .. MaxFrame /\ b \in 0 .. 255 /\ c \in 0 .. 255
  <2>1. s + 2 \in Nat /\ s + 3 \in Nat
    OBVIOUS
  <2> QED  BY <2>1, RestOfDatagram, ByteIsOctet, Zenon
<1>2. isValidMsgSize(d, s) <=> CodeRule(n, b, c)
  BY Zenon DEF isValidMsgSize, CodeRule
<1>3. FrameAt(d, s) <=> FormatRule(n, b, c)
  BY Zenon DEF FrameAt, FormatRule
<1>4. Misjudged(d, s) <=> Apart(n, b, c)
  BY Zenon DEF Misjudged, Apart
<1> HIDE DEF n, b, c
<1>5. (CodeRule(n, b, c) <=> FormatRule(n, b, c)) <=> ~Apart(n, b, c)
  BY <1>1, LengthRule, Zenon
<1> QED  BY <1>2, <1>3, <1>4, <1>5, Zenon

\* A datagram that goes on for as long as isValidMsgAssumingBSMPSID reads leaves
\* it no choice.
LEMMA LookAheadInside ==
    ASSUME NEW d \in Buffer, NEW s \in Nat, s + 11 < d.size
    PROVE  MayAssumeBSMPSID(d, s) => MustAssumeBSMPSID(d, s)
<1>1. ASSUME NEW k \in s .. s + 10, NEW w \in {BsmElement, BsmId}, MayBe(d, k, w)
      PROVE  Is(d, k, w)
  <2>1. k \in Nat /\ k + 1 < d.size /\ k < d.size
    BY DEF Buffer
  <2>2. Byte(d, k) = w \div 256 /\ Byte(d, k + 1) = w % 256
    BY <1>1, <2>1 DEF MayBe
  <2>3. Word(d, k) = w
    BY <2>2 DEF Word, BsmElement, BsmId
  <2> QED  BY <2>1, <2>3 DEF Is
<1>2. ASSUME NEW k \in s .. s + 5, NEW j \in k .. k + 5
      PROVE  k \in s .. s + 10 /\ j \in s .. s + 10
  OBVIOUS
<1> QED  BY <1>1, <1>2 DEF MayAssumeBSMPSID, MustAssumeBSMPSID

-----------------------------------------------------------------------------
(* The first message *)

\* There is none.
LEMMA NothingExpected ==
    ASSUME NEW d \in Buffer, \A s \in 0 .. d.size : ~MessageAt(d, s)
    PROVE  Expected(d) = NoFrame
BY DEF Expected

\* There is one, and none before it.
LEMMA FirstExpected ==
    ASSUME NEW d \in Buffer, NEW s \in 0 .. d.size, MessageAt(d, s),
           \A t \in 0 .. s - 1 : ~MessageAt(d, t)
    PROVE  Expected(d) = [at |-> s, id |-> Word(d, s)]
<1> DEFINE found == {t \in 0 .. d.size : MessageAt(d, t)}
           first == CHOOSE t \in found : \A u \in found : t <= u
<1>1. s \in found /\ \A u \in found : s <= u
  BY DEF Buffer
<1>2. first \in found /\ \A u \in found : first <= u
  BY <1>1
<1>3. first = s
  <2>1. first <= s /\ s <= first /\ first \in Int
    BY <1>1, <1>2 DEF Buffer
  <2> QED  BY <2>1
<1>4. Expected(d) = [at |-> first, id |-> Word(d, first)]
  BY <1>1 DEF Expected
<1> QED  BY <1>3, <1>4

\* A message needs four bytes, so the loop need not look at the last three.
LEMMA NoneAtTheEnd ==
    ASSUME NEW d \in Buffer, NEW s \in Nat, s + 3 >= d.size
    PROVE  ~MessageAt(d, s)
BY DEF MessageAt, FrameAt, Buffer

-----------------------------------------------------------------------------
(* The invariant *)

LEMMA InitIInv == Init => IInv
BY DEF Init, IInv, TypeOK, SearchInv, ReportsTheFrame, Buffer

\* Going on to the next position passes no message if there is none here.
LEMMA ContinueKeeps ==
    ASSUME IInv, InLoop, Continue, Clear(entry) => ~MessageAt(entry, i)
    PROVE  IInv'
<1>1. entry \in Buffer /\ i \in Nat /\ i + 3 < entry.size /\ entry.size \in Nat
  BY LoopBound DEF IInv, TypeOK, InLoop, Buffer
<1>2. pc = "scan" /\ pc' = "scan" /\ i' = i + 1 /\ UNCHANGED <<entry, reported>>
  BY DEF InLoop, Continue
<1>3. TypeOK' /\ reported' = NoFrame
  BY <1>1, <1>2 DEF IInv, TypeOK
<1>4. Clear(entry) => SearchInv'
  <2> SUFFICES ASSUME Clear(entry), NEW s \in 0 .. i PROVE ~MessageAt(entry, s)
    BY <1>1, <1>2 DEF SearchInv
  <2> QED  BY <1>1, <1>2 DEF IInv, SearchInv
<1> QED  BY <1>2, <1>3, <1>4 DEF IInv, ReportsTheFrame

\* What a known id says of a clear datagram.
LEMMA ClearHere ==
    ASSUME IInv, KnownId, Clear(entry)
    PROVE  /\ ~Misjudged(entry, i)
           /\ entry.size - i > MaxFrame => \A t \in i .. entry.size : ~MessageAt(entry, t)
           /\ Word(entry, i) \in Psids /\ FrameAt(entry, i) => i + 11 < entry.size
<1>1. entry \in Buffer /\ i \in 0 .. entry.size /\ i + 3 < entry.size
  BY LoopBound DEF IInv, TypeOK, KnownId, InLoop, Buffer
<1>2. Candidate(entry, i)
  BY <1>1 DEF Candidate, KnownId, InLoop, IInv, SearchInv
<1> QED  BY <1>1, <1>2 DEF Clear

\* The end of the loop: there is no message, seen or to come.
LEMMA FinishKeeps == ASSUME IInv, Finish PROVE IInv'
<1>1. entry \in Buffer /\ i \in Nat /\ entry.size \in Nat
  BY DEF IInv, TypeOK, Buffer
<1>2. entry.size <= i + 3
  <2>1. CASE Refused(entry)  BY <1>1, <2>1 DEF Refused
  <2>2. CASE ~Refused(entry) BY <1>1, <2>2, LoopBound DEF Finish
  <2> QED  BY <2>1, <2>2
<1>3. /\ pc = "scan" /\ pc' = "done" /\ reported = NoFrame
      /\ UNCHANGED <<entry, i, reported>>
  BY DEF Finish, IInv
<1>4. ASSUME Clear(entry) PROVE Expected(entry) = NoFrame
  <2>1. ASSUME NEW s \in 0 .. entry.size PROVE ~MessageAt(entry, s)
    <3>1. CASE s < i   BY <1>1, <1>3, <1>4, <3>1 DEF IInv, SearchInv
    <3>2. CASE s >= i  BY <1>1, <1>2, <3>2, NoneAtTheEnd
    <3> QED  BY <1>1, <3>1, <3>2
  <2> QED  BY <1>1, <2>1, NothingExpected
<1> QED  BY <1>3, <1>4 DEF IInv, TypeOK, SearchInv, ReportsTheFrame

\* The scan is given up where nothing is hidden behind the candidate.
LEMMA GiveUpKeeps == ASSUME IInv, GiveUpOversize PROVE IInv'
<1>1. entry \in Buffer /\ i \in Nat /\ entry.size \in Nat
  BY DEF IInv, TypeOK, Buffer
<1>2. /\ pc = "scan" /\ pc' = "done" /\ reported = NoFrame
      /\ UNCHANGED <<entry, i, reported>> /\ KnownId /\ entry.size - i > MaxFrame
  BY DEF GiveUpOversize, KnownId, InLoop, IInv
<1>3. ASSUME Clear(entry) PROVE Expected(entry) = NoFrame
  <2>1. ASSUME NEW s \in 0 .. entry.size PROVE ~MessageAt(entry, s)
    <3>1. CASE s < i   BY <1>1, <1>2, <1>3, <3>1 DEF IInv, SearchInv
    <3>2. CASE s >= i  BY <1>1, <1>2, <1>3, <3>2, ClearHere
    <3> QED  BY <1>1, <3>1, <3>2
  <2> QED  BY <1>1, <2>1, NothingExpected
<1> QED  BY <1>2, <1>3 DEF IInv, TypeOK, SearchInv, ReportsTheFrame

\* What is reported is the first message.
LEMMA ReportKeeps == ASSUME IInv, Report PROVE IInv'
<1>1. entry \in Buffer /\ i \in 0 .. entry.size /\ i + 3 < entry.size /\ entry.size \in Nat
  BY LoopBound DEF IInv, TypeOK, Report, RightSize, KnownId, InLoop, Buffer
<1>2. /\ KnownId /\ pc = "scan" /\ pc' = "done" /\ Word(entry, i) \in DsrcMsgIds
      /\ reported' = [at |-> i, id |-> Word(entry, i)] /\ UNCHANGED <<entry, i>>
      /\ entry.size - i <= MaxFrame /\ isValidMsgSize(entry, i)
  BY DEF Report, RightSize, KnownId, InLoop
<1>3. ASSUME Clear(entry) PROVE reported' = Expected(entry)
  <2>1. FrameAt(entry, i)
    BY <1>1, <1>2, <1>3, ClearHere, SizeRule
  <2>2. MessageAt(entry, i)
    BY <1>2, <2>1 DEF MessageAt, Report, isPossiblePSID
  <2>3. \A t \in 0 .. i - 1 : ~MessageAt(entry, t)
    BY <1>2, <1>3 DEF IInv, SearchInv
  <2> QED  BY <1>1, <1>2, <2>2, <2>3, FirstExpected
<1> QED  BY <1>2, <1>3 DEF IInv, TypeOK, SearchInv, ReportsTheFrame

\* Every step keeps the invariant: each of the three ways of going on passes
\* what is not a message.
LEMMA StepKeeps == ASSUME IInv, [Next]_vars PROVE IInv'
<1>1. CASE SkipUnknownId
  <2>1. ~MessageAt(entry, i)  BY <1>1 DEF SkipUnknownId, MessageAt
  <2> QED  BY <1>1, <2>1, ContinueKeeps DEF SkipUnknownId
<1>2. CASE SkipWrongSize
  <2>1. ASSUME Clear(entry) PROVE ~MessageAt(entry, i)
    <3>1. entry \in Buffer /\ i \in Nat /\ i + 3 < entry.size /\ entry.size - i <= MaxFrame
      BY <1>2, LoopBound DEF IInv, TypeOK, SkipWrongSize, KnownId, InLoop, Buffer
    <3>2. ~FrameAt(entry, i)
      BY <1>2, <2>1, <3>1, ClearHere, SizeRule DEF SkipWrongSize
    <3> QED  BY <3>2 DEF MessageAt
  <2> QED  BY <1>2, <2>1, ContinueKeeps DEF SkipWrongSize, KnownId
<1>3. CASE SkipPSID
  <2>1. ASSUME Clear(entry) PROVE ~MessageAt(entry, i)
    <3>1. entry \in Buffer /\ i \in Nat /\ KnownId /\ Word(entry, i) \in Psids
      BY <1>3 DEF IInv, TypeOK, SkipPSID, RightSize, isPossiblePSID, Buffer
    <3>2. FrameAt(entry, i) => MustAssumeBSMPSID(entry, i)
      BY <1>3, <2>1, <3>1, ClearHere, LookAheadInside DEF SkipPSID
    <3> QED  BY <3>1, <3>2 DEF MessageAt
  <2> QED  BY <1>3, <2>1, ContinueKeeps DEF SkipPSID, RightSize, KnownId
<1>4. CASE UNCHANGED vars
  BY <1>4 DEF vars, IInv, TypeOK, SearchInv, ReportsTheFrame
<1> QED  BY <1>1, <1>2, <1>3, <1>4, FinishKeeps, GiveUpKeeps, ReportKeeps DEF Next

-----------------------------------------------------------------------------
(* The theorems *)

\* The discipline of the search, in every reachable state.
THEOREM Discipline == Spec => []IInv
<1> QED  BY InitIInv, StepKeeps, PTL DEF Spec

\* The loop of process() stays inside every datagram, of any size.
THEOREM StaysInside == Spec => []TypeOK
<1>1. IInv => TypeOK  BY DEF IInv
<1> QED  BY Discipline, <1>1, PTL

\* process() reports the first message of every clear datagram, whatever its
\* payload, and nothing if it has none.
THEOREM ClearIsReported == Spec => [](EntryIsClear => ReportsTheFrame)
<1>1. IInv => (EntryIsClear => ReportsTheFrame)  BY DEF IInv, EntryIsClear
<1> QED  BY Discipline, <1>1, PTL
=============================================================================
