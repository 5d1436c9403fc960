----------------------- MODULE UdpRadioClient_proofs ------------------------
(***************************************************************************)
(* Proofs about UdpRadioClient: its safety properties hold of any serial   *)
(* caller, for every set of packets and datagrams and every bound.         *)
(*                                                                         *)
(* The inductive invariant IInv is the discipline that connect() and       *)
(* close() keep about which objects exist, with the types and the two      *)
(* facts about handlers and faults that need it.  One lemma shows that     *)
(* each group of actions keeps it.                                         *)
(***************************************************************************)
EXTENDS UdpRadioClient, TLAPS

IInv == TypeOK /\ SessionDiscipline /\ NoStaleTraffic /\ SerialFaults

USE BoundsAssumption

\* A queue that is emptied is a queue, with nothing stale in it.
LEMMA EmptyQueue == ASSUME NEW S PROVE <<>> \in Seq(S) /\ 1 .. Len(<<>>) = {}
OBVIOUS

\* A handler posted to a queue that fits the current session keeps it so.
LEMMA AppendFresh ==
    ASSUME NEW S, NEW s, NEW q \in Seq(Handler(S)), NEW d \in S,
           s \in 1 .. MaxSession,
           \A i \in 1 .. Len(q) : q[i].sess = s,
           NEW r, r = Append(q, [data |-> d, sess |-> s])
    PROVE  r \in Seq(Handler(S)) /\ \A i \in 1 .. Len(r) : r[i].sess = s
BY DEF Handler

\* So it does when its first handler is run.
LEMMA TailFresh ==
    ASSUME NEW S, NEW s, NEW q \in Seq(Handler(S)), q # <<>>,
           \A i \in 1 .. Len(q) : q[i].sess = s
    PROVE  Tail(q) \in Seq(Handler(S)) /\ \A i \in 1 .. Len(Tail(q)) : Tail(q)[i].sess = s
OBVIOUS

\* "None" has the type of a thread and of a listener, and so has a listener
\* that is bound but not started.
LEMMA NoneTyped ==
    /\ 0 \in Session
    /\ NoThread \in [sess : Session, live : BOOLEAN]
    /\ \A s \in Session :
          BoundListener(s) \in [sess : Session, running : BOOLEAN, armed : BOOLEAN]
BY DEF NoThread, BoundListener, Session

\* The constructor leaves a client in which nothing exists yet.
LEMMA InitIInv == Init => IInv
<1> SUFFICES ASSUME Init PROVE IInv
  OBVIOUS
<1>1. TypeOK
  <2>1. /\ running \in BOOLEAN /\ connCall \in ConnectPc /\ closeCall \in ClosePc
        /\ fault \in Fault /\ io_stopped \in BOOLEAN
    BY DEF Init, ConnectPc, ClosePc, Fault
  <2>2. io \in Session /\ work \in Session /\ udp_out_socket \in Session
    BY NoneTyped DEF Init
  <2>3. /\ io_thread \in [sess : Session, live : BOOLEAN]
        /\ udp_listener \in [sess : Session, running : BOOLEAN, armed : BOOLEAN]
    BY NoneTyped DEF Init, NoListener
  <2>4. /\ output_strand \in Seq(Handler(Packet))
        /\ posted \in Seq(Handler(Datagram)) /\ inbox \in Seq(Datagram)
    BY EmptyQueue DEF Init
  <2> QED  BY <2>1, <2>2, <2>3, <2>4 DEF TypeOK
<1>2. SessionDiscipline
  BY DEF Init, SessionDiscipline, Up, NoThread, NoListener, BoundListener
<1>3. NoStaleTraffic /\ SerialFaults
  BY EmptyQueue DEF Init, NoStaleTraffic, SerialFaults
<1> QED  BY <1>1, <1>2, <1>3 DEF IInv

\* The steps of connect() keep the invariant.
LEMMA ConnectKeeps == IInv /\ fault = "none" /\ ConnectStep => IInv'
<1> SUFFICES ASSUME IInv, fault = "none", ConnectStep PROVE IInv'
  OBVIOUS
<1> USE DEF IInv, TypeOK, SessionDiscipline, NoStaleTraffic, SerialFaults,
            ConnectPc, ClosePc, Fault, Session, Up, NoThread, NoListener, BoundListener,
            ConnectMove, callVars, ioVars, sockVars, queueVars
<1>1. CASE ConnectRefused  BY <1>1 DEF ConnectRefused
<1>2. CASE ConnectEnter    BY <1>2 DEF ConnectEnter
<1>3. CASE ConnectResolve  BY <1>3 DEF ConnectResolve
<1>4. CASE ConnectNewIo
  <2>1. io' \in Session /\ io_stopped' \in BOOLEAN
    <3>1. io \in Nat /\ io < MaxSession /\ io' = io + 1
      BY <1>4 DEF ConnectNewIo
    <3>2. io_stopped' \in BOOLEAN
      BY <1>4 DEF ConnectNewIo
    <3> QED  BY <3>1, <3>2
  <2>2. output_strand' \in Seq(Handler(Packet)) /\ posted' \in Seq(Handler(Datagram))
    BY <1>4, EmptyQueue DEF ConnectNewIo
  <2>3. TypeOK'  BY <1>4, <2>1, <2>2 DEF ConnectNewIo
  <2>4. SessionDiscipline'  BY <1>4 DEF ConnectNewIo
  <2>5. NoStaleTraffic' /\ SerialFaults'  BY <1>4, EmptyQueue DEF ConnectNewIo
  <2> QED  BY <2>3, <2>4, <2>5
<1>5. CASE ConnectListen
  <2>1. inbox' \in Seq(Datagram)
    BY <1>5, EmptyQueue DEF ConnectListen
  <2>2. udp_listener' \in [sess : Session, running : BOOLEAN, armed : BOOLEAN]
    <3>1. \/ udp_listener' = BoundListener(0)
          \/ udp_listener' = BoundListener(io)
      BY <1>5 DEF ConnectListen
    <3>2. 0 \in Session /\ io \in Session
      OBVIOUS
    <3> HIDE DEF IInv, TypeOK, SessionDiscipline, Session, BoundListener
    <3> QED  BY <3>1, <3>2, NoneTyped
  <2>3. TypeOK'  BY <1>5, <2>1, <2>2 DEF ConnectListen
  <2>4. SessionDiscipline'  BY <1>5 DEF ConnectListen
  <2>5. NoStaleTraffic' /\ SerialFaults'  BY <1>5 DEF ConnectListen
  <2> QED  BY <2>3, <2>4, <2>5
<1>6. CASE ConnectSocket   BY <1>6 DEF ConnectSocket
<1>7. CASE ConnectSpawn       BY <1>7 DEF ConnectSpawn, Started
<1>8. CASE ConnectSpawnFails  BY <1>8 DEF ConnectSpawnFails, Started
<1>9. CASE ConnectRun         BY <1>9 DEF ConnectRun
<1>10. CASE ConnectFault      BY <1>10 DEF ConnectFault, Fail
<1> QED
  BY <1>1, <1>2, <1>3, <1>4, <1>5, <1>6, <1>7, <1>8, <1>9, <1>10 DEF ConnectStep

\* The steps of close() keep the invariant.
LEMMA CloseKeeps == IInv /\ fault = "none" /\ CloseStep => IInv'
<1> SUFFICES ASSUME IInv, fault = "none", CloseStep PROVE IInv'
  OBVIOUS
<1> USE DEF IInv, TypeOK, SessionDiscipline, NoStaleTraffic, SerialFaults,
            ConnectPc, ClosePc, Fault, Session, Up, NoThread, NoListener, BoundListener,
            CloseMove, callVars, ioVars, sockVars, queueVars
<1>1. CASE CloseNoop     BY <1>1 DEF CloseNoop
<1>2. CASE CloseBegin    BY <1>2 DEF CloseBegin
<1>3. CASE CloseStop     BY <1>3 DEF CloseStop
<1>4. CASE CloseJoin     BY <1>4 DEF CloseJoin
<1>5. CASE CloseRelease  BY <1>5 DEF CloseRelease
<1>6. CASE CloseFault    BY <1>6 DEF CloseFault, Fail, Orphan
<1> QED  BY <1>1, <1>2, <1>3, <1>4, <1>5, <1>6 DEF CloseStep

\* The handlers run by the io thread, and its end, keep the invariant.
LEMMA IoKeeps == IInv /\ fault = "none" /\ IoStep => IInv'
<1> SUFFICES ASSUME IInv, fault = "none", IoStep PROVE IInv'
  OBVIOUS
<1> USE DEF IInv, TypeOK, SessionDiscipline, NoStaleTraffic, SerialFaults,
            ConnectPc, ClosePc, Fault, Session, Up, Handler, Dispatching,
            callVars, ioVars, sockVars, queueVars
<1>1. CASE IoSend
  <2>1. /\ output_strand \in Seq(Handler(Packet)) /\ output_strand # <<>>
        /\ \A i \in 1 .. Len(output_strand) : output_strand[i].sess = io
    BY <1>1 DEF IoSend
  <2>2. /\ Tail(output_strand) \in Seq(Handler(Packet))
        /\ \A i \in 1 .. Len(Tail(output_strand)) : Tail(output_strand)[i].sess = io
    BY <2>1, TailFresh
  <2>3. TypeOK' /\ NoStaleTraffic' /\ SerialFaults'
    BY <1>1, <2>2 DEF IoSend
  <2>4. SessionDiscipline'
    BY <1>1 DEF IoSend
  <2> QED  BY <2>3, <2>4
<1>2. CASE IoReceive     
  <2>1. posted' \in Seq(Handler(Datagram))
        /\ \A i \in 1 .. Len(posted') : posted'[i].sess = io
    BY <1>2, AppendFresh, Head(inbox) \in Datagram DEF IoReceive
  <2>2. inbox' \in Seq(Datagram)
    BY <1>2 DEF IoReceive
  <2> QED  BY <1>2, <2>1, <2>2 DEF IoReceive
<1>3. CASE IoReceiveError
  <2>1. inbox' \in Seq(Datagram)
    BY <1>3 DEF IoReceiveError
  <2>2. TypeOK' /\ NoStaleTraffic' /\ SerialFaults'
    BY <1>3, <2>1 DEF IoReceiveError
  <2>3. SessionDiscipline'
    BY <1>3 DEF IoReceiveError
  <2> QED  BY <2>2, <2>3
<1>4. CASE IoReceiveFatal  BY <1>4 DEF IoReceiveFatal
<1>5. CASE IoDeliver
  <2>1. posted' \in Seq(Handler(Datagram))
        /\ \A i \in 1 .. Len(posted') : posted'[i].sess = io
    BY <1>5, TailFresh DEF IoDeliver
  <2> QED  BY <1>5, <2>1 DEF IoDeliver
<1>6. CASE IoRunError      BY <1>6 DEF IoRunError
<1>7. CASE IoExit          BY <1>7 DEF IoExit
<1>8. CASE IoThrows        BY <1>8 DEF IoThrows, Fail
<1>9. CASE IoFault         BY <1>9 DEF IoFault, Fail
<1> QED
  BY <1>1, <1>2, <1>3, <1>4, <1>5, <1>6, <1>7, <1>8, <1>9 DEF IoStep, IoReceiveStep

\* What the network, the host and the caller do keeps the invariant.
LEMMA OutsideKeeps == IInv /\ fault = "none" /\ (HostStep \/ Caller) => IInv'
<1> SUFFICES ASSUME IInv, fault = "none", HostStep \/ Caller PROVE IInv'
  OBVIOUS
<1> USE DEF IInv, TypeOK, SessionDiscipline, NoStaleTraffic, SerialFaults,
            ConnectPc, ClosePc, Fault, Session, Up, Handler, ConnectMove, CloseMove,
            callVars, ioVars, sockVars, queueVars
<1>1. ASSUME NEW d \in Datagram, Arrive(d) PROVE IInv'  BY <1>1 DEF Arrive
<1>2. CASE CallConnect    BY <1>2 DEF CallConnect
<1>3. CASE ConnectReturn  BY <1>3 DEF ConnectReturn, ConnectEnded
<1>4. CASE CallClose      BY <1>4 DEF CallClose
<1>5. CASE CloseReturn    BY <1>5 DEF CloseReturn
<1>6. ASSUME NEW p \in Packet, CallSend(p) PROVE IInv'  BY <1>6 DEF CallSend, Post
<1>7. CASE Renew
  <2>1. /\ output_strand' \in Seq(Handler(Packet))
        /\ posted' \in Seq(Handler(Datagram)) /\ inbox' \in Seq(Datagram)
    BY <1>7, EmptyQueue DEF Renew
  <2>2. TypeOK'
    BY <1>7, <2>1, NoneTyped DEF Renew, NoListener
  <2>3. SessionDiscipline'
    BY <1>7 DEF Renew, ConnectEnded
  <2>4. NoStaleTraffic' /\ SerialFaults'
    BY <1>7, EmptyQueue DEF Renew
  <2> QED  BY <2>2, <2>3, <2>4
<1>8. CASE RenewFault    BY <1>8 DEF RenewFault, Fail, ConnectEnded
<1>9. CASE DestroyFault  BY <1>9 DEF DestroyFault, Fail
<1> QED  BY <1>1, <1>2, <1>3, <1>4, <1>5, <1>6, <1>7, <1>8, <1>9 DEF HostStep, Caller

\* A step that changes nothing keeps the invariant.
LEMMA StutterKeeps == IInv /\ UNCHANGED clientVars => IInv'
BY DEF IInv, TypeOK, SessionDiscipline, NoStaleTraffic, SerialFaults, Up,
       clientVars, callVars, ioVars, sockVars, queueVars

\* Every reachable state of a client with a serial caller satisfies IInv.
THEOREM Discipline == Spec => []IInv
<1>1. IInv /\ [Next]_clientVars => IInv'
  BY ConnectKeeps, CloseKeeps, IoKeeps, OutsideKeeps, StutterKeeps DEF Next, Halted
<1> QED  BY InitIInv, <1>1, PTL DEF Spec

\* The types of the members; no handler is posted to a null io_service.
THEOREM TypeCorrect == Spec => []TypeOK
<1>1. IInv => TypeOK  BY DEF IInv
<1> QED  BY Discipline, <1>1, PTL

\* Which of the client's objects exist at each point of connect() and close().
THEOREM Disciplined == Spec => []SessionDiscipline
<1>1. IInv => SessionDiscipline  BY DEF IInv
<1> QED  BY Discipline, <1>1, PTL

\* While connected() is true the session is usable: its output socket and its
\* started listener exist and are of the current io_service.
THEOREM ConnectedIsWhole == Spec => []ConnectedSessionIsWhole
<1>1. IInv => ConnectedSessionIsWhole
  BY DEF IInv, SessionDiscipline, Up, ConnectedSessionIsWhole
<1> QED  BY Discipline, <1>1, PTL

\* While a handler may run, all that handlers dereference exists.
THEOREM HandlersAreSafe == Spec => []HandlersSafe
<1>1. IInv => HandlersSafe
  BY DEF IInv, SessionDiscipline, Up, HandlersSafe
<1> QED  BY Discipline, <1>1, PTL

\* Nothing accepted or received in one session waits in a later one.
THEOREM TrafficIsFresh == Spec => []NoStaleTraffic
<1>1. IInv => NoStaleTraffic  BY DEF IInv
<1> QED  BY Discipline, <1>1, PTL

\* When close() returns the client is not connected, no thread of it is left,
\* and an output socket that a failed connect() has left has no message waiting.
THEOREM CloseLeavesNothing == Spec => []CloseQuiesces
<1>1. IInv => CloseQuiesces
  <2> SUFFICES ASSUME IInv, closeCall = "closed"
               PROVE  /\ ~running /\ io_thread = NoThread
                      /\ udp_out_socket = 0 \/ output_strand = <<>>
    BY DEF CloseQuiesces
  <2>1. ~running /\ connCall = "idle" /\ ~Up
    BY DEF IInv, SessionDiscipline, Up
  <2>2. io_thread.sess = 0 /\ io_thread.live = FALSE
    BY <2>1 DEF IInv, TypeOK, SessionDiscipline
  <2>3. io_thread \in [sess : Session, live : BOOLEAN]
    BY DEF IInv, TypeOK
  <2>4. udp_out_socket = 0 \/ output_strand = <<>>
    BY <2>1 DEF IInv, SessionDiscipline
  <2> QED  BY <2>1, <2>2, <2>3, <2>4 DEF NoThread
<1> QED  BY Discipline, <1>1, PTL

\* A serial caller meets no other undefined behaviour than an object that
\* outlives its io_service, outside close(), and an exception on the io thread.
THEOREM FaultsOfASerialCaller == Spec => []SerialFaults
<1>1. IInv => SerialFaults  BY DEF IInv
<1> QED  BY Discipline, <1>1, PTL

-----------------------------------------------------------------------------
(* The transport implements RadioLink *)

\* The handlers of output_strand_ hold the packets that are pending.
Data(q) == [i \in DOMAIN q |-> q[i].data]

LEMMA PendingData ==
    ASSUME NEW q \in Seq(Handler(Packet)), NEW p \in Packet, NEW s \in 1 .. MaxSession
    PROVE  /\ Data(<<>>) = <<>>
           /\ Data(Append(q, [data |-> p, sess |-> s])) = Append(Data(q), p)
           /\ q # <<>> => Data(q) # <<>> /\ Data(Tail(q)) = Tail(Data(q))
BY DEF Handler, Data

\* The variables of the abstract link, in the client's.
LEMMA LinkState ==
    /\ running => phase = "up" /\ pending = Data(output_strand)
    /\ ~running /\ Ending => phase = "ending" /\ pending = Data(output_strand)
    /\ ~running /\ ~Ending => phase = "down" /\ pending = <<>>
BY DEF phase, pending, Data

\* A step that leaves running_, close()'s progress, the session of the thread
\* and the strand as they are is none of the link's.
LEMMA LinkStutter ==
    UNCHANGED <<running, closeCall, io, io_thread.sess, output_strand>>
    => UNCHANGED Link!linkVars
BY DEF phase, pending, Ending, Link!linkVars

\* Nor is one from a session that is over to another.
LEMMA LinkDown ==
    /\ ~running /\ ~Ending
    /\ ~running' /\ ~Ending'
    => UNCHANGED Link!linkVars
BY DEF phase, pending, Link!linkVars

\* Every step of the client is a step of the link or changes nothing in it.
LEMMA LinkStep ==
    IInv /\ [Next]_clientVars => [Link!Next]_(Link!linkVars)
<1> SUFFICES ASSUME IInv, [Next]_clientVars
             PROVE  Link!Next \/ UNCHANGED Link!linkVars
  OBVIOUS
<1> USE DEF callVars, ioVars, sockVars, queueVars, ConnectMove, CloseMove
<1>1. CASE ConnectRun
  <2>1. ~running /\ closeCall = "idle" /\ output_strand = <<>> /\ connCall = "run"
    BY <1>1 DEF ConnectRun, IInv, SessionDiscipline
  <2>2. phase = "down" /\ pending = <<>>
    BY <2>1, LinkState DEF Ending
  <2>3. phase' = "up" /\ pending' = Data(output_strand)
    BY <1>1 DEF ConnectRun, phase, pending, Data
  <2>4. pending' = <<>>
    BY <2>1, <2>3 DEF Data
  <2> QED  BY <2>2, <2>3, <2>4 DEF Link!Next, Link!Open
<1>2. CASE ConnectNewIo \/ ConnectSpawn
  <2>1. connCall \in {"newio", "spawn"} /\ UNCHANGED <<running, closeCall>>
    BY <1>2 DEF ConnectNewIo, ConnectSpawn
  <2>2. ~running /\ closeCall = "idle" /\ ~running' /\ closeCall' = "idle"
    BY <2>1 DEF IInv, SessionDiscipline
  <2> QED  BY <2>2, LinkDown DEF Ending
<1>3. CASE ConnectStep /\ ~ConnectRun /\ ~ConnectNewIo /\ ~ConnectSpawn
  <2>1. UNCHANGED <<running, closeCall, io, io_thread, output_strand>>
    BY <1>3 DEF ConnectStep, ConnectRefused, ConnectEnter, ConnectResolve,
                ConnectListen, ConnectSocket, ConnectSpawnFails, ConnectFault, Fail
  <2> QED  BY <2>1, LinkStutter
<1>4. CASE CloseBegin
  <2>1. phase = "up" /\ pending = Data(output_strand)
    BY <1>4, LinkState DEF CloseBegin
  <2>2. io_thread.sess = io
    BY <1>4 DEF CloseBegin, IInv, SessionDiscipline, Up
  <2>3. phase' = "ending" /\ pending' = Data(output_strand)
    BY <1>4, <2>2 DEF CloseBegin, phase, pending, Ending, Data
  <2> QED  BY <2>1, <2>3 DEF Link!Next, Link!Disconnect
<1>5. CASE CloseStop
  <2>1. ~running
    BY <1>5 DEF CloseStop, IInv, SessionDiscipline
  <2> QED  BY <1>5, <2>1 DEF CloseStop, phase, pending, Ending, Link!linkVars
<1>6. CASE CloseJoin
  <2>1. ~running
    BY <1>6 DEF CloseJoin, IInv, SessionDiscipline
  <2>2. phase = "ending"
    BY <1>6, <2>1, LinkState DEF CloseJoin, Ending, IInv, SessionDiscipline, Up
  <2>3. phase' = "down" /\ pending' = <<>>
    BY <1>6, <2>1 DEF CloseJoin, phase, pending, Ending
  <2> QED  BY <2>2, <2>3 DEF Link!Next, Link!Over
<1>7. CASE CloseNoop \/ CloseRelease
  <2>1. ~running /\ closeCall \in {"enter", "release"} /\ ~running' /\ closeCall' = "closed"
    BY <1>7 DEF CloseNoop, CloseRelease, IInv, SessionDiscipline
  <2> QED  BY <2>1, LinkDown DEF Ending
<1>8. CASE CloseFault
  <2>1. UNCHANGED <<running, closeCall, io, io_thread, output_strand>>
    BY <1>8 DEF CloseFault, Fail
  <2> QED  BY <2>1, LinkStutter
<1>9. CASE IoSend
  <2>1. phase # "down" /\ pending = Data(output_strand)
    <3>1. Up /\ (connCall = "run" => output_strand = <<>>) /\ output_strand # <<>>
      BY <1>9 DEF IoSend, Dispatching, IInv, SessionDiscipline
    <3>2. io_thread.sess = io
      BY <3>1 DEF IInv, SessionDiscipline
    <3> QED  BY <3>1, <3>2, LinkState DEF Up, Ending
  <2>2. phase' = phase /\ pending' = Data(Tail(output_strand))
    BY <1>9, <2>1 DEF IoSend, phase, pending, Ending, Data
  <2>3. output_strand \in Seq(Handler(Packet)) /\ output_strand # <<>>
    BY <1>9 DEF IoSend, IInv, TypeOK
  <2>4. pending # <<>> /\ pending' = Tail(pending)
    <3>1. output_strand[1] \in Handler(Packet)
      BY <2>3
    <3>2. output_strand[1].data \in Packet /\ output_strand[1].sess \in 1 .. MaxSession
      BY <3>1 DEF Handler
    <3> QED  BY <2>1, <2>2, <2>3, <3>2, PendingData
  <2> QED  BY <2>1, <2>2, <2>4 DEF Link!Next, Link!Emit
<1>10. CASE IoStep /\ ~IoSend
  <2>1. UNCHANGED <<running, closeCall, io, io_thread.sess, output_strand>>
    BY <1>10 DEF IInv, TypeOK, IoStep, IoReceiveStep, IoReceive, IoReceiveError, IoReceiveFatal,
                 IoDeliver, IoThrows, IoRunError, IoExit, IoFault, Fail
  <2> QED  BY <2>1, LinkStutter
<1>11. CASE HostStep
  <2>1. UNCHANGED <<running, closeCall, io, io_thread, output_strand>>
    BY <1>11 DEF HostStep, Arrive
  <2> QED  BY <2>1, LinkStutter
<1>12. ASSUME NEW p \in Packet, CallSend(p)
       PROVE  Link!Next
  <2>1. /\ running /\ running' = running /\ closeCall' = closeCall
        /\ output_strand' = Append(output_strand, [data |-> p, sess |-> io])
    BY <1>12 DEF CallSend, Post
  <2>2. output_strand \in Seq(Handler(Packet)) /\ io \in 1 .. MaxSession
    <3>1. io # 0 /\ io \in Session
      BY <2>1 DEF IInv, TypeOK, SessionDiscipline, Up
    <3> QED  BY <3>1 DEF Session, IInv, TypeOK
  <2>3. phase = "up" /\ pending = Data(output_strand)
    BY <2>1, LinkState
  <2>4. phase' = "up" /\ pending' = Data(output_strand')
    BY <2>1 DEF phase, pending, Data
  <2>5. pending' = Append(pending, p)
    BY <2>1, <2>2, <2>3, <2>4, PendingData
  <2> QED  BY <2>3, <2>4, <2>5 DEF Link!Next, Link!Accept
<1>13. CASE CallConnect \/ ConnectReturn
  <2>1. UNCHANGED <<running, closeCall, io, io_thread, output_strand>>
    BY <1>13 DEF CallConnect, ConnectReturn
  <2> QED  BY <2>1, LinkStutter
<1>14. CASE CallClose
  BY <1>14 DEF CallClose, phase, pending, Ending, Link!linkVars
<1>15. CASE CloseReturn \/ Renew
  <2>1. closeCall = "closed" /\ closeCall' = "idle" /\ ~running /\ ~running'
    BY <1>15 DEF CloseReturn, Renew, IInv, SessionDiscipline
  <2> QED  BY <2>1, LinkDown DEF Ending
<1>16. CASE UNCHANGED clientVars
  BY <1>16, LinkStutter DEF clientVars
<1>17. CASE RenewFault \/ DestroyFault
  BY <1>17, LinkStutter DEF RenewFault, DestroyFault, Fail
<1> QED
  BY <1>1, <1>2, <1>3, <1>4, <1>5, <1>6, <1>7, <1>8, <1>9, <1>10, <1>11, <1>12,
     <1>13, <1>14, <1>15, <1>16, <1>17 DEF Next, Halted, Caller, CloseStep

\* The UDP transport implements the abstract RadioLink: what it has accepted
\* leaves at most once, in order, and in the session that accepted it.
THEOREM ImplementsRadioLink == Spec => KeepsRadioLink
<1>1. Init => Link!Init
  BY DEF Init, Link!Init, phase, pending, Ending
<1> QED  BY Discipline, <1>1, LinkStep, PTL DEF Spec, KeepsRadioLink, Link!Spec
=============================================================================
