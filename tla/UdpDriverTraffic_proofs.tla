----------------------- MODULE UdpDriverTraffic_proofs -----------------------
(***************************************************************************)
(* What the driver promises whoever sends and receives through it, however *)
(* connect() and close() overlap: no traffic of one session reaches a      *)
(* later one, and sendV2xMessage() has a RadioLink behind it.              *)
(*                                                                         *)
(* The invariant of UdpDriverAnytime_proofs says when running_ is set and  *)
(* the io thread exists; TrafficInv adds what the two queues hold then.    *)
(***************************************************************************)
EXTENDS UdpDriverAnytime_proofs

\* connect() leaves no send waiting on the io_service that it creates, and
\* none is accepted before it sets running_.
FreshStrand == connCall \in {"listen", "socket", "spawn", "run"} => output_strand = <<>>

\* connect() replaces io_ only when the thread that ran it has left run(), and
\* a connected client's thread is the one that runs io_.
ThreadIsCurrent ==
    /\ io_thread.sess <= io
    /\ running \/ connCall = "run" \/ io_thread.live => io_thread.sess = io

TrafficInv == C!TypeOK /\ C!NoStaleTraffic /\ FreshStrand /\ ThreadIsCurrent

TInv == AInv /\ TrafficInv

\* A queue that is emptied is a queue, with nothing stale in it.
LEMMA EmptyQueue == ASSUME NEW S PROVE <<>> \in Seq(S) /\ 1 .. Len(<<>>) = {}
OBVIOUS

\* A handler posted to a queue that fits the current session keeps it so.
LEMMA AppendFresh ==
    ASSUME NEW S, NEW s, NEW q \in Seq(C!Handler(S)), NEW d \in S,
           s \in 1 .. MaxSession,
           \A i \in 1 .. Len(q) : q[i].sess = s,
           NEW r, r = Append(q, [data |-> d, sess |-> s])
    PROVE  r \in Seq(C!Handler(S)) /\ \A i \in 1 .. Len(r) : r[i].sess = s
BY DEF C!Handler

\* The handlers that are left when the first has run are as fresh as before.
LEMMA TailFresh ==
    ASSUME NEW S, NEW s, NEW q \in Seq(C!Handler(S)), q # <<>>,
           \A i \in 1 .. Len(q) : q[i].sess = s,
           NEW r, r = Tail(q)
    PROVE  r \in Seq(C!Handler(S)) /\ \A i \in 1 .. Len(r) : r[i].sess = s
OBVIOUS

\* The types of threads and listeners that connect() and close() make.
LEMMA NoneTyped ==
    /\ 0 \in C!Session
    /\ C!NoThread \in [sess : C!Session, live : BOOLEAN]
    /\ \A s \in C!Session :
          C!BoundListener(s) \in [sess : C!Session, running : BOOLEAN, armed : BOOLEAN]
BY BoundsAssumption DEF C!NoThread, C!BoundListener, C!Session

\* A step that leaves the client's session and queues alone, and starts neither
\* a session nor a thread.
LEMMA TrafficStays ==
    ASSUME TInv, C!TypeOK', UNCHANGED <<io, output_strand, posted, io_thread.sess>>,
           connCall' \in {"listen", "socket", "spawn"}
               => connCall \in {"listen", "socket", "spawn"},
           running' \/ connCall' = "run" \/ io_thread'.live
               => running \/ connCall = "run" \/ io_thread.live,
           connCall' = "run" => connCall = "run"
    PROVE  TrafficInv'
BY DEF TInv, TrafficInv, C!NoStaleTraffic, FreshStrand, ThreadIsCurrent

\* Before handle_on_configure the queues are empty.
LEMMA InitTraffic == Init => TrafficInv
<1> SUFFICES ASSUME Init PROVE TrafficInv
  OBVIOUS
<1>1. C!TypeOK
  <2>1. /\ running \in BOOLEAN /\ connCall \in C!ConnectPc /\ closeCall \in C!ClosePc
        /\ fault \in C!Fault /\ io_stopped \in BOOLEAN
    BY DEF Init, C!Init, C!ConnectPc, C!ClosePc, C!Fault
  <2>2. io \in C!Session /\ work \in C!Session /\ udp_out_socket \in C!Session
    BY NoneTyped DEF Init, C!Init
  <2>3. /\ io_thread \in [sess : C!Session, live : BOOLEAN]
        /\ udp_listener \in [sess : C!Session, running : BOOLEAN, armed : BOOLEAN]
    BY NoneTyped DEF Init, C!Init, C!NoListener
  <2>4. /\ output_strand \in Seq(C!Handler(N!Packed))
        /\ posted \in Seq(C!Handler(Datagram)) /\ inbox \in Seq(Datagram)
    BY EmptyQueue DEF Init, C!Init
  <2> QED  BY <2>1, <2>2, <2>3, <2>4 DEF C!TypeOK
<1>2. C!NoStaleTraffic /\ FreshStrand /\ ThreadIsCurrent
  BY EmptyQueue DEF Init, C!Init, C!NoStaleTraffic, FreshStrand, ThreadIsCurrent,
                    C!NoThread
<1> QED  BY <1>1, <1>2 DEF TrafficInv

\* The node's own steps: they start and end calls, and leave the rest alone.
LEMMA NodeTraffic ==
    ASSUME TInv, AInv', fault = "none", Callback \/ ThreadEnd \/ Request \/ Exit
    PROVE  TrafficInv'
<1>1. /\ connCall' \in {connCall, "enter", "idle"} /\ fault' \in C!Fault
      /\ UNCHANGED <<running, io, io_stopped, io_thread, work, udp_listener, udp_out_socket,
                     output_strand, posted, inbox>>
  <2> USE DEF clientRest, N!NoClientCall, C!Fault
  <2>1. CASE Callback
    BY <2>1 DEF Callback, N!CfgStep, N!CfgWave, N!CfgSlots, N!CfgPub, N!CfgSignal, N!CfgSend,
                N!SpinStep, N!SpinNoError, N!SpinError, N!SpinClosed, N!SpinCheck, N!SpinSpawn,
                N!ReconnectClosed, N!ShutdownJoin, N!ShutdownClosed
  <2>2. CASE ThreadEnd  BY <2>2 DEF ThreadEnd, N!ThreadEnd
  <2>3. CASE Request
    BY <2>3 DEF Request, N!Configure, N!Reconfigure, N!ReconnectSrv, N!OnOutboundMessage,
                N!SendMessageSrv, N!ParameterUpdateCallback, N!Shutdown
  <2>4. CASE Exit
    BY <2>4 DEF Exit, N!Exit, C!DestroyFault, C!Fail, C!callVars, C!ioVars, C!sockVars, C!queueVars
  <2> QED  BY <2>1, <2>2, <2>3, <2>4
<1>2. C!TypeOK'
  BY <1>1 DEF TInv, TrafficInv, C!TypeOK, AInv, TypesInv
<1> QED  BY <1>1, <1>2, TrafficStays

\* connect().
LEMMA ConnectTraffic ==
    ASSUME TInv, AInv', fault = "none", C!ConnectStep
    PROVE  TrafficInv'
<1> USE DEF C!ConnectMove, C!callVars, C!ioVars, C!sockVars, C!queueVars
<1>1. CASE C!ConnectNewIo
  <2>1. /\ output_strand' \in Seq(C!Handler(N!Packed)) /\ posted' \in Seq(C!Handler(Datagram))
        /\ C!NoStaleTraffic' /\ FreshStrand'
    BY <1>1, EmptyQueue DEF C!ConnectNewIo, C!NoStaleTraffic, FreshStrand
  <2>2. C!TypeOK'
    BY <1>1, <2>1 DEF C!ConnectNewIo, TInv, TrafficInv, C!TypeOK, C!Session, AInv, TypesInv
  <2>3. ThreadIsCurrent'
    <3>1. io \in Nat /\ io' = io + 1
      BY <1>1, BoundsAssumption DEF C!ConnectNewIo, TInv, AInv, TypesInv
    <3>2. PICK t \in Nat : t = io_thread.sess /\ t <= io
      BY BoundsAssumption DEF TInv, AInv, TypesInv, TrafficInv, ThreadIsCurrent
    <3>3. io_thread'.sess <= io'
      BY <1>1, <3>1, <3>2 DEF C!ConnectNewIo
    <3>4. ~running' /\ connCall' # "run" /\ ~io_thread'.live
      BY <1>1 DEF C!ConnectNewIo, TInv, AInv, ThreadInv
    <3> QED  BY <3>3, <3>4 DEF ThreadIsCurrent
  <2> QED  BY <2>1, <2>2, <2>3 DEF TrafficInv
<1>2. CASE C!ConnectListen
  <2>1. inbox' \in Seq(Datagram)
    BY <1>2, EmptyQueue DEF C!ConnectListen
  <2>2. udp_listener' \in [sess : C!Session, running : BOOLEAN, armed : BOOLEAN]
    BY <1>2, NoneTyped DEF C!ConnectListen, C!NoListener, TInv, TrafficInv, C!TypeOK
  <2>3. C!TypeOK'
    BY <1>2, <2>1, <2>2 DEF C!ConnectListen, TInv, TrafficInv, C!TypeOK, AInv, TypesInv
  <2> QED  BY <1>2, <2>3, TrafficStays DEF C!ConnectListen
<1>3. CASE C!ConnectSpawn
  <2>1. io_thread' \in [sess : C!Session, live : BOOLEAN]
    BY <1>3 DEF C!ConnectSpawn, TInv, TrafficInv, C!TypeOK
  <2>2. udp_listener' \in [sess : C!Session, running : BOOLEAN, armed : BOOLEAN]
    BY <1>3 DEF C!ConnectSpawn, C!Started, TInv, TrafficInv, C!TypeOK
  <2>3. C!TypeOK'
    BY <1>3, <2>1, <2>2 DEF C!ConnectSpawn, TInv, TrafficInv, C!TypeOK, AInv, TypesInv
  <2>4. ThreadIsCurrent'
    <3>1. io' \in Nat /\ io_thread'.sess = io'
      BY <1>3, BoundsAssumption DEF C!ConnectSpawn, TInv, AInv, TypesInv
    <3> QED  BY <3>1 DEF ThreadIsCurrent
  <2>5. C!NoStaleTraffic' /\ FreshStrand'
    BY <1>3 DEF C!ConnectSpawn, TInv, TrafficInv, C!NoStaleTraffic, FreshStrand
  <2> QED  BY <2>3, <2>4, <2>5 DEF TrafficInv
<1>4. CASE C!ConnectRefused \/ C!ConnectEnter \/ C!ConnectResolve \/ C!ConnectSocket
           \/ C!ConnectRun \/ C!ConnectFault
  <2> USE <1>4 DEF C!ConnectRefused, C!ConnectEnter, C!ConnectResolve, C!ConnectSocket,
                   C!ConnectRun, C!ConnectFault, C!Fail
  <2>1. /\ UNCHANGED <<io, io_stopped, io_thread, work, udp_listener, output_strand, posted,
                       inbox>>
        /\ fault' \in C!Fault /\ udp_out_socket' \in {udp_out_socket, io}
        /\ connCall' \in {"listen", "socket", "spawn"} => connCall \in {"listen", "socket", "spawn"}
        /\ connCall' = "run" => connCall = "run"
        /\ running' \/ connCall' = "run" => running \/ connCall = "run"
    BY DEF C!Fault
  <2>2. C!TypeOK'
    BY <2>1 DEF TInv, TrafficInv, C!TypeOK, AInv, TypesInv
  <2> QED  BY <2>1, <2>2, TrafficStays
<1>5. CASE C!ConnectSpawnFails
  <2>1. /\ udp_listener' \in [sess : C!Session, running : BOOLEAN, armed : BOOLEAN]
        /\ work' \in C!Session
    BY <1>5 DEF C!ConnectSpawnFails, C!Started, TInv, TrafficInv, C!TypeOK
  <2>2. C!TypeOK'
    BY <1>5, <2>1 DEF C!ConnectSpawnFails, TInv, TrafficInv, C!TypeOK, AInv, TypesInv
  <2> QED  BY <1>5, <2>2, TrafficStays DEF C!ConnectSpawnFails
<1> QED  BY <1>1, <1>2, <1>3, <1>4, <1>5 DEF C!ConnectStep

\* close(), which leaves the queues to the next connect().
LEMMA CloseTraffic ==
    ASSUME TInv, AInv', fault = "none", C!CloseStep
    PROVE  TrafficInv'
<1> USE DEF C!CloseStep, C!CloseNoop, C!CloseBegin, C!CloseStop, C!CloseJoin, C!CloseRelease,
            C!CloseFault, C!Fail, C!CloseMove, C!callVars, C!ioVars, C!sockVars, C!queueVars
<1>1. /\ UNCHANGED <<connCall, io, output_strand, posted, inbox>>
      /\ fault' \in C!Fault /\ io_stopped' \in BOOLEAN /\ work' \in {work, 0}
      /\ udp_out_socket' \in {udp_out_socket, 0}
      /\ io_thread' \in {io_thread, C!NoThread}
      /\ udp_listener' \in {udp_listener, [udp_listener EXCEPT !.running = FALSE]}
  BY DEF C!Fault, TInv, TrafficInv, C!TypeOK
<1>2. C!TypeOK'
  <2>1. /\ io_thread' \in [sess : C!Session, live : BOOLEAN]
        /\ udp_listener' \in [sess : C!Session, running : BOOLEAN, armed : BOOLEAN]
        /\ udp_out_socket' \in C!Session /\ work' \in C!Session
    BY <1>1, NoneTyped DEF TInv, TrafficInv, C!TypeOK
  <2> QED  BY <1>1, <2>1 DEF TInv, TrafficInv, C!TypeOK, AInv, TypesInv
<1>3. CASE C!CloseJoin
  <2>1. io \in Nat /\ io_thread'.sess = 0 /\ io_thread'.live = FALSE
    BY <1>3, BoundsAssumption DEF C!NoThread, TInv, AInv, TypesInv
  <2>2. ~running' /\ connCall' # "run"
    BY <1>3 DEF TInv, AInv, ThreadInv
  <2>3. ThreadIsCurrent'
    BY <1>1, <2>1, <2>2 DEF ThreadIsCurrent
  <2>4. C!NoStaleTraffic' /\ FreshStrand'
    BY <1>1 DEF TInv, TrafficInv, C!NoStaleTraffic, FreshStrand
  <2> QED  BY <1>2, <2>3, <2>4 DEF TrafficInv
<1>4. CASE ~C!CloseJoin
  <2>1. io_thread' = io_thread /\ (running' => running)
    BY <1>4
  <2> QED  BY <1>1, <1>2, <2>1, TrafficStays
<1> QED  BY <1>3, <1>4

\* The handlers of the io thread.
LEMMA HandlersTraffic ==
    ASSUME TInv, AInv', fault = "none", C!IoStep \/ C!IoSendError
    PROVE  TrafficInv'
<1> USE DEF C!Dispatching, C!callVars, C!ioVars, C!sockVars, C!queueVars
<1>1. /\ udp_listener \in [sess : C!Session, running : BOOLEAN, armed : BOOLEAN]
      /\ [udp_listener EXCEPT !.armed = udp_listener.running]
             \in [sess : C!Session, running : BOOLEAN, armed : BOOLEAN]
      /\ [udp_listener EXCEPT !.armed = FALSE]
             \in [sess : C!Session, running : BOOLEAN, armed : BOOLEAN]
  BY DEF TInv, TrafficInv, C!TypeOK
<1>2. inbox # <<>> => Head(inbox) \in Datagram /\ Tail(inbox) \in Seq(Datagram)
  BY DEF TInv, TrafficInv, C!TypeOK
<1>3. CASE C!IoSend \/ C!IoSendError
  <2>1. /\ output_strand' \in Seq(C!Handler(N!Packed))
        /\ \A i \in 1 .. Len(output_strand') : output_strand'[i].sess = io
    <3>1. output_strand # <<>> /\ output_strand' = Tail(output_strand)
      BY <1>3 DEF C!IoSend, C!IoSendError
    <3>2. /\ output_strand \in Seq(C!Handler(N!Packed))
          /\ \A i \in 1 .. Len(output_strand) : output_strand[i].sess = io
      BY DEF TInv, TrafficInv, C!TypeOK, C!NoStaleTraffic
    <3> QED  BY <3>1, <3>2, TailFresh
  <2>2. C!TypeOK' /\ C!NoStaleTraffic' /\ ThreadIsCurrent'
    BY <1>3, <2>1 DEF C!IoSend, C!IoSendError, TInv, TrafficInv, C!TypeOK,
                      C!NoStaleTraffic, ThreadIsCurrent
  <2>3. FreshStrand'
    BY <1>3 DEF C!IoSend, C!IoSendError, TInv, TrafficInv, FreshStrand
  <2> QED  BY <2>2, <2>3 DEF TrafficInv
<1>4. CASE C!IoReceive
  <2>1. io \in 1 .. MaxSession
    BY <1>4, BoundsAssumption
    DEF C!IoReceive, TInv, AInv, TypesInv, ThreadInv, TrafficInv, ThreadIsCurrent
  <2>2. /\ posted' \in Seq(C!Handler(Datagram))
        /\ \A i \in 1 .. Len(posted') : posted'[i].sess = io
    <3>1. /\ posted' = Append(posted, [data |-> Head(inbox), sess |-> io])
          /\ Head(inbox) \in Datagram
      BY <1>4, <1>2 DEF C!IoReceive
    <3>2. /\ posted \in Seq(C!Handler(Datagram))
          /\ \A i \in 1 .. Len(posted) : posted[i].sess = io
      BY DEF TInv, TrafficInv, C!TypeOK, C!NoStaleTraffic
    <3> QED  BY <2>1, <3>1, <3>2, AppendFresh
  <2>3. C!TypeOK'
    BY <1>4, <1>1, <1>2, <2>2 DEF C!IoReceive, TInv, TrafficInv, C!TypeOK
  <2>4. C!NoStaleTraffic' /\ FreshStrand' /\ ThreadIsCurrent'
    BY <1>4, <2>2 DEF C!IoReceive, TInv, TrafficInv, C!NoStaleTraffic,
                      FreshStrand, ThreadIsCurrent
  <2> QED  BY <2>3, <2>4 DEF TrafficInv
<1>5. CASE C!IoDeliver
  <2>1. /\ posted' \in Seq(C!Handler(Datagram))
        /\ \A i \in 1 .. Len(posted') : posted'[i].sess = io
    <3>1. posted # <<>> /\ posted' = Tail(posted)
      BY <1>5 DEF C!IoDeliver
    <3>2. /\ posted \in Seq(C!Handler(Datagram))
          /\ \A i \in 1 .. Len(posted) : posted[i].sess = io
      BY DEF TInv, TrafficInv, C!TypeOK, C!NoStaleTraffic
    <3> QED  BY <3>1, <3>2, TailFresh
  <2>2. C!TypeOK'
    BY <1>5, <2>1 DEF C!IoDeliver, TInv, TrafficInv, C!TypeOK
  <2>3. C!NoStaleTraffic' /\ FreshStrand' /\ ThreadIsCurrent'
    BY <1>5, <2>1 DEF C!IoDeliver, TInv, TrafficInv, C!NoStaleTraffic,
                      FreshStrand, ThreadIsCurrent
  <2> QED  BY <2>2, <2>3 DEF TrafficInv
<1>6. CASE C!IoReceiveError \/ C!IoReceiveFatal
  <2>1. C!TypeOK'
    BY <1>6, <1>1, <1>2 DEF C!IoReceiveError, C!IoReceiveFatal, TInv, TrafficInv, C!TypeOK
  <2> QED  BY <1>6, <2>1, TrafficStays DEF C!IoReceiveError, C!IoReceiveFatal
<1>7. CASE C!IoRunError \/ C!IoExit
  <2>1. /\ io_thread' \in [sess : C!Session, live : BOOLEAN]
        /\ io_thread'.sess = io_thread.sess
    BY <1>7, ThreadStops DEF C!IoRunError, C!IoExit, TInv, TrafficInv, C!TypeOK
  <2>2. C!TypeOK'
    BY <1>7, <2>1 DEF C!IoRunError, C!IoExit, TInv, TrafficInv, C!TypeOK
  <2> QED  BY <1>7, <2>1, <2>2, TrafficStays DEF C!IoRunError, C!IoExit
<1>8. CASE C!IoThrows \/ C!IoFault
  <2>1. C!TypeOK'
    BY <1>8 DEF C!IoThrows, C!IoFault, C!Fail, C!Fault, TInv, TrafficInv, C!TypeOK
  <2> QED  BY <1>8, <2>1, TrafficStays DEF C!IoThrows, C!IoFault, C!Fail
<1> QED
  BY <1>3, <1>4, <1>5, <1>6, <1>7, <1>8 DEF C!IoStep, C!IoReceiveStep

\* The network and the host.
LEMMA HostTraffic ==
    ASSUME TInv, AInv', fault = "none", C!HostStep
    PROVE  TrafficInv'
<1> USE DEF C!callVars, C!ioVars, C!sockVars, C!queueVars
<1>1. inbox' \in Seq(Datagram)
  <2>1. inbox \in Seq(Datagram)
    BY DEF TInv, TrafficInv, C!TypeOK
  <2>2. ASSUME NEW d \in Datagram, C!Arrive(d) PROVE inbox' \in Seq(Datagram)
    BY <2>1, <2>2 DEF C!Arrive
  <2> QED  BY <2>2 DEF C!HostStep
<1>2. C!TypeOK'
  BY <1>1 DEF C!HostStep, C!Arrive, TInv, TrafficInv, C!TypeOK
<1> QED  BY <1>2, TrafficStays DEF C!HostStep, C!Arrive

\* sendV2xMessage() posts a packed message, or nothing.
LEMMA SendPosts ==
    ASSUME TInv, SendQueued \/ SendRequested
    PROVE  \/ UNCHANGED C!clientVars
           \/ \E p \in N!Packed : C!Post(p)
<1>1. CASE SendQueued
  <2>1. /\ pc = "obSend"
        /\ \/ C!Post(Head(send_msg_queue))
           \/ UNCHANGED C!clientVars
    BY <1>1 DEF SendQueued, N!SendMessageFromQueue, N!Move, C!PostFails
  <2>2. Head(send_msg_queue) \in N!Packed
    BY <2>1, TailOfOne DEF TInv, AInv, TypesInv, NodeTypeOK, N!NodeTypeOK, QueueInv
  <2> QED  BY <2>1, <2>2
<1>2. CASE SendRequested
  BY <1>2 DEF SendRequested, N!SendMessageReply, N!Move, C!PostFails, TInv, AInv, QueueInv
<1> QED  BY <1>1, <1>2

\* A message is accepted while the client is connected, so that its session
\* exists and is the current one.
LEMMA SendTraffic ==
    ASSUME TInv, AInv', SendQueued \/ SendRequested
    PROVE  TrafficInv'
<1> USE DEF C!callVars, C!ioVars, C!sockVars, C!queueVars, C!clientVars
<1>1. CASE UNCHANGED C!clientVars
  <2>1. C!TypeOK'
    BY <1>1 DEF TInv, TrafficInv, C!TypeOK
  <2> QED  BY <1>1, <2>1, TrafficStays
<1>2. ASSUME NEW p \in N!Packed, C!Post(p) PROVE TrafficInv'
  <2>1. running /\ io \in 1 .. MaxSession
    BY <1>2, BoundsAssumption
    DEF C!Post, TInv, AInv, TypesInv, ThreadInv, TrafficInv, ThreadIsCurrent
  <2>2. /\ output_strand' \in Seq(C!Handler(N!Packed))
        /\ \A i \in 1 .. Len(output_strand') : output_strand'[i].sess = io
    <3>1. output_strand' = Append(output_strand, [data |-> p, sess |-> io])
      BY <1>2 DEF C!Post
    <3>2. /\ output_strand \in Seq(C!Handler(N!Packed))
          /\ \A i \in 1 .. Len(output_strand) : output_strand[i].sess = io
      BY DEF TInv, TrafficInv, C!TypeOK, C!NoStaleTraffic
    <3> QED  BY <2>1, <3>1, <3>2, AppendFresh
  <2>3. C!TypeOK'
    BY <1>2, <2>2 DEF C!Post, TInv, TrafficInv, C!TypeOK
  <2>4. C!NoStaleTraffic' /\ ThreadIsCurrent'
    BY <1>2, <2>2 DEF C!Post, TInv, TrafficInv, C!NoStaleTraffic, ThreadIsCurrent
  <2>5. connCall' \notin {"listen", "socket", "spawn", "run"}
    BY <1>2, <2>1 DEF C!Post, TInv, AInv, ThreadInv
  <2> QED  BY <2>3, <2>4, <2>5 DEF TrafficInv, FreshStrand
<1> QED  BY <1>1, <1>2, SendPosts

\* The old client goes with what was left in its queues.
LEMMA RenewTraffic ==
    ASSUME TInv, AInv', fault = "none", RenewClient
    PROVE  TrafficInv'
<1> USE DEF C!CloseMove, C!callVars, C!ioVars, C!sockVars, C!queueVars
<1>1. CASE C!Renew
  <2>1. /\ output_strand' \in Seq(C!Handler(N!Packed))
        /\ posted' \in Seq(C!Handler(Datagram)) /\ inbox' \in Seq(Datagram)
        /\ C!NoStaleTraffic' /\ FreshStrand'
    BY <1>1, EmptyQueue DEF C!Renew, C!NoStaleTraffic, FreshStrand
  <2>2. udp_listener' \in [sess : C!Session, running : BOOLEAN, armed : BOOLEAN]
        /\ udp_out_socket' \in C!Session /\ work' \in C!Session
    BY <1>1, NoneTyped DEF C!Renew, C!NoListener
  <2>3. C!TypeOK' /\ ThreadIsCurrent'
    BY <1>1, <2>1, <2>2 DEF C!Renew, TInv, TrafficInv, C!TypeOK, ThreadIsCurrent, AInv, TypesInv
  <2> QED  BY <2>1, <2>3 DEF TrafficInv
<1>2. CASE C!RenewFault
  <2>1. C!TypeOK'
    BY <1>2 DEF C!RenewFault, C!Fail, C!Fault, TInv, TrafficInv, C!TypeOK
  <2> QED  BY <1>2, <2>1, TrafficStays DEF C!RenewFault, C!Fail
<1> QED  BY <1>1, <1>2 DEF RenewClient

\* Every step of the driver keeps its traffic fresh.
LEMMA StepTraffic == ASSUME TInv, [Next]_vars PROVE TInv'
<1>1. AInv'  BY StepAny DEF TInv
<1>2. CASE UNCHANGED vars
  <2> USE <1>2 DEF vars, clientRest
  <2>1. C!TypeOK'  BY DEF TInv, TrafficInv, C!TypeOK
  <2> QED  BY <1>1, <2>1, TrafficStays DEF TInv
<1>3. CASE fault = "none" /\ (ClientAlone \/ SignalsError)
  BY <1>1, <1>3, ConnectTraffic, CloseTraffic, HandlersTraffic, HostTraffic
  DEF ClientAlone, SignalsError, TInv, C!IoStep
<1>4. CASE fault = "none" /\ (Executor \/ Request \/ Exit \/ ThreadEnd)
  BY <1>1, <1>4, NodeTraffic, SendTraffic, RenewTraffic DEF Executor, TInv
<1> QED  BY <1>2, <1>3, <1>4 DEF Next

-----------------------------------------------------------------------------
(* The driver as a RadioLink *)

\* The handlers of output_strand_ hold the messages that are pending.
Data(q) == [i \in DOMAIN q |-> q[i].data]

LEMMA PendingData ==
    ASSUME NEW q \in Seq(C!Handler(N!Packed)), NEW p \in N!Packed, NEW s \in 1 .. MaxSession
    PROVE  /\ Data(Append(q, [data |-> p, sess |-> s])) = Append(Data(q), p)
           /\ q # <<>> => Data(q) # <<>> /\ Data(Tail(q)) = Tail(Data(q))
BY DEF C!Handler, Data

\* The variables of the abstract link, in the client's.
LEMMA LinkState ==
    /\ running => C!phase = "up" /\ C!pending = Data(output_strand)
    /\ ~running /\ C!Ending => C!phase = "ending" /\ C!pending = Data(output_strand)
    /\ ~running /\ ~C!Ending => C!phase = "down" /\ C!pending = <<>>
BY DEF C!phase, C!pending, Data

\* A step that leaves running_, close()'s progress, the session of the thread
\* and the strand as they are is none of the link's.
LEMMA LinkStutter ==
    UNCHANGED <<running, closeCall, io, io_thread.sess, output_strand>>
    => UNCHANGED C!Link!linkVars
BY DEF C!phase, C!pending, C!Ending, C!Link!linkVars

\* Nor is one from a session that is over to another.
LEMMA LinkDown ==
    /\ ~running /\ ~C!Ending
    /\ ~running' /\ ~C!Ending'
    => UNCHANGED C!Link!linkVars
BY DEF C!phase, C!pending, C!Link!linkVars

\* An ending session is over when it is joined, or when its io_service is gone.
LEMMA LinkOver ==
    /\ ~running /\ C!Ending
    /\ ~running' /\ ~C!Ending'
    => C!Link!Next
BY LinkState DEF C!phase, C!pending, C!Link!Next, C!Link!Over

\* connect(): its last step opens the link, also behind a close() that has
\* found nothing to close; a new io_service ends a session that close() is
\* still waiting for.
LEMMA ConnectLinks ==
    ASSUME TInv, C!ConnectStep
    PROVE  C!Link!Next \/ UNCHANGED C!Link!linkVars
<1> USE DEF C!ConnectMove, C!callVars, C!ioVars, C!sockVars, C!queueVars
<1>1. CASE C!ConnectRun
  <2>1. /\ ~running /\ closeCall \notin {"stop", "join"} /\ output_strand = <<>>
        /\ running' /\ output_strand' = <<>>
    BY <1>1 DEF C!ConnectRun, TInv, AInv, TypesInv, ThreadInv, TrafficInv, FreshStrand
  <2>2. C!phase = "down" /\ C!pending = <<>>
    BY <2>1, LinkState DEF C!Ending
  <2>3. C!phase' = "up" /\ C!pending' = <<>>
    BY <2>1 DEF C!phase, C!pending
  <2> QED  BY <2>2, <2>3 DEF C!Link!Next, C!Link!Open
<1>2. CASE C!ConnectNewIo
  <2>1. ~running /\ ~running'
    BY <1>2 DEF C!ConnectNewIo, TInv, AInv, ThreadInv
  <2>2. ~C!Ending'
    <3>1. PICK s \in Nat, t \in Nat : s = io /\ t = io_thread.sess /\ t <= s
      BY BoundsAssumption DEF TInv, AInv, TypesInv, TrafficInv, ThreadIsCurrent
    <3>2. io' = s + 1 /\ io_thread'.sess = t
      BY <1>2, <3>1 DEF C!ConnectNewIo
    <3> QED  BY <3>1, <3>2 DEF C!Ending
  <2> QED  BY <2>1, <2>2, LinkDown, LinkOver
<1>3. CASE C!ConnectSpawn
  <2>1. ~running /\ ~running' /\ closeCall \notin {"stop", "join"} /\ closeCall' = closeCall
    BY <1>3 DEF C!ConnectSpawn, TInv, AInv, ThreadInv
  <2> QED  BY <2>1, LinkDown DEF C!Ending
<1>4. CASE C!ConnectStep /\ ~C!ConnectRun /\ ~C!ConnectNewIo /\ ~C!ConnectSpawn
  <2>1. UNCHANGED <<running, closeCall, io, io_thread, output_strand>>
    BY <1>4 DEF C!ConnectStep, C!ConnectRefused, C!ConnectEnter, C!ConnectResolve,
                C!ConnectListen, C!ConnectSocket, C!ConnectSpawnFails, C!ConnectFault, C!Fail
  <2> QED  BY <2>1, LinkStutter
<1> QED  BY <1>1, <1>2, <1>3, <1>4

\* close(): its start disconnects, its join ends the session.
LEMMA CloseLinks ==
    ASSUME TInv, C!CloseStep
    PROVE  C!Link!Next \/ UNCHANGED C!Link!linkVars
<1> USE DEF C!CloseMove, C!callVars, C!ioVars, C!sockVars, C!queueVars
<1>1. CASE C!CloseBegin
  <2>1. C!phase = "up" /\ C!pending = Data(output_strand)
    BY <1>1, LinkState DEF C!CloseBegin
  <2>2. io_thread.sess = io
    BY <1>1 DEF C!CloseBegin, TInv, TrafficInv, ThreadIsCurrent
  <2>3. C!phase' = "ending" /\ C!pending' = Data(output_strand)
    BY <1>1, <2>2 DEF C!CloseBegin, C!phase, C!pending, C!Ending, Data
  <2> QED  BY <2>1, <2>3 DEF C!Link!Next, C!Link!Disconnect
<1>2. CASE C!CloseStop
  <2>1. ~running
    BY <1>2 DEF C!CloseStop, TInv, AInv, ThreadInv
  <2> QED  BY <1>2, <2>1 DEF C!CloseStop, C!phase, C!pending, C!Ending, C!Link!linkVars
<1>3. CASE C!CloseJoin \/ C!CloseNoop \/ (C!CloseRelease /\ ~running)
  <2>1. ~running /\ ~running' /\ ~C!Ending'
    BY <1>3 DEF C!CloseJoin, C!CloseNoop, C!CloseRelease, TInv, AInv, ThreadInv, C!Ending
  <2> QED  BY <2>1, LinkDown, LinkOver
<1>4. CASE C!CloseRelease /\ running
  BY <1>4 DEF C!CloseRelease, C!phase, C!pending, C!Link!linkVars
<1>5. CASE C!CloseFault
  <2>1. UNCHANGED <<running, closeCall, io, io_thread, output_strand>>
    BY <1>5 DEF C!CloseFault, C!Fail
  <2> QED  BY <2>1, LinkStutter
<1> QED  BY <1>1, <1>2, <1>3, <1>4, <1>5 DEF C!CloseStep

\* The io thread hands over the oldest message, while its session is not over.
LEMMA HandlerLinks ==
    ASSUME TInv, C!IoStep \/ C!IoSendError
    PROVE  C!Link!Next \/ UNCHANGED C!Link!linkVars
<1> USE DEF C!callVars, C!ioVars, C!sockVars, C!queueVars
<1>1. CASE C!IoSend \/ C!IoSendError
  <2>1. /\ io_thread.live /\ output_strand # <<>> /\ output_strand' = Tail(output_strand)
        /\ UNCHANGED <<running, closeCall, io, io_thread>>
    BY <1>1 DEF C!IoSend, C!IoSendError, C!Dispatching
  <2>2. running \/ C!Ending
    <3>1. connCall # "run" /\ io_thread.sess = io
      BY <2>1 DEF TInv, TrafficInv, FreshStrand, ThreadIsCurrent
    <3>2. running \/ closeCall \in {"stop", "join"}
      BY <2>1, <3>1 DEF TInv, AInv, ThreadInv
    <3> QED  BY <3>1, <3>2 DEF C!Ending
  <2>3. C!phase # "down" /\ C!pending = Data(output_strand)
    BY <2>2, LinkState
  <2>4. C!phase' = C!phase /\ C!pending' = Data(Tail(output_strand))
    BY <2>1, <2>2 DEF C!phase, C!pending, C!Ending, Data
  <2>5. output_strand \in Seq(C!Handler(N!Packed))
    BY DEF TInv, TrafficInv, C!TypeOK
  <2>6. C!pending # <<>> /\ C!pending' = Tail(C!pending)
    <3>1. output_strand[1] \in C!Handler(N!Packed)
      BY <2>1, <2>5
    <3>2. output_strand[1].data \in N!Packed /\ output_strand[1].sess \in 1 .. MaxSession
      BY <3>1 DEF C!Handler
    <3> QED  BY <2>1, <2>3, <2>4, <2>5, <3>2, PendingData
  <2> QED  BY <2>3, <2>4, <2>6 DEF C!Link!Next, C!Link!Emit
<1>2. CASE C!IoStep /\ ~C!IoSend
  <2>1. UNCHANGED <<running, closeCall, io, io_thread.sess, output_strand>>
    BY <1>2 DEF TInv, TrafficInv, C!TypeOK, C!IoStep, C!IoReceiveStep, C!IoReceive,
                C!IoReceiveError, C!IoReceiveFatal, C!IoDeliver, C!IoRunError, C!IoExit,
                C!IoThrows, C!IoFault, C!Fail
  <2> QED  BY <2>1, LinkStutter
<1> QED  BY <1>1, <1>2

\* sendV2xMessage(): a message is accepted behind those that wait.
LEMMA SendLinks ==
    ASSUME TInv, SendQueued \/ SendRequested
    PROVE  C!Link!Next \/ UNCHANGED C!Link!linkVars
<1> USE DEF C!callVars, C!ioVars, C!sockVars, C!queueVars, C!clientVars
<1>1. CASE UNCHANGED C!clientVars
  BY <1>1, LinkStutter
<1>2. ASSUME NEW p \in N!Packed, C!Post(p) PROVE C!Link!Next
  <2>1. /\ running /\ running' = running
        /\ output_strand' = Append(output_strand, [data |-> p, sess |-> io])
    BY <1>2 DEF C!Post
  <2>2. output_strand \in Seq(C!Handler(N!Packed)) /\ io \in 1 .. MaxSession
    <3>1. io # 0
      BY <2>1 DEF TInv, AInv, ThreadInv, TrafficInv, ThreadIsCurrent
    <3> QED  BY <3>1, BoundsAssumption DEF TInv, AInv, TypesInv, TrafficInv, C!TypeOK
  <2>3. C!phase = "up" /\ C!pending = Data(output_strand)
    BY <2>1, LinkState
  <2>4. C!phase' = "up" /\ C!pending' = Data(output_strand')
    BY <2>1 DEF C!phase, C!pending, Data
  <2>5. C!pending' = Append(C!pending, p)
    BY <2>1, <2>2, <2>3, <2>4, PendingData
  <2> QED  BY <2>3, <2>4, <2>5 DEF C!Link!Next, C!Link!Accept
<1> QED  BY <1>1, <1>2, SendPosts

\* What is no step of the link: the starts and ends of calls, the host, and a
\* client that takes the place of a closed one.
LEMMA OthersLink ==
    ASSUME TInv, Callback \/ ThreadEnd \/ Request \/ Exit \/ RenewClient \/ C!HostStep
    PROVE  UNCHANGED C!Link!linkVars
<1> USE DEF C!callVars, C!ioVars, C!sockVars, C!queueVars
<1>1. CASE C!HostStep \/ C!RenewFault
  <2>1. UNCHANGED <<running, closeCall, io, io_thread, output_strand>>
    BY <1>1 DEF C!HostStep, C!Arrive, C!RenewFault, C!Fail
  <2> QED  BY <2>1, LinkStutter
<1>2. CASE C!Renew
  <2>1. ~running /\ ~running' /\ closeCall = "closed" /\ closeCall' = "idle"
    BY <1>2 DEF C!Renew, C!CloseMove, TInv, AInv, ThreadInv
  <2> QED  BY <2>1, LinkDown DEF C!Ending
<1>3. CASE Callback \/ ThreadEnd \/ Request \/ Exit
  <2>1. /\ closeCall' = closeCall \/ (closeCall = "closed" /\ closeCall' = "idle")
                                 \/ (closeCall = "idle" /\ closeCall' = "enter")
        /\ UNCHANGED <<running, io, io_thread, output_strand>>
    <3> USE DEF clientRest, N!NoClientCall, N!Move, TInv, AInv, CallsInv
    <3>1. CASE Callback
      BY <3>1 DEF Callback, N!CfgStep, N!CfgWave, N!CfgSlots, N!CfgPub, N!CfgSignal, N!CfgSend,
                  N!SpinStep, N!SpinNoError, N!SpinError, N!SpinClosed, N!SpinCheck, N!SpinSpawn,
                  N!ReconnectClosed, N!ShutdownJoin, N!ShutdownClosed
    <3>2. CASE ThreadEnd  BY <3>2 DEF ThreadEnd, N!ThreadEnd
    <3>3. CASE Request
      BY <3>3 DEF Request, N!Configure, N!Reconfigure, N!ReconnectSrv, N!OnOutboundMessage,
                  N!SendMessageSrv, N!ParameterUpdateCallback, N!Shutdown
    <3>4. CASE Exit
      BY <3>4 DEF Exit, N!Exit, C!DestroyFault, C!Fail
    <3> QED  BY <1>3, <3>1, <3>2, <3>3, <3>4
  <2>2. CASE closeCall' = closeCall
    BY <2>1, <2>2, LinkStutter
  <2>3. CASE closeCall' # closeCall
    BY <2>1, <2>3 DEF C!phase, C!pending, C!Ending, C!Link!linkVars
  <2> QED  BY <2>2, <2>3
<1> QED  BY <1>1, <1>2, <1>3 DEF RenewClient

\* Every step of the driver is a step of the link or changes nothing in it.
LEMMA LinkStep == ASSUME TInv, [Next]_vars PROVE [C!Link!Next]_(C!Link!linkVars)
<1>1. CASE UNCHANGED vars
  BY <1>1, LinkStutter DEF vars, clientRest
<1>2. CASE ClientAlone \/ SignalsError
  BY <1>2, ConnectLinks, CloseLinks, HandlerLinks, OthersLink
  DEF ClientAlone, SignalsError, C!IoStep
<1>3. CASE Executor \/ Request \/ Exit \/ ThreadEnd
  BY <1>3, SendLinks, OthersLink DEF Executor
<1> QED  BY <1>1, <1>2, <1>3 DEF Next

-----------------------------------------------------------------------------
(* The theorems *)

\* The invariant holds of every reachable state.
THEOREM Traffic == Spec => []TInv
<1>1. Init => TInv  BY InitAny, InitTraffic DEF TInv
<1> QED  BY <1>1, StepTraffic, PTL DEF Spec

\* The types of the client's members: no handler is posted to an io_service
\* that does not exist, although connect() may be replacing it meanwhile.
THEOREM ClientTypes == Spec => []C!TypeOK
<1>1. TInv => C!TypeOK  BY DEF TInv, TrafficInv
<1> QED  BY Traffic, <1>1, PTL

\* Nothing accepted or received in one session waits in a later one.
THEOREM TrafficIsFresh == Spec => []C!NoStaleTraffic
<1>1. TInv => C!NoStaleTraffic  BY DEF TInv, TrafficInv
<1> QED  BY Traffic, <1>1, PTL

\* The driver keeps the promise of RadioLink to whoever sends, however
\* reconnectSrv, handle_on_configure and the connect thread overlap.
THEOREM ImplementsRadioLink == Spec => KeepsRadioLink
<1>1. Init => C!Link!Init
  BY DEF Init, C!Init, C!Link!Init, C!phase, C!pending, C!Ending
<1> QED  BY <1>1, Traffic, LinkStep, PTL DEF Spec, KeepsRadioLink, C!KeepsRadioLink, C!Link!Spec
=============================================================================
