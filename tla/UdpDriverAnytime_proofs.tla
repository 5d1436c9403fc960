----------------------- MODULE UdpDriverAnytime_proofs -----------------------
(***************************************************************************)
(* Proofs about UdpDriver whatever it is asked and when: reconnectSrv and  *)
(* a second handle_on_configure may come while a connect() is under way,   *)
(* so that close() and connect() overlap.  The client is then no longer    *)
(* used as its promises need (see UdpDriver_proofs for a patient node),    *)
(* but what follows from the node's own order of statements, and from the  *)
(* way connect() and close() block each other, still holds.                *)
(*                                                                         *)
(* AInv is the inductive invariant.  Nothing is assumed of Patient.        *)
(***************************************************************************)
EXTENDS UdpDriver, SequenceTheorems, TLAPS

USE BoundsAssumption

\* From the request to the start of the connect thread, or to the end of
\* pre_spin.
Starting == pc \in {"renew", "rcClose", "spin", "spinClose", "spinCheck", "spinJoin"}

\* connect() has not created its session yet.
Early == connCall \in {"enter", "resolve", "newio"}

\* handle_on_shutdown has ended.
Stopped == pc = "down" \/ (Orderly /\ pc = "gone")

TypesInv ==
    /\ NodeTypeOK
    /\ running \in BOOLEAN
    /\ connCall \in C!ConnectPc
    /\ closeCall \in C!ClosePc
    /\ io \in 0 .. MaxSession
    /\ io_thread \in [sess : 0 .. MaxSession, live : BOOLEAN]

\* Who may be inside the client.
CallsInv ==
    /\ connect_thread # "running" => connCall = "idle"
    /\ closeCall # "idle" => pc \in {"renew", "rcClose", "spinClose", "sdClose"}
    /\ pc = "sdClose" \/ Stopped => connect_thread = "none"

\* The bound on sessions counts the one that is being made.
BoundInv ==
    /\ pc = "unconfigured" => io = 0 /\ connect_thread = "none"
    /\ io + Unborn <= MaxSession
    /\ Starting => io + Unborn < MaxSession
    /\ connCall \in {"listen", "socket", "spawn", "run"} => io # 0

\* connect() and close() as far as they exclude each other even when they
\* overlap: an io thread, once started, is joined by the close() that found
\* running_ set, and only then can connect() start the next.
ThreadInv ==
    /\ connCall \in {"resolve", "newio", "listen", "socket", "spawn", "run"} => ~running
    /\ closeCall \in {"stop", "join"} => ~running /\ io_thread.sess # 0 /\ connCall # "run"
    /\ (io_thread.sess # 0) <=> (running \/ connCall = "run" \/ closeCall \in {"stop", "join"})
    /\ io_thread.live => io_thread.sess # 0

\* The close() of handle_on_shutdown comes after the last connect().
StoppedInv ==
    /\ pc = "sdClose" /\ closeCall \notin {"idle", "enter"} => ~running
    /\ pc = "sdClose" => closeCall # "idle"
    /\ Stopped => ~running /\ fault # "thread"

\* The message in hand.
QueueInv ==
    /\ pc # "obSend" => send_msg_queue = <<>>
    /\ pc = "obSend" => Len(send_msg_queue) = 1
    /\ pc = "svSend" => request \in N!Packed
    /\ pc \in {"obSend", "svSend"} => running

\* The slot for messages is not connected before the publisher is there.
SlotsInv ==
    /\ "onMessage" \in wired => comms_pub
    /\ \/ pc \in {"unconfigured", "cfgWave", "cfgSlots", "cfgPub"}
       \/ (pc \in N!SpinPc /\ ret = "cfgWave")
       => "onMessage" \notin wired
    /\ pc = "cfgSignal" => comms_pub

AInv == TypesInv /\ CallsInv /\ BoundInv /\ ThreadInv /\ StoppedInv /\ QueueInv /\ SlotsInv

\* A thread that leaves run() is still to be joined.
LEMMA ThreadStops ==
    ASSUME NEW S, NEW t \in [sess : S, live : BOOLEAN]
    PROVE  /\ [t EXCEPT !.live = FALSE] \in [sess : S, live : BOOLEAN]
           /\ [t EXCEPT !.live = FALSE].sess = t.sess
           /\ [t EXCEPT !.live = FALSE].live = FALSE
OBVIOUS

\* Sending the only message leaves send_msg_queue_ empty.
LEMMA TailOfOne ==
    ASSUME NEW S, NEW q \in Seq(S), Len(q) = 1
    PROVE  Head(q) \in S /\ Tail(q) = <<>> /\ Tail(q) \in Seq(S)
<1>1. q # <<>> /\ Head(q) \in S /\ Tail(q) \in Seq(S)  OBVIOUS
<1>2. Len(Tail(q)) = 0  OBVIOUS
<1>3. Tail(q) = <<>>  BY <1>1, <1>2, EmptySeq
<1> QED  BY <1>1, <1>3

\* A message is packed in the format that the protocol asks for.
LEMMA PackedTyped ==
    ASSUME NEW m \in Message PROVE N!Pack(m) \in N!Packed
BY DEF N!Pack, N!Packed, N!Format

\* Before handle_on_configure there is neither a thread nor a session.
LEMMA InitAny == Init => AInv
<1> SUFFICES ASSUME Init PROVE AInv
  OBVIOUS
<1> USE DEF Init, C!Init, N!NodeInit
<1>1. TypesInv
  <2>1. io_thread \in [sess : 0 .. MaxSession, live : BOOLEAN]
    <3>1. 0 \in 0 .. MaxSession  BY BoundsAssumption
    <3> QED  BY <3>1 DEF C!NoThread
  <2>2. send_msg_queue \in Seq(N!Packed)  OBVIOUS
  <2>3. /\ radio_client_error \in 0 .. MaxSession /\ io \in 0 .. MaxSession
        /\ request \in N!Packed \cup {N!NoRequest}
    BY BoundsAssumption
  <2>4. /\ pc \in N!NodePc /\ ret \in {"cfgWave", "idle"} /\ connecting \in BOOLEAN
        /\ connect_thread \in {"none", "running", "ended"} /\ comms_pub \in BOOLEAN
        /\ protocol \in N!Protocol /\ transport \in N!Protocol
        /\ wired \subseteq {"wave", "onError", "onMessage"} /\ running \in BOOLEAN
        /\ connCall \in C!ConnectPc /\ closeCall \in C!ClosePc
    BY DEF N!NodePc, N!Protocol, C!ConnectPc, C!ClosePc
  <2> QED  BY <2>1, <2>2, <2>3, <2>4 DEF TypesInv, NodeTypeOK, N!NodeTypeOK
<1>2. CallsInv /\ BoundInv /\ ThreadInv /\ StoppedInv /\ QueueInv /\ SlotsInv
  BY DEF CallsInv, BoundInv, Unborn, ThreadInv, StoppedInv, QueueInv, SlotsInv, Starting, Stopped,
         C!NoThread, N!SpinPc
<1> QED  BY <1>1, <1>2 DEF AInv

\* The executor's own steps.
LEMMA CallbackAny ==
    ASSUME AInv, fault = "none", Callback
    PROVE  AInv'
<1> USE DEF AInv, TypesInv, NodeTypeOK, N!NodeTypeOK, CallsInv, BoundInv, Unborn, ThreadInv,
            StoppedInv, QueueInv, SlotsInv, Starting, Early, Stopped, clientRest, N!threadVars,
            N!sendVars, N!setupVars, N!Move, N!NoClientCall, N!NodePc, N!CfgPc, N!SpinPc,
            C!ConnectPc, C!ClosePc
<1>1. CASE N!CfgStep /\ UNCHANGED clientRest
  <2>1. CASE N!CfgWave  BY <1>1, <2>1 DEF N!CfgWave
  <2>2. CASE N!CfgSlots  BY <1>1, <2>2 DEF N!CfgSlots
  <2>3. CASE N!CfgPub  BY <1>1, <2>3 DEF N!CfgPub
  <2>4. CASE N!CfgSignal  BY <1>1, <2>4 DEF N!CfgSignal
  <2>5. CASE N!CfgSend  BY <1>1, <2>5 DEF N!CfgSend
  <2> QED  BY <1>1, <2>1, <2>2, <2>3, <2>4, <2>5 DEF N!CfgStep
<1>2. CASE N!SpinStep /\ UNCHANGED clientRest
  <2>1. CASE N!SpinNoError  BY <1>2, <2>1 DEF N!SpinNoError
  <2>2. CASE N!SpinError  BY <1>2, <2>2 DEF N!SpinError
  <2>3. CASE N!SpinClosed  BY <1>2, <2>3 DEF N!SpinClosed
  <2>4. CASE N!SpinCheck
    <3>1. TypesInv'  BY <1>2, <2>4 DEF N!SpinCheck
    <3>2. CallsInv' /\ StoppedInv'  BY <1>2, <2>4 DEF N!SpinCheck
    <3>3. BoundInv'  BY <1>2, <2>4 DEF N!SpinCheck
    <3>4. ThreadInv'  BY <1>2, <2>4 DEF N!SpinCheck
    <3>5. QueueInv' /\ SlotsInv'  BY <1>2, <2>4 DEF N!SpinCheck
    <3> QED  BY <3>1, <3>2, <3>3, <3>4, <3>5
  <2>5. CASE N!SpinSpawn  BY <1>2, <2>5 DEF N!SpinSpawn
  <2> QED  BY <1>2, <2>1, <2>2, <2>3, <2>4, <2>5 DEF N!SpinStep
<1>3. CASE N!ReconnectClosed /\ UNCHANGED clientRest
  <2>1. TypesInv'
    <3>1. radio_client_error' \in 0 .. MaxSession /\ UNCHANGED <<send_msg_queue, request, wired>>
      BY <1>3 DEF N!ReconnectClosed
    <3> QED  BY <1>3, <3>1 DEF N!ReconnectClosed
  <2>2. CallsInv' /\ StoppedInv'  BY <1>3 DEF N!ReconnectClosed
  <2>3. BoundInv'  BY <1>3 DEF N!ReconnectClosed
  <2>4. ThreadInv'  BY <1>3 DEF N!ReconnectClosed
  <2>5. QueueInv' /\ SlotsInv'  BY <1>3 DEF N!ReconnectClosed
  <2> QED  BY <2>1, <2>2, <2>3, <2>4, <2>5
<1>4. CASE (N!ShutdownJoin \/ N!ShutdownClosed) /\ UNCHANGED clientRest
  BY <1>4 DEF N!ShutdownJoin, N!ShutdownClosed
<1> QED  BY <1>1, <1>2, <1>3, <1>4 DEF Callback

\* The end of the connect thread.
LEMMA ThreadEndAny ==
    ASSUME AInv, fault = "none", ThreadEnd
    PROVE  AInv'
<1> USE DEF AInv, TypesInv, NodeTypeOK, N!NodeTypeOK, CallsInv, BoundInv, Unborn, ThreadInv,
            StoppedInv, QueueInv, SlotsInv, Starting, Early, Stopped, clientRest, N!threadVars,
            N!sendVars, N!setupVars, N!Move, N!NoClientCall, N!NodePc, N!CfgPc, N!SpinPc,
            C!ConnectPc, C!ClosePc
<1>1. TypesInv'  BY DEF ThreadEnd, N!ThreadEnd, N!ConnectEnded
<1>2. CallsInv' /\ StoppedInv'  BY DEF ThreadEnd, N!ThreadEnd, N!ConnectEnded
<1>3. BoundInv'  BY DEF ThreadEnd, N!ThreadEnd, N!ConnectEnded
<1>4. ThreadInv'  BY DEF ThreadEnd, N!ThreadEnd, N!ConnectEnded
<1>5. QueueInv' /\ SlotsInv'  BY DEF ThreadEnd, N!ThreadEnd, N!ConnectEnded
<1> QED  BY <1>1, <1>2, <1>3, <1>4, <1>5

\* connect().
LEMMA ConnectAny ==
    ASSUME AInv, fault = "none", C!ConnectStep, UNCHANGED nodeVars
    PROVE  AInv'
<1> USE DEF AInv, TypesInv, NodeTypeOK, N!NodeTypeOK, CallsInv, BoundInv, Unborn, ThreadInv,
            StoppedInv, QueueInv, SlotsInv, Starting, Early, Stopped, clientRest, nodeVars, N!threadVars,
            N!sendVars, N!setupVars, N!Move, N!NoClientCall, N!NodePc, N!CfgPc, N!SpinPc,
            C!ConnectPc, C!ClosePc, C!ConnectMove, C!CloseMove, C!callVars, C!ioVars,
            C!sockVars, C!queueVars, C!clientVars, C!NoThread, C!Fail
<1>1. CASE C!ConnectRefused  BY <1>1 DEF C!ConnectRefused
<1>2. CASE C!ConnectEnter  BY <1>2 DEF C!ConnectEnter
<1>3. CASE C!ConnectResolve  BY <1>3 DEF C!ConnectResolve
<1>4. CASE C!ConnectNewIo  BY <1>4 DEF C!ConnectNewIo
<1>5. CASE C!ConnectListen  BY <1>5 DEF C!ConnectListen
<1>6. CASE C!ConnectSocket  BY <1>6 DEF C!ConnectSocket
<1>7. CASE C!ConnectSpawn
  <2>1. TypesInv'  BY <1>7 DEF C!ConnectSpawn
  <2>2. CallsInv' /\ StoppedInv'  BY <1>7 DEF C!ConnectSpawn
  <2>3. BoundInv'  BY <1>7 DEF C!ConnectSpawn
  <2>4. ThreadInv'  BY <1>7 DEF C!ConnectSpawn
  <2>5. QueueInv' /\ SlotsInv'  BY <1>7 DEF C!ConnectSpawn
  <2> QED  BY <2>1, <2>2, <2>3, <2>4, <2>5
<1>8. CASE C!ConnectSpawnFails  BY <1>8 DEF C!ConnectSpawnFails
<1>9. CASE C!ConnectRun  BY <1>9 DEF C!ConnectRun
<1>10. CASE C!ConnectFault  BY <1>10 DEF C!ConnectFault
<1> QED
  BY <1>1, <1>2, <1>3, <1>4, <1>5, <1>6, <1>7, <1>8, <1>9, <1>10 DEF C!ConnectStep

\* close().
LEMMA CloseAny ==
    ASSUME AInv, fault = "none", C!CloseStep, UNCHANGED nodeVars
    PROVE  AInv'
<1> USE DEF AInv, TypesInv, NodeTypeOK, N!NodeTypeOK, CallsInv, BoundInv, Unborn, ThreadInv,
            StoppedInv, QueueInv, SlotsInv, Starting, Early, Stopped, clientRest, nodeVars, N!threadVars,
            N!sendVars, N!setupVars, N!Move, N!NoClientCall, N!NodePc, N!CfgPc, N!SpinPc,
            C!ConnectPc, C!ClosePc, C!ConnectMove, C!CloseMove, C!callVars, C!ioVars,
            C!sockVars, C!queueVars, C!clientVars, C!NoThread, C!Fail
<1>1. CASE C!CloseNoop  BY <1>1 DEF C!CloseNoop
<1>2. CASE C!CloseBegin
  <2>1. TypesInv'  BY <1>2 DEF C!CloseBegin
  <2>2. CallsInv' /\ StoppedInv'  BY <1>2 DEF C!CloseBegin
  <2>3. BoundInv'  BY <1>2 DEF C!CloseBegin
  <2>4. ThreadInv'  BY <1>2 DEF C!CloseBegin
  <2>5. QueueInv' /\ SlotsInv'  BY <1>2 DEF C!CloseBegin
  <2> QED  BY <2>1, <2>2, <2>3, <2>4, <2>5
<1>3. CASE C!CloseStop  BY <1>3 DEF C!CloseStop
<1>4. CASE C!CloseJoin  BY <1>4 DEF C!CloseJoin
<1>5. CASE C!CloseRelease  BY <1>5 DEF C!CloseRelease
<1>6. CASE C!CloseFault  BY <1>6 DEF C!CloseFault
<1> QED  BY <1>1, <1>2, <1>3, <1>4, <1>5, <1>6 DEF C!CloseStep

\* The io thread's handlers that signal no error, and the host.
LEMMA HandlersAny ==
    ASSUME AInv, fault = "none", 
           \/ C!HostStep \/ C!IoSend \/ C!IoReceiveStep
           \/ C!IoDeliver \/ C!IoThrows \/ C!IoExit \/ C!IoFault,
           UNCHANGED nodeVars
    PROVE  AInv'
<1> USE DEF AInv, TypesInv, NodeTypeOK, N!NodeTypeOK, CallsInv, BoundInv, Unborn, ThreadInv,
            StoppedInv, QueueInv, SlotsInv, Starting, Early, Stopped, clientRest, nodeVars, N!threadVars,
            N!sendVars, N!setupVars, N!Move, N!NoClientCall, N!NodePc, N!CfgPc, N!SpinPc,
            C!ConnectPc, C!ClosePc, C!ConnectMove, C!CloseMove, C!callVars, C!ioVars,
            C!sockVars, C!queueVars, C!clientVars, C!NoThread, C!Fail
<1>1. CASE C!IoSend  BY <1>1 DEF C!IoSend
<1>2. CASE C!IoReceive  BY <1>2 DEF C!IoReceive
<1>3. CASE C!IoReceiveError  BY <1>3 DEF C!IoReceiveError
<1>4. CASE C!IoReceiveFatal  BY <1>4 DEF C!IoReceiveFatal
<1>5. CASE C!IoDeliver  BY <1>5 DEF C!IoDeliver
<1>6. CASE C!IoExit  BY <1>6, ThreadStops DEF C!IoExit
<1>7. CASE C!IoFault  BY <1>7 DEF C!IoFault, C!Dispatching
<1>8. CASE C!IoThrows  BY <1>8 DEF C!IoThrows
<1> QED  BY <1>1, <1>2, <1>3, <1>4, <1>5, <1>6, <1>7, <1>8 DEF C!IoReceiveStep, C!HostStep, C!Arrive

\* Those that do.
LEMMA SignalsAny ==
    ASSUME AInv, fault = "none", SignalsError
    PROVE  AInv'
<1> USE DEF AInv, TypesInv, NodeTypeOK, N!NodeTypeOK, CallsInv, BoundInv, Unborn, ThreadInv,
            StoppedInv, QueueInv, SlotsInv, Starting, Early, Stopped, clientRest, nodeVars, N!threadVars,
            N!sendVars, N!setupVars, N!Move, N!NoClientCall, N!NodePc, N!CfgPc, N!SpinPc,
            C!ConnectPc, C!ClosePc, C!ConnectMove, C!CloseMove, C!callVars, C!ioVars,
            C!sockVars, C!queueVars, C!clientVars, C!NoThread, C!Fail
<1> USE DEF SignalsError, N!OnErrorSlot
<1>1. CASE C!IoSendError  BY <1>1 DEF C!IoSendError, C!IoSend, C!Dispatching
<1>2. CASE C!IoRunError  BY <1>2, ThreadStops DEF C!IoRunError, C!Dispatching
<1> QED  BY <1>1, <1>2

\* sendV2xMessage() under its two callers.
LEMMA SendAny ==
    ASSUME AInv, fault = "none", SendQueued \/ SendRequested
    PROVE  AInv'
<1> USE DEF AInv, TypesInv, NodeTypeOK, N!NodeTypeOK, CallsInv, BoundInv, Unborn, ThreadInv,
            StoppedInv, QueueInv, SlotsInv, Starting, Early, Stopped, clientRest, nodeVars, N!threadVars,
            N!sendVars, N!setupVars, N!Move, N!NoClientCall, N!NodePc, N!CfgPc, N!SpinPc,
            C!ConnectPc, C!ClosePc, C!ConnectMove, C!CloseMove, C!callVars, C!ioVars,
            C!sockVars, C!queueVars, C!clientVars, C!NoThread, C!Fail
<1>1. CASE SendQueued
  <2>1. PICK sent \in BOOLEAN : N!SendMessageFromQueue(sent)
    BY <1>1 DEF SendQueued
  <2>2. send_msg_queue' = <<>> /\ send_msg_queue' \in Seq(N!Packed)
    BY <2>1, TailOfOne DEF N!SendMessageFromQueue
  <2>3. UNCHANGED <<running, io, io_thread, fault>>
    BY <1>1 DEF SendQueued, C!Post, C!PostFails
  <2> QED  BY <2>1, <2>2, <2>3 DEF N!SendMessageFromQueue
<1>2. CASE SendRequested
  <2>1. UNCHANGED <<running, io, io_thread, fault>>
    BY <1>2 DEF SendRequested, C!Post, C!PostFails
  <2> QED  BY <1>2, <2>1 DEF SendRequested, N!SendMessageReply
<1> QED  BY <1>1, <1>2

\* The old client is destroyed, if it can be.
LEMMA RenewAny ==
    ASSUME AInv, fault = "none", RenewClient
    PROVE  AInv'
<1> USE DEF AInv, TypesInv, NodeTypeOK, N!NodeTypeOK, CallsInv, BoundInv, Unborn, ThreadInv,
            StoppedInv, QueueInv, SlotsInv, Starting, Early, Stopped, clientRest, nodeVars, N!threadVars,
            N!sendVars, N!setupVars, N!Move, N!NoClientCall, N!NodePc, N!CfgPc, N!SpinPc,
            C!ConnectPc, C!ClosePc, C!ConnectMove, C!CloseMove, C!callVars, C!ioVars,
            C!sockVars, C!queueVars, C!clientVars, C!NoThread, C!Fail
<1>1. CASE N!Renewed /\ C!Renew
  BY <1>1 DEF N!Renewed, C!Renew, C!ConnectEnded
<1>2. CASE C!RenewFault /\ UNCHANGED nodeVars
  BY <1>2 DEF C!RenewFault
<1> QED  BY <1>1, <1>2 DEF RenewClient

\* The requests, and the end of the process.
LEMMA RequestAny ==
    ASSUME AInv, fault = "none", Request \/ Exit
    PROVE  AInv'
<1> USE DEF AInv, TypesInv, NodeTypeOK, N!NodeTypeOK, CallsInv, BoundInv, Unborn, ThreadInv,
            StoppedInv, QueueInv, SlotsInv, Starting, Early, Stopped, clientRest, nodeVars, N!threadVars,
            N!sendVars, N!setupVars, N!Move, N!NoClientCall, N!NodePc, N!CfgPc, N!SpinPc,
            C!ConnectPc, C!ClosePc, C!ConnectMove, C!CloseMove, C!callVars, C!ioVars,
            C!sockVars, C!queueVars, C!clientVars, C!NoThread, C!Fail
<1> USE DEF Request
<1>1. CASE N!Configure("udp") /\ UNCHANGED clientRest
  BY <1>1 DEF N!Configure, N!Protocol
<1>2. CASE N!Reconfigure /\ io + Unborn < MaxSession /\ UNCHANGED clientRest
  BY <1>2 DEF N!Reconfigure, Unborn
<1>3. CASE N!ReconnectSrv /\ io + Unborn < MaxSession /\ UNCHANGED clientRest
  BY <1>3 DEF N!ReconnectSrv, Unborn
<1>4. ASSUME NEW m \in Message, N!OnOutboundMessage(m), UNCHANGED clientRest PROVE AInv'
  <2>1. send_msg_queue = <<>> /\ send_msg_queue' = <<N!Pack(m)>>
    BY <1>4 DEF N!OnOutboundMessage
  <2>2. send_msg_queue' \in Seq(N!Packed) /\ Len(send_msg_queue') = 1
    BY <2>1, PackedTyped
  <2> QED  BY <1>4, <2>2 DEF N!OnOutboundMessage
<1>5. ASSUME NEW m \in Message, N!SendMessageSrv(m), UNCHANGED clientRest PROVE AInv'
  BY <1>5, PackedTyped DEF N!SendMessageSrv
<1>6. ASSUME NEW proto \in N!Protocol, N!ParameterUpdateCallback(proto), UNCHANGED clientRest
      PROVE AInv'
  BY <1>6 DEF N!ParameterUpdateCallback
<1>7. CASE N!Shutdown /\ UNCHANGED clientRest
  BY <1>7 DEF N!Shutdown
<1>8. CASE Exit
  BY <1>8 DEF Exit, N!Exit, N!ExitTerminates, C!DestroyFault
<1> QED  BY <1>1, <1>2, <1>3, <1>4, <1>5, <1>6, <1>7, <1>8

\* A step of nobody.
LEMMA StutterAny == ASSUME AInv, UNCHANGED vars PROVE AInv'
<1> USE DEF AInv, TypesInv, NodeTypeOK, N!NodeTypeOK, CallsInv, BoundInv, Unborn, ThreadInv,
            StoppedInv, QueueInv, SlotsInv, Starting, Early, Stopped, clientRest, nodeVars, N!threadVars,
            N!sendVars, N!setupVars, N!Move, N!NoClientCall, N!NodePc, N!CfgPc, N!SpinPc,
            C!ConnectPc, C!ClosePc, C!ConnectMove, C!CloseMove, C!callVars, C!ioVars,
            C!sockVars, C!queueVars, C!clientVars, C!NoThread, C!Fail
<1> QED  BY DEF vars

\* Every step of the driver keeps the invariant.
LEMMA StepAny == ASSUME AInv, [Next]_vars PROVE AInv'
BY CallbackAny, ThreadEndAny, ConnectAny, CloseAny, HandlersAny, SignalsAny, SendAny, RenewAny,
   RequestAny, StutterAny DEF Next, Executor, ClientAlone

-----------------------------------------------------------------------------
(* The theorems *)

\* The invariant holds of every reachable state.
THEOREM Anytime == Spec => []AInv
<1> QED  BY InitAny, StepAny, PTL DEF Spec

\* The types of the node's members; send_msg_queue_ holds packed messages only.
THEOREM NodeTypes == Spec => []NodeTypeOK
<1>1. AInv => NodeTypeOK  BY DEF AInv, TypesInv
<1> QED  BY Anytime, <1>1, PTL

\* No message stays in send_msg_queue_ between callbacks.
THEOREM QueueIsDrained == Spec => []QueueDrained
<1>1. AInv => QueueDrained  BY DEF AInv, QueueInv, QueueDrained
<1> QED  BY Anytime, <1>1, PTL

\* The client is still connected when the message reaches sendV2xMessage():
\* the executor alone clears running_.
THEOREM StillConnected == Spec => []ConnectedUntilSent
<1>1. AInv => ConnectedUntilSent  BY DEF AInv, QueueInv, ConnectedUntilSent
<1> QED  BY Anytime, <1>1, PTL

\* The slot for messages finds its publisher, and wave_cfg_items_ complete.
THEOREM PublisherIsThere == Spec => []InboundFindsPublisher
<1>1. AInv => InboundFindsPublisher
  BY DEF AInv, SlotsInv, InboundFindsPublisher, N!Receiving
<1> QED  BY Anytime, <1>1, PTL

\* handle_on_shutdown leaves no thread, and the node's destructor meets none.
THEOREM ShutdownLeavesNothing == ASSUME Orderly PROVE Spec => []ShutdownQuiesces
<1>1. AInv => ShutdownQuiesces
  <2> SUFFICES ASSUME AInv, pc \in {"down", "gone"}
               PROVE  /\ ~running /\ io_thread = C!NoThread /\ fault # "thread"
                      /\ connCall = "idle" /\ connect_thread = "none"
    BY DEF ShutdownQuiesces
  <2>1. /\ ~running /\ connCall = "idle" /\ connect_thread = "none" /\ closeCall = "idle"
        /\ fault # "thread"
    BY DEF AInv, CallsInv, StoppedInv, Stopped
  <2>2. io_thread.sess = 0 /\ io_thread.live = FALSE
    BY <2>1 DEF AInv, TypesInv, ThreadInv
  <2>3. io_thread = C!NoThread
    BY <2>2 DEF AInv, TypesInv, C!NoThread
  <2> QED  BY <2>1, <2>3
<1> QED  BY Anytime, <1>1, PTL

\* A connect thread is started only when no connect() is under way.
THEOREM OneConnect == Spec => OneConnectAtATime
<1>1. AInv /\ [Next]_vars
        => [connCall' = "enter" /\ connCall # "enter" => connCall = "idle"]_vars
  <2> SUFFICES ASSUME AInv, Next, connCall' = "enter", connCall # "enter"
               PROVE  connCall = "idle"
    OBVIOUS
  <2> USE DEF C!callVars, C!clientVars, clientRest, nodeVars, C!ConnectMove, C!Fail, N!NoClientCall
  <2>1. CASE Callback
    BY <2>1 DEF Callback, AInv, CallsInv, N!CfgStep, N!CfgWave, N!CfgSlots, N!CfgPub, N!CfgSignal,
                N!CfgSend, N!SpinStep, N!SpinNoError, N!SpinError, N!SpinClosed, N!SpinCheck,
                N!SpinSpawn, N!ReconnectClosed, N!ShutdownJoin, N!ShutdownClosed
  <2>2. CASE SendQueued \/ SendRequested \/ RenewClient
    BY <2>2 DEF SendQueued, SendRequested, RenewClient, C!Post, C!PostFails, C!Renew, C!RenewFault
  <2>3. CASE Request \/ Exit
    BY <2>3 DEF Request, Exit, N!Configure, N!Reconfigure, N!ReconnectSrv, N!OnOutboundMessage,
                N!SendMessageSrv, N!ParameterUpdateCallback, N!Shutdown, N!Exit,
                C!DestroyFault
  <2>4. CASE ThreadEnd  BY <2>4 DEF ThreadEnd, N!ThreadEnd
  <2>5. CASE ClientAlone
    BY <2>5 DEF ClientAlone, C!ConnectStep, C!ConnectRefused, C!ConnectEnter, C!ConnectResolve,
                C!ConnectNewIo, C!ConnectListen, C!ConnectSocket, C!ConnectSpawn,
                C!ConnectSpawnFails, C!ConnectRun, C!ConnectFault, C!CloseStep, C!CloseNoop, C!CloseBegin, C!CloseStop,
                C!CloseJoin, C!CloseRelease, C!CloseFault, C!HostStep, C!Arrive,
                C!IoSend, C!IoReceiveStep, C!IoReceive, C!IoReceiveError, C!IoReceiveFatal,
                C!IoDeliver, C!IoThrows, C!IoExit, C!IoFault
  <2>6. CASE SignalsError  BY <2>6 DEF SignalsError, C!IoSendError, C!IoSend, C!IoRunError
  <2> QED  BY <2>1, <2>2, <2>3, <2>4, <2>5, <2>6 DEF Next, Executor, vars
<1> QED  BY Anytime, <1>1, PTL DEF Spec, OneConnectAtATime
=============================================================================
