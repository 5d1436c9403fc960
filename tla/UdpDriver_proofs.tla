-------------------------- MODULE UdpDriver_proofs --------------------------
(***************************************************************************)
(* Proofs about UdpDriver: a node that is asked to connect or to configure *)
(* only between connect attempts, and shut down before it is destroyed, is *)
(* the serial caller of UdpRadioClient, and its radio_client_error_ is of  *)
(* the current session.  For every set of messages and datagrams and every *)
(* bound.  What holds of the node without these two hypotheses is proved   *)
(* in UdpDriverAnytime_proofs.                                             *)
(*                                                                         *)
(* The inductive invariant DInv adds to AInv that connect() and close()    *)
(* keep out of each other's way, and where the io thread's error can be.   *)
(***************************************************************************)
EXTENDS UdpDriverAnytime_proofs

\* Since the request nobody is inside connect(), and whoever enters it or is
\* past the first test of close() finds running_ clear.
SerialInv ==
    /\ Starting => connect_thread # "running"
    /\ Early \/ pc = "spinJoin" => ~running
    /\ closeCall \notin {"idle", "enter"} => ~running

\* What the io thread may have left in the node.
ErrorInv ==
    /\ radio_client_error \in {0, io}
    /\ Early \/ pc = "spinJoin" => radio_client_error = 0
    /\ pc = "spinCheck" => radio_client_error = 0 \/ running

\* What patience adds.
PInv == SerialInv /\ ErrorInv
DInv == AInv /\ PInv

\* Before handle_on_configure nothing is there to break the discipline.
LEMMA InitPInv == Init => PInv
BY DEF Init, C!Init, N!NodeInit, PInv, SerialInv, ErrorInv, Starting, Early

\* The executor's own steps keep the invariant.
LEMMA CallbackKeeps ==
    ASSUME Patient, DInv, fault = "none", Callback
    PROVE  PInv'
<1> USE DEF DInv, PInv, SerialInv, ErrorInv, AInv, TypesInv, NodeTypeOK, N!NodeTypeOK, CallsInv,
            BoundInv, ThreadInv, Starting, Early, clientRest, N!threadVars, N!sendVars,
            N!setupVars, N!Move, N!NoClientCall, N!NodePc, N!CfgPc, N!SpinPc,
            C!ConnectPc, C!ClosePc
<1>1. CASE N!CfgStep /\ UNCHANGED clientRest
  <2>1. CASE N!CfgWave  BY <1>1, <2>1 DEF N!CfgWave
  <2>2. CASE N!CfgSlots  BY <1>1, <2>2 DEF N!CfgSlots
  <2>3. CASE N!CfgPub  BY <1>1, <2>3 DEF N!CfgPub
  <2>4. CASE N!CfgSignal  BY <1>1, <2>4 DEF N!CfgSignal
  <2>5. CASE N!CfgSend  BY <1>1, <2>5 DEF N!CfgSend
  <2> QED  BY <1>1, <2>1, <2>2, <2>3, <2>4, <2>5 DEF N!CfgStep
<1>2. CASE N!SpinStep /\ UNCHANGED clientRest
  <2>1. CASE N!SpinNoError  BY <1>2, <2>1 DEF N!SpinNoError
  <2>2. CASE N!SpinError  BY <1>2, <2>2 DEF N!SpinError
  <2>3. CASE N!SpinClosed  BY <1>2, <2>3 DEF N!SpinClosed
  <2>4. CASE N!SpinCheck  BY <1>2, <2>4 DEF N!SpinCheck
  <2>5. CASE N!SpinSpawn  BY <1>2, <2>5 DEF N!SpinSpawn
  <2> QED  BY <1>2, <2>1, <2>2, <2>3, <2>4, <2>5 DEF N!SpinStep
<1>3. CASE N!ReconnectClosed /\ UNCHANGED clientRest
  BY <1>3 DEF N!ReconnectClosed
<1>4. CASE (N!ShutdownJoin \/ N!ShutdownClosed) /\ UNCHANGED clientRest
  BY <1>4 DEF N!ShutdownJoin, N!ShutdownClosed
<1> QED  BY <1>1, <1>2, <1>3, <1>4 DEF Callback

\* The connect thread and its end.
LEMMA ThreadEndKeeps ==
    ASSUME Patient, DInv, fault = "none", ThreadEnd
    PROVE  PInv'
BY DEF DInv, PInv, SerialInv, ErrorInv, AInv, TypesInv, NodeTypeOK, N!NodeTypeOK, CallsInv,
       BoundInv, ThreadInv, Starting, Early, clientRest, N!threadVars, N!sendVars,
       N!setupVars, C!ConnectPc, C!ClosePc, ThreadEnd, N!ThreadEnd, N!ConnectEnded, N!SpinPc

\* connect().
LEMMA ConnectKeeps ==
    ASSUME Patient, DInv, fault = "none", C!ConnectStep, UNCHANGED nodeVars
    PROVE  PInv'
<1> USE DEF DInv, PInv, SerialInv, ErrorInv, AInv, TypesInv, NodeTypeOK, N!NodeTypeOK, CallsInv,
            BoundInv, ThreadInv, Starting, Early, clientRest, nodeVars, N!threadVars, N!sendVars,
            N!setupVars, N!Move, N!NoClientCall, N!NodePc, N!CfgPc, N!SpinPc,
            C!ConnectPc, C!ClosePc, C!ConnectMove, C!CloseMove, C!callVars, C!ioVars,
            C!sockVars, C!queueVars, C!clientVars, C!NoThread, C!Fail
<1>1. CASE C!ConnectRefused  BY <1>1 DEF C!ConnectRefused
<1>2. CASE C!ConnectEnter  BY <1>2 DEF C!ConnectEnter
<1>3. CASE C!ConnectResolve  BY <1>3 DEF C!ConnectResolve
<1>4. CASE C!ConnectNewIo  BY <1>4 DEF C!ConnectNewIo
<1>5. CASE C!ConnectListen  BY <1>5 DEF C!ConnectListen
<1>6. CASE C!ConnectSocket  BY <1>6 DEF C!ConnectSocket
<1>7. CASE C!ConnectSpawn  BY <1>7 DEF C!ConnectSpawn
<1>8. CASE C!ConnectSpawnFails  BY <1>8 DEF C!ConnectSpawnFails
<1>9. CASE C!ConnectRun  BY <1>9 DEF C!ConnectRun
<1>10. CASE C!ConnectFault  BY <1>10 DEF C!ConnectFault
<1> QED
  BY <1>1, <1>2, <1>3, <1>4, <1>5, <1>6, <1>7, <1>8, <1>9, <1>10 DEF C!ConnectStep

\* close().
LEMMA CloseKeeps ==
    ASSUME Patient, DInv, fault = "none", C!CloseStep, UNCHANGED nodeVars
    PROVE  PInv'
<1> USE DEF DInv, PInv, SerialInv, ErrorInv, AInv, TypesInv, NodeTypeOK, N!NodeTypeOK, CallsInv,
            BoundInv, ThreadInv, Starting, Early, clientRest, nodeVars, N!threadVars, N!sendVars,
            N!setupVars, N!Move, N!NoClientCall, N!NodePc, N!CfgPc, N!SpinPc,
            C!ConnectPc, C!ClosePc, C!ConnectMove, C!CloseMove, C!callVars, C!ioVars,
            C!sockVars, C!queueVars, C!clientVars, C!NoThread, C!Fail
<1>1. CASE C!CloseNoop  BY <1>1 DEF C!CloseNoop
<1>2. CASE C!CloseBegin  BY <1>2 DEF C!CloseBegin
<1>3. CASE C!CloseStop  BY <1>3 DEF C!CloseStop
<1>4. CASE C!CloseJoin  BY <1>4 DEF C!CloseJoin
<1>5. CASE C!CloseRelease  BY <1>5 DEF C!CloseRelease
<1>6. CASE C!CloseFault  BY <1>6 DEF C!CloseFault
<1> QED  BY <1>1, <1>2, <1>3, <1>4, <1>5, <1>6 DEF C!CloseStep

\* The io thread's handlers that signal no error, and the host.
LEMMA HandlersKeep ==
    ASSUME Patient, DInv, fault = "none",
           \/ C!HostStep \/ C!IoSend \/ C!IoReceiveStep
           \/ C!IoDeliver \/ C!IoThrows \/ C!IoExit \/ C!IoFault,
           UNCHANGED nodeVars
    PROVE  PInv'
<1> USE DEF DInv, PInv, SerialInv, ErrorInv, AInv, TypesInv, NodeTypeOK, N!NodeTypeOK, CallsInv,
            BoundInv, ThreadInv, Starting, Early, clientRest, nodeVars, N!threadVars, N!sendVars,
            N!setupVars, N!Move, N!NoClientCall, N!NodePc, N!CfgPc, N!SpinPc,
            C!ConnectPc, C!ClosePc, C!ConnectMove, C!CloseMove, C!callVars, C!ioVars,
            C!sockVars, C!queueVars, C!clientVars, C!NoThread, C!Fail
<1>1. CASE C!IoSend  BY <1>1 DEF C!IoSend
<1>2. CASE C!IoReceive  BY <1>2 DEF C!IoReceive
<1>3. CASE C!IoReceiveError  BY <1>3 DEF C!IoReceiveError
<1>4. CASE C!IoReceiveFatal  BY <1>4 DEF C!IoReceiveFatal
<1>5. CASE C!IoDeliver  BY <1>5 DEF C!IoDeliver
<1>6. CASE C!IoExit  BY <1>6, ThreadStops DEF C!IoExit
<1>7. CASE C!IoFault  BY <1>7 DEF C!IoFault, C!Dispatching
<1>8. CASE C!IoThrows  BY <1>8 DEF C!IoThrows
<1> QED  BY <1>1, <1>2, <1>3, <1>4, <1>5, <1>6, <1>7, <1>8 DEF C!IoReceiveStep, C!HostStep, C!Arrive

\* Those that do.
LEMMA SignalsKeep ==
    ASSUME Patient, DInv, fault = "none", SignalsError
    PROVE  PInv'
<1> USE DEF DInv, PInv, SerialInv, ErrorInv, AInv, TypesInv, NodeTypeOK, N!NodeTypeOK, CallsInv,
            BoundInv, ThreadInv, Starting, Early, clientRest, nodeVars, N!threadVars, N!sendVars,
            N!setupVars, N!Move, N!NoClientCall, N!NodePc, N!CfgPc, N!SpinPc,
            C!ConnectPc, C!ClosePc, C!ConnectMove, C!CloseMove, C!callVars, C!ioVars,
            C!sockVars, C!queueVars, C!clientVars, C!NoThread, C!Fail
<1> USE DEF SignalsError, N!OnErrorSlot
<1>1. CASE C!IoSendError  BY <1>1 DEF C!IoSendError, C!IoSend, C!Dispatching
<1>2. CASE C!IoRunError  BY <1>2, ThreadStops DEF C!IoRunError, C!Dispatching
<1> QED  BY <1>1, <1>2

\* sendV2xMessage() under its two callers.
LEMMA SendKeeps ==
    ASSUME Patient, DInv, fault = "none", SendQueued \/ SendRequested
    PROVE  PInv'
<1> USE DEF DInv, PInv, SerialInv, ErrorInv, AInv, TypesInv, NodeTypeOK, N!NodeTypeOK, CallsInv,
            BoundInv, ThreadInv, Starting, Early, clientRest, nodeVars, N!threadVars, N!sendVars,
            N!setupVars, N!Move, N!NoClientCall, N!NodePc, N!CfgPc, N!SpinPc,
            C!ConnectPc, C!ClosePc, C!ConnectMove, C!CloseMove, C!callVars, C!ioVars,
            C!sockVars, C!queueVars, C!clientVars, C!NoThread, C!Fail
<1>1. CASE SendQueued
  <2>1. PICK sent \in BOOLEAN : N!SendMessageFromQueue(sent)
    BY <1>1 DEF SendQueued
  <2>2. UNCHANGED <<running, io, io_thread, fault>>
    BY <1>1 DEF SendQueued, C!Post, C!PostFails
  <2> QED  BY <2>1, <2>2 DEF N!SendMessageFromQueue
<1>2. CASE SendRequested
  <2>1. UNCHANGED <<running, io, io_thread, fault>>
    BY <1>2 DEF SendRequested, C!Post, C!PostFails
  <2> QED  BY <1>2, <2>1 DEF SendRequested, N!SendMessageReply
<1> QED  BY <1>1, <1>2

\* The old client, when the node is configured again, is in nobody's use: if it
\* cannot be destroyed, then for what a failed connect() has left in it.
LEMMA RenewIsClean ==
    ASSUME Patient, DInv, RenewClient
    PROVE  \/ N!Renewed /\ C!Renew
           \/ C!Orphaned /\ C!RenewFault /\ UNCHANGED nodeVars
BY DEF DInv, PInv, SerialInv, AInv, TypesInv, CallsInv, ThreadInv, Starting, RenewClient,
       C!RenewFault, C!ClosePc, C!ConnectPc

\* The new client starts from nothing, its slots yet to be connected.
LEMMA RenewKeeps ==
    ASSUME Patient, DInv, fault = "none", RenewClient
    PROVE  PInv'
<1> USE DEF DInv, PInv, SerialInv, ErrorInv, AInv, TypesInv, NodeTypeOK, N!NodeTypeOK, CallsInv,
            BoundInv, ThreadInv, Starting, Early, clientRest, nodeVars, N!threadVars, N!sendVars,
            N!setupVars, N!Move, N!NoClientCall, N!NodePc, N!CfgPc, N!SpinPc,
            C!ConnectPc, C!ClosePc, C!ConnectMove, C!CloseMove, C!callVars, C!ioVars,
            C!sockVars, C!queueVars, C!clientVars, C!NoThread, C!Fail
<1>1. CASE N!Renewed /\ C!Renew  BY <1>1 DEF N!Renewed, C!Renew
<1>2. CASE C!RenewFault /\ UNCHANGED nodeVars  BY <1>2 DEF C!RenewFault
<1> QED  BY <1>1, <1>2 DEF RenewClient

\* The requests, and the end of the process.
LEMMA RequestKeeps ==
    ASSUME Patient, DInv, fault = "none", Request \/ Exit
    PROVE  PInv'
<1> USE DEF DInv, PInv, SerialInv, ErrorInv, AInv, TypesInv, NodeTypeOK, N!NodeTypeOK, CallsInv,
            BoundInv, ThreadInv, Starting, Early, clientRest, nodeVars, N!threadVars, N!sendVars,
            N!setupVars, N!Move, N!NoClientCall, N!NodePc, N!CfgPc, N!SpinPc,
            C!ConnectPc, C!ClosePc, C!ConnectMove, C!CloseMove, C!callVars, C!ioVars,
            C!sockVars, C!queueVars, C!clientVars, C!NoThread, C!Fail
<1> USE DEF Request
<1>1. CASE N!Configure("udp") /\ UNCHANGED clientRest
  BY <1>1 DEF N!Configure, N!Protocol
<1>2. CASE N!Reconfigure /\ io + Unborn < MaxSession /\ UNCHANGED clientRest
  BY <1>2 DEF N!Reconfigure, Unborn
<1>3. CASE N!ReconnectSrv /\ io + Unborn < MaxSession /\ UNCHANGED clientRest
  BY <1>3 DEF N!ReconnectSrv, Unborn
<1>4. ASSUME NEW m \in Message, N!OnOutboundMessage(m), UNCHANGED clientRest PROVE PInv'
  BY <1>4 DEF N!OnOutboundMessage
<1>5. ASSUME NEW m \in Message, N!SendMessageSrv(m), UNCHANGED clientRest PROVE PInv'
  BY <1>5 DEF N!SendMessageSrv
<1>6. ASSUME NEW proto \in N!Protocol, N!ParameterUpdateCallback(proto), UNCHANGED clientRest
      PROVE PInv'
  BY <1>6 DEF N!ParameterUpdateCallback
<1>7. CASE N!Shutdown /\ UNCHANGED clientRest
  BY <1>7 DEF N!Shutdown
<1>8. CASE Exit
  BY <1>8 DEF Exit, N!Exit, N!ExitTerminates, C!DestroyFault
<1> QED  BY <1>1, <1>2, <1>3, <1>4, <1>5, <1>6, <1>7, <1>8

\* A step of nobody keeps the invariant.
LEMMA StutterKeeps == ASSUME DInv, UNCHANGED vars PROVE PInv'
<1> USE DEF DInv, PInv, SerialInv, ErrorInv, AInv, TypesInv, NodeTypeOK, N!NodeTypeOK, CallsInv,
            BoundInv, ThreadInv, Starting, Early, clientRest, nodeVars, N!threadVars, N!sendVars,
            N!setupVars, N!Move, N!NoClientCall, N!NodePc, N!CfgPc, N!SpinPc,
            C!ConnectPc, C!ClosePc, C!ConnectMove, C!CloseMove, C!callVars, C!ioVars,
            C!sockVars, C!queueVars, C!clientVars, C!NoThread, C!Fail
<1> QED  BY DEF vars

\* Every step of the driver keeps the invariant.
LEMMA StepKeeps == ASSUME Patient, DInv, [Next]_vars PROVE DInv'
BY StepAny, CallbackKeeps, ThreadEndKeeps, ConnectKeeps, CloseKeeps, HandlersKeep, SignalsKeep,
   SendKeeps, RenewKeeps, RequestKeeps, StutterKeeps DEF DInv, Next, Executor, ClientAlone

-----------------------------------------------------------------------------
(* The theorems *)

\* In a patient environment the discipline holds of every reachable state.
THEOREM Discipline == ASSUME Patient PROVE Spec => []DInv
<1> QED  BY InitAny, InitPInv, StepKeeps, PTL DEF DInv, Spec

\* radio_client_error_ is never one of an earlier session.
THEOREM ErrorIsCurrent == ASSUME Patient PROVE Spec => []ErrorBelongsToSession
<1>1. DInv => ErrorBelongsToSession  BY DEF DInv, PInv, ErrorInv, ErrorBelongsToSession
<1> QED  BY Discipline, <1>1, PTL

-----------------------------------------------------------------------------
(* The node implements the serial caller of UdpRadioClient *)

\* What starts or ends a call of the client is a step of its caller.
LEMMA CallbackIsSerial ==
    ASSUME Patient, DInv, fault = "none", Callback
    PROVE  C!Caller \/ UNCHANGED C!clientVars
<1> USE DEF DInv, PInv, SerialInv, AInv, TypesInv, CallsInv, BoundInv, Unborn, Starting, clientRest,
            N!Move, N!NoClientCall, C!Caller, C!callVars, C!ioVars, C!sockVars, C!queueVars, C!clientVars, C!ConnectMove, C!CloseMove
<1>1. CASE N!CfgStep /\ UNCHANGED clientRest
  BY <1>1 DEF N!CfgStep, N!CfgWave, N!CfgSlots, N!CfgPub, N!CfgSignal, N!CfgSend
<1>2. CASE N!SpinStep /\ UNCHANGED clientRest
  <2>1. CASE N!SpinNoError  BY <1>2, <2>1 DEF N!SpinNoError
  <2>2. CASE N!SpinError    BY <1>2, <2>2 DEF N!SpinError, C!CallClose
  <2>3. CASE N!SpinClosed   BY <1>2, <2>3 DEF N!SpinClosed, C!CloseReturn
  <2>4. CASE N!SpinCheck    BY <1>2, <2>4 DEF N!SpinCheck
  <2>5. CASE N!SpinSpawn    BY <1>2, <2>5 DEF N!SpinSpawn, C!CallConnect
  <2> QED  BY <1>2, <2>1, <2>2, <2>3, <2>4, <2>5 DEF N!SpinStep
<1>3. CASE N!ReconnectClosed /\ UNCHANGED clientRest
  BY <1>3 DEF N!ReconnectClosed, C!CloseReturn
<1>4. CASE N!ShutdownJoin /\ UNCHANGED clientRest
  BY <1>4 DEF N!ShutdownJoin, C!CallClose
<1>5. CASE N!ShutdownClosed /\ UNCHANGED clientRest
  BY <1>5 DEF N!ShutdownClosed, C!CloseReturn
<1> QED  BY <1>1, <1>2, <1>3, <1>4, <1>5 DEF Callback

\* So is a message, which is a packed one.
LEMMA SendIsSerial ==
    ASSUME DInv, SendQueued \/ SendRequested
    PROVE  C!Caller \/ UNCHANGED C!clientVars
<1>1. CASE SendQueued
  <2>1. pc = "obSend" /\ (C!Post(Head(send_msg_queue)) \/ UNCHANGED C!clientVars)
    BY <1>1 DEF SendQueued, N!SendMessageFromQueue, N!Move, C!PostFails
  <2>2. Head(send_msg_queue) \in N!Packed /\ closeCall = "idle"
    BY <2>1, TailOfOne DEF DInv, AInv, TypesInv, NodeTypeOK, N!NodeTypeOK, QueueInv, CallsInv
  <2> QED  BY <2>1, <2>2 DEF C!Caller, C!CallSend
<1>2. CASE SendRequested
  <2>1. pc = "svSend" /\ (C!Post(request) \/ UNCHANGED C!clientVars)
    BY <1>2 DEF SendRequested, N!SendMessageReply, N!Move, C!PostFails
  <2>2. request \in N!Packed /\ closeCall = "idle"
    BY <2>1 DEF DInv, AInv, QueueInv, CallsInv
  <2> QED  BY <2>1, <2>2 DEF C!Caller, C!CallSend
<1> QED  BY <1>1, <1>2

\* And so are the requests; the end of the process finds nothing joinable,
\* and destroys the client.
LEMMA RequestIsSerial ==
    ASSUME Patient, Orderly, DInv, Request \/ Exit
    PROVE  C!Caller \/ UNCHANGED C!clientVars
<1> USE DEF DInv, AInv, CallsInv, StoppedInv, Stopped, clientRest, N!Move, N!NoClientCall,
            C!Caller, C!CallClose, C!callVars, C!ioVars, C!sockVars, C!queueVars, C!clientVars,
            C!ConnectMove, C!CloseMove
<1>1. CASE Request
  BY <1>1 DEF Request, N!Configure, N!Reconfigure, N!ReconnectSrv, N!OnOutboundMessage,
              N!SendMessageSrv, N!ParameterUpdateCallback, N!Shutdown
<1>2. CASE Exit
  BY <1>2 DEF Exit, N!Exit, N!ExitTerminates
<1> QED  BY <1>1, <1>2

\* Every step of the driver is one of the client and its serial caller, or
\* leaves the client alone.
LEMMA StepIsSerial ==
    ASSUME Patient, Orderly, DInv, [Next]_vars
    PROVE  [C!Next]_(C!clientVars)
<1>1. CASE fault = "none" /\ (Callback \/ SendQueued \/ SendRequested \/ Request \/ Exit)
  BY <1>1, CallbackIsSerial, SendIsSerial, RequestIsSerial DEF C!Next
<1>2. CASE fault = "none" /\ RenewClient
  BY <1>2, RenewIsClean DEF C!Next, C!Caller
<1>3. CASE fault = "none" /\ ThreadEnd
  BY <1>3 DEF ThreadEnd, N!ThreadEnd, N!ConnectEnded, C!ConnectEnded, C!ConnectReturn, C!Next,
              C!Caller, clientRest, C!ioVars, C!sockVars, C!queueVars
<1>4. CASE fault = "none" /\ (ClientAlone \/ SignalsError)
  BY <1>4 DEF ClientAlone, SignalsError, C!IoSendError, C!Next, C!IoStep
<1>5. CASE UNCHANGED vars
  BY <1>5 DEF vars, clientRest, C!callVars, C!ioVars, C!sockVars, C!queueVars,
              C!clientVars
<1> QED  BY <1>1, <1>2, <1>3, <1>4, <1>5 DEF Next, Executor

\* A patient, orderly node uses its client serially, so that all that is proved
\* of UdpRadioClient!Spec holds in the driver.
THEOREM ImplementsSerialCaller ==
    ASSUME Patient, Orderly PROVE Spec => ClientIsUsedSerially
<1>1. Init => C!Init  BY DEF Init
<1> QED  BY Discipline, <1>1, StepIsSerial, PTL DEF Spec, ClientIsUsedSerially, C!Spec

-----------------------------------------------------------------------------
(* What is proved of the client, in the driver *)

P == INSTANCE UdpRadioClient_proofs WITH Packet <- N!Packed

\* The client of the proofs, and its bounds, are those of the driver.
LEMMA SameClient == P!BoundsAssumption /\ (C!Spec <=> P!Spec)
<1>1. P!BoundsAssumption
  BY BoundsAssumption DEF P!BoundsAssumption
<1>2. C!Spec <=> P!Spec
  BY DEF C!callVars, P!callVars, C!ioVars, P!ioVars, C!sockVars, P!sockVars, C!queueVars,
         P!queueVars, C!clientVars, P!clientVars, C!ConnectEnded,
         P!ConnectEnded, C!BoundListener, P!BoundListener, C!NoListener, P!NoListener,
         C!NoThread, P!NoThread, C!Init, P!Init, C!ConnectMove, P!ConnectMove,
         C!CloseMove, P!CloseMove, C!Fail, P!Fail, C!ConnectRefused, P!ConnectRefused,
         C!ConnectEnter, P!ConnectEnter, C!ConnectResolve, P!ConnectResolve,
         C!ConnectNewIo, P!ConnectNewIo, C!ConnectListen, P!ConnectListen,
         C!ConnectSocket, P!ConnectSocket, C!Started, P!Started,
         C!ConnectSpawn, P!ConnectSpawn, C!ConnectSpawnFails, P!ConnectSpawnFails,
         C!Orphan, P!Orphan, C!Orphaned, P!Orphaned, C!ConnectRun,
         P!ConnectRun, C!ConnectFault, P!ConnectFault, C!ConnectStep, P!ConnectStep,
         C!CloseNoop, P!CloseNoop, C!CloseBegin, P!CloseBegin, C!CloseStop, P!CloseStop,
         C!CloseJoin, P!CloseJoin, C!CloseRelease, P!CloseRelease, C!CloseFault,
         P!CloseFault, C!CloseStep, P!CloseStep, C!Renew, P!Renew, C!Post, P!Post,
         C!RenewFault, P!RenewFault, C!DestroyFault, P!DestroyFault, C!IoThrows, P!IoThrows,
         C!Dispatching, P!Dispatching, C!IoSend, P!IoSend, C!IoReceive, P!IoReceive,
         C!IoReceiveError, P!IoReceiveError, C!IoReceiveFatal, P!IoReceiveFatal,
         C!IoDeliver, P!IoDeliver, C!IoRunError, P!IoRunError, C!IoExit, P!IoExit,
         C!IoFault, P!IoFault, C!IoReceiveStep, P!IoReceiveStep, C!IoStep, P!IoStep,
         C!Arrive, P!Arrive, C!HostStep, P!HostStep,
         C!CallConnect, P!CallConnect, C!ConnectReturn, P!ConnectReturn, C!CallClose,
         P!CallClose, C!CloseReturn, P!CloseReturn, C!CallSend, P!CallSend, C!Caller,
         P!Caller, C!Halted, P!Halted, C!Next, P!Next, C!Spec, P!Spec
<1> QED  BY <1>1, <1>2

\* While connected() is true the node has a whole session to send on.
THEOREM ConnectedIsWhole == ASSUME Patient, Orderly PROVE Spec => []ConnectedSessionIsWhole
<1>1. P!Spec => []P!ConnectedSessionIsWhole
  BY SameClient, P!ConnectedIsWhole
<1>2. P!ConnectedSessionIsWhole <=> ConnectedSessionIsWhole
  BY DEF P!ConnectedSessionIsWhole, ConnectedSessionIsWhole, C!ConnectedSessionIsWhole
<1> QED  BY ImplementsSerialCaller, SameClient, <1>1, <1>2, PTL DEF ClientIsUsedSerially
=============================================================================
