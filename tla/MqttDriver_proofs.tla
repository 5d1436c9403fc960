-------------------------- MODULE MqttDriver_proofs --------------------------
(***************************************************************************)
(* Proofs about MqttDriver: a node that is asked to connect or to          *)
(* configure only between connect attempts, and shut down before it is     *)
(* destroyed, closes its client before it connects again; so all that is   *)
(* proved of MqttRadioClient holds in the driver.                          *)
(*                                                                         *)
(* The inductive invariant DInv joins what holds of the node (NodeInv) to  *)
(* the client's own invariant, taken with its lemmas from the proofs about *)
(* MqttRadioClient.                                                        *)
(***************************************************************************)
EXTENDS MqttDriver, SequenceTheorems, TLAPS

P == INSTANCE MqttRadioClient_proofs WITH Packet <- N!Packed

USE BoundsAssumption

-----------------------------------------------------------------------------
(* What is proved of the client, in the driver's terms *)

\* The bounds of the client are the driver's.
LEMMA ClientBounds == P!BoundsAssumption
BY DEF P!BoundsAssumption

\* The client of the proofs is the client of the driver: its steps are the same,
LEMMA SameSteps ==
    /\ M!Next <=> P!Next
    /\ UNCHANGED M!clientVars <=> UNCHANGED P!clientVars
BY DEF M!Next, P!Next, M!ConnectStep, P!ConnectStep, M!ConnectEnter, P!ConnectEnter,
       M!ConnectNew, P!ConnectNew, M!ConnectStart, P!ConnectStart, M!ConnectDial,
       P!ConnectDial, M!ConnectDialed, P!ConnectDialed, M!ConnectSent, P!ConnectSent, M!ConnectUndo, P!ConnectUndo,
       M!ConnectFault, P!ConnectFault, M!CloseStep, P!CloseStep, M!CloseNoop, P!CloseNoop,
       M!CloseBegin, P!CloseBegin, M!CloseDisconnect, P!CloseDisconnect, M!CloseJoin,
       P!CloseJoin, M!CloseDestroy, P!CloseDestroy, M!CloseFault, P!CloseFault, M!Caller,
       P!Caller, M!CallConnect, P!CallConnect, M!ConnectReturn, P!ConnectReturn,
       M!CallClose, P!CallClose, M!CloseReturn, P!CloseReturn, M!CallSend, P!CallSend,
       M!Publish, P!Publish, M!LoopStep, P!LoopStep, M!HandleConnect, P!HandleConnect,
       M!SubscribeToTopics, P!SubscribeToTopics, M!HandleConnectRefused,
       P!HandleConnectRefused, M!HandleDisconnect, P!HandleDisconnect, M!Reconnect,
       P!Reconnect, M!Transmit, P!Transmit, M!LoopExit, P!LoopExit, M!Looping, P!Looping,
       M!Client, P!Client, M!ConnectEnded, P!ConnectEnded, M!Fail, P!Fail, M!Destroy,
       P!Destroy, M!ConnectMove, P!ConnectMove, M!CloseMove, P!CloseMove, M!callVars,
       P!callVars, M!ownVars, P!ownVars, M!workVars, P!workVars, M!threadVars,
       P!threadVars, M!brokerVars, P!brokerVars, M!clientVars, P!clientVars

\* and so is its start, so that it has the same behaviours.
LEMMA SameClient == (M!Init <=> P!Init) /\ (M!Spec <=> P!Spec)
<1>1. M!Init <=> P!Init
  BY DEF M!Init, P!Init, M!Client, P!Client
<1>2. M!Spec <=> P!Spec
  BY DEF M!Next, P!Next, M!ConnectStep, P!ConnectStep, M!ConnectEnter, P!ConnectEnter,
       M!ConnectNew, P!ConnectNew, M!ConnectStart, P!ConnectStart, M!ConnectDial,
       P!ConnectDial, M!ConnectDialed, P!ConnectDialed, M!ConnectSent, P!ConnectSent, M!ConnectUndo, P!ConnectUndo,
       M!ConnectFault, P!ConnectFault, M!CloseStep, P!CloseStep, M!CloseNoop, P!CloseNoop,
       M!CloseBegin, P!CloseBegin, M!CloseDisconnect, P!CloseDisconnect, M!CloseJoin,
       P!CloseJoin, M!CloseDestroy, P!CloseDestroy, M!CloseFault, P!CloseFault, M!Caller,
       P!Caller, M!CallConnect, P!CallConnect, M!ConnectReturn, P!ConnectReturn,
       M!CallClose, P!CallClose, M!CloseReturn, P!CloseReturn, M!CallSend, P!CallSend,
       M!Publish, P!Publish, M!LoopStep, P!LoopStep, M!HandleConnect, P!HandleConnect,
       M!SubscribeToTopics, P!SubscribeToTopics, M!HandleConnectRefused,
       P!HandleConnectRefused, M!HandleDisconnect, P!HandleDisconnect, M!Reconnect,
       P!Reconnect, M!Transmit, P!Transmit, M!LoopExit, P!LoopExit, M!Looping, P!Looping,
       M!Client, P!Client, M!ConnectEnded, P!ConnectEnded, M!Fail, P!Fail, M!Destroy,
       P!Destroy, M!ConnectMove, P!ConnectMove, M!CloseMove, P!CloseMove, M!callVars,
       P!callVars, M!ownVars, P!ownVars, M!workVars, P!workVars, M!threadVars,
       P!threadVars, M!brokerVars, P!brokerVars, M!clientVars, P!clientVars, M!Init,
       P!Init, M!Spec, P!Spec
<1> QED  BY <1>1, <1>2

\* A serial step of the client keeps the client's invariant.
LEMMA ClientKeeps ==
    ASSUME P!IInv, [M!Next]_(M!clientVars)
    PROVE  P!IInv'
<1>1. P!Next \/ UNCHANGED P!clientVars
  BY SameSteps
<1>2. CASE UNCHANGED P!clientVars
  BY <1>2, ClientBounds, P!StutterKeeps
<1>3. CASE P!Next
  BY <1>3, ClientBounds, P!ConnectKeeps, P!CloseKeeps, P!LoopKeeps, P!CallerKeeps DEF P!Next
<1> QED  BY <1>1, <1>2, <1>3

\* What the node relies on: the invariant leaves nothing where mosq_ is null,
\* and close() nulls it.
LEMMA ClientFacts ==
    ASSUME P!IInv
    PROVE  /\ fault = "none"
           /\ closeCall = "closed" => mosq = 0
           /\ connCall # "idle" => closeCall = "idle"
           /\ mosq = 0 => exists = {} /\ looping = {} /\ ~connected
BY DEF P!IInv, P!TypeOK, P!ClientDiscipline, P!NoFault

-----------------------------------------------------------------------------
(* The invariant *)

\* From the request to the start of the connect thread, or to the end of
\* pre_spin: the previous thread has ended.
Starting == pc \in {"renew", "rcClose", "spin", "spinCheck", "spinJoin"}

TypesInv ==
    /\ N!NodeTypeOK
    /\ pc # "spinClose"
    /\ connCall \in M!ConnectPc
    /\ closeCall \in M!ClosePc
    /\ made \in 0 .. MaxSession

\* Who may be inside the client.
CallsInv ==
    /\ connect_thread # "running" => connCall = "idle"
    /\ closeCall # "idle" => pc \in {"renew", "rcClose", "sdClose"}
    /\ Starting \/ pc \in {"unconfigured", "sdClose"} => connect_thread # "running"
    /\ pc \in {"sdClose", "down", "gone"} => connect_thread = "none"

\* The client before it connects, and after it was closed; it signals no error.
ClosedInv ==
    /\ pc \in {"unconfigured", "spin", "spinCheck", "spinJoin", "down", "gone"} => mosq = 0
    /\ pc = "unconfigured" => made = 0
    /\ Starting \/ connCall \in {"enter", "new"} => made < MaxSession
    /\ radio_client_error = 0

\* The message in hand.
QueueInv ==
    /\ pc # "obSend" => send_msg_queue = <<>>
    /\ pc = "obSend" => Len(send_msg_queue) = 1
    /\ pc = "svSend" => request \in N!Packed

\* The slot for messages is not connected before the publisher is there.
SlotsInv ==
    /\ "onMessage" \in wired => comms_pub
    /\ \/ pc \in {"unconfigured", "cfgWave", "cfgSlots", "cfgPub"}
       \/ pc \in N!SpinPc /\ ret = "cfgWave"
       => "onMessage" \notin wired
    /\ pc = "cfgSignal" => comms_pub

NodeInv == TypesInv /\ CallsInv /\ ClosedInv /\ QueueInv /\ SlotsInv

DInv == NodeInv /\ P!IInv

\* Sending the only message leaves send_msg_queue_ empty.
LEMMA TailOfOne ==
    ASSUME NEW S, NEW q \in Seq(S), Len(q) = 1
    PROVE  Head(q) \in S /\ Tail(q) = <<>> /\ Tail(q) \in Seq(S)
<1>1. q # <<>> /\ Head(q) \in S /\ Tail(q) \in Seq(S)  OBVIOUS
<1>2. Len(Tail(q)) = 0  OBVIOUS
<1>3. Tail(q) = <<>>  BY <1>1, <1>2, EmptySeq
<1> QED  BY <1>1, <1>3

\* A message is packed in the format that the protocol asks for.
LEMMA PackedTyped ==
    ASSUME NEW m \in Message PROVE N!Pack(m) \in N!Packed
BY DEF N!Pack, N!Packed, N!Format

\* Before handle_on_configure nothing is there to break the discipline.
LEMMA InitDInv == Init => DInv
<1> SUFFICES ASSUME Init PROVE DInv
  OBVIOUS
<1>1. P!IInv
  BY SameClient, ClientBounds, P!InitIInv DEF Init
<1> USE DEF Init, M!Init, N!NodeInit
<1>2. send_msg_queue \in Seq(N!Packed)  OBVIOUS
<1>3. TypesInv
  <2>1. radio_client_error \in 0 .. MaxSession /\ made \in 0 .. MaxSession
        /\ request \in N!Packed \cup {N!NoRequest}
    OBVIOUS
  <2>2. /\ pc \in N!NodePc /\ ret \in {"cfgWave", "idle"} /\ connecting \in BOOLEAN
        /\ connect_thread \in {"none", "running", "ended"} /\ comms_pub \in BOOLEAN
        /\ protocol \in N!Protocol /\ transport \in N!Protocol
        /\ wired \subseteq {"wave", "onError", "onMessage"} /\ pc # "spinClose"
        /\ connCall \in M!ConnectPc /\ closeCall \in M!ClosePc
    BY DEF N!NodePc, N!Protocol, M!ConnectPc, M!ClosePc
  <2> QED  BY <1>2, <2>1, <2>2 DEF TypesInv, N!NodeTypeOK
<1>4. CallsInv /\ ClosedInv /\ QueueInv /\ SlotsInv
  BY DEF CallsInv, ClosedInv, QueueInv, SlotsInv, Starting, N!SpinPc
<1> QED  BY <1>1, <1>3, <1>4 DEF DInv, NodeInv

-----------------------------------------------------------------------------
(* The steps of the driver keep what holds of the node *)

\* The executor's own steps.
LEMMA CallbackKeeps ==
    ASSUME Patient, DInv, Callback
    PROVE  NodeInv'
<1> USE ClientFacts DEF DInv, NodeInv, TypesInv, N!NodeTypeOK, CallsInv, ClosedInv, QueueInv,
            SlotsInv, Starting, clientRest, N!threadVars, N!sendVars, N!setupVars, N!Move,
            N!NoClientCall, N!NodePc, N!CfgPc, N!SpinPc, M!ConnectPc, M!ClosePc
<1>1. CASE N!CfgStep /\ UNCHANGED clientRest
  <2>1. CASE N!CfgWave  BY <1>1, <2>1 DEF N!CfgWave
  <2>2. CASE N!CfgSlots  BY <1>1, <2>2 DEF N!CfgSlots
  <2>3. CASE N!CfgPub  BY <1>1, <2>3 DEF N!CfgPub
  <2>4. CASE N!CfgSignal  BY <1>1, <2>4 DEF N!CfgSignal
  <2>5. CASE N!CfgSend  BY <1>1, <2>5 DEF N!CfgSend
  <2> QED  BY <1>1, <2>1, <2>2, <2>3, <2>4, <2>5 DEF N!CfgStep
<1>2. CASE N!SpinStep /\ UNCHANGED clientRest
  <2>1. CASE N!SpinNoError  BY <1>2, <2>1 DEF N!SpinNoError
  <2>2. CASE N!SpinError \/ N!SpinClosed  BY <1>2, <2>2 DEF N!SpinError, N!SpinClosed
  <2>3. CASE N!SpinCheck  BY <1>2, <2>3 DEF N!SpinCheck
  <2>4. CASE N!SpinSpawn  BY <1>2, <2>4 DEF N!SpinSpawn
  <2> QED  BY <1>2, <2>1, <2>2, <2>3, <2>4 DEF N!SpinStep
<1>3. CASE N!ReconnectClosed /\ UNCHANGED clientRest
  BY <1>3 DEF N!ReconnectClosed
<1>4. CASE (N!ShutdownJoin \/ N!ShutdownClosed) /\ UNCHANGED clientRest
  BY <1>4 DEF N!ShutdownJoin, N!ShutdownClosed
<1> QED  BY <1>1, <1>2, <1>3, <1>4 DEF Callback

\* sendV2xMessage() under its two callers.
LEMMA SendKeeps ==
    ASSUME DInv, SendQueued \/ SendRequested
    PROVE  NodeInv'
<1> USE DEF DInv, NodeInv, TypesInv, N!NodeTypeOK, CallsInv, ClosedInv, QueueInv,
            SlotsInv, Starting, N!threadVars, N!sendVars, N!setupVars, N!Move,
            N!NoClientCall, N!NodePc, N!CfgPc, N!SpinPc
<1>1. UNCHANGED <<mosq, made>>
  BY DEF SendQueued, SendRequested, M!Publish, M!PublishFails, M!clientVars, M!ownVars
<1>2. CASE SendQueued
  <2>1. PICK sent \in BOOLEAN : N!SendMessageFromQueue(sent)
    BY <1>2 DEF SendQueued
  <2>2. send_msg_queue' = <<>> /\ send_msg_queue' \in Seq(N!Packed)
    BY <2>1, TailOfOne DEF N!SendMessageFromQueue
  <2> QED  BY <1>1, <2>1, <2>2 DEF N!SendMessageFromQueue
<1>3. CASE SendRequested
  BY <1>1, <1>3 DEF SendRequested, N!SendMessageReply
<1> QED  BY <1>2, <1>3

\* The old client, when the node is configured again, is in nobody's use.
LEMMA RenewIsClean ==
    ASSUME DInv, RenewClient
    PROVE  N!Renewed /\ M!Renew
BY ClientFacts DEF DInv, NodeInv, CallsInv, Starting, RenewClient, M!RenewFault

\* The new client starts from nothing, its slots yet to be connected.
LEMMA RenewKeeps ==
    ASSUME DInv, RenewClient
    PROVE  NodeInv'
<1>1. N!Renewed /\ M!Renew /\ mosq = 0
  BY RenewIsClean, ClientFacts DEF DInv, N!Renewed
<1> QED
  BY <1>1 DEF DInv, NodeInv, TypesInv, N!NodeTypeOK, CallsInv, ClosedInv, QueueInv, SlotsInv,
              Starting, N!threadVars, N!sendVars, N!Move, N!NodePc, N!CfgPc, N!SpinPc,
              N!Renewed, M!Renew, M!CloseMove, M!ClosePc, M!ownVars

\* The requests, and the end of the process.
LEMMA RequestKeeps ==
    ASSUME Patient, Orderly, DInv, Request \/ Exit
    PROVE  NodeInv'
<1> USE DEF DInv, NodeInv, TypesInv, N!NodeTypeOK, CallsInv, ClosedInv, QueueInv, SlotsInv,
            Starting, clientRest, N!threadVars, N!sendVars, N!setupVars, N!Move,
            N!NoClientCall, N!NodePc, N!CfgPc, N!SpinPc, M!ConnectPc, M!ClosePc
<1> USE DEF Request
<1>1. CASE N!Configure("mqtt") /\ UNCHANGED clientRest
  BY <1>1 DEF N!Configure, N!Protocol
<1>2. CASE N!Reconfigure /\ made + Unborn < MaxSession /\ UNCHANGED clientRest
  BY <1>2 DEF N!Reconfigure, Unborn
<1>3. CASE N!ReconnectSrv /\ made + Unborn < MaxSession /\ UNCHANGED clientRest
  BY <1>3 DEF N!ReconnectSrv, Unborn
<1>4. ASSUME NEW m \in Message, N!OnOutboundMessage(m), UNCHANGED clientRest PROVE NodeInv'
  <2>1. send_msg_queue = <<>> /\ send_msg_queue' = <<N!Pack(m)>>
    BY <1>4 DEF N!OnOutboundMessage
  <2>2. send_msg_queue' \in Seq(N!Packed) /\ Len(send_msg_queue') = 1
    BY <2>1, PackedTyped
  <2> QED  BY <1>4, <2>2 DEF N!OnOutboundMessage
<1>5. ASSUME NEW m \in Message, N!SendMessageSrv(m), UNCHANGED clientRest PROVE NodeInv'
  BY <1>5, PackedTyped DEF N!SendMessageSrv
<1>6. ASSUME NEW proto \in N!Protocol, N!ParameterUpdateCallback(proto), UNCHANGED clientRest
      PROVE NodeInv'
  BY <1>6 DEF N!ParameterUpdateCallback
<1>7. CASE N!Shutdown /\ UNCHANGED clientRest
  BY <1>7 DEF N!Shutdown
<1>8. CASE Exit
  BY <1>8 DEF Exit, N!Exit, N!ExitTerminates
<1> QED  BY <1>1, <1>2, <1>3, <1>4, <1>5, <1>6, <1>7, <1>8

\* The end of the connect thread.
LEMMA ThreadEndKeeps ==
    ASSUME DInv, ThreadEnd
    PROVE  NodeInv'
BY DEF DInv, NodeInv, TypesInv, N!NodeTypeOK, CallsInv, ClosedInv, QueueInv, SlotsInv, Starting,
       clientRest, N!threadVars, N!sendVars, N!setupVars, M!ConnectPc, ThreadEnd, N!ThreadEnd,
       N!ConnectEnded, N!SpinPc

\* connect(), close() and the loop threads, on their own.
LEMMA ClientAloneKeeps ==
    ASSUME DInv, ClientAlone
    PROVE  NodeInv'
<1>1. /\ UNCHANGED nodeVars
      /\ connCall \notin {"idle", "ok", "failed"} \/ closeCall \notin {"idle", "closed"}
         \/ UNCHANGED <<connCall, closeCall, mosq, made>>
  BY DEF ClientAlone, M!ConnectStep, M!ConnectEnter, M!ConnectNew, M!ConnectStart, M!ConnectDial,
         M!ConnectDialed, M!ConnectSent, M!ConnectUndo, M!ConnectFault, M!CloseStep, M!CloseNoop, M!CloseBegin,
         M!CloseDisconnect, M!CloseJoin, M!CloseDestroy, M!CloseFault, M!LoopStep,
         M!HandleConnect, M!SubscribeToTopics, M!HandleConnectRefused, M!HandleDisconnect,
         M!Reconnect, M!Transmit, M!LoopExit, M!Fail, M!ConnectMove, M!CloseMove, M!callVars,
         M!ownVars
<1> USE DEF DInv, NodeInv, TypesInv, N!NodeTypeOK, CallsInv, ClosedInv, QueueInv, SlotsInv,
            Starting, nodeVars, N!SpinPc, M!ConnectPc, M!ClosePc, M!ConnectMove, M!CloseMove,
            M!callVars, M!ownVars, M!Fail, M!Destroy
<1>2. CASE M!ConnectStep
  BY <1>1, <1>2 DEF M!ConnectStep, M!ConnectEnter, M!ConnectNew, M!ConnectStart, M!ConnectDial,
         M!ConnectDialed, M!ConnectSent, M!ConnectUndo, M!ConnectFault
<1>3. CASE M!CloseStep
  BY <1>1, <1>3 DEF M!CloseStep, M!CloseNoop, M!CloseBegin, M!CloseDisconnect, M!CloseJoin,
         M!CloseDestroy, M!CloseFault
<1>4. ASSUME NEW i \in M!Client, M!LoopStep(i) PROVE NodeInv'
  <2>1. UNCHANGED <<connCall, closeCall, mosq, made>>
    BY <1>4 DEF M!LoopStep, M!HandleConnect, M!SubscribeToTopics, M!HandleConnectRefused,
         M!HandleDisconnect, M!Reconnect, M!Transmit, M!LoopExit
  <2> QED  BY <1>1, <2>1
<1> QED  BY <1>2, <1>3, <1>4 DEF ClientAlone

\* A step of nobody.
LEMMA StutterKeeps ==
    ASSUME DInv, UNCHANGED vars
    PROVE  NodeInv'
BY DEF DInv, NodeInv, TypesInv, N!NodeTypeOK, CallsInv, ClosedInv, QueueInv, SlotsInv, Starting,
       vars, clientRest, nodeVars

\* Where pre_spin() returns to.
Returning == ret \in {"cfgWave", "idle"}

\* The order of the slots and the publisher is the node's alone: it needs nothing
\* of the client, and no patience.
LEMMA SlotsKept ==
    ASSUME SlotsInv, Returning, [Next]_vars
    PROVE  SlotsInv' /\ Returning'
<1> USE DEF SlotsInv, Returning, clientRest, nodeVars, N!threadVars, N!sendVars, N!setupVars, N!Move,
            N!NoClientCall, N!SpinPc
<1>1. CASE Callback
  <2>1. CASE N!CfgStep
    BY <2>1 DEF N!CfgStep, N!CfgWave, N!CfgSlots, N!CfgPub, N!CfgSignal, N!CfgSend
  <2>2. CASE N!SpinStep
    BY <2>2 DEF N!SpinStep, N!SpinNoError, N!SpinError, N!SpinClosed, N!SpinCheck, N!SpinSpawn
  <2>3. CASE N!ReconnectClosed \/ N!ShutdownJoin \/ N!ShutdownClosed
    BY <2>3 DEF N!ReconnectClosed, N!ShutdownJoin, N!ShutdownClosed
  <2> QED  BY <1>1, <2>1, <2>2, <2>3 DEF Callback
<1>2. CASE SendQueued \/ SendRequested
  BY <1>2 DEF SendQueued, SendRequested, N!SendMessageFromQueue, N!SendMessageReply
<1>3. CASE RenewClient
  BY <1>3 DEF RenewClient, N!Renewed
<1>4. CASE Request \/ Exit
  BY <1>4 DEF Request, Exit, N!Configure, N!Reconfigure, N!ReconnectSrv, N!OnOutboundMessage,
              N!SendMessageSrv, N!ParameterUpdateCallback, N!Shutdown, N!Exit
<1>5. CASE ThreadEnd \/ ClientAlone \/ UNCHANGED vars
  BY <1>5 DEF ThreadEnd, N!ThreadEnd, ClientAlone, vars
<1> QED  BY <1>1, <1>2, <1>3, <1>4, <1>5 DEF Next, Executor

-----------------------------------------------------------------------------
(* The steps of the driver are those of the client and its serial caller *)

\* What starts or ends a call of the client is a step of its caller.
LEMMA CallbackIsSerial ==
    ASSUME Patient, DInv, Callback
    PROVE  M!Caller \/ UNCHANGED M!clientVars
<1> USE DEF DInv, NodeInv, TypesInv, CallsInv, ClosedInv, Starting, clientRest, N!Move,
            N!NoClientCall, M!Caller, M!callVars, M!ownVars, M!workVars, M!threadVars,
            M!brokerVars, M!clientVars, M!ConnectMove, M!CloseMove
<1>1. CASE N!CfgStep /\ UNCHANGED clientRest
  BY <1>1 DEF N!CfgStep, N!CfgWave, N!CfgSlots, N!CfgPub, N!CfgSignal, N!CfgSend
<1>2. CASE N!SpinStep /\ UNCHANGED clientRest
  <2>1. CASE N!SpinNoError  BY <1>2, <2>1 DEF N!SpinNoError
  <2>2. CASE N!SpinError \/ N!SpinClosed  BY <1>2, <2>2 DEF N!SpinError, N!SpinClosed
  <2>3. CASE N!SpinCheck    BY <1>2, <2>3 DEF N!SpinCheck
  <2>4. CASE N!SpinSpawn    BY <1>2, <2>4 DEF N!SpinSpawn, M!CallConnect
  <2> QED  BY <1>2, <2>1, <2>2, <2>3, <2>4 DEF N!SpinStep
<1>3. CASE N!ReconnectClosed /\ UNCHANGED clientRest
  BY <1>3 DEF N!ReconnectClosed, M!CloseReturn
<1>4. CASE N!ShutdownJoin /\ UNCHANGED clientRest
  BY <1>4 DEF N!ShutdownJoin, M!CallClose
<1>5. CASE N!ShutdownClosed /\ UNCHANGED clientRest
  BY <1>5 DEF N!ShutdownClosed, M!CloseReturn
<1> QED  BY <1>1, <1>2, <1>3, <1>4, <1>5 DEF Callback

\* So is a message, which is a packed one.
LEMMA SendIsSerial ==
    ASSUME DInv, SendQueued \/ SendRequested
    PROVE  M!Caller \/ UNCHANGED M!clientVars
<1>1. CASE SendQueued
  <2>1. pc = "obSend" /\ (M!Publish(Head(send_msg_queue)) \/ UNCHANGED M!clientVars)
    BY <1>1 DEF SendQueued, N!SendMessageFromQueue, N!Move, M!PublishFails
  <2>2. Head(send_msg_queue) \in N!Packed /\ closeCall = "idle"
    BY <2>1, TailOfOne DEF DInv, NodeInv, TypesInv, N!NodeTypeOK, QueueInv, CallsInv
  <2> QED  BY <2>1, <2>2 DEF M!Caller, M!CallSend
<1>2. CASE SendRequested
  <2>1. pc = "svSend" /\ (M!Publish(request) \/ UNCHANGED M!clientVars)
    BY <1>2 DEF SendRequested, N!SendMessageReply, N!Move, M!PublishFails
  <2>2. request \in N!Packed /\ closeCall = "idle"
    BY <2>1 DEF DInv, NodeInv, QueueInv, CallsInv
  <2> QED  BY <2>1, <2>2 DEF M!Caller, M!CallSend
<1> QED  BY <1>1, <1>2

\* And so are the requests; the end of the process finds nothing joinable.
LEMMA RequestIsSerial ==
    ASSUME Patient, Orderly, DInv, Request \/ Exit
    PROVE  M!Caller \/ UNCHANGED M!clientVars
<1> USE DEF DInv, NodeInv, CallsInv, clientRest, N!Move, N!NoClientCall, M!Caller, M!CallClose,
            M!callVars, M!ownVars, M!workVars, M!threadVars, M!brokerVars, M!clientVars,
            M!ConnectMove, M!CloseMove
<1>1. CASE Request
  BY <1>1 DEF Request, N!Configure, N!Reconfigure, N!ReconnectSrv, N!OnOutboundMessage,
              N!SendMessageSrv, N!ParameterUpdateCallback, N!Shutdown
<1>2. CASE Exit
  BY <1>2 DEF Exit, N!Exit, N!ExitTerminates
<1> QED  BY <1>1, <1>2

\* Every step of the driver is one of the client and its serial caller, or
\* leaves the client alone.
LEMMA StepIsSerial ==
    ASSUME Patient, Orderly, DInv, [Next]_vars
    PROVE  [M!Next]_(M!clientVars)
<1>0. fault = "none"
  BY ClientFacts DEF DInv
<1>1. CASE Callback \/ SendQueued \/ SendRequested \/ Request \/ Exit
  BY <1>0, <1>1, CallbackIsSerial, SendIsSerial, RequestIsSerial DEF M!Next
<1>2. CASE RenewClient
  <2>1. M!CloseReturn  BY <1>2, RenewIsClean DEF M!Renew, M!CloseReturn
  <2> QED  BY <1>0, <2>1 DEF M!Next, M!Caller
<1>3. CASE ThreadEnd
  <2>1. M!ConnectReturn
    BY <1>3 DEF ThreadEnd, N!ThreadEnd, N!ConnectEnded, M!ConnectEnded, M!ConnectReturn, DInv,
                NodeInv, TypesInv, M!ConnectPc, clientRest, M!ownVars, M!workVars, M!threadVars,
                M!brokerVars
  <2> QED  BY <1>0, <2>1 DEF M!Next, M!Caller
<1>4. CASE ClientAlone
  BY <1>0, <1>4 DEF ClientAlone, M!Next
<1>5. CASE UNCHANGED vars
  BY <1>5 DEF vars, clientRest, M!callVars, M!ownVars, M!workVars, M!threadVars, M!brokerVars,
              M!clientVars
<1> QED  BY <1>1, <1>2, <1>3, <1>4, <1>5 DEF Next, Executor

\* Every step of the driver keeps the invariant.
LEMMA StepKeeps == ASSUME Patient, Orderly, DInv, [Next]_vars PROVE DInv'
<1>1. P!IInv'
  BY StepIsSerial, ClientKeeps DEF DInv
<1>2. NodeInv'
  BY CallbackKeeps, SendKeeps, RenewKeeps, RequestKeeps, ThreadEndKeeps, ClientAloneKeeps,
     StutterKeeps DEF Next, Executor
<1> QED  BY <1>1, <1>2 DEF DInv

-----------------------------------------------------------------------------
(* The theorems *)

\* In a patient, orderly environment the discipline holds of every reachable
\* state.
THEOREM Discipline == ASSUME Patient, Orderly PROVE Spec => []DInv
<1> QED  BY InitDInv, StepKeeps, PTL DEF Spec

\* A patient, orderly node uses its client serially and closes it before it
\* connects again.
THEOREM ImplementsSerialCaller ==
    ASSUME Patient, Orderly PROVE Spec => ClientIsUsedSerially
<1>1. Init => M!Init  BY DEF Init
<1> QED  BY Discipline, <1>1, StepIsSerial, PTL DEF Spec, ClientIsUsedSerially, M!Spec

\* The driver as a whole keeps the promise of RadioLink to whoever sends.
THEOREM ImplementsRadioLink ==
    ASSUME Patient, Orderly PROVE Spec => P!KeepsRadioLink
<1>1. P!Spec => P!KeepsRadioLink
  BY ClientBounds, P!ImplementsRadioLink
<1> QED  BY ImplementsSerialCaller, SameClient, <1>1, PTL DEF ClientIsUsedSerially

\* The slot for messages finds its publisher, whatever the node is asked and
\* when.
THEOREM PublisherIsThere == Spec => []InboundFindsPublisher
<1>1. Init => SlotsInv /\ Returning
  BY DEF Init, N!NodeInit, SlotsInv, Returning
<1>2. SlotsInv => InboundFindsPublisher
  BY DEF SlotsInv, InboundFindsPublisher, N!Receiving
<1> QED  BY SlotsKept, <1>1, <1>2, PTL DEF Spec

\* handle_on_shutdown leaves no thread, and the node can be destroyed.
THEOREM ShutdownLeavesNothing == ASSUME Patient, Orderly PROVE Spec => []ShutdownQuiesces
<1>1. DInv => ShutdownQuiesces
  BY ClientFacts DEF DInv, NodeInv, CallsInv, ClosedInv, ShutdownQuiesces
<1> QED  BY Discipline, <1>1, PTL

\* In such an environment no client is freed under a connect().
THEOREM ReconnectingIsSafe == ASSUME Patient, Orderly PROVE Spec => []ReconnectIsSafe
<1>1. DInv => ReconnectIsSafe  BY ClientFacts DEF DInv, ReconnectIsSafe
<1> QED  BY Discipline, <1>1, PTL
=============================================================================
