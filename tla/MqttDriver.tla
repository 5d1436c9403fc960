----------------------------- MODULE MqttDriver -----------------------------
(***************************************************************************)
(* The driver in its MQTT configuration: the node (DriverNode) and the     *)
(* MQTT transport (MqttRadioClient) with their threads: the executor, the  *)
(* connect thread of pre_spin(), and the loop threads of the mosquitto     *)
(* clients.  MqttRadioClient never signals onError.                        *)
(***************************************************************************)
EXTENDS Naturals, Sequences

CONSTANTS Message, Patient, Orderly, MaxSession, MaxPosted

ASSUME BoundsAssumption ==
    /\ MaxSession \in Nat \ {0}
    /\ MaxPosted \in Nat \ {0}

VARIABLES
    connected, connCall, closeCall, mosq, made, dialing, joining, exists,
    looping, stopping, link, subscribing, subscribed, outgoing, fault,
    pc, ret, connecting, connect_thread, radio_client_error, send_msg_queue,
    request, protocol, transport, wired, comms_pub

N == INSTANCE DriverNode WITH running <- connected, io <- made
M == INSTANCE MqttRadioClient WITH Packet <- N!Packed

\* What the node leaves alone when it starts or ends a call of the client.
clientRest == <<connected, mosq, made, dialing, joining, exists, looping, stopping,
                link, subscribing, subscribed, outgoing, fault>>
nodeVars == <<pc, ret, connecting, connect_thread, radio_client_error,
              send_msg_queue, request, protocol, transport, wired, comms_pub>>
vars == <<clientRest, connCall, closeCall, nodeVars>>

Init == M!Init /\ N!NodeInit

\* The client that a connect() under way has yet to make.
Unborn == IF connect_thread = "running" /\ connCall \in {"enter", "new"} THEN 1 ELSE 0

-----------------------------------------------------------------------------
(* The executor *)

\* A step of a callback that touches the client by starting or ending a call.
Callback ==
    /\ N!CfgStep \/ N!SpinStep \/ N!ReconnectClosed
       \/ N!ShutdownJoin \/ N!ShutdownClosed
    /\ UNCHANGED clientRest

\* connected() was tested before; it may no longer hold, and then
\* sendV2xMessage returns false.
SendQueued ==
    \E sent \in BOOLEAN :
        /\ N!SendMessageFromQueue(sent)
        /\ IF sent THEN M!Publish(Head(send_msg_queue)) ELSE M!PublishFails

SendRequested == N!SendMessageReply /\ (M!Publish(request) \/ M!PublishFails)

\* createRadioClient() has made another client and destroys the old one.
RenewClient ==
    /\ pc = "renew"
    /\ \/ N!Renewed /\ M!Renew
       \/ M!RenewFault /\ UNCHANGED nodeVars

Executor == Callback \/ SendQueued \/ SendRequested \/ RenewClient

\* The executor takes the next request of the outside world.  Connecting again
\* is bounded by MaxSession.  A configuration that would change the transport
\* leaves this composition.
Request ==
    /\ \/ N!Configure("mqtt")
       \/ N!Reconfigure /\ protocol = "mqtt" /\ made + Unborn < MaxSession
       \/ N!ReconnectSrv /\ made + Unborn < MaxSession
       \/ \E m \in Message : N!OnOutboundMessage(m) \/ N!SendMessageSrv(m)
       \/ \E proto \in N!Protocol : N!ParameterUpdateCallback(proto)
       \/ N!Shutdown
    /\ UNCHANGED clientRest

\* The process ends.
Exit ==
    N!Exit /\ IF N!ExitTerminates THEN M!Fail("thread") ELSE UNCHANGED clientRest

-----------------------------------------------------------------------------
(* The connect thread and the loop threads *)

ThreadEnd == N!ThreadEnd /\ UNCHANGED clientRest

ClientAlone ==
    /\ M!ConnectStep \/ M!CloseStep \/ \E i \in M!Client : M!LoopStep(i)
    /\ UNCHANGED nodeVars

Next ==
    \/ fault = "none" /\ (Executor \/ Request \/ Exit \/ ThreadEnd \/ ClientAlone)
    \/ fault # "none" /\ UNCHANGED vars
    \/ pc \in {"down", "gone"} /\ UNCHANGED vars

\* A callback in progress and every thread are scheduled, and a loop that was
\* told to disconnect ends; nothing is owed by the broker.
Fairness ==
    /\ WF_vars(fault = "none" /\ Executor)
    /\ WF_vars(fault = "none" /\ ThreadEnd)
    /\ WF_vars(fault = "none" /\ M!ConnectStep /\ UNCHANGED nodeVars)
    /\ WF_vars(fault = "none" /\ M!CloseStep /\ UNCHANGED nodeVars)
    /\ \A i \in 1 .. MaxSession :
          WF_vars(fault = "none" /\ M!Ending(i) /\ UNCHANGED nodeVars)

Spec == Init /\ [][Next]_vars
FairSpec == Spec /\ Fairness

-----------------------------------------------------------------------------
(* Properties *)

\* The node is a serial caller that closes before it connects again: a
\* pre_spin never finds a mosquitto client of an earlier connect().  Then
\* everything MqttRadioClient promises such a caller holds in the driver.
ClientIsUsedSerially == M!Spec

\* A message received while handle_on_configure is still running finds the
\* publisher that its slot uses, and wave_cfg_items_ as loadWaveConfig() has
\* left it, not while it appends to it.
InboundFindsPublisher ==
    subscribed # {} /\ N!Receiving => comms_pub /\ pc # "cfgWave"

\* base_radio_client.h:66 says of close(): "closes all sockets/clients,
\* stops all threads".  Then no loop thread is left after the shutdown, and the
\* node can be destroyed.
ShutdownQuiesces ==
    /\ pc \in {"down", "gone"}
         => ~connected /\ looping = {} /\ connect_thread = "none"
    /\ pc = "gone" => fault = "none"

\* Every callback ends, whatever the joins in it wait for.
CallbacksReturn ==
    pc \notin {"unconfigured", "idle", "down", "gone"}
        ~> (pc \in {"idle", "down"} \/ fault # "none")

\* A reconnect request leads to a new call of connect().
ReconnectAttempts == pc = "rcClose" ~> (connCall = "enter" \/ fault # "none")

\* A connect() that is under way when reconnectSrv closes the client, "Allow
\* pre_spin to reconnect" (v2x_ros_driver_node.cpp:355), works on a client
\* that is still there.
ReconnectIsSafe == fault = "none"
=============================================================================
