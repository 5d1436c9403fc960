----------------------------- MODULE UdpDriver ------------------------------
(***************************************************************************)
(* The driver in its UDP configuration: the node (DriverNode) and the UDP  *)
(* transport (UdpRadioClient) with their threads: the executor, the        *)
(* connect thread of pre_spin(), and the client's io thread.  The node     *)
(* starts the client's calls and sees their ends; the client's signals run *)
(* the node's slots on the io thread.                                      *)
(***************************************************************************)
EXTENDS Naturals, Sequences

CONSTANTS Message, Datagram, Patient, Orderly, MaxSession, MaxPosted, MaxInbox

ASSUME BoundsAssumption ==
    /\ MaxSession \in Nat \ {0}
    /\ MaxPosted \in Nat \ {0}
    /\ MaxInbox \in Nat \ {0}

VARIABLES
    running, connCall, closeCall, io, io_stopped, io_thread, work, udp_listener,
    udp_out_socket, output_strand, posted, inbox, fault,
    pc, ret, connecting, connect_thread, radio_client_error, send_msg_queue,
    request, protocol, transport, wired, comms_pub

N == INSTANCE DriverNode
C == INSTANCE UdpRadioClient WITH Packet <- N!Packed

\* What the node leaves alone when it starts or ends a call of the client.
clientRest == <<running, io, io_stopped, io_thread, work, udp_listener, udp_out_socket,
                output_strand, posted, inbox, fault>>
nodeVars == <<pc, ret, connecting, connect_thread, radio_client_error,
              send_msg_queue, request, protocol, transport, wired, comms_pub>>
vars == <<clientRest, connCall, closeCall, nodeVars>>

Init == C!Init /\ N!NodeInit

\* The session a connect() under way has yet to create.
Unborn == IF connect_thread = "running" /\ connCall \in {"enter", "resolve", "newio"}
            THEN 1 ELSE 0

-----------------------------------------------------------------------------
(* The executor *)

\* A step of a callback that touches the client by starting or ending a call.
Callback ==
    /\ N!CfgStep \/ N!SpinStep \/ N!ReconnectClosed
       \/ N!ShutdownJoin \/ N!ShutdownClosed
    /\ UNCHANGED clientRest

SendQueued ==
    \E sent \in BOOLEAN :
        /\ N!SendMessageFromQueue(sent)
        /\ IF sent THEN C!Post(Head(send_msg_queue)) ELSE C!PostFails

SendRequested == N!SendMessageReply /\ (C!Post(request) \/ C!PostFails)

\* createRadioClient() has made another client and destroys the old one.
RenewClient ==
    /\ pc = "renew"
    /\ \/ N!Renewed /\ C!Renew
       \/ C!RenewFault /\ UNCHANGED nodeVars

Executor == Callback \/ SendQueued \/ SendRequested \/ RenewClient

\* The executor takes the next request of the outside world.  Connecting again
\* is bounded by MaxSession.  A configuration that would change the transport
\* leaves this composition.
Request ==
    /\ \/ N!Configure("udp")
       \/ N!Reconfigure /\ protocol = "udp" /\ io + Unborn < MaxSession
       \/ N!ReconnectSrv /\ io + Unborn < MaxSession
       \/ \E m \in Message : N!OnOutboundMessage(m) \/ N!SendMessageSrv(m)
       \/ \E proto \in N!Protocol : N!ParameterUpdateCallback(proto)
       \/ N!Shutdown
    /\ UNCHANGED clientRest

\* The process ends, and the client with it.
Exit ==
    N!Exit /\ IF N!ExitTerminates THEN C!Fail("thread")
              ELSE C!DestroyFault \/ UNCHANGED clientRest

-----------------------------------------------------------------------------
(* The connect thread, the io thread, and the host *)

ThreadEnd == N!ThreadEnd /\ UNCHANGED clientRest

ClientAlone ==
    /\ C!ConnectStep \/ C!CloseStep \/ C!HostStep
       \/ C!IoSend \/ C!IoReceiveStep \/ C!IoDeliver \/ C!IoThrows \/ C!IoExit \/ C!IoFault
    /\ UNCHANGED nodeVars

\* onError(), from a failed send or from the end of run().
SignalsError == (C!IoSendError \/ C!IoRunError) /\ N!OnErrorSlot

Next ==
    \/ fault = "none" /\ (Executor \/ Request \/ Exit \/ ThreadEnd \/ ClientAlone \/ SignalsError)
    \/ fault # "none" /\ UNCHANGED vars
    \/ pc \in {"down", "gone"} /\ UNCHANGED vars

\* A callback in progress and every thread are scheduled; requests, signals
\* and the host's moves are not owed to anyone.
Fairness ==
    /\ WF_vars(fault = "none" /\ Executor)
    /\ WF_vars(fault = "none" /\ ThreadEnd)
    /\ WF_vars(fault = "none" /\ C!ConnectStep /\ UNCHANGED nodeVars)
    /\ WF_vars(fault = "none" /\ C!CloseStep /\ UNCHANGED nodeVars)
    /\ WF_vars(fault = "none" /\ C!IoExit /\ UNCHANGED nodeVars)

Spec == Init /\ [][Next]_vars
FairSpec == Spec /\ Fairness

-----------------------------------------------------------------------------
(* Properties *)

NodeTypeOK == N!NodeTypeOK

\* The node is a serial caller: its pre_spin, reconnectSrv and shutdown
\* never have connect() and close() in progress at once, and never call
\* either a second time meanwhile.  Then everything UdpRadioClient promises
\* a serial caller holds in the driver.
ClientIsUsedSerially == C!Spec

\* connected() promises a usable session (see UdpRadioClient).
ConnectedSessionIsWhole == C!ConnectedSessionIsWhole

\* onOutboundMessage and sendMessageSrv test connected() first and call
\* sendV2xMessage several statements later: it is still connected then.
ConnectedUntilSent == pc \in {"obSend", "svSend"} => running

\* Whoever asks for a message to be sent has a RadioLink, however connect()
\* and close() overlap: what sendV2xMessage() has accepted leaves at most once,
\* in order, and in the session that was connected then.
KeepsRadioLink == C!KeepsRadioLink

\* send_msg_queue_ is empty whenever the executor is between callbacks:
\* a message is neither left behind nor sent by a later call.
QueueDrained == pc \in {"unconfigured", "idle", "down", "gone"} => send_msg_queue = <<>>

\* connect_thread_ is replaced only once its thread has ended, although
\* connecting_ and connected() are tested before it is joined.
OneConnectAtATime ==
    [][connCall' = "enter" /\ connCall # "enter" => connCall = "idle"]_vars

\* An error remembered, and reported by getStatusSrv, is one of the current
\* session: reconnectSrv and pre_spin clear it after the last signal of the old
\* one, also when that was another client's.
ErrorBelongsToSession == radio_client_error \in {0, io}

\* A message delivered by the io thread while handle_on_configure is still
\* running finds the publisher that its slot uses, and wave_cfg_items_ as
\* loadWaveConfig() has left it, not while it appends to it.
InboundFindsPublisher ==
    C!Dispatching /\ posted # <<>> /\ N!Receiving => comms_pub /\ pc # "cfgWave"

\* After handle_on_shutdown no thread of the driver is left, and no std::thread
\* is left for the node's destructor to trip over.
ShutdownQuiesces ==
    /\ pc \in {"down", "gone"} => /\ ~running
                                  /\ io_thread = C!NoThread
                                  /\ connCall = "idle"
                                  /\ connect_thread = "none"
    /\ pc = "gone" => fault # "thread"

\* Every callback ends, whatever the joins in it wait for.
CallbacksReturn ==
    pc \notin {"unconfigured", "idle", "down", "gone"}
        ~> (pc \in {"idle", "down"} \/ fault # "none")

\* A reconnect request leads to a new call of connect().
ReconnectAttempts == pc = "rcClose" ~> (connCall = "enter" \/ fault # "none")

\* handle_on_configure, the first time and every time, leads to a connect() of
\* the client that it has made.
ConfigureConnects ==
    pc \in {"renew", "spin"} /\ ret = "cfgWave" ~> (connCall = "enter" \/ fault # "none")

-----------------------------------------------------------------------------
(* What comments of the code say *)

\* v2x_ros_driver_node.h:156: "Protocol-aware: packs WAVE format for UDP,
\* sends raw for MQTT".  Then a UDP client is given WAVE text only.
FormatMatchesTransport ==
    \A i \in 1 .. Len(output_strand) :
        output_strand[i].data.fmt = IF transport = "udp" THEN "wave" ELSE "raw"

\* base_radio_client.h:90: "Signaled when client experiences a fatal error".
\* Then a connected client that has stopped receiving for good has told the
\* node, once the node listens.
ReceiveFailureSignalled ==
    running /\ pc = "idle" /\ ~udp_listener.armed => radio_client_error # 0

\* v2x_ros_driver_node.h:138 says of pre_spin(), which closes the client
\* after an error and connects again: "Called by the base DriverApplication
\* class prior to Spin".  Then an error is dealt with sooner or later.
ErrorIsDealtWith ==
    radio_client_error # 0
        ~> (radio_client_error = 0 \/ pc \in {"down", "gone"} \/ fault # "none")
=============================================================================
