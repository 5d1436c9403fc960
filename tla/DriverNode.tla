----------------------------- MODULE DriverNode -----------------------------
(***************************************************************************)
(* V2XDriverApplication::Node (src/v2x_ros_driver_node.cpp): configuring,  *)
(* the reconnect service, the outbound subscription and the send service,  *)
(* parameter updates, shutdown, destruction, and the connect thread        *)
(* started by pre_spin().                                                  *)
(*                                                                         *)
(* All of the node's ROS callbacks are in its default, mutually exclusive  *)
(* callback group, so the executor is one logical thread: pc says where in *)
(* which callback it is, and "idle" that it may take another.  The radio   *)
(* client is an interface here: running is what connected() returns, io    *)
(* the session its signals come from, and connCall and closeCall are the   *)
(* connect() and close() calls that the node starts ("enter") and whose    *)
(* end it sees.  A composition conjoins the client's own actions.          *)
(***************************************************************************)
EXTENDS Naturals, Sequences

CONSTANTS
    Message,    \* what may arrive on outbound_binary_msg or the send service
    Patient,    \* nobody reconnects or configures while connect() is under way
    Orderly,    \* the node is destroyed only after handle_on_shutdown
    MaxSession  \* bound on the client's sessions

VARIABLES
    pc,                  \* where the executor is
    ret,                 \* where pre_spin() returns to
    connecting,          \* connecting_
    connect_thread,      \* connect_thread_: not there, running, or ended
    radio_client_error,  \* the session radio_client_error_ came from, 0 if clear
    send_msg_queue,      \* send_msg_queue_
    request,             \* the packed message sendMessageSrv is about to send
    protocol,            \* config_.protocol
    transport,           \* the kind of client createRadioClient() made
    wired,               \* what handle_on_configure has set on the client
    comms_pub,           \* comms_pub_ exists
    running, connCall, closeCall, io   \* the radio client's interface

nodeVars == <<pc, ret, connecting, connect_thread, radio_client_error,
              send_msg_queue, request, protocol, transport, wired, comms_pub>>
threadVars == <<connecting, connect_thread>>
sendVars == <<send_msg_queue, request>>
setupVars == <<protocol, transport, wired, comms_pub>>

Protocol == {"udp", "mqtt"}
Format == {"wave", "raw"}
Packed == [msg : Message, fmt : Format]
NoRequest == <<>>

CfgPc == {"cfgWave", "cfgSlots", "cfgPub", "cfgSignal", "cfgSend"}
SpinPc == {"spin", "spinClose", "spinCheck", "spinJoin"}
NodePc == {"unconfigured", "idle", "renew", "rcClose", "obSend", "svSend",
           "sdJoin", "sdClose", "down", "gone"} \cup CfgPc \cup SpinPc
ConnectEnded == {"ok", "failed", "threw"}

NodeInit ==
    /\ pc = "unconfigured"
    /\ ret = "cfgWave"
    /\ connecting = FALSE
    /\ connect_thread = "none"
    /\ radio_client_error = 0
    /\ send_msg_queue = <<>>
    /\ request = NoRequest
    /\ protocol = "udp"
    /\ transport = "udp"
    /\ wired = {}
    /\ comms_pub = FALSE

Move(from, to) == pc = from /\ pc' = to
NoClientCall == UNCHANGED <<connCall, closeCall>>

\* packMessage() for WAVE text, or the content as it is: config_.protocol says.
Pack(m) == [msg |-> m, fmt |-> IF protocol = "mqtt" THEN "raw" ELSE "wave"]

-----------------------------------------------------------------------------
(* handle_on_configure, in the order of its statements *)

\* Parameters are loaded and createRadioClient() picks the transport.
Configure(proto) ==
    /\ Move("unconfigured", "spin")
    /\ ret' = "cfgWave"
    /\ protocol' = proto
    /\ transport' = proto
    /\ NoClientCall
    /\ UNCHANGED <<threadVars, radio_client_error, sendVars, wired, comms_pub>>

\* Configured again: createRadioClient() makes a client of the protocol that
\* the parameters name and destroys the old one, which closes it.  Left out is
\* a connect thread that has not called connect() yet: radio_client_ is changed
\* under it, and which client it finds is a race.
Reconfigure ==
    /\ Patient => connect_thread # "running"
    /\ connCall # "enter"
    /\ Move("idle", "renew")
    /\ ret' = "cfgWave"
    /\ transport' = protocol
    /\ closeCall' = "enter"
    /\ UNCHANGED <<connCall, threadVars, radio_client_error, sendVars, protocol,
                   wired, comms_pub>>

\* The old client is gone (the client says what becomes of connCall and
\* closeCall), and with it what was set on it.
Renewed ==
    /\ closeCall = "closed"
    /\ Move("renew", "spin")
    /\ wired' = {}
    /\ UNCHANGED <<ret, threadVars, radio_client_error, sendVars, protocol,
                   transport, comms_pub>>

\* loadWaveConfig() and set_wave_file_path(): until then process() finds no
\* message id to accept.
CfgWave ==
    /\ Move("cfgWave", "cfgSlots")
    /\ wired' = wired \cup {"wave"}
    /\ NoClientCall
    /\ UNCHANGED <<ret, threadVars, radio_client_error, sendVars, protocol,
                   transport, comms_pub>>

\* Mutant: the slot is connected with the others, before the publisher.
CfgSlotsAll ==
    /\ Move("cfgSlots", "cfgPub")
    /\ radio_client_error' = 0
    /\ wired' = wired \cup {"onError", "onMessage"}
    /\ NoClientCall
    /\ UNCHANGED <<ret, threadVars, sendVars, protocol, transport, comms_pub>>

\* The error is cleared and the slots are connected.
CfgSlots ==
    /\ Move("cfgSlots", "cfgPub")
    /\ radio_client_error' = 0
    /\ wired' = wired \cup {"onError"}
    /\ NoClientCall
    /\ UNCHANGED <<ret, threadVars, sendVars, protocol, transport, comms_pub>>

CfgPub ==
    /\ Move("cfgPub", "cfgSignal")
    /\ comms_pub' = TRUE
    /\ NoClientCall
    /\ UNCHANGED <<ret, threadVars, radio_client_error, sendVars, protocol,
                   transport, wired>>

CfgSignal ==
    /\ Move("cfgSignal", "cfgSend")
    /\ wired' = wired \cup {"onMessage"}
    /\ NoClientCall
    /\ UNCHANGED <<ret, threadVars, radio_client_error, sendVars, protocol,
                   transport, comms_pub>>

\* sendMessageFromQueue() on a queue that no callback has filled yet.
CfgSend ==
    /\ send_msg_queue = <<>>
    /\ Move("cfgSend", "idle")
    /\ NoClientCall
    /\ UNCHANGED <<ret, threadVars, radio_client_error, sendVars, setupVars>>

CfgStep == CfgWave \/ CfgSlots \/ CfgPub \/ CfgSignal \/ CfgSend

-----------------------------------------------------------------------------
(* pre_spin *)

SpinNoError ==
    /\ radio_client_error = 0
    /\ Move("spin", "spinCheck")
    /\ NoClientCall
    /\ UNCHANGED <<ret, threadVars, radio_client_error, sendVars, setupVars>>

SpinError ==
    /\ radio_client_error # 0
    /\ Move("spin", "spinClose")
    /\ closeCall' = "enter"
    /\ UNCHANGED <<connCall, ret, threadVars, radio_client_error, sendVars,
                   setupVars>>

SpinClosed ==
    /\ closeCall = "closed"
    /\ Move("spinClose", "spinCheck")
    /\ closeCall' = "idle"
    /\ radio_client_error' = 0
    /\ UNCHANGED <<connCall, ret, threadVars, sendVars, setupVars>>

\* if (!connecting_ && !connected()) connecting_ = true; ...
SpinCheck ==
    /\ \/ ~connecting /\ ~running /\ Move("spinCheck", "spinJoin")
          /\ connecting' = TRUE
       \/ (connecting \/ running) /\ pc = "spinCheck" /\ pc' = ret
          /\ UNCHANGED connecting
    /\ NoClientCall
    /\ UNCHANGED <<ret, connect_thread, radio_client_error, sendVars, setupVars>>

\* Mutant: the previous connect thread is detached, not joined.
SpinSpawnDetached ==
    /\ pc = "spinJoin"
    /\ pc' = ret
    /\ connect_thread' = "running"
    /\ connCall' = "enter"
    /\ UNCHANGED <<closeCall, ret, connecting, radio_client_error, sendVars,
                   setupVars>>

\* The previous thread is joined, then one that calls connect() starts.
SpinSpawn ==
    /\ pc = "spinJoin"
    /\ connect_thread # "running"
    /\ pc' = ret
    /\ connect_thread' = "running"
    /\ connCall' = "enter"
    /\ UNCHANGED <<closeCall, ret, connecting, radio_client_error, sendVars,
                   setupVars>>

SpinStep == SpinNoError \/ SpinError \/ SpinClosed \/ SpinCheck \/ SpinSpawn

\* Mutant: an exception from connect() skips the end of the thread.
ThreadEndUnlessThrown ==
    /\ connect_thread = "running"
    /\ connCall \in ConnectEnded
    /\ connCall' = "idle"
    /\ connecting' = (connecting /\ connCall = "threw")
    /\ connect_thread' = "ended"
    /\ UNCHANGED <<closeCall, pc, ret, radio_client_error, sendVars, setupVars>>

\* The connect thread: connect() returned or threw; connecting_ = false.
ThreadEnd ==
    /\ connect_thread = "running"
    /\ connCall \in ConnectEnded
    /\ connCall' = "idle"
    /\ connecting' = FALSE
    /\ connect_thread' = "ended"
    /\ UNCHANGED <<closeCall, pc, ret, radio_client_error, sendVars, setupVars>>

-----------------------------------------------------------------------------
(* reconnectSrv *)

ReconnectSrv ==
    /\ Patient => connect_thread # "running"
    /\ Move("idle", "rcClose")
    /\ closeCall' = "enter"
    /\ UNCHANGED <<connCall, ret, threadVars, radio_client_error, sendVars,
                   setupVars>>

\* Mutant: pre_spin's second half is called alone, the error left as it is.
ReconnectClosedKeepError ==
    /\ closeCall = "closed"
    /\ Move("rcClose", "spinCheck")
    /\ ret' = "idle"
    /\ closeCall' = "idle"
    /\ connecting' = FALSE
    /\ UNCHANGED <<connCall, connect_thread, radio_client_error, sendVars,
                   setupVars>>

\* Mutant: connecting_ is set as if an attempt had been started already.
ReconnectClosedConnecting ==
    /\ closeCall = "closed"
    /\ Move("rcClose", "spin")
    /\ ret' = "idle"
    /\ closeCall' = "idle"
    /\ radio_client_error' = 0
    /\ connecting' = TRUE
    /\ UNCHANGED <<connCall, connect_thread, sendVars, setupVars>>

\* close() returned: the error is cleared, connecting_ reset, pre_spin called.
ReconnectClosed ==
    /\ closeCall = "closed"
    /\ Move("rcClose", "spin")
    /\ ret' = "idle"
    /\ closeCall' = "idle"
    /\ radio_client_error' = 0
    /\ connecting' = FALSE
    /\ UNCHANGED <<connCall, connect_thread, sendVars, setupVars>>

-----------------------------------------------------------------------------
(* Outbound messages *)

\* Mutant: the message is queued as it came.
OnOutboundMessageUnpacked(m) ==
    /\ running
    /\ Move("idle", "obSend")
    /\ send_msg_queue' = Append(send_msg_queue, m)
    /\ NoClientCall
    /\ UNCHANGED <<ret, threadVars, radio_client_error, request, setupVars>>

\* onOutboundMessage: dropped when not connected, otherwise packed and queued.
OnOutboundMessage(m) ==
    /\ running
    /\ Move("idle", "obSend")
    /\ send_msg_queue' = Append(send_msg_queue, Pack(m))
    /\ NoClientCall
    /\ UNCHANGED <<ret, threadVars, radio_client_error, request, setupVars>>

\* Mutant: a message that could not be sent stays at the head.
SendMessageFromQueueKeep(sent) ==
    /\ Move("obSend", "idle")
    /\ send_msg_queue' = IF sent THEN Tail(send_msg_queue) ELSE send_msg_queue
    /\ NoClientCall
    /\ UNCHANGED <<ret, threadVars, radio_client_error, request, setupVars>>

\* sendMessageFromQueue: the head goes to sendV2xMessage, which succeeds or
\* not, and is popped.
SendMessageFromQueue(sent) ==
    /\ Move("obSend", "idle")
    /\ send_msg_queue' = Tail(send_msg_queue)
    /\ NoClientCall
    /\ UNCHANGED <<ret, threadVars, radio_client_error, request, setupVars>>

\* sendMessageSrv: refused when not connected, otherwise packed ...
SendMessageSrv(m) ==
    /\ running
    /\ Move("idle", "svSend")
    /\ request' = Pack(m)
    /\ NoClientCall
    /\ UNCHANGED <<ret, threadVars, radio_client_error, send_msg_queue, setupVars>>

\* ... and given to sendV2xMessage, past the queue.
SendMessageReply ==
    /\ Move("svSend", "idle")
    /\ request' = NoRequest
    /\ NoClientCall
    /\ UNCHANGED <<ret, threadVars, radio_client_error, send_msg_queue, setupVars>>

-----------------------------------------------------------------------------
(* parameter_update_callback, handle_on_shutdown and the destructor *)

ParameterUpdateCallback(proto) ==
    /\ pc = "idle"
    /\ protocol' = proto
    /\ NoClientCall
    /\ UNCHANGED <<pc, ret, threadVars, radio_client_error, sendVars, transport,
                   wired, comms_pub>>

\* Mutant: the connection is closed without waiting for the connect thread.
ShutdownNoJoin ==
    /\ Move("idle", "sdClose")
    /\ closeCall' = "enter"
    /\ UNCHANGED <<connCall, ret, threadVars, radio_client_error, sendVars,
                   setupVars>>

Shutdown ==
    /\ Move("idle", "sdJoin")
    /\ NoClientCall
    /\ UNCHANGED <<ret, threadVars, radio_client_error, sendVars, setupVars>>

\* The connect thread is joined and dropped, and close() called.
ShutdownJoin ==
    /\ connect_thread # "running"
    /\ Move("sdJoin", "sdClose")
    /\ connect_thread' = "none"
    /\ closeCall' = "enter"
    /\ UNCHANGED <<connCall, ret, connecting, radio_client_error, sendVars,
                   setupVars>>

ShutdownClosed ==
    /\ closeCall = "closed"
    /\ Move("sdClose", "down")
    /\ closeCall' = "idle"
    /\ UNCHANGED <<connCall, ret, threadVars, radio_client_error, sendVars,
                   setupVars>>

\* The node is destroyed, after handle_on_shutdown or without it.
Exit ==
    /\ pc \in IF Orderly THEN {"down"} ELSE {"idle", "down"}
    /\ pc' = "gone"
    /\ NoClientCall
    /\ UNCHANGED <<ret, threadVars, radio_client_error, sendVars, setupVars>>

\* A joinable connect_thread_ is destroyed with the node: std::terminate().
ExitTerminates == connect_thread # "none"

-----------------------------------------------------------------------------
(* Slots on the client's signals, run by the client's io thread *)

\* radio_client_error_ = err, once the slot is connected.
OnErrorSlot ==
    /\ radio_client_error' = IF "onError" \in wired THEN io ELSE radio_client_error
    /\ NoClientCall
    /\ UNCHANGED <<pc, ret, threadVars, sendVars, setupVars>>

\* process() accepts the datagram and its signal has a slot.
Receiving == {"wave", "onMessage"} \subseteq wired

-----------------------------------------------------------------------------

\* The types of the members; send_msg_queue_ holds packed messages only.
NodeTypeOK ==
    /\ pc \in NodePc
    /\ ret \in {"cfgWave", "idle"}
    /\ connecting \in BOOLEAN
    /\ connect_thread \in {"none", "running", "ended"}
    /\ radio_client_error \in 0 .. MaxSession
    /\ send_msg_queue \in Seq(Packed)
    /\ request \in Packed \cup {NoRequest}
    /\ protocol \in Protocol
    /\ transport \in Protocol
    /\ wired \subseteq {"wave", "onError", "onMessage"}
    /\ comms_pub \in BOOLEAN
=============================================================================
