--------------------------- MODULE MqttRadioClient ---------------------------
(***************************************************************************)
(* The MQTT transport: MqttRadioClient (src/mqtt_radio_client.cpp) over    *)
(* libmosquitto.                                                           *)
(*                                                                         *)
(* Each connect() makes a mosquitto client of its own, with a loop thread  *)
(* that talks to the broker, reconnects by itself, and runs the callbacks  *)
(* of MqttRadioClient.  mosq_ is one pointer to the client made last, but  *)
(* a client lives on until somebody destroys it; clients are numbered in   *)
(* the order they are made and 0 is the null pointer.  The library is      *)
(* external: exists, looping, stopping, link and subscribed are its state  *)
(* as far as this code relies on it.                                       *)
(*                                                                         *)
(* The module's own specification is a serial caller that calls close()    *)
(* before it connects again, as the node's pre_spin and reconnectSrv mean  *)
(* to do.  MqttDriver drives the same actions by the node's code.          *)
(***************************************************************************)
EXTENDS Naturals, Sequences

CONSTANTS
    Packet,      \* what sendV2xMessage may be given
    MaxSession,  \* bound: mosquitto clients made by connect()
    MaxPosted    \* bound: messages a client has yet to transmit

ASSUME BoundsAssumption ==
    /\ MaxSession \in Nat \ {0}
    /\ MaxPosted \in Nat \ {0}

VARIABLES
    connected,    \* connected_
    connCall,     \* where connect() is
    closeCall,    \* where close() is
    mosq,         \* mosq_
    made,         \* mosquitto clients made so far
    dialing,      \* the client that mosquitto_connect() is working on, or 0
    joining,      \* the client that close() is stopping, or 0
    exists,       \* clients made and not destroyed
    looping,      \* clients whose loop thread runs
    stopping,     \* clients told to disconnect
    link,         \* how far each client is with the broker
    subscribing,  \* clients whose loop thread is inside handleConnect()
    subscribed,   \* clients with a subscription at the broker
    outgoing,     \* messages each client has accepted and not transmitted
    fault         \* undefined behaviour, once it happened

callVars == <<connCall, closeCall>>
ownVars == <<connected, mosq, made>>
workVars == <<dialing, joining>>
threadVars == <<exists, looping, stopping, subscribing>>
brokerVars == <<link, subscribed, outgoing>>
clientVars == <<callVars, ownVars, workVars, threadVars, brokerVars, fault>>

Client == 1 .. MaxSession
ClientOrNull == 0 .. MaxSession

\* "asked": CONNECT was sent; "up": CONNACK was handled; "lost": no
\* connection, but there was one or an attempt at one.
Link == {"none", "asked", "up", "lost"}

ConnectPc == {"idle", "enter", "new", "start", "dial", "dialing", "sent",
              "undo", "ok", "failed"}
ConnectEnded == {"ok", "failed"}
ClosePc == {"idle", "enter", "disconnect", "join", "destroy", "closed"}

\* "freed": a client (mosquitto's, or the object itself) destroyed while a
\* call or a loop thread is inside it; "null": a null mosq_ given to the
\* functions that set callbacks; "thread": a joinable std::thread destroyed.
Fault == {"none", "freed", "null", "thread"}

Init ==
    /\ connected = FALSE
    /\ connCall = "idle"
    /\ closeCall = "idle"
    /\ mosq = 0
    /\ made = 0
    /\ dialing = 0
    /\ joining = 0
    /\ exists = {}
    /\ looping = {}
    /\ stopping = {}
    /\ link = [i \in Client |-> "none"]
    /\ subscribing = {}
    /\ subscribed = {}
    /\ outgoing = [i \in Client |-> <<>>]
    /\ fault = "none"

ConnectMove(from, to) == connCall = from /\ connCall' = to /\ UNCHANGED closeCall
CloseMove(from, to) == closeCall = from /\ closeCall' = to /\ UNCHANGED connCall

Fail(f) ==
    /\ fault' = f
    /\ UNCHANGED <<callVars, ownVars, workVars, threadVars, brokerVars>>

\* mosquitto_destroy(mosq_); mosq_ = nullptr.  A null pointer is allowed.
Destroy ==
    /\ exists' = exists \ {mosq}
    /\ looping' = looping \ {mosq}
    /\ stopping' = stopping \ {mosq}
    /\ subscribing' = subscribing \ {mosq}
    /\ subscribed' = subscribed \ {mosq}
    /\ link' = [link EXCEPT ![mosq] = "none"]
    /\ outgoing' = [outgoing EXCEPT ![mosq] = <<>>]
    /\ mosq' = 0

-----------------------------------------------------------------------------
(* connect(), on the connect thread *)

\* if (connected_.load()) return false;
ConnectEnter ==
    /\ IF connected THEN ConnectMove("enter", "failed") ELSE ConnectMove("enter", "new")
    /\ UNCHANGED <<ownVars, workVars, threadVars, brokerVars, fault>>

\* mosq_ = mosquitto_new(...), whatever mosq_ pointed to; null on failure.
ConnectNew ==
    \/ /\ ConnectMove("new", "start")
       /\ made' = made + 1
       /\ mosq' = made + 1
       /\ exists' = exists \cup {made + 1}
       /\ UNCHANGED <<connected, workVars, looping, stopping, subscribing,
                      brokerVars, fault>>
    \/ /\ ConnectMove("new", "failed")
       /\ mosq' = 0
       /\ UNCHANGED <<connected, made, workVars, threadVars, brokerVars, fault>>

\* The callbacks are set and the loop thread started, or the client destroyed.
ConnectStart ==
    /\ mosq # 0
    /\ \/ /\ ConnectMove("start", "dial")
          /\ looping' = looping \cup {mosq}
          /\ UNCHANGED <<mosq, exists, stopping, subscribing, brokerVars>>
       \/ /\ joining # mosq
          /\ ConnectMove("start", "failed")
          /\ Destroy
    /\ UNCHANGED <<connected, made, workVars, fault>>

\* mosquitto_connect(mosq_, ...) is entered; a null pointer is an error to it.
ConnectDial ==
    /\ IF mosq = 0 THEN ConnectMove("dial", "undo") ELSE ConnectMove("dial", "dialing")
    /\ dialing' = mosq
    /\ UNCHANGED <<ownVars, joining, threadVars, brokerVars, fault>>

\* The broker is reached and CONNECT sent, or not.
ConnectDialed ==
    /\ \/ /\ ConnectMove("dialing", "sent")
          /\ link' = [link EXCEPT ![dialing] = "asked"]
          /\ UNCHANGED dialing
       \/ /\ ConnectMove("dialing", "undo")
          /\ dialing' = 0
          /\ UNCHANGED link
    /\ UNCHANGED <<ownVars, joining, threadVars, subscribed, outgoing, fault>>

\* mosquitto_connect() returns; the loop thread may have the answer by now.
ConnectSent ==
    /\ ConnectMove("sent", "ok")
    /\ dialing' = 0
    /\ UNCHANGED <<ownVars, joining, threadVars, brokerVars, fault>>

\* Mutant: mosq_ is nulled, but the client that could not connect not destroyed.
ConnectUndoForget ==
    /\ joining = 0 \/ joining # mosq
    /\ ConnectMove("undo", "failed")
    /\ mosq' = 0
    /\ UNCHANGED <<connected, made, workVars, threadVars, brokerVars, fault>>

\* mosquitto_loop_stop(mosq_, true) cancels the loop thread; then destroyed.
ConnectUndo ==
    /\ joining = 0 \/ joining # mosq
    /\ ConnectMove("undo", "failed")
    /\ IF mosq = 0 THEN UNCHANGED <<mosq, threadVars, brokerVars>> ELSE Destroy
    /\ UNCHANGED <<connected, made, workVars, fault>>

\* close() has nulled mosq_, or is inside the client that is destroyed here.
ConnectFault ==
    \/ connCall = "start" /\ mosq = 0 /\ Fail("null")
    \/ connCall \in {"start", "undo"} /\ joining # 0 /\ joining = mosq /\ Fail("freed")

ConnectStep ==
    \/ ConnectEnter \/ ConnectNew \/ ConnectStart \/ ConnectDial \/ ConnectDialed
    \/ ConnectSent \/ ConnectUndo \/ ConnectFault

-----------------------------------------------------------------------------
(* close(), on the executor *)

\* if (!mosq_) return;
CloseNoop ==
    /\ mosq = 0
    /\ CloseMove("enter", "closed")
    /\ UNCHANGED <<ownVars, workVars, threadVars, brokerVars, fault>>

CloseBegin ==
    /\ mosq # 0
    /\ CloseMove("enter", "disconnect")
    /\ connected' = FALSE
    /\ UNCHANGED <<mosq, made, workVars, threadVars, brokerVars, fault>>

\* Mutant: mosq_ is nulled before the loop thread has ended.
CloseDisconnectForget ==
    /\ CloseMove("disconnect", "join")
    /\ stopping' = stopping \cup ({mosq} \ {0})
    /\ joining' = mosq
    /\ mosq' = 0
    /\ UNCHANGED <<connected, made, dialing, exists, looping, subscribing,
                   brokerVars, fault>>

\* Mutant: the loop is stopped without a disconnect.
CloseSkipDisconnect ==
    /\ CloseMove("disconnect", "join")
    /\ joining' = mosq
    /\ UNCHANGED <<ownVars, dialing, threadVars, brokerVars, fault>>

\* mosquitto_disconnect(mosq_), and mosquitto_loop_stop(mosq_, false) entered.
CloseDisconnect ==
    /\ CloseMove("disconnect", "join")
    /\ stopping' = stopping \cup ({mosq} \ {0})
    /\ joining' = mosq
    /\ UNCHANGED <<ownVars, dialing, exists, looping, subscribing, brokerVars, fault>>

\* Mutant: the loop thread is not waited for.
CloseDetach ==
    /\ CloseMove("join", "destroy")
    /\ joining' = 0
    /\ UNCHANGED <<ownVars, dialing, threadVars, brokerVars, fault>>

\* The loop thread has ended (or was never started).
CloseJoin ==
    /\ joining \notin looping
    /\ CloseMove("join", "destroy")
    /\ joining' = 0
    /\ UNCHANGED <<ownVars, dialing, threadVars, brokerVars, fault>>

\* Mutant: the client is destroyed, but mosq_ not nulled.
CloseDestroyDangling ==
    /\ mosq \notin looping
    /\ CloseMove("destroy", "closed")
    /\ exists' = exists \ {mosq}
    /\ UNCHANGED <<ownVars, workVars, looping, stopping, subscribing, brokerVars, fault>>

CloseDestroy ==
    /\ mosq \notin looping
    /\ mosq = 0 \/ mosq # dialing
    /\ CloseMove("destroy", "closed")
    /\ IF mosq = 0 THEN UNCHANGED <<mosq, threadVars, brokerVars>> ELSE Destroy
    /\ UNCHANGED <<connected, made, workVars, fault>>

\* The client is destroyed while mosquitto_connect(), or its loop, uses it.
CloseFault ==
    /\ closeCall = "destroy"
    /\ mosq # 0
    /\ mosq = dialing \/ mosq \in looping
    /\ Fail("freed")

CloseStep ==
    \/ CloseNoop \/ CloseBegin \/ CloseDisconnect \/ CloseJoin \/ CloseDestroy
    \/ CloseFault

\* ~MqttRadioClient: close() has returned.  Another object, just made, takes
\* the place of this one; its clients are numbered on.
Renew ==
    /\ connCall \in {"idle"} \cup ConnectEnded
    /\ exists = {}
    /\ CloseMove("closed", "idle")
    /\ UNCHANGED <<ownVars, workVars, threadVars, brokerVars, fault>>

\* The object is destroyed while connect() is inside it, or while a client that
\* close() did not know of has a loop thread that will call back into it.
RenewFault ==
    /\ closeCall = "closed"
    /\ connCall \notin {"idle"} \cup ConnectEnded \/ exists # {}
    /\ Fail("freed")

-----------------------------------------------------------------------------
(* sendV2xMessage(), on the executor *)

\* mosquitto_publish() takes the message; it refuses one without a connection.
Publish(p) ==
    /\ connected
    /\ mosq # 0
    /\ link[mosq] = "up"
    /\ Len(outgoing[mosq]) < MaxPosted
    /\ outgoing' = [outgoing EXCEPT ![mosq] = Append(@, p)]
    /\ UNCHANGED <<callVars, ownVars, workVars, threadVars, link, subscribed, fault>>

\* sendV2xMessage returns false.
PublishFails == UNCHANGED clientVars

-----------------------------------------------------------------------------
(* The loop thread of client i: one callback at a time *)

Looping(i) == i \in looping /\ i \notin subscribing

\* handleConnect(0): connected_ is set, then the subscription made.
HandleConnect(i) ==
    /\ Looping(i)
    /\ link[i] = "asked"
    /\ link' = [link EXCEPT ![i] = "up"]
    /\ connected' = TRUE
    /\ subscribing' = subscribing \cup {i}
    /\ UNCHANGED <<callVars, mosq, made, workVars, exists, looping, stopping,
                   subscribed, outgoing, fault>>

\* subscribeToTopics(), on the client that mosq_ points to, if it can.
SubscribeToTopics(i) ==
    /\ i \in looping \cap subscribing
    /\ subscribing' = subscribing \ {i}
    /\ \/ mosq # 0 /\ link[mosq] = "up" /\ subscribed' = subscribed \cup {mosq}
       \/ UNCHANGED subscribed
    /\ UNCHANGED <<callVars, ownVars, workVars, exists, looping, stopping, link,
                   outgoing, fault>>

\* handleConnect(rc) with rc # 0: the broker refuses, nothing is changed.
HandleConnectRefused(i) ==
    /\ Looping(i)
    /\ link[i] = "asked"
    /\ link' = [link EXCEPT ![i] = "lost"]
    /\ UNCHANGED <<callVars, ownVars, workVars, threadVars, subscribed, outgoing, fault>>

\* Mutant: connected_ is cleared only by an unexpected disconnect.
HandleDisconnectUnexpected(i) ==
    /\ Looping(i)
    /\ link[i] \in {"asked", "up"}
    /\ link' = [link EXCEPT ![i] = "lost"]
    /\ connected' = (connected /\ i \in stopping)
    /\ subscribed' = subscribed \ {i}
    /\ outgoing' = [outgoing EXCEPT ![i] = <<>>]
    /\ UNCHANGED <<callVars, mosq, made, workVars, threadVars, fault>>

\* Mutant: connected_ is left as it is.
HandleDisconnectStillConnected(i) ==
    /\ Looping(i)
    /\ link[i] \in {"asked", "up"}
    /\ link' = [link EXCEPT ![i] = "lost"]
    /\ subscribed' = subscribed \ {i}
    /\ outgoing' = [outgoing EXCEPT ![i] = <<>>]
    /\ UNCHANGED <<callVars, connected, mosq, made, workVars, threadVars, fault>>

\* handleDisconnect(), asked for or not.  What was queued with QoS 0 is lost,
\* and the subscription with the clean session.
HandleDisconnect(i) ==
    /\ Looping(i)
    /\ link[i] \in {"asked", "up"}
    /\ link' = [link EXCEPT ![i] = "lost"]
    /\ connected' = FALSE
    /\ subscribed' = subscribed \ {i}
    /\ outgoing' = [outgoing EXCEPT ![i] = <<>>]
    /\ UNCHANGED <<callVars, mosq, made, workVars, threadVars, fault>>

\* The library connects again by itself.
Reconnect(i) ==
    /\ Looping(i)
    /\ link[i] = "lost"
    /\ i \notin stopping
    /\ link' = [link EXCEPT ![i] = "asked"]
    /\ UNCHANGED <<callVars, ownVars, workVars, threadVars, subscribed, outgoing, fault>>

Transmit(i) ==
    /\ Looping(i)
    /\ link[i] = "up"
    /\ outgoing[i] # <<>>
    /\ outgoing' = [outgoing EXCEPT ![i] = Tail(@)]
    /\ UNCHANGED <<callVars, ownVars, workVars, threadVars, link, subscribed, fault>>

\* The loop of a client told to disconnect ends once it has no connection.
LoopExit(i) ==
    /\ Looping(i)
    /\ i \in stopping
    /\ link[i] \in {"none", "lost"}
    /\ looping' = looping \ {i}
    /\ UNCHANGED <<callVars, ownVars, workVars, exists, stopping, subscribing,
                   brokerVars, fault>>

LoopStep(i) ==
    \/ HandleConnect(i) \/ SubscribeToTopics(i) \/ HandleConnectRefused(i)
    \/ HandleDisconnect(i) \/ Reconnect(i) \/ Transmit(i) \/ LoopExit(i)

\* What a loop that was told to disconnect does to end.
Ending(i) ==
    i \in stopping /\ (SubscribeToTopics(i) \/ HandleDisconnect(i) \/ LoopExit(i))

-----------------------------------------------------------------------------
(* A serial caller that closes before it connects again *)

CallConnect ==
    /\ closeCall = "idle"
    /\ mosq = 0
    /\ made < MaxSession
    /\ ConnectMove("idle", "enter")
    /\ UNCHANGED <<ownVars, workVars, threadVars, brokerVars, fault>>

ConnectReturn ==
    /\ connCall \in ConnectEnded
    /\ connCall' = "idle"
    /\ UNCHANGED <<closeCall, ownVars, workVars, threadVars, brokerVars, fault>>

CallClose ==
    /\ connCall = "idle"
    /\ CloseMove("idle", "enter")
    /\ UNCHANGED <<ownVars, workVars, threadVars, brokerVars, fault>>

CloseReturn ==
    /\ CloseMove("closed", "idle")
    /\ UNCHANGED <<ownVars, workVars, threadVars, brokerVars, fault>>

CallSend(p) == closeCall = "idle" /\ Publish(p)

Caller ==
    \/ CallConnect \/ ConnectReturn \/ CallClose \/ CloseReturn
    \/ \E p \in Packet : CallSend(p)

\* After a fault nothing more is said.
Next ==
    /\ fault = "none"
    /\ ConnectStep \/ CloseStep \/ Caller \/ \E i \in Client : LoopStep(i)

\* Calls in progress go on, and so does a loop that was told to disconnect.
Fairness ==
    /\ WF_clientVars(fault = "none" /\ ConnectStep)
    /\ WF_clientVars(fault = "none" /\ CloseStep)
    /\ \A i \in Client : WF_clientVars(fault = "none" /\ Ending(i))

Spec == Init /\ [][Next]_clientVars
FairSpec == Spec /\ Fairness

-----------------------------------------------------------------------------
(* Properties *)

\* The types of the members and of the library's state; no pointer dangles.
TypeOK ==
    /\ connected \in BOOLEAN
    /\ connCall \in ConnectPc
    /\ closeCall \in ClosePc
    /\ made \in ClientOrNull
    /\ exists \subseteq Client
    /\ mosq \in exists \cup {0}
    /\ dialing \in exists \cup {0}
    /\ joining \in exists \cup {0}
    /\ looping \subseteq Client
    /\ stopping \subseteq Client
    /\ link \in [Client -> Link]
    /\ subscribing \subseteq Client
    /\ subscribed \subseteq Client
    /\ outgoing \in [Client -> Seq(Packet)]
    /\ fault \in Fault

\* What exists at each point of connect() and close(), and what the loop
\* thread may be doing there.  No client but the one mosq_ points to is ever
\* alive: connect() overwrites mosq_ without looking, and a client it forgot
\* would keep a thread that calls back into this object.  It is inductive, and
\* the other safety properties follow from it.
ClientDiscipline ==
    /\ connCall = "idle" \/ closeCall = "idle"
    /\ exists = {mosq} \ {0}
    /\ mosq <= made
    /\ connCall = "enter" => ~connected
    /\ connCall \in {"enter", "new"} => mosq = 0 /\ made < MaxSession
    /\ connCall \in {"start", "dial", "dialing", "undo"}
            => mosq # 0 /\ link[mosq] = "none"
    /\ connCall = "sent" => mosq # 0
    /\ connCall = "start" => looping = {}
    /\ closeCall \in {"disconnect", "join", "destroy"} => mosq # 0
    /\ closeCall = "closed" => mosq = 0
    /\ closeCall = "destroy" => looping = {}
    /\ dialing = IF connCall \in {"dialing", "sent"} THEN mosq ELSE 0
    /\ joining = IF closeCall = "join" THEN mosq ELSE 0
    /\ looping \subseteq exists
    /\ stopping \subseteq exists
    /\ subscribed \subseteq exists
    /\ subscribing \subseteq looping
    /\ stopping # {} => closeCall \in {"join", "destroy"}
    /\ \A i \in Client : link[i] = "up" => i \in looping
    /\ \A i \in Client : link[i] # "none" => i \in exists
    /\ connected => mosq # 0 /\ link[mosq] = "up"

\* connected() is true only of a client that has its loop thread and a
\* connection to the broker, and that sendV2xMessage would publish on.
ConnectedIsCurrent ==
    connected => mosq # 0 /\ mosq \in looping /\ link[mosq] = "up"

\* handleConnect() subscribes through mosq_, not through the client whose
\* callback it is: until it has, mosq_ still points to that client.
CallbackFindsItsClient == \A i \in subscribing : mosq = i

\* After close() nothing is left, although the broker's answer may set
\* connected_ after close() has cleared it.
CloseQuiesces == closeCall = "closed" => ~connected /\ mosq = 0 /\ looping = {}

\* What waits to be transmitted was accepted for the current connection.
OutgoingIsCurrent ==
    \A i \in Client : outgoing[i] # <<>> => i = mosq /\ link[i] = "up"

\* No client is destroyed under a call or a loop that uses it.
NoFault == fault = "none"

\* The transport as a RadioLink.  The loop thread goes on sending after close()
\* has cleared connected_, until the connection has ended.
linkUp == mosq # 0 /\ link[mosq] = "up"
phase == IF connected THEN "up" ELSE IF linkUp THEN "ending" ELSE "down"
pending == IF mosq = 0 THEN <<>> ELSE outgoing[mosq]

RL == INSTANCE RadioLink

\* The MQTT transport keeps the promise of RadioLink: nothing is accepted
\* unconnected, sent twice or out of order, or sent on a later connection than
\* the one it was accepted for.
KeepsRadioLink == RL!Spec

\* connect() and close() return: in particular the loop thread that close()
\* waits for ends, whatever state of the connection it is in.
CallsReturn ==
    /\ connCall = "enter" ~> (connCall \in ConnectEnded \/ fault # "none")
    /\ closeCall = "enter" ~> (closeCall = "closed" \/ fault # "none")
=============================================================================
