----------------------- MODULE MqttRadioClient_proofs -----------------------
(***************************************************************************)
(* Proofs about MqttRadioClient: its safety properties hold of any serial  *)
(* caller that closes before it connects again, for every set of packets   *)
(* and every bound.                                                        *)
(*                                                                         *)
(* The inductive invariant IInv is ClientDiscipline, which says what       *)
(* exists at each point of connect() and close() and what the loop thread  *)
(* may be doing then, with the types, the place of unsent messages and the *)
(* absence of faults.                                                      *)
(***************************************************************************)
EXTENDS MqttRadioClient, TLAPS

IInv == TypeOK /\ ClientDiscipline /\ OutgoingIsCurrent /\ NoFault

USE BoundsAssumption

\* A queue that is emptied is a queue.
LEMMA EmptyQueue == ASSUME NEW S PROVE <<>> \in Seq(S)
OBVIOUS

\* The constructor leaves no client of libmosquitto.
LEMMA InitIInv == Init => IInv
<1> SUFFICES ASSUME Init PROVE IInv
  OBVIOUS
<1>1. outgoing \in [Client -> Seq(Packet)]
  BY EmptyQueue DEF Init
<1>2. link \in [Client -> Link] /\ made \in ClientOrNull
  BY DEF Init, Link, ClientOrNull
<1>3. TypeOK
  BY <1>1, <1>2 DEF Init, TypeOK, ConnectPc, ClosePc, Fault
<1>4. ClientDiscipline
  BY DEF Init, ClientDiscipline
<1> QED  BY <1>3, <1>4 DEF Init, IInv, OutgoingIsCurrent, NoFault

\* Destroying mosq_, when its loop has ended or is cancelled and no connection
\* was acknowledged, leaves nothing of it.
LEMMA DestroyLeavesNothing ==
    ASSUME IInv, Destroy, mosq # 0
    PROVE  /\ exists' = {} /\ looping' = {} /\ stopping' = {}
           /\ subscribing' = {} /\ subscribed' = {} /\ mosq' = 0
           /\ link' \in [Client -> Link]
           /\ outgoing' \in [Client -> Seq(Packet)]
           /\ \A i \in Client : link'[i] = "none"
           /\ \A i \in Client : outgoing'[i] = <<>>
<1> USE DEF IInv, TypeOK, ClientDiscipline, Destroy
<1>1. exists = {mosq} /\ mosq \in Client
  OBVIOUS
<1>2. /\ exists' = {} /\ looping' = {} /\ stopping' = {}
      /\ subscribing' = {} /\ subscribed' = {} /\ mosq' = 0
  BY <1>1
<1>3. link' \in [Client -> Link] /\ \A i \in Client : link'[i] = "none"
  BY <1>1 DEF Link
<1>4. outgoing' \in [Client -> Seq(Packet)] /\ \A i \in Client : outgoing'[i] = <<>>
  BY <1>1, EmptyQueue DEF OutgoingIsCurrent
<1> QED  BY <1>2, <1>3, <1>4

\* So connect() and close() keep the invariant when they end by destroying.
LEMMA DestroyKeeps ==
    ASSUME IInv, Destroy, mosq # 0, ~connected, dialing = 0, joining = 0,
           UNCHANGED <<connected, made, workVars, fault>>,
           \/ connCall' = "failed" /\ closeCall' = "idle"
           \/ connCall' = "idle" /\ closeCall' = "closed"
    PROVE  IInv'
<1> USE DEF IInv, workVars
<1>1. TypeOK'
  BY DestroyLeavesNothing DEF TypeOK, ConnectPc, ClosePc
<1>2. ClientDiscipline'
  BY DestroyLeavesNothing DEF TypeOK, ClientDiscipline, ClientOrNull
<1>3. OutgoingIsCurrent' /\ NoFault'
  BY DestroyLeavesNothing DEF OutgoingIsCurrent, NoFault
<1> QED  BY <1>1, <1>2, <1>3

\* The steps of connect() keep the invariant.
LEMMA ConnectKeeps == IInv /\ ConnectStep => IInv'
<1> SUFFICES ASSUME IInv, ConnectStep PROVE IInv'
  OBVIOUS
<1> USE DEF IInv, TypeOK, ClientDiscipline, OutgoingIsCurrent, NoFault, ConnectPc,
            ClosePc, ClientOrNull, Client, Fault, ConnectMove, callVars, ownVars,
            workVars, threadVars, brokerVars
<1>1. CASE ConnectEnter   BY <1>1 DEF ConnectEnter
<1>2. CASE ConnectNew
  <2>1. /\ connCall = "new" /\ exists = {} /\ looping = {} /\ stopping = {}
        /\ subscribing = {} /\ subscribed = {} /\ ~connected
        /\ mosq = 0 /\ dialing = 0 /\ joining = 0 /\ closeCall = "idle"
    BY <1>2 DEF ConnectNew
  <2>2. made + 1 \in 1 .. MaxSession /\ made + 1 # 0
    BY <1>2 DEF ConnectNew
  <2>3. \A i \in Client : link[i] = "none"
    BY <2>1
  <2>4. UNCHANGED <<connected, workVars, looping, stopping, subscribing, brokerVars,
                    fault, closeCall>>
    BY <1>2 DEF ConnectNew
  <2>5. CASE connCall' = "start" /\ made' = made + 1 /\ mosq' = made + 1
             /\ exists' = {made + 1}
    <3>1. TypeOK'  BY <2>1, <2>2, <2>4, <2>5
    <3>2. ClientDiscipline'  BY <2>1, <2>2, <2>3, <2>4, <2>5
    <3>3. OutgoingIsCurrent' /\ NoFault'  BY <2>3, <2>4, <2>5
    <3> QED  BY <3>1, <3>2, <3>3
  <2>6. CASE connCall' = "failed" /\ UNCHANGED <<made, mosq, exists>>
    BY <2>1, <2>4, <2>6
  <2> QED  BY <1>2, <2>1, <2>5, <2>6 DEF ConnectNew
<1>3. CASE ConnectStart
  <2>1. mosq # 0 /\ connCall = "start" /\ ~connected
    BY <1>3 DEF ConnectStart
  <2>2. CASE Destroy /\ connCall' = "failed"
    BY <1>3, <2>1, <2>2, DestroyKeeps DEF ConnectStart
  <2>3. CASE connCall' = "dial"
    BY <1>3, <2>1, <2>3 DEF ConnectStart
  <2> QED  BY <1>3, <2>2, <2>3 DEF ConnectStart
<1>4. CASE ConnectDial    BY <1>4 DEF ConnectDial
<1>5. CASE ConnectDialed  BY <1>5 DEF ConnectDialed, Link
<1>6. CASE ConnectSent    BY <1>6 DEF ConnectSent
<1>7. CASE ConnectUndo
  <2>1. mosq # 0 /\ connCall = "undo" /\ ~connected /\ Destroy
    BY <1>7 DEF ConnectUndo
  <2> QED  BY <1>7, <2>1, DestroyKeeps DEF ConnectUndo
<1>8. CASE ConnectFault   BY <1>8 DEF ConnectFault, Fail
<1> QED  BY <1>1, <1>2, <1>3, <1>4, <1>5, <1>6, <1>7, <1>8 DEF ConnectStep

\* The steps of close() keep the invariant.
LEMMA CloseKeeps == IInv /\ CloseStep => IInv'
<1> SUFFICES ASSUME IInv, CloseStep PROVE IInv'
  OBVIOUS
<1> USE DEF IInv, TypeOK, ClientDiscipline, OutgoingIsCurrent, NoFault, ConnectPc,
            ClosePc, ClientOrNull, Client, Fault, CloseMove, callVars, ownVars,
            workVars, threadVars, brokerVars
<1>1. CASE CloseNoop        BY <1>1 DEF CloseNoop
<1>2. CASE CloseBegin       BY <1>2 DEF CloseBegin
<1>3. CASE CloseDisconnect  BY <1>3 DEF CloseDisconnect
<1>4. CASE CloseJoin        BY <1>4 DEF CloseJoin
<1>5. CASE CloseDestroy
  <2>1. mosq # 0 /\ closeCall = "destroy" /\ ~connected /\ Destroy
    BY <1>5 DEF CloseDestroy
  <2> QED  BY <1>5, <2>1, DestroyKeeps DEF CloseDestroy
<1>6. CASE CloseFault       BY <1>6 DEF CloseFault, Fail
<1> QED  BY <1>1, <1>2, <1>3, <1>4, <1>5, <1>6 DEF CloseStep

\* The callbacks and the loop thread of a client keep the invariant.
LEMMA LoopKeeps == ASSUME NEW i \in Client, IInv, LoopStep(i) PROVE IInv'
<1> USE DEF IInv, TypeOK, ClientDiscipline, OutgoingIsCurrent, NoFault, ConnectPc,
            ClosePc, ClientOrNull, Client, Fault, Looping, callVars, ownVars,
            workVars, threadVars, brokerVars
<1>1. CASE HandleConnect(i)         BY <1>1 DEF HandleConnect, Link
<1>2. CASE SubscribeToTopics(i)     BY <1>2 DEF SubscribeToTopics
<1>3. CASE HandleConnectRefused(i)  BY <1>3 DEF HandleConnectRefused, Link
<1>4. CASE HandleDisconnect(i)
  <2>1. link' \in [Client -> Link] /\ outgoing' \in [Client -> Seq(Packet)]
    BY <1>4, EmptyQueue DEF HandleDisconnect, Link
  <2>2. TypeOK'  BY <1>4, <2>1 DEF HandleDisconnect
  <2>3. ClientDiscipline'  BY <1>4 DEF HandleDisconnect
  <2>4. OutgoingIsCurrent' /\ NoFault'  BY <1>4 DEF HandleDisconnect
  <2> QED  BY <2>2, <2>3, <2>4
<1>5. CASE Reconnect(i)             BY <1>5 DEF Reconnect, Link
<1>6. CASE Transmit(i)
  <2>1. outgoing' \in [Client -> Seq(Packet)]
    BY <1>6 DEF Transmit
  <2>2. \A j \in Client : outgoing'[j] # <<>> => outgoing[j] # <<>>
    BY <1>6 DEF Transmit
  <2>3. TypeOK' /\ ClientDiscipline' /\ NoFault'
    BY <1>6, <2>1 DEF Transmit
  <2>4. OutgoingIsCurrent'
    BY <1>6, <2>2 DEF Transmit
  <2> QED  BY <2>3, <2>4
<1>7. CASE LoopExit(i)              BY <1>7 DEF LoopExit
<1> QED  BY <1>1, <1>2, <1>3, <1>4, <1>5, <1>6, <1>7 DEF LoopStep

\* The caller's steps keep the invariant.
LEMMA CallerKeeps == IInv /\ Caller => IInv'
<1> SUFFICES ASSUME IInv, Caller PROVE IInv'
  OBVIOUS
<1> USE DEF IInv, TypeOK, ClientDiscipline, OutgoingIsCurrent, NoFault, ConnectPc,
            ClosePc, ClientOrNull, Client, Fault, ConnectMove, CloseMove, callVars,
            ownVars, workVars, threadVars, brokerVars
<1>1. CASE CallConnect    BY <1>1 DEF CallConnect
<1>2. CASE ConnectReturn  BY <1>2 DEF ConnectReturn, ConnectEnded
<1>3. CASE CallClose      BY <1>3 DEF CallClose
<1>4. CASE CloseReturn    BY <1>4 DEF CloseReturn
<1>5. ASSUME NEW p \in Packet, CallSend(p) PROVE IInv'
  <2>1. mosq \in Client /\ link[mosq] = "up"
    BY <1>5 DEF CallSend, Publish
  <2>2. outgoing' \in [Client -> Seq(Packet)]
    BY <1>5, <2>1 DEF CallSend, Publish
  <2>3. \A i \in Client : i # mosq => outgoing'[i] = outgoing[i]
    BY <1>5, <2>1 DEF CallSend, Publish
  <2>4. TypeOK' /\ ClientDiscipline' /\ NoFault'
    BY <1>5, <2>2 DEF CallSend, Publish
  <2>5. OutgoingIsCurrent'
    BY <1>5, <2>1, <2>3 DEF CallSend, Publish
  <2> QED  BY <2>4, <2>5
<1> QED  BY <1>1, <1>2, <1>3, <1>4, <1>5 DEF Caller

\* A step that changes nothing keeps the invariant.
LEMMA StutterKeeps == IInv /\ UNCHANGED clientVars => IInv'
BY DEF IInv, TypeOK, ClientDiscipline, OutgoingIsCurrent, NoFault, clientVars,
       callVars, ownVars, workVars, threadVars, brokerVars

\* Every reachable state of a client with a serial caller satisfies IInv.
THEOREM Discipline == Spec => []IInv
<1>1. IInv /\ [Next]_clientVars => IInv'
  BY ConnectKeeps, CloseKeeps, LoopKeeps, CallerKeeps, StutterKeeps DEF Next
<1> QED  BY InitIInv, <1>1, PTL DEF Spec

\* The types of the members; no pointer dangles.
THEOREM TypeCorrect == Spec => []TypeOK
<1>1. IInv => TypeOK  BY DEF IInv
<1> QED  BY Discipline, <1>1, PTL

\* What exists at each point of connect() and close().
THEOREM Disciplined == Spec => []ClientDiscipline
<1>1. IInv => ClientDiscipline  BY DEF IInv
<1> QED  BY Discipline, <1>1, PTL

\* connected() is true only of a client with a loop thread and a connection.
THEOREM ConnectedMeansUp == Spec => []ConnectedIsCurrent
<1>1. IInv => ConnectedIsCurrent
  BY DEF IInv, TypeOK, ClientDiscipline, ConnectedIsCurrent
<1> QED  BY Discipline, <1>1, PTL

\* handleConnect() subscribes for the client whose callback it is.
THEOREM CallbacksAreOwn == Spec => []CallbackFindsItsClient
<1>1. IInv => CallbackFindsItsClient
  BY DEF IInv, ClientDiscipline, CallbackFindsItsClient
<1> QED  BY Discipline, <1>1, PTL

\* close() leaves no loop thread, and connected_ false, although the broker's
\* answer may have set it meanwhile.
THEOREM CloseLeavesNothing == Spec => []CloseQuiesces
<1>1. IInv => CloseQuiesces
  BY DEF IInv, ClientDiscipline, CloseQuiesces
<1> QED  BY Discipline, <1>1, PTL

\* A message waits only at the client and on the connection it was given to.
THEOREM TrafficIsCurrent == Spec => []OutgoingIsCurrent
<1>1. IInv => OutgoingIsCurrent  BY DEF IInv
<1> QED  BY Discipline, <1>1, PTL

\* No client is destroyed while mosquitto_connect() or its loop uses it.
THEOREM NothingFreedInUse == Spec => []NoFault
<1>1. IInv => NoFault  BY DEF IInv
<1> QED  BY Discipline, <1>1, PTL

-----------------------------------------------------------------------------
(* The transport implements RadioLink *)

\* Without a connection the link is down, and nothing is pending.
LEMMA DownState ==
    ASSUME IInv, mosq = 0 \/ link[mosq] # "up"
    PROVE  phase = "down" /\ pending = <<>>
<1>1. ~connected
  BY DEF IInv, ClientDiscipline
<1>2. mosq # 0 => mosq \in Client /\ outgoing[mosq] = <<>>
  BY DEF IInv, TypeOK, OutgoingIsCurrent
<1> QED  BY <1>1, <1>2 DEF phase, pending, linkUp

\* With one it is up or ending, and what the library has queued is pending.
LEMMA UpState ==
    ASSUME IInv, mosq # 0, link[mosq] = "up"
    PROVE  phase = (IF connected THEN "up" ELSE "ending") /\ pending = outgoing[mosq]
BY DEF phase, pending, linkUp

\* A step that leaves these as they are is none of the link's.
LEMMA LinkStutter ==
    UNCHANGED <<connected, mosq, link, outgoing>> => UNCHANGED RL!linkVars
BY DEF phase, pending, linkUp, RL!linkVars

\* Nor is one between two states without a connection.
LEMMA LinkDown ==
    ASSUME IInv, IInv', mosq = 0 \/ link[mosq] # "up", (mosq = 0 \/ link[mosq] # "up")'
    PROVE  UNCHANGED RL!linkVars
<1>1. phase = "down" /\ pending = <<>>
  BY DownState
<1>2. ~connected' /\ (mosq' # 0 => mosq' \in Client /\ outgoing'[mosq'] = <<>>)
  BY DEF IInv, TypeOK, ClientDiscipline, OutgoingIsCurrent
<1>3. phase' = "down" /\ pending' = <<>>
  BY <1>2 DEF phase, pending, linkUp
<1> QED  BY <1>1, <1>3 DEF RL!linkVars

\* A callback or a step of the loop is a step of the link or none of it.
LEMMA LoopLink ==
    ASSUME NEW i \in Client, IInv, IInv', LoopStep(i)
    PROVE  RL!Next \/ UNCHANGED RL!linkVars
<1> USE DEF callVars, ownVars, workVars, threadVars, brokerVars
<1>1. i \in looping => i = mosq /\ mosq # 0
  BY DEF IInv, TypeOK, ClientDiscipline
<1>2. link \in [Client -> Link] /\ outgoing \in [Client -> Seq(Packet)]
  BY DEF IInv, TypeOK
<1>3. CASE HandleConnect(i)
  <2>1. i = mosq /\ mosq # 0 /\ link[mosq] # "up"
    BY <1>1, <1>3 DEF HandleConnect, Looping
  <2>2. phase = "down" /\ pending = <<>>
    BY <2>1, DownState
  <2>3. outgoing[mosq] = <<>>
    BY <2>1 DEF IInv, OutgoingIsCurrent
  <2>4. phase' = "up" /\ pending' = <<>>
    BY <1>3, <2>1, <2>3 DEF HandleConnect, phase, pending
  <2> QED  BY <2>2, <2>4 DEF RL!Next, RL!Open
<1>4. CASE HandleDisconnect(i)
  <2>1. i = mosq /\ mosq # 0 /\ mosq' = mosq
    BY <1>1, <1>4 DEF HandleDisconnect, Looping
  <2>2. link'[mosq] # "up"
    BY <1>2, <1>4, <2>1 DEF HandleDisconnect
  <2>3. CASE link[mosq] # "up"
    BY <2>1, <2>2, <2>3, LinkDown
  <2>4. CASE link[mosq] = "up"
    <3>1. phase # "down"
      BY <2>1, <2>4, UpState
    <3>2. phase' = "down" /\ pending' = <<>>
      BY <1>2, <1>4, <2>1, <2>2 DEF HandleDisconnect, phase, pending, linkUp
    <3> QED  BY <3>1, <3>2 DEF RL!Next, RL!Over
  <2> QED  BY <2>3, <2>4
<1>5. CASE Transmit(i)
  <2>1. i = mosq /\ mosq # 0 /\ link[mosq] = "up" /\ outgoing[mosq] # <<>>
    BY <1>1, <1>5 DEF Transmit, Looping
  <2>2. phase # "down" /\ pending = outgoing[mosq]
    BY <2>1, UpState
  <2>3. phase' = phase /\ pending' = Tail(outgoing[mosq])
    BY <1>2, <1>5, <2>1 DEF Transmit, phase, pending, linkUp
  <2> QED  BY <2>1, <2>2, <2>3 DEF RL!Next, RL!Emit
<1>6. CASE HandleConnectRefused(i) \/ Reconnect(i)
  <2>1. i = mosq /\ mosq # 0 /\ link[mosq] # "up" /\ mosq' = mosq /\ link'[mosq] # "up"
    BY <1>1, <1>2, <1>6 DEF HandleConnectRefused, Reconnect, Looping
  <2> QED  BY <2>1, LinkDown
<1>7. CASE SubscribeToTopics(i) \/ LoopExit(i)
  BY <1>7, LinkStutter DEF SubscribeToTopics, LoopExit
<1> QED  BY <1>3, <1>4, <1>5, <1>6, <1>7 DEF LoopStep

\* Every step of the client is a step of the link or changes nothing in it.
LEMMA LinkStep ==
    IInv /\ IInv' /\ [Next]_clientVars => [RL!Next]_(RL!linkVars)
<1> SUFFICES ASSUME IInv, IInv', [Next]_clientVars
             PROVE  RL!Next \/ UNCHANGED RL!linkVars
  OBVIOUS
<1> USE DEF callVars, ownVars, workVars, threadVars, brokerVars, ConnectMove, CloseMove
<1>1. CASE ConnectNew \/ ConnectStart \/ ConnectDialed \/ ConnectUndo
  <2>1. /\ connCall \in {"new", "start", "dialing", "undo"}
        /\ connCall' \in {"start", "dial", "sent", "undo", "failed"}
        /\ closeCall' = closeCall
    BY <1>1 DEF ConnectNew, ConnectStart, ConnectDialed, ConnectUndo
  <2>2. mosq = 0 \/ link[mosq] # "up"
    BY <2>1 DEF IInv, ClientDiscipline
  <2>3. (mosq = 0 \/ link[mosq] # "up")'
    <3>1. CASE connCall' = "sent"
      <4>1. dialing = mosq /\ mosq' = mosq /\ link' = [link EXCEPT ![mosq] = "asked"]
        BY <1>1, <3>1 DEF ConnectNew, ConnectStart, ConnectDialed, ConnectUndo, IInv,
                          ClientDiscipline
      <4> QED  BY <4>1 DEF IInv, TypeOK
    <3>2. CASE connCall' = "failed"
      BY <1>1, <2>2, <3>2 DEF ConnectNew, ConnectStart, ConnectDialed, ConnectUndo,
                              Destroy, IInv, ClientDiscipline
    <3> QED  BY <2>1, <3>1, <3>2 DEF IInv, ClientDiscipline
  <2> QED  BY <2>2, <2>3, LinkDown
<1>2. CASE ConnectEnter \/ ConnectDial \/ ConnectSent \/ ConnectFault
  BY <1>2, LinkStutter DEF ConnectEnter, ConnectDial, ConnectSent, ConnectFault, Fail
<1>3. CASE CloseBegin
  <2>1. CASE ~connected
    BY <1>3, <2>1, LinkStutter DEF CloseBegin, IInv, TypeOK
  <2>2. CASE connected
    <3>1. mosq # 0 /\ link[mosq] = "up"
      BY <2>2 DEF IInv, ClientDiscipline
    <3>2. phase = "up" /\ pending = outgoing[mosq]
      BY <2>2, <3>1, UpState
    <3>3. phase' = "ending" /\ pending' = outgoing[mosq]
      BY <1>3, <3>1 DEF CloseBegin, phase, pending, linkUp
    <3> QED  BY <3>2, <3>3 DEF RL!Next, RL!Disconnect
  <2> QED  BY <2>1, <2>2
<1>4. CASE CloseDestroy
  <2>1. mosq # 0 /\ mosq' = 0 /\ link[mosq] # "up"
    <3>1. mosq # 0 /\ mosq \in Client /\ looping = {} /\ Destroy
      BY <1>4 DEF CloseDestroy, IInv, TypeOK, ClientDiscipline
    <3> QED  BY <3>1 DEF Destroy, IInv, ClientDiscipline
  <2> QED  BY <2>1, LinkDown
<1>5. CASE CloseNoop \/ CloseDisconnect \/ CloseJoin \/ CloseFault
  BY <1>5, LinkStutter DEF CloseNoop, CloseDisconnect, CloseJoin, CloseFault, Fail
<1>6. CASE CallConnect \/ ConnectReturn \/ CallClose \/ CloseReturn
  BY <1>6, LinkStutter DEF CallConnect, ConnectReturn, CallClose, CloseReturn
<1>7. ASSUME NEW p \in Packet, CallSend(p) PROVE RL!Next
  <2>1. /\ connected /\ connected' = connected
        /\ mosq # 0 /\ link[mosq] = "up" /\ mosq' = mosq
        /\ outgoing' = [outgoing EXCEPT ![mosq] = Append(@, p)]
    BY <1>7 DEF CallSend, Publish
  <2>2. mosq \in Client /\ outgoing \in [Client -> Seq(Packet)]
    BY <2>1 DEF IInv, TypeOK
  <2>3. phase = "up" /\ pending = outgoing[mosq]
    BY <2>1, UpState
  <2>4. phase' = "up" /\ pending' = Append(outgoing[mosq], p)
    BY <2>1, <2>2 DEF phase, pending
  <2> QED  BY <2>3, <2>4 DEF RL!Next, RL!Accept
<1>8. ASSUME NEW i \in Client, LoopStep(i) PROVE RL!Next \/ UNCHANGED RL!linkVars
  BY <1>8, LoopLink
<1>9. CASE UNCHANGED clientVars
  BY <1>9, LinkStutter DEF clientVars
<1> QED
  BY <1>1, <1>2, <1>3, <1>4, <1>5, <1>6, <1>7, <1>8, <1>9
     DEF Next, ConnectStep, CloseStep, Caller

\* The MQTT transport implements the abstract RadioLink: what it has accepted
\* leaves at most once, in order, and on the connection it was accepted for.
THEOREM ImplementsRadioLink == Spec => KeepsRadioLink
<1>1. Init => IInv /\ RL!Init
  BY InitIInv DEF Init, RL!Init, phase, pending, linkUp
<1>2. IInv /\ [Next]_clientVars => IInv'
  BY ConnectKeeps, CloseKeeps, LoopKeeps, CallerKeeps, StutterKeeps DEF Next
<1> QED  BY <1>1, <1>2, LinkStep, PTL DEF Spec, KeepsRadioLink, RL!Spec
=============================================================================
