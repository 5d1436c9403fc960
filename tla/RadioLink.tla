------------------------------ MODULE RadioLink ------------------------------
(***************************************************************************)
(* What a BaseRadioClient (include/v2x_ros_driver/base_radio_client.h)     *)
(* promises whoever sends through it, whatever the transport: messages are *)
(* accepted only while connected() is true; each leaves at most once, in   *)
(* the order of acceptance; and a session begins with none pending, so     *)
(* that what one session did not send no later one does.                   *)
(***************************************************************************)
EXTENDS Sequences

CONSTANT Packet

VARIABLES
    phase,   \* "up": connected(); "ending": no longer, but still sending
    pending  \* messages accepted and not yet handed to the network

linkVars == <<phase, pending>>

Init == phase = "down" /\ pending = <<>>

\* connect() has succeeded, at once or when the broker has answered.
Open == phase = "down" /\ phase' = "up" /\ pending' = <<>>

\* sendV2xMessage() returns true.
Accept(p) ==
    phase = "up" /\ pending' = Append(pending, p) /\ UNCHANGED phase

\* The oldest message is handed to the network, which may lose it.
Emit ==
    phase # "down" /\ pending # <<>> /\ pending' = Tail(pending) /\ UNCHANGED phase

\* connected() becomes false, by close() or by the network.
Disconnect == phase = "up" /\ phase' = "ending" /\ UNCHANGED pending

\* The session is over; what it has not sent is dropped.
Over == phase # "down" /\ phase' = "down" /\ pending' = <<>>

Next == Open \/ (\E p \in Packet : Accept(p)) \/ Emit \/ Disconnect \/ Over

Spec == Init /\ [][Next]_linkVars
=============================================================================
