-------------------------- MODULE MCMqttRadioClient --------------------------
(* The MQTT transport with two messages, for TLC. *)
EXTENDS MqttRadioClient

CONSTANTS p1, p2

MCPacket == {p1, p2}
=============================================================================
