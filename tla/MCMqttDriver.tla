---------------------------- MODULE MCMqttDriver ----------------------------
(* The MQTT driver with one message, for TLC. *)
EXTENDS MqttDriver

CONSTANT m1

MCMessage == {m1}
=============================================================================
