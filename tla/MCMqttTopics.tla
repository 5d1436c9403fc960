---------------------------- MODULE MCMqttTopics ----------------------------
(* The tables of etc/wave.json and of mqtt_radio_client.cpp, for TLC. *)
EXTENDS MqttTopics

E(name, id, psid) == [name |-> name, id |-> id, psid |-> psid]
O(psid, topic) == [psid |-> psid, topic |-> topic]

MCWaveFile ==
    <<E("BSM", 20, 32), E("MAP", 18, 130), E("SPAT", 19, 130), E("TIM", 31, 131),
      E("PSM", 32, 39), E("SensorDataSharingMessage", 41, 32784),
      E("MobilityRequest", 240, 49134), E("MobilityResponse", 241, 49134),
      E("MobilityOperation", 243, 49134), E("MobilityPath", 242, 49134),
      E("TrafficControlRequest", 244, 32771), E("TrafficControlMessage", 245, 32771),
      E("EmergencyVehicleResponse", 246, 32773), E("EmergencyVehicleAck", 247, 32773)>>

MCOverrides ==
    <<O(32, 32), O(131, 131), O(130, 2113687), O(130, 130), O(32784, 144),
      O(39, 39), O(49134, 16494)>>

ASSUME EtcWaveNamesAgree == NamesAgree
=============================================================================
