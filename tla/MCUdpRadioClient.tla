-------------------------- MODULE MCUdpRadioClient --------------------------
(* The UDP transport driven by any serial caller, for TLC. *)
EXTENDS UdpRadioClient

CONSTANTS p1, p2, d1

MCPacket == {p1, p2}
MCDatagram == {d1}
=============================================================================
