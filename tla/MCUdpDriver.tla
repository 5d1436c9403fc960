----------------------------- MODULE MCUdpDriver ----------------------------
(* The UDP driver with one message and one datagram, for TLC. *)
EXTENDS UdpDriver

CONSTANTS m1, d1

MCMessage == {m1}
MCDatagram == {d1}
=============================================================================
