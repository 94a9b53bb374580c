---------------------------- MODULE MCUdpBuffers ----------------------------
(* A small instance of the buffers of the UDP forwarder for TLC. *)
EXTENDS UdpBuffers

CONSTANTS a1, a2, c1, c2, w1, b1, b2, b3
=============================================================================
