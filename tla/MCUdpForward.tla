---------------------------- MODULE MCUdpForward ----------------------------
(* Small instances of the UDP forwarder for TLC. *)
EXTENDS UdpForward, TLC

CONSTANTS a1, c1, c2

Symmetry == Permutations(Conns)
=============================================================================
