---------------------------- MODULE MCTunTunnel -----------------------------
(* Connections of the TUN device for TLC. *)
EXTENDS TunTunnel

CONSTANTS t1, u1
=============================================================================
