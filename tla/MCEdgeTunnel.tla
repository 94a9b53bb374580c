---------------------------- MODULE MCEdgeTunnel ----------------------------
(* Edge addresses and ports for TLC: the preferred address is one that DNS   *)
(* gives as well, and the fallback of an index.                              *)
EXTENDS EdgeTunnel

CONSTANTS p1, p2, p3, x1

MCPorts   == {p1, p2, p3}
MCEdgeIPs == <<Fallback(1)>>
MCRegion1 == <<x1>>
MCRegion2 == <<Fallback(1)>>
=============================================================================
