--------------------------- MODULE MCQuickTunnel ----------------------------
(* The bounds of QuickTunnel are given in the configurations. *)
EXTENDS QuickTunnel
=============================================================================
