------------------------------ MODULE MCRelay -------------------------------
(* The sizes of Relay are given in the configurations. *)
EXTENDS Relay
=============================================================================
