----------------------------- MODULE MCArgoPool -----------------------------
(* A small instance of the connection pool for TLC. *)
EXTENDS ArgoPool

CONSTANTS r1, r2, r3, r4

MCReqs == {r1, r2, r3, r4}
=============================================================================
