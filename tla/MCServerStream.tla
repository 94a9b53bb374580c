--------------------------- MODULE MCServerStream ---------------------------
(* The session of one stream for TLC; it is finite as it stands. *)
EXTENDS ServerStream
=============================================================================
