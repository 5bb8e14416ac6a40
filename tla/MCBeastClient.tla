--------------------------- MODULE MCBeastClient ---------------------------
(* Two callers over a pool of one connection, and one dialed WebSocket. *)
EXTENDS BeastClient
=============================================================================
