---------------------------- MODULE MCWsSession -----------------------------
(* Model-checking instances of WsSession; the bounds are in the cfg files.   *)
EXTENDS WsSession
=============================================================================
