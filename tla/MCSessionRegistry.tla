------------------------- MODULE MCSessionRegistry --------------------------
(* Model-checking instances of SessionRegistry; the bounds are in the cfgs.  *)
EXTENDS SessionRegistry
=============================================================================
