--------------------------- MODULE MCBeastServer ---------------------------
\* Option sets for TLC: an inline TLS server, a pooled one, and one server for
\* each serve seam; the refused combinations are offered to Start as well.
EXTENDS BeastServer

Http == [max_connections |-> 2, handler_threads |-> 1, tls |-> FALSE, on_websocket |-> FALSE,
         on_websocket_session |-> FALSE, websocket_gate |-> FALSE]
MCOptions ==
    {[Http EXCEPT !.handler_threads = 0, !.tls = TRUE, !.max_connections = 1],
     Http,
     [Http EXCEPT !.on_websocket = TRUE, !.websocket_gate = TRUE],
     [Http EXCEPT !.on_websocket_session = TRUE],
     [Http EXCEPT !.websocket_gate = TRUE],
     [Http EXCEPT !.on_websocket = TRUE, !.handler_threads = 0],
     [Http EXCEPT !.on_websocket = TRUE, !.on_websocket_session = TRUE]}
=============================================================================
