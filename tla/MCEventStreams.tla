--------------------------- MODULE MCEventStreams ---------------------------
\* The instance of EventStreams for TLC: every combination of owned or
\* borrowed socket, with and without the JSON-RPC wrapper.
EXTENDS EventStreams
=============================================================================
