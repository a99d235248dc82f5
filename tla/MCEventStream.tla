--------------------------- MODULE MCEventStream ---------------------------
\* Instances of EventStream for TLC: the configuration gives the constants.
EXTENDS EventStream
=============================================================================
