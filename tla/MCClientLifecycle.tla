------------------------- MODULE MCClientLifecycle -------------------------
EXTENDS ClientLifecycle

MCProc == Connectors \cup Disconnecters \cup CommsReporters \cup Keepalive
=============================================================================
