---------------------------- MODULE MCClientPush ----------------------------
(* Instances of ClientPush for TLC. *)
EXTENDS ClientPush

MCProc == Connectors \cup Disconnecters \cup Reporters
=============================================================================
