--------------------------- MODULE SessionRegistry ---------------------------
(***************************************************************************)
(* What the server promises of its ConnectionStore: a device has at most   *)
(* one session; a new connection replaces the session of its device at any *)
(* time, a session goes away only after its connection was closed, and a   *)
(* connection that was a session once never comes back as one.             *)
(***************************************************************************)
CONSTANTS Conn, Device, None

VARIABLES
  session,   \* per device, its connection or None
  known,     \* the connections that are or were sessions
  live       \* the ones that have not been closed

Init ==
  /\ session = [d \in Device |-> None]
  /\ known = {}
  /\ live = {}

Register(d, c) ==
  /\ c \notin known
  /\ session' = [session EXCEPT ![d] = c]
  /\ known' = known \cup {c}
  /\ live' = live \cup {c}

Die(c) ==
  /\ live' = live \ {c}
  /\ UNCHANGED <<session, known>>

End(d) ==
  /\ session[d] \in known \ live
  /\ session' = [session EXCEPT ![d] = None]
  /\ UNCHANGED <<known, live>>

Next ==
  \/ \E c \in Conn : Die(c) \/ \E d \in Device : Register(d, c)
  \/ \E d \in Device : End(d)

Spec == Init /\ [][Next]_<<session, known, live>>
=============================================================================
