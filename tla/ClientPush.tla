----------------------------- MODULE ClientPush -----------------------------
(***************************************************************************)
(* client/client.go: Push beside the life of the connection.               *)
(*                                                                         *)
(* Push reads the status twice, in two critical sections, and then offers  *)
(* its packet on c.obound to whichever redirector runs, the one of this    *)
(* connection or of the next.  What happens to a packet inside one         *)
(* connection is the subject of ClientComms; here it is written or fails.  *)
(*                                                                         *)
(* token[p] is the state of one Push call and of its token:                *)
(*   idle     not called                  asked   IsConnected() was true   *)
(*   offered  waiting in the select       ok, failed   token completed     *)
(***************************************************************************)
EXTENDS ClientLifecycle

CONSTANT Pushers    \* callers of Push, one call each

VARIABLES
  token,     \* as listed above
  written    \* the Pushes whose packet was written to a connection

pushVars == <<token, written>>

PushInit ==
  /\ Init
  /\ token = [p \in Pushers |-> "idle"]
  /\ written = {}

IsConnected ==
  \/ status = "connected"
  \/ ConnectRetry /\ status = "connecting"
  \/ AutoReconnect /\ (status = "reconnecting" \/ (status = "disconnecting" /\ willReconnect))

TokenMoves(p, from, to) ==
  /\ token[p] = from
  /\ token' = [token EXCEPT ![p] = to]

Push(p) ==
  /\ TokenMoves(p, "idle", IF IsConnected THEN "asked" ELSE "failed")
  /\ UNCHANGED <<vars, written>>

(* Mutant: the result of the first look is used again. *)
PushLooksOnce(p) ==
  /\ TokenMoves(p, "asked", IF status = "connected" THEN "offered" ELSE "ok")
  /\ UNCHANGED <<vars, written>>

(* The second look at the status: with reconnecting the token completes. *)
PushLooksAgain(p) ==
  /\ TokenMoves(p, "asked", IF status = "reconnecting" THEN "ok" ELSE "offered")
  /\ UNCHANGED <<vars, written>>

(* A redirector takes the packet and it is written. *)
PushWritten(p) ==
  /\ live \cap CommsReporters # {}
  /\ conn
  /\ TokenMoves(p, "offered", "ok")
  /\ written' = written \cup {p}
  /\ UNCHANGED vars

(* The write fails, or nobody takes the packet in time. *)
PushFails(p) ==
  /\ TokenMoves(p, "offered", "failed")
  /\ UNCHANGED <<vars, written>>

PushNext ==
  \/ Next /\ UNCHANGED pushVars
  \/ \E p \in Pushers : Push(p) \/ PushLooksAgain(p) \/ PushWritten(p) \/ PushFails(p)

PushSpec == PushInit /\ [][PushNext]_<<vars, pushVars>>

(* Nothing is assumed of the callers of Push. *)
PushFairSpec == PushSpec /\ Fairness

-----------------------------------------------------------------------------
(* Properties *)

(* However the connection is lost, replaced or closed between the two looks *)
(* at the status or while the packet is offered: a token completes without  *)
(* an error only when its packet was written to a connection, or when the   *)
(* client is reconnecting at the second look (then nothing was sent), and   *)
(* never once the client is disconnected.                                   *)
PushOutcome ==
  [][\A p \in Pushers : token[p] # "ok" /\ token'[p] = "ok" =>
        /\ status # "disconnected"
        /\ p \in written' \/ status = "reconnecting"]_<<vars, pushVars>>
=============================================================================
