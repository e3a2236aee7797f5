-------------------------- MODULE ClientLifecycle --------------------------
(***************************************************************************)
(* client/client.go: how Connect, Disconnect, a lost connection and the    *)
(* reconnect loop share one connection, on top of the connectionStatus     *)
(* object of ConnectionStatus.                                             *)
(*                                                                         *)
(* A goroutine is a member of Proc.  A Connector runs the goroutine of     *)
(* Connect(), a Disconnecter the goroutine of Disconnect(), which          *)
(* CloseConnect also starts when the server sends DISCONNECT.  A Reporter  *)
(* is a worker of the current connection that may call internalConnLost:   *)
(* the comms goroutines and the keepalive goroutine.  The goroutines that  *)
(* internalConnLost starts (teardown, then reconnect) continue under the   *)
(* Reporter's name: they own its completion function.                      *)
(*                                                                         *)
(* at[p] is the place of goroutine p in client.go:                         *)
(*   attempt   in attemptConnection         sleep     between two attempts *)
(*   start     has a connection, waits for connMu in startWorkers          *)
(*   up        in startWorkers, before connectionUp(true)                  *)
(*   comms     in startWorkers, before the comms goroutines run            *)
(*   giveup    about to call connectionUp(false)                           *)
(*   stop      Disconnect, about to call stopCommsWorkers                  *)
(*   drain     waiting for the workers to stop                             *)
(*   complete  about to call the disconnectCompletedFn                     *)
(*   report    in internalConnLost, will-reconnect flag already computed   *)
(* Places up and comms hold connMu.                                        *)
(***************************************************************************)
EXTENDS ConnectionStatus

CONSTANTS
  Connectors, Disconnecters,  \* goroutines of Connect() and of Disconnect()
  CommsReporters, Keepalive,  \* workers that may report a lost connection
  AutoReconnect, ConnectRetry, \* client options
  PromptStart  \* startWorkers reaches connectionUp(true) before the keepalive
               \* goroutine it has just started can time out (1.5 heartbeats)

Reporters == CommsReporters \cup Keepalive

ASSUME ProcAssumption ==
  /\ Proc = Connectors \cup Disconnecters \cup Reporters
  /\ Connectors \cap Disconnecters = {}
  /\ Connectors \cap Reporters = {}
  /\ Disconnecters \cap Reporters = {}
  /\ CommsReporters \cap Keepalive = {}
  /\ {AutoReconnect, ConnectRetry, PromptStart} \subseteq BOOLEAN

VARIABLES
  at,       \* place of each goroutine in client.go
  conn,     \* c.conn # nil; it becomes nil when close(c.stop) stops the workers
  live,     \* the reporters whose goroutine has been started and not ended
  sampled   \* reporter's AutoReconnect && ConnectionStatus() > connecting

clientVars == <<at, conn, live, sampled>>
vars == <<statusVars, clientVars>>

Establishing == {"attempt", "sleep", "start", "giveup"}
Locked == {"up", "comms"}

TypeOK ==
  /\ StatusTypeOK
  /\ at \in [Proc -> Establishing \cup Locked \cup
                     {"idle", "stop", "drain", "complete", "report"}]
  /\ conn \in BOOLEAN
  /\ live \subseteq Reporters
  /\ sampled \in [Reporters -> BOOLEAN]

Init ==
  /\ StatusInit
  /\ at = [p \in Proc |-> "idle"]
  /\ conn = FALSE
  /\ live = {}
  /\ sampled = [r \in Reporters |-> FALSE]

ConnMuFree == \A p \in Proc : at[p] \notin Locked

Move(p, from, to) == at[p] = from /\ at' = [at EXCEPT ![p] = to]

-----------------------------------------------------------------------------
(* Connect() and reconnect() *)

Connect(p) ==
  /\ p \in Connectors
  /\ Connecting(p)
  /\ Move(p, "idle", "attempt")
  /\ UNCHANGED <<conn, live, sampled>>

AttemptSucceeds(p) ==
  /\ Move(p, "attempt", "start")
  /\ UNCHANGED <<statusVars, conn, live, sampled>>

(* refused: one of the three errors on which Connect() does not retry. *)
AttemptFails(p, refused) ==
  /\ Move(p, "attempt", IF p \in Connectors /\ (refused \/ ~ConnectRetry)
                        THEN "giveup" ELSE "sleep")
  /\ UNCHANGED <<statusVars, conn, live, sampled>>

(* Mutant: an abandoned reconnect clears willReconnect on its own. *)
SleepEndsForgetsReconnect(p) ==
  /\ at[p] = "sleep"
  /\ LET go == status = (IF p \in Connectors THEN "connecting" ELSE "reconnecting") IN
     /\ at' = [at EXCEPT ![p] = IF go THEN "attempt" ELSE "giveup"]
     /\ willReconnect' = (go /\ willReconnect)
  /\ UNCHANGED <<status, actionCompleted, pc, conn, live, sampled>>

(* After the sleep the loop continues only if nobody moved the status. *)
SleepEnds(p) ==
  /\ Move(p, "sleep", IF status = (IF p \in Connectors THEN "connecting" ELSE "reconnecting")
                      THEN "attempt" ELSE "giveup")
  /\ UNCHANGED <<statusVars, conn, live, sampled>>

(* Mutant: the failed connect reports success. *)
GiveUpReportsUp(p) ==
  /\ connected(p, TRUE)
  /\ Move(p, "giveup", "idle")
  /\ UNCHANGED <<conn, live, sampled>>

GiveUp(p) ==
  /\ connected(p, FALSE)
  /\ Move(p, "giveup", "idle")
  /\ UNCHANGED <<conn, live, sampled>>

(* startWorkers up to the start of the keepalive and dispatch goroutines;  *)
(* with c.conn already set it closes the new connection and gives up.      *)
StartWorkers(p) ==
  /\ ConnMuFree
  /\ Move(p, "start", IF conn THEN "giveup" ELSE "up")
  /\ conn' = TRUE
  /\ live' = IF conn THEN live ELSE Keepalive
  /\ UNCHANGED <<statusVars, sampled>>

(* connectionUp(true); errAbortConnection is only logged. *)
ConnectionUp(p) ==
  /\ connected(p, TRUE)
  /\ Move(p, "up", "comms")
  /\ UNCHANGED <<conn, live, sampled>>

(* The redirector and startComms run, connMu is released. *)
StartComms(p) ==
  /\ Move(p, "comms", "idle")
  /\ live' = live \cup CommsReporters
  /\ UNCHANGED <<statusVars, conn, sampled>>

-----------------------------------------------------------------------------
(* stopCommsWorkers, called by Disconnect and by internalConnLost: closes   *)
(* c.stop and the connection.  Its doneChan closes when live is empty.      *)
stopCommsWorkers ==
  /\ ConnMuFree
  /\ conn' = FALSE

(* Mutant: the keepalive goroutine does not watch c.stop. *)
WorkerExitsButKeepalive(r) ==
  /\ r \in live \ Keepalive
  /\ ~conn
  /\ at[r] # "report"
  /\ live' = live \ {r}
  /\ UNCHANGED <<statusVars, at, conn, sampled>>

(* A worker ends once c.stop is closed, but not inside internalConnLost. *)
WorkerExits(r) ==
  /\ r \in live
  /\ ~conn
  /\ at[r] # "report"
  /\ live' = live \ {r}
  /\ UNCHANGED <<statusVars, at, conn, sampled>>

-----------------------------------------------------------------------------
(* Disconnect(quiesce): c.status.Disconnecting(), then the DISCONNECT       *)
(* packet or the quiesce timeout, then disconnect() and disDone().          *)

Disconnect(d) ==
  /\ d \in Disconnecters
  /\ at[d] = "idle"
  /\ Disconnecting(d)
  /\ UNCHANGED clientVars

DisconnectResumes(d) ==
  /\ DisconnectingCheck(d) \/ DisconnectingRelock(d)
  /\ UNCHANGED clientVars

SendDisconnect(d) ==
  /\ pc[d] = "disconnectFn"
  /\ Move(d, "idle", "stop")
  /\ UNCHANGED <<statusVars, conn, live, sampled>>

DisconnectStop(d) ==
  /\ stopCommsWorkers
  /\ Move(d, "stop", IF conn THEN "drain" ELSE "complete")
  /\ UNCHANGED <<statusVars, live, sampled>>

(* Mutant: does not wait for the workers. *)
DisconnectUndrained(d) ==
  /\ pc[d] = "disconnectFn"
  /\ Move(d, "drain", "complete")
  /\ UNCHANGED <<statusVars, conn, live, sampled>>

DisconnectDrained(d) ==
  /\ pc[d] = "disconnectFn"
  /\ live = {}
  /\ Move(d, "drain", "complete")
  /\ UNCHANGED <<statusVars, conn, live, sampled>>

DisconnectCompletes(d) ==
  /\ disconnectionCompleted(d)
  /\ Move(d, "complete", "idle")
  /\ UNCHANGED <<conn, live, sampled>>

-----------------------------------------------------------------------------
(* internalConnLost(err) *)

(* c.status.ConnectionStatus() is read in a critical section of its own. *)
ReportLoss(r) ==
  /\ r \in live
  /\ PromptStart => \A p \in Proc : at[p] # "up"
  /\ pc[r] = "idle"
  /\ Move(r, "idle", "report")
  /\ sampled' = [sampled EXCEPT ![r] = AutoReconnect /\ status \in {"reconnecting", "connected"}]
  /\ UNCHANGED <<statusVars, conn, live>>

(* The keepalive goroutine ends with its report, a comms goroutine goes on. *)
Reported(r) ==
  /\ sampled' = [sampled EXCEPT ![r] = FALSE]
  /\ live' = live \ ({r} \cap Keepalive)

(* ConnectionLost returns an error: disconnecting or disconnected already,  *)
(* or the connect it had to wait for is over and no reconnect was wanted.   *)
LossRefused(r) ==
  /\ pc[r] = "idle"
  /\ status \in {"disconnected", "disconnecting"}
  /\ Move(r, "report", "idle")
  /\ Reported(r)
  /\ UNCHANGED <<statusVars, conn>>

LossAccepted(r) ==
  /\ r \in Reporters
  /\ at[r] = "report"
  /\ ConnectionLost(r, sampled[r])
  /\ UNCHANGED clientVars

LossResumes(r) ==
  /\ ConnectionLostRelock(r)
  /\ UNCHANGED clientVars

(* Mutant: stops the workers and goes on to stop them again. *)
LossStopRepeats(r) ==
  /\ pc[r] = "lostFn"
  /\ at[r] = "report"
  /\ conn
  /\ stopCommsWorkers
  /\ UNCHANGED <<statusVars, at, live, sampled>>

(* With c.conn = nil the code logs BUG BUG and gives up: see                *)
(* LossFindsConnection.                                                     *)
LossStop(r) ==
  /\ pc[r] = "lostFn"
  /\ conn
  /\ stopCommsWorkers
  /\ Move(r, "report", "drain")
  /\ Reported(r)
  /\ UNCHANGED statusVars

(* Mutant: the reconnect starts before the workers have stopped. *)
LossHandledEarly(r) ==
  /\ r \in Reporters
  /\ connectionLostHandled(r, TRUE)
  /\ Move(r, "drain", IF willReconnect THEN "attempt" ELSE "idle")
  /\ UNCHANGED <<conn, live, sampled>>

(* Mutant: releases the waiters and reconnects without looking at           *)
(* willReconnect again.                                                     *)
LossHandledUnasked(r) ==
  /\ r \in Reporters
  /\ live = {}
  /\ pc[r] = "lostFn"
  /\ status' = "reconnecting"
  /\ pc' = [q \in Proc |-> IF q = r THEN "connectFn" ELSE Woken(pc[q])]
  /\ Move(r, "drain", "attempt")
  /\ UNCHANGED <<willReconnect, actionCompleted, conn, live, sampled>>

(* The workers have stopped: disDone(true), then go c.reconnect(). *)
LossHandled(r) ==
  /\ r \in Reporters
  /\ live = {}
  /\ connectionLostHandled(r, TRUE)
  /\ Move(r, "drain", IF willReconnect THEN "attempt" ELSE "idle")
  /\ UNCHANGED <<conn, live, sampled>>

-----------------------------------------------------------------------------
Runs(p) ==
  \/ AttemptSucceeds(p)
  \/ \E refused \in BOOLEAN : AttemptFails(p, refused)
  \/ SleepEnds(p)
  \/ GiveUp(p)
  \/ StartWorkers(p)
  \/ ConnectionUp(p)
  \/ StartComms(p)
  \/ DisconnectResumes(p)
  \/ SendDisconnect(p)
  \/ DisconnectStop(p)
  \/ DisconnectDrained(p)
  \/ DisconnectCompletes(p)
  \/ LossRefused(p)
  \/ LossAccepted(p)
  \/ LossResumes(p)
  \/ LossStop(p)
  \/ LossHandled(p)

Next ==
  \/ \E p \in Proc : Connect(p) \/ Disconnect(p) \/ ReportLoss(p) \/ Runs(p)
  \/ \E r \in Reporters : WorkerExits(r)

Spec == Init /\ [][Next]_vars

(* Every goroutine that can run is eventually scheduled; nobody has to call *)
(* Connect or Disconnect, and no connection has to be lost.  A connection   *)
(* that is being torn down produces finitely many errors, so the workers,   *)
(* which can exit between two reports, do exit.                             *)
Fairness ==
  /\ \A p \in Proc : WF_vars(Runs(p))
  /\ \A r \in Reporters : SF_vars(WorkerExits(r))

FairSpec == Spec /\ Fairness

-----------------------------------------------------------------------------
(* Properties *)

(* Two connections never overlap: while a goroutine is still looking for a  *)
(* connection the previous one is closed and all its workers have exited,   *)
(* so startWorkers never finds c.conn set ("already running") and never     *)
(* reuses the WaitGroup and the stop channel of running workers.            *)
NoOverlappingConnections ==
  \A p \in Proc : at[p] \in Establishing => ~conn /\ live = {}

(* Status connected is backed by a connection whose comms goroutines watch  *)
(* it (or are about to be started under connMu); in status disconnected no  *)
(* connection and no worker is left behind.                                 *)
StatusMatchesConnection ==
  /\ status = "connected" => conn /\ (ConnMuFree => CommsReporters \subseteq live)
  /\ status = "disconnected" => ~conn /\ live = {}

(* "internalConnLost stopDone unexpectedly nil - BUG BUG" is never logged:  *)
(* whoever is charged with handling a lost connection finds it still there. *)
LossFindsConnection ==
  \A r \in Reporters : pc[r] = "lostFn" /\ at[r] = "report" => conn

(* Why the above hold; inductive.  The completion function a goroutine      *)
(* holds tells where it is in client.go; connMu is held only with a         *)
(* connection; workers outlive their connection only while somebody waits   *)
(* for them to stop; and whoever reports a loss is one of the live workers. *)
ClientInv ==
  /\ TypeOK
  /\ StatusInv
  /\ NoOverlappingConnections
  /\ StatusMatchesConnection
  /\ LossFindsConnection
  /\ \A p \in Proc :
       /\ pc[p] = "connectFn" <=> at[p] \in Establishing \cup {"up"}
       /\ pc[p] = "lostFn" => at[p] \in {"report", "drain"}
       /\ pc[p] \in {"awaitLost", "lostRelock"} => at[p] = "report" /\ conn
       /\ at[p] \in {"stop", "complete"} => pc[p] = "disconnectFn"
       /\ at[p] = "complete" => ~conn /\ live = {}
       /\ at[p] = "drain" => ~conn /\ pc[p] \in {"disconnectFn", "lostFn"}
       /\ at[p] = "report" => p \in live
       /\ at[p] \in Locked => conn
  /\ conn \/ live = {} \/ \E p \in Proc : at[p] = "drain"
  /\ conn /\ ConnMuFree => CommsReporters \subseteq live

(* A Disconnect() that the status object accepted or made to wait runs to   *)
(* its end: its goroutine is not left blocked.                              *)
DisconnectReturns ==
  \A d \in Disconnecters : (pc[d] # "idle") ~> (pc[d] = "idle")

(* disconnecting is a passing state: it always ends in disconnected or in   *)
(* reconnecting, and Connect() can be called again or is not needed.        *)
DisconnectingEnds ==
  (status = "disconnecting") ~> (status # "disconnecting")
=============================================================================
