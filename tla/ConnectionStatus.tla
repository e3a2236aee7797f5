-------------------------- MODULE ConnectionStatus --------------------------
(***************************************************************************)
(* client/status.go: the connectionStatus object every client goroutine    *)
(* goes through before it may open, close or replace the connection.       *)
(*                                                                         *)
(* Each critical section of the object's mutex is one action.  A call that *)
(* blocks on the actionCompleted channel releases the mutex first, so it   *)
(* is split there: pc[p] says where goroutine p is inside the object.      *)
(*                                                                         *)
(*   idle               outside, holding no completion function            *)
(*   connectFn          holds the connCompletedFn (method connected)       *)
(*   disconnectFn       holds the disconnectCompletedFn                    *)
(*   lostFn             holds the connectionLostHandledFn                  *)
(*   awaitReturn        blocked on the channel; will return an error       *)
(*   awaitConnecting    Disconnecting, blocked on a first connect          *)
(*   awaitReconnecting  Disconnecting, blocked on a reconnect              *)
(*   awaitLost          ConnectionLost(true), blocked on a connect         *)
(*   checkAborted       woken Disconnecting, before its unlocked read of   *)
(*                      willReconnect                                      *)
(*   relock, lostRelock woken, before taking the mutex again               *)
(*   awaitNil           blocked on a nil channel, that is, for ever        *)
(*                                                                         *)
(* Calls that return an error at once change nothing and are not actions.  *)
(***************************************************************************)

CONSTANT Proc     \* the goroutines that use the object

VARIABLES
  status,           \* connectionStatus.status
  willReconnect,    \* connectionStatus.willReconnect
  actionCompleted,  \* "open": a channel not yet closed; "nil": no channel
  pc                \* where each goroutine is, as listed above

statusVars == <<status, willReconnect, actionCompleted, pc>>

Status == {"disconnected", "disconnecting", "connecting", "reconnecting", "connected"}

Owning == {"connectFn", "disconnectFn", "lostFn"}
Blocked == {"awaitReturn", "awaitConnecting", "awaitReconnecting", "awaitLost"}
Resuming == {"checkAborted", "relock", "lostRelock"}

(* At these places a goroutine takes over from the connect it waited for,   *)
(* or already has.                                                          *)
Successor == {"awaitConnecting", "awaitReconnecting", "awaitLost", "disconnectFn", "lostFn"} \cup Resuming

Place == {"idle", "awaitNil"} \cup Owning \cup Blocked \cup Resuming

StatusTypeOK ==
  /\ status \in Status
  /\ willReconnect \in BOOLEAN
  /\ actionCompleted \in {"open", "nil"}
  /\ pc \in [Proc -> Place]

StatusInit ==
  /\ status = "disconnected"
  /\ willReconnect = FALSE
  /\ actionCompleted = "nil"
  /\ pc = [p \in Proc |-> "idle"]

-----------------------------------------------------------------------------
(* Channel operations *)

Goto(p, place) == pc' = [pc EXCEPT ![p] = place]

(* Receiving from the channel read into a local variable: it may be nil. *)
Receive(p, place) == Goto(p, IF actionCompleted = "open" THEN place ELSE "awaitNil")

(* Where a goroutine blocked on the channel continues once it is closed. *)
Woken(place) ==
  CASE place = "awaitReturn"       -> "idle"
    [] place = "awaitConnecting"   -> "relock"
    [] place = "awaitReconnecting" -> "checkAborted"
    [] place = "awaitLost"         -> "lostRelock"
    [] OTHER                       -> place

(* Mutant: the channel is dropped but not closed. *)
DropActionCompleted(p) ==
  /\ actionCompleted' = "nil"
  /\ pc' = [pc EXCEPT ![p] = "idle"]

(* close(c.actionCompleted); c.actionCompleted = nil.  Goroutine p goes back *)
(* to idle, every goroutine blocked on the channel becomes runnable.         *)
CloseActionCompleted(p) ==
  /\ actionCompleted' = "nil"
  /\ pc' = [q \in Proc |-> IF q = p THEN "idle" ELSE Woken(pc[q])]

-----------------------------------------------------------------------------
(* Connecting: only from disconnected *)
Connecting(p) ==
  /\ pc[p] = "idle"
  /\ status = "disconnected"
  /\ status' = "connecting"
  /\ actionCompleted' = "open"
  /\ Goto(p, "connectFn")
  /\ UNCHANGED willReconnect

(* The connCompletedFn of a connect or a reconnect. *)
connected(p, success) ==
  /\ pc[p] = "connectFn"
  /\ \/ status = "disconnecting" /\ UNCHANGED status
     \/ status # "disconnecting" /\ status' = IF success THEN "connected" ELSE "disconnected"
  /\ CloseActionCompleted(p)
  /\ UNCHANGED willReconnect

(* Disconnecting, first critical section, one action per status it meets. *)
DisconnectingAlready(p) ==
  /\ pc[p] = "idle"
  /\ status = "disconnecting"
  /\ willReconnect' = FALSE
  /\ Receive(p, "awaitReturn")
  /\ UNCHANGED <<status, actionCompleted>>

(* Mutant: does not wait for the connect in progress. *)
DisconnectingAttemptNoWait(p) ==
  /\ pc[p] = "idle"
  /\ status \in {"connecting", "reconnecting"}
  /\ status' = "disconnecting"
  /\ Goto(p, "disconnectFn")
  /\ UNCHANGED <<willReconnect, actionCompleted>>

DisconnectingAttempt(p) ==
  /\ pc[p] = "idle"
  /\ status \in {"connecting", "reconnecting"}
  /\ status' = "disconnecting"
  /\ Receive(p, IF status = "connecting" THEN "awaitConnecting" ELSE "awaitReconnecting")
  /\ UNCHANGED <<willReconnect, actionCompleted>>

DisconnectingConnected(p) ==
  /\ pc[p] = "idle"
  /\ status = "connected"
  /\ status' = "disconnecting"
  /\ actionCompleted' = "open"
  /\ Goto(p, "disconnectFn")
  /\ UNCHANGED willReconnect

Disconnecting(p) ==
  \/ DisconnectingAlready(p)
  \/ DisconnectingAttempt(p)
  \/ DisconnectingConnected(p)

(* Woken from a reconnect: willReconnect is read without the mutex. *)
DisconnectingCheck(p) ==
  /\ pc[p] = "checkAborted"
  /\ Goto(p, IF willReconnect THEN "relock" ELSE "idle")
  /\ UNCHANGED <<status, willReconnect, actionCompleted>>

DisconnectingRelock(p) ==
  /\ pc[p] = "relock"
  /\ actionCompleted' = "open"
  /\ Goto(p, "disconnectFn")
  /\ UNCHANGED <<status, willReconnect>>

disconnectionCompleted(p) ==
  /\ pc[p] = "disconnectFn"
  /\ status' = "disconnected"
  /\ CloseActionCompleted(p)
  /\ UNCHANGED willReconnect

(* ConnectionLost(reconnect), first critical section. *)
ConnectionLostConnected(p, reconnect) ==
  /\ pc[p] = "idle"
  /\ status = "connected"
  /\ willReconnect' = reconnect
  /\ status' = "disconnecting"
  /\ actionCompleted' = "open"
  /\ Goto(p, "lostFn")

ConnectionLostAttempt(p, reconnect) ==
  /\ pc[p] = "idle"
  /\ status \in {"connecting", "reconnecting"}
  /\ willReconnect' = reconnect
  /\ status' = "disconnecting"
  /\ Receive(p, IF reconnect THEN "awaitLost" ELSE "awaitReturn")
  /\ UNCHANGED actionCompleted

ConnectionLost(p, reconnect) ==
  \/ ConnectionLostConnected(p, reconnect)
  \/ ConnectionLostAttempt(p, reconnect)

ConnectionLostRelock(p) ==
  /\ pc[p] = "lostRelock"
  /\ actionCompleted' = "open"
  /\ Goto(p, "lostFn")
  /\ UNCHANGED <<status, willReconnect>>

(* The connectionLostHandledFn: give up, or keep the channel and hand the  *)
(* connCompletedFn to the reconnect goroutine.                             *)
HandledStop(p, proceed) ==
  /\ pc[p] = "lostFn"
  /\ ~willReconnect \/ ~proceed
  /\ status' = "disconnected"
  /\ CloseActionCompleted(p)
  /\ UNCHANGED willReconnect

HandledReconnect(p, proceed) ==
  /\ pc[p] = "lostFn"
  /\ willReconnect /\ proceed
  /\ status' = "reconnecting"
  /\ Goto(p, "connectFn")
  /\ UNCHANGED <<willReconnect, actionCompleted>>

connectionLostHandled(p, proceed) ==
  HandledStop(p, proceed) \/ HandledReconnect(p, proceed)

-----------------------------------------------------------------------------
StatusNext ==
  \E p \in Proc :
    \/ Connecting(p)
    \/ \E success \in BOOLEAN : connected(p, success)
    \/ Disconnecting(p)
    \/ DisconnectingCheck(p)
    \/ DisconnectingRelock(p)
    \/ disconnectionCompleted(p)
    \/ \E reconnect \in BOOLEAN : ConnectionLost(p, reconnect)
    \/ ConnectionLostRelock(p)
    \/ \E proceed \in BOOLEAN : connectionLostHandled(p, proceed)

StatusSpec == StatusInit /\ [][StatusNext]_statusVars

-----------------------------------------------------------------------------
(* Properties *)

(* close(c.actionCompleted) never panics, and never closes a channel that   *)
(* belongs to somebody else's operation: whenever some goroutine holds one  *)
(* of the three completion functions the channel is open, the holder is     *)
(* unique, and an open channel always has a holder who will close it.       *)
CompletionOwnership ==
  /\ \A p \in Proc : pc[p] \in Owning => actionCompleted = "open"
  /\ \A p, q \in Proc : pc[p] \in Owning /\ pc[q] \in Owning => p = q
  /\ actionCompleted = "open" => \E p \in Proc : pc[p] \in Owning

(* make(chan struct{}) never replaces a channel somebody may be blocked on, *)
(* so no goroutine inside Disconnecting or ConnectionLost misses its        *)
(* wake-up: at every place from which the code allocates the channel the    *)
(* old one is already gone, and a goroutine blocked on a real channel is    *)
(* blocked on the current one.                                              *)
ChannelNeverReplaced ==
  /\ status \in {"disconnected", "connected"} => actionCompleted = "nil"
  /\ \A p \in Proc : pc[p] \in Resuming => actionCompleted = "nil"
  /\ \A p \in Proc : pc[p] \in Blocked => actionCompleted = "open"

(* A Disconnect() that finds a connection-loss teardown in progress and     *)
(* waits for it is never answered by a reconnect: as long as such a call is *)
(* blocked no step moves the status to reconnecting.                        *)
DisconnectStopsReconnect ==
  [][(\E p \in Proc : pc[p] = "awaitReturn") => status' # "reconnecting"]_statusVars

(* Why the above hold; inductive.  Whoever is inside Disconnecting or       *)
(* ConnectionLost, or holds their completion function, has moved the status *)
(* to disconnecting and nobody moves it on; at most one of them is going to *)
(* take over the channel from the connect it waits for; and a Disconnecting *)
(* that only waits has cancelled the reconnect.                             *)
StatusInv ==
  /\ StatusTypeOK
  /\ CompletionOwnership
  /\ ChannelNeverReplaced
  /\ status \in {"connecting", "reconnecting"} => actionCompleted = "open"
  /\ \A p \in Proc :
       /\ pc[p] \in Blocked \cup Resuming \cup {"disconnectFn", "lostFn"} => status = "disconnecting"
       /\ pc[p] = "awaitReturn" => ~willReconnect
  /\ \A p, q \in Proc : pc[p] \in Successor /\ pc[q] \in Successor => p = q

(* What errAlreadyDisconnected ("status is already disconnected") tells the *)
(* caller: disconnecting is a passing state, some goroutine is still in     *)
(* charge of leading it to disconnected.                                    *)
DisconnectingHasLeader ==
  status = "disconnecting" => \E p \in Proc : pc[p] \in Owning \cup Resuming
=============================================================================
