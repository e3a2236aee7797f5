------------------------ MODULE ClientLifecycleProofs ------------------------
(***************************************************************************)
(* Proofs about connectionStatus, about the life cycle of the client's     *)
(* connection on top of it and about Push beside it, for any number of     *)
(* goroutines calling Connect, Disconnect and Push and of workers.         *)
(***************************************************************************)
EXTENDS ClientPush, TLAPS

(* The time a prover may spend on a leaf, in seconds. *)
USE SMTT(30), ZenonT(20)

-----------------------------------------------------------------------------
(* connectionStatus *)

(* Where the goroutines are after close(c.actionCompleted) by p, the only   *)
(* holder of a completion function: nobody is blocked, nobody owns, and     *)
(* whoever is inside Disconnecting or ConnectionLost was so before.         *)
LEMMA Closed ==
  ASSUME StatusInv, NEW p \in Proc, pc[p] \in Owning, CloseActionCompleted(p)
  PROVE  /\ actionCompleted' = "nil"
         /\ pc' \in [Proc -> {"idle", "awaitNil"} \cup Resuming]
         /\ \A q \in Proc : pc'[q] \in Resuming =>
              pc[q] \in Successor /\ pc[q] \in Blocked \cup Resuming
         /\ \A q \in Proc : pc'[q] = "lostRelock" => pc[q] \in {"awaitLost", "lostRelock"}
BY Zenon DEF StatusInv, StatusTypeOK, CompletionOwnership, CloseActionCompleted, Woken,
       Place, Owning, Blocked, Resuming, Successor

(* No critical section of connectionStatus breaks the invariant. *)
LEMMA StatusStep == StatusInv /\ [StatusNext]_statusVars => StatusInv'
<1> SUFFICES ASSUME StatusInv, [StatusNext]_statusVars
             PROVE  StatusInv'
  BY Zenon
<1> USE DEF StatusInv, StatusTypeOK, CompletionOwnership, ChannelNeverReplaced
<1>1. CASE UNCHANGED statusVars
  BY <1>1, Zenon DEF statusVars
<1>2. CASE StatusNext
  <2> PICK p \in Proc :
        \/ Connecting(p)
        \/ \E success \in BOOLEAN : connected(p, success)
        \/ Disconnecting(p)
        \/ DisconnectingCheck(p)
        \/ DisconnectingRelock(p)
        \/ disconnectionCompleted(p)
        \/ \E reconnect \in BOOLEAN : ConnectionLost(p, reconnect)
        \/ ConnectionLostRelock(p)
        \/ \E proceed \in BOOLEAN : connectionLostHandled(p, proceed)
    BY <1>2, Zenon DEF StatusNext
  <2> USE DEF Goto, Receive, Status, Place, Owning, Blocked, Resuming, Successor
  <2>1. CASE Connecting(p)
    BY <2>1 DEF Connecting
  <2>2. ASSUME NEW success \in BOOLEAN, connected(p, success)
        PROVE  StatusInv'
    <3>1. status' \in Status /\ status' \notin {"connecting", "reconnecting"}
          /\ (status = "disconnecting" => status' = "disconnecting")
      BY <2>2, Zenon DEF connected
    <3> QED
      BY <2>2, <3>1, Closed DEF connected
  <2>3. CASE DisconnectingAlready(p)
    <3>1. ~willReconnect' /\ willReconnect' \in BOOLEAN
      BY <2>3, Zenon DEF DisconnectingAlready
    <3>2. pc' = [pc EXCEPT ![p] = IF actionCompleted = "open" THEN "awaitReturn" ELSE "awaitNil"]
      BY <2>3, Zenon DEF DisconnectingAlready
    <3>3. pc[p] = "idle" /\ status = "disconnecting" /\ UNCHANGED <<status, actionCompleted>>
      BY <2>3, Zenon DEF DisconnectingAlready
    <3> QED
      BY <3>1, <3>2, <3>3
  <2>4. CASE DisconnectingAttempt(p)
    BY <2>4 DEF DisconnectingAttempt
  <2>5. CASE DisconnectingConnected(p)
    BY <2>5 DEF DisconnectingConnected
  <2>6. CASE DisconnectingCheck(p)
    BY <2>6 DEF DisconnectingCheck
  <2>7. CASE DisconnectingRelock(p)
    BY <2>7 DEF DisconnectingRelock
  <2>8. CASE disconnectionCompleted(p)
    BY <2>8, Closed DEF disconnectionCompleted
  <2>9. ASSUME NEW reconnect \in BOOLEAN, ConnectionLostConnected(p, reconnect)
        PROVE  StatusInv'
    BY <2>9 DEF ConnectionLostConnected
  <2>10. ASSUME NEW reconnect \in BOOLEAN, ConnectionLostAttempt(p, reconnect)
         PROVE  StatusInv'
    BY <2>10 DEF ConnectionLostAttempt
  <2>11. CASE ConnectionLostRelock(p)
    BY <2>11 DEF ConnectionLostRelock
  <2>12. ASSUME NEW proceed \in BOOLEAN, HandledStop(p, proceed)
         PROVE  StatusInv'
    BY <2>12, Closed DEF HandledStop
  <2>13. ASSUME NEW proceed \in BOOLEAN, HandledReconnect(p, proceed)
         PROVE  StatusInv'
    BY <2>13 DEF HandledReconnect
  <2> HIDE DEF StatusInv, StatusTypeOK, CompletionOwnership, ChannelNeverReplaced
  <2> QED
    BY <2>1, <2>2, <2>3, <2>4, <2>5, <2>6, <2>7, <2>8, <2>9, <2>10, <2>11, <2>12, <2>13, Zenon
       DEF Disconnecting, ConnectionLost, connectionLostHandled
<1> QED
  BY <1>1, <1>2, Zenon

(* The channel discipline of connectionStatus holds in every reachable      *)
(* state, for any number of goroutines calling Connecting, Disconnecting    *)
(* and ConnectionLost concurrently.                                         *)
THEOREM StatusInvariant == StatusSpec => []StatusInv
<1>1. StatusInit => StatusInv
  BY Zenon DEF StatusInit, StatusInv, StatusTypeOK, CompletionOwnership, ChannelNeverReplaced,
         Status, Place, Owning, Blocked, Resuming, Successor
<1> QED
  BY <1>1, StatusStep, PTL DEF StatusSpec

(* No completion function ever closes a nil channel or somebody else's.     *)
THEOREM CompletionOwnershipHolds == StatusSpec => []CompletionOwnership
<1>1. StatusInv => CompletionOwnership
  BY Zenon DEF StatusInv
<1> QED
  BY <1>1, StatusInvariant, PTL

(* No waiter of Disconnecting or ConnectionLost loses its channel.          *)
THEOREM ChannelNeverReplacedHolds == StatusSpec => []ChannelNeverReplaced
<1>1. StatusInv => ChannelNeverReplaced
  BY Zenon DEF StatusInv
<1> QED
  BY <1>1, StatusInvariant, PTL

(* While a second Disconnecting waits, the connectionLostHandledFn cannot   *)
(* start a reconnect: the waiter has cleared willReconnect.                 *)
THEOREM DisconnectStopsReconnectHolds == StatusSpec => DisconnectStopsReconnect
<1> DEFINE A == (\E p \in Proc : pc[p] = "awaitReturn") => status' # "reconnecting"
<1>1. StatusInv /\ [StatusNext]_statusVars => [A]_statusVars
  <2> SUFFICES ASSUME StatusInv, StatusNext,
                      NEW w \in Proc, pc[w] = "awaitReturn"
               PROVE  status' # "reconnecting"
    BY Zenon DEF statusVars
  <2>1. status = "disconnecting" /\ ~willReconnect
    BY Zenon DEF StatusInv, Blocked
  <2>2. \A p \in Proc, proceed \in BOOLEAN : ~HandledReconnect(p, proceed)
    BY <2>1, Zenon DEF HandledReconnect
  <2> QED
    BY <2>1, <2>2, Zenon DEF StatusNext, Connecting, connected, Disconnecting, DisconnectingAlready,
       DisconnectingAttempt, DisconnectingConnected, DisconnectingCheck, DisconnectingRelock,
       disconnectionCompleted, ConnectionLost, ConnectionLostConnected, ConnectionLostAttempt,
       ConnectionLostRelock, connectionLostHandled, HandledStop
<1> QED
  BY <1>1, StatusInvariant, PTL DEF StatusSpec, DisconnectStopsReconnect

-----------------------------------------------------------------------------
(* The life of a connection *)

(* Whatever client.go does, it reads and changes the status object only     *)
(* through the operations of ConnectionStatus.                              *)
LEMMA ClientStatusStep == TypeOK /\ [Next]_vars => [StatusNext]_statusVars
<1> SUFFICES ASSUME TypeOK, [Next]_vars
             PROVE  [StatusNext]_statusVars
  BY Zenon
<1> USE ProcAssumption DEF statusVars
<1>1. ASSUME NEW p \in Proc, Connect(p)
      PROVE  StatusNext
  BY <1>1, Zenon DEF Connect, StatusNext
<1>2. ASSUME NEW p \in Proc, AttemptSucceeds(p)
      PROVE  UNCHANGED statusVars
  BY <1>2, Zenon DEF AttemptSucceeds
<1>3. ASSUME NEW p \in Proc, NEW refused \in BOOLEAN, AttemptFails(p, refused)
      PROVE  UNCHANGED statusVars
  BY <1>3, Zenon DEF AttemptFails
<1>4. ASSUME NEW p \in Proc, SleepEnds(p)
      PROVE  UNCHANGED statusVars
  BY <1>4, Zenon DEF SleepEnds
<1>5. ASSUME NEW p \in Proc, GiveUp(p)
      PROVE  StatusNext
  BY <1>5, Zenon DEF GiveUp, StatusNext
<1>6. ASSUME NEW p \in Proc, StartWorkers(p)
      PROVE  UNCHANGED statusVars
  BY <1>6, Zenon DEF StartWorkers
<1>7. ASSUME NEW p \in Proc, ConnectionUp(p)
      PROVE  StatusNext
  BY <1>7, Zenon DEF ConnectionUp, StatusNext
<1>8. ASSUME NEW p \in Proc, StartComms(p)
      PROVE  UNCHANGED statusVars
  BY <1>8, Zenon DEF StartComms
<1>9. ASSUME NEW p \in Proc, Disconnect(p)
      PROVE  StatusNext
  BY <1>9, Zenon DEF Disconnect, StatusNext
<1>10. ASSUME NEW p \in Proc, DisconnectResumes(p)
      PROVE  StatusNext
  BY <1>10, Zenon DEF DisconnectResumes, StatusNext
<1>11. ASSUME NEW p \in Proc, SendDisconnect(p)
      PROVE  UNCHANGED statusVars
  BY <1>11, Zenon DEF SendDisconnect
<1>12. ASSUME NEW p \in Proc, DisconnectStop(p)
      PROVE  UNCHANGED statusVars
  BY <1>12, Zenon DEF DisconnectStop
<1>13. ASSUME NEW p \in Proc, DisconnectDrained(p)
      PROVE  UNCHANGED statusVars
  BY <1>13, Zenon DEF DisconnectDrained
<1>14. ASSUME NEW p \in Proc, DisconnectCompletes(p)
      PROVE  StatusNext
  BY <1>14, Zenon DEF DisconnectCompletes, StatusNext
<1>15. ASSUME NEW p \in Proc, ReportLoss(p)
      PROVE  UNCHANGED statusVars
  BY <1>15, Zenon DEF ReportLoss
<1>16. ASSUME NEW p \in Proc, LossRefused(p)
      PROVE  UNCHANGED statusVars
  BY <1>16, Zenon DEF LossRefused
<1>17. ASSUME NEW p \in Proc, LossAccepted(p)
      PROVE  StatusNext
  <2>1. sampled[p] \in BOOLEAN
    BY <1>17, Zenon DEF LossAccepted, TypeOK
  <2> QED
    BY <1>17, <2>1, Zenon DEF LossAccepted, StatusNext
<1>18. ASSUME NEW p \in Proc, LossResumes(p)
      PROVE  StatusNext
  BY <1>18, Zenon DEF LossResumes, StatusNext
<1>19. ASSUME NEW p \in Proc, LossStop(p)
      PROVE  UNCHANGED statusVars
  BY <1>19, Zenon DEF LossStop
<1>20. ASSUME NEW p \in Proc, LossHandled(p)
      PROVE  StatusNext
  BY <1>20, Zenon DEF LossHandled, StatusNext
<1>21. ASSUME NEW r \in Reporters, WorkerExits(r)
      PROVE  UNCHANGED statusVars
  BY <1>21, Zenon DEF WorkerExits
<1>22. CASE UNCHANGED vars
  BY <1>22, Zenon DEF vars
<1> QED
  BY <1>1, <1>2, <1>3, <1>4, <1>5, <1>6, <1>7, <1>8, <1>9, <1>10, <1>11, <1>12, <1>13, <1>14, <1>15, <1>16, <1>17, <1>18, <1>19, <1>20, <1>21, <1>22, Zenon DEF Next, Runs

(* What the status object guarantees to the code that uses it: there is one *)
(* completion function, held by one goroutine; while one is held the status *)
(* is not at rest, and somebody holds one while the client connects.        *)
LEMMA Guarantees ==
  ASSUME StatusInv
  PROVE  /\ StatusTypeOK /\ pc \in [Proc -> Place]
         /\ \A p \in Proc : pc[p] \in Owning => status \notin {"connected", "disconnected"}
         /\ \A p \in Proc : pc[p] \in Successor => status = "disconnecting"
         /\ \A p, q \in Proc : pc[p] \in Owning /\ pc[q] \in Owning => p = q
         /\ \A p, q \in Proc : pc[p] \in Successor /\ pc[q] \in Successor => p = q
         /\ \A p, q \in Proc : pc[p] \in Owning => pc[q] \notin Resuming
         /\ status \in {"connecting", "reconnecting"} => \E p \in Proc : pc[p] = "connectFn"
<1>1. StatusTypeOK /\ pc \in [Proc -> Place]
  BY Zenon DEF StatusInv, StatusTypeOK
<1>2. ASSUME NEW p \in Proc, pc[p] \in Owning
      PROVE  status \notin {"connected", "disconnected"} /\ \A q \in Proc : pc[q] \notin Resuming
  BY <1>2, Zenon DEF StatusInv, CompletionOwnership, ChannelNeverReplaced
<1>3. \A p \in Proc : pc[p] \in Successor => status = "disconnecting"
  BY Zenon DEF StatusInv, Successor, Blocked
<1>4. \A p, q \in Proc : pc[p] \in Owning /\ pc[q] \in Owning => p = q
  BY Zenon DEF StatusInv, CompletionOwnership
<1>5. status \in {"connecting", "reconnecting"} => \E p \in Proc : pc[p] = "connectFn"
  BY <1>3, Zenon DEF StatusInv, CompletionOwnership, Owning, Successor
<1>6. \A p, q \in Proc : pc[p] \in Successor /\ pc[q] \in Successor => p = q
  BY Zenon DEF StatusInv
<1> QED
  BY <1>1, <1>2, <1>3, <1>4, <1>5, <1>6, Zenon

(* No step of Connect, Disconnect, internalConnLost, reconnect or a worker  *)
(* breaks ClientInv.                                                        *)
LEMMA ClientStep == ClientInv /\ [Next]_vars => ClientInv'
<1> SUFFICES ASSUME ClientInv, [Next]_vars
             PROVE  ClientInv'
  BY Zenon
<1>0. StatusInv' /\ StatusTypeOK'
  BY ClientStatusStep, StatusStep, Zenon DEF ClientInv, StatusInv
<1>1. /\ pc \in [Proc -> Place]
      /\ \A p \in Proc : pc[p] \in Owning => status \notin {"connected", "disconnected"}
      /\ \A p \in Proc : pc[p] \in Successor => status = "disconnecting"
      /\ \A p, q \in Proc : pc[p] \in Owning /\ pc[q] \in Owning => p = q
      /\ \A p, q \in Proc : pc[p] \in Successor /\ pc[q] \in Successor => p = q
      /\ \A p, q \in Proc : pc[p] \in Owning => pc[q] \notin Resuming
      /\ status \in {"connecting", "reconnecting"} => \E p \in Proc : pc[p] = "connectFn"
  BY <1>0, Guarantees, Zenon DEF ClientInv
<1>2. ASSUME NEW p \in Proc, GiveUp(p) \/ ConnectionUp(p) \/ DisconnectCompletes(p)
      PROVE  /\ pc' \in [Proc -> {"idle", "awaitNil"} \cup Resuming]
             /\ \A q \in Proc : pc'[q] = "lostRelock" => pc[q] \in {"awaitLost", "lostRelock"}
  <2>1. CloseActionCompleted(p) /\ pc[p] \in {"connectFn", "disconnectFn"}
    BY <1>2, Zenon DEF GiveUp, ConnectionUp, DisconnectCompletes, connected, disconnectionCompleted
  <2>2. pc[p] \in Owning
    BY <2>1, Zenon DEF Owning
  <2> QED
    BY <2>1, <2>2, Closed, Zenon DEF ClientInv
<1>3. ASSUME NEW p \in Proc, DisconnectStop(p)
      PROVE  /\ ConnMuFree /\ at[p] = "stop" /\ ~conn' /\ conn' \in BOOLEAN
             /\ at' = [at EXCEPT ![p] = IF conn THEN "drain" ELSE "complete"]
             /\ UNCHANGED <<statusVars, live, sampled>>
  BY <1>3, Zenon DEF DisconnectStop, stopCommsWorkers, Move
<1>4. ASSUME NEW p \in Proc, LossStop(p)
      PROVE  /\ ConnMuFree /\ at[p] = "report" /\ pc[p] = "lostFn" /\ ~conn' /\ conn' \in BOOLEAN
             /\ at' = [at EXCEPT ![p] = "drain"]
             /\ live' = live \ ({p} \cap Keepalive)
             /\ sampled' = [sampled EXCEPT ![p] = FALSE]
             /\ UNCHANGED statusVars
  BY <1>4, Zenon DEF LossStop, stopCommsWorkers, Move, Reported
<1> USE DEF ClientInv, TypeOK, NoOverlappingConnections, StatusMatchesConnection,
            LossFindsConnection, Establishing, Locked, Reporters, ConnMuFree, statusVars, clientVars
<1>5. ASSUME NEW p \in Proc, Connect(p)
      PROVE  ClientInv'
  BY <1>0, <1>1, ProcAssumption, <1>5 DEF Connect, Connecting, Goto, Move, Owning, Resuming, Successor
<1>6. ASSUME NEW p \in Proc, AttemptSucceeds(p)
      PROVE  ClientInv'
  BY <1>0, <1>6 DEF AttemptSucceeds, Move
<1>7. ASSUME NEW p \in Proc, NEW refused \in BOOLEAN, AttemptFails(p, refused)
      PROVE  ClientInv'
  BY <1>0, <1>7 DEF AttemptFails, Move
<1>8. ASSUME NEW p \in Proc, SleepEnds(p)
      PROVE  ClientInv'
  BY <1>0, <1>8 DEF SleepEnds, Move
<1>9. ASSUME NEW p \in Proc, GiveUp(p)
      PROVE  ClientInv'
  <2>1. /\ at[p] = "giveup" /\ at' = [at EXCEPT ![p] = "idle"] /\ status' # "connected"
        /\ UNCHANGED <<conn, live, sampled>>
    BY <1>9, Zenon DEF GiveUp, connected, Move
  <2> QED
    BY <1>0, <1>1, <1>2, <1>9, <2>1, ProcAssumption DEF Resuming, Owning, Successor
<1>10. ASSUME NEW p \in Proc, StartWorkers(p)
      PROVE  ClientInv'
  BY <1>0, <1>1, ProcAssumption, <1>10 DEF StartWorkers, Move, Owning, Resuming, Successor
<1>11. ASSUME NEW p \in Proc, ConnectionUp(p)
      PROVE  ClientInv'
  <2>1. /\ at[p] = "up" /\ at' = [at EXCEPT ![p] = "comms"] /\ status' # "disconnected"
        /\ UNCHANGED <<conn, live, sampled>>
    BY <1>11, Zenon DEF ConnectionUp, connected, Move
  <2> QED
    BY <1>0, <1>1, <1>2, <1>11, <2>1, ProcAssumption DEF Resuming, Owning, Successor
<1>12. ASSUME NEW p \in Proc, StartComms(p)
      PROVE  ClientInv'
  BY <1>0, <1>1, ProcAssumption, <1>12 DEF StartComms, Move, Owning, Resuming, Successor
<1>13. ASSUME NEW p \in Proc, Disconnect(p)
      PROVE  ClientInv'
  BY <1>0, <1>1, ProcAssumption, <1>13 DEF Disconnect, Disconnecting, DisconnectingAlready, DisconnectingAttempt,
         DisconnectingConnected, Receive, Goto, Owning, Resuming, Successor
<1>14. ASSUME NEW p \in Proc, DisconnectResumes(p)
      PROVE  ClientInv'
  BY <1>0, <1>1, ProcAssumption, <1>14 DEF DisconnectResumes, DisconnectingCheck, DisconnectingRelock, Goto, Owning, Resuming, Successor
<1>15. ASSUME NEW p \in Proc, SendDisconnect(p)
      PROVE  ClientInv'
  BY <1>0, <1>15 DEF SendDisconnect, Move
<1>16. ASSUME NEW p \in Proc, DisconnectStop(p)
      PROVE  ClientInv'
  <2>1. pc[p] = "disconnectFn" /\ status = "disconnecting"
        /\ \A q \in Proc \ {p} : pc[q] \notin Owning \cup Successor
    BY <1>1, <1>3, <1>16, Zenon DEF Owning, Successor
  <2>2. ~conn => live = {}
    BY <1>3, <1>16, <2>1, Zenon DEF Owning
  <2> QED
    BY <1>0, <1>1, <1>3, <1>16, <2>1, <2>2, ProcAssumption DEF Owning, Successor, Resuming
<1>17. ASSUME NEW p \in Proc, DisconnectDrained(p)
      PROVE  ClientInv'
  BY <1>0, <1>1, <1>17 DEF DisconnectDrained, Move, Owning, Resuming, Successor
<1>18. ASSUME NEW p \in Proc, DisconnectCompletes(p)
      PROVE  ClientInv'
  <2>1. /\ at[p] = "complete" /\ at' = [at EXCEPT ![p] = "idle"] /\ status' = "disconnected"
        /\ UNCHANGED <<conn, live, sampled>>
    BY <1>18, Zenon DEF DisconnectCompletes, disconnectionCompleted, Move
  <2> QED
    BY <1>0, <1>1, <1>2, <1>18, <2>1, ProcAssumption DEF Resuming, Owning, Successor
<1>19. ASSUME NEW p \in Proc, ReportLoss(p)
      PROVE  ClientInv'
  BY <1>0, <1>1, ProcAssumption, <1>19 DEF ReportLoss, Move, Owning, Resuming, Successor
<1>20. ASSUME NEW p \in Proc, LossRefused(p)
      PROVE  ClientInv'
  BY <1>0, <1>1, ProcAssumption, <1>20 DEF LossRefused, Move, Reported, Owning, Resuming, Successor
<1>21. ASSUME NEW p \in Proc, LossAccepted(p)
      PROVE  ClientInv'
  BY <1>0, <1>1, ProcAssumption, <1>21 DEF LossAccepted, ConnectionLost, ConnectionLostConnected, ConnectionLostAttempt,
         Receive, Goto, Owning, Resuming, Successor
<1>22. ASSUME NEW p \in Proc, LossResumes(p)
      PROVE  ClientInv'
  BY <1>0, <1>1, <1>22 DEF LossResumes, ConnectionLostRelock, Goto, Owning, Resuming, Successor
<1>23. ASSUME NEW p \in Proc, LossStop(p)
      PROVE  ClientInv'
  <2>1. status = "disconnecting" /\ \A q \in Proc \ {p} : pc[q] \notin Owning \cup Successor
    BY <1>1, <1>4, <1>23, Zenon DEF Owning, Successor
  <2>2. TypeOK'
    BY <1>0, <1>4, <1>23, Zenon
  <2>3. \A q \in Proc : at'[q] = IF q = p THEN "drain" ELSE at[q]
    BY <1>4, <1>23
  <2>4. \A q \in Proc : /\ at[q] \notin Locked
                         /\ q # p => at[q] \notin Establishing \cup {"stop", "complete"}
    BY <1>1, <1>4, <1>23, <2>1, Zenon DEF Owning
  <2> HIDE DEF TypeOK
  <2> QED
    BY <1>0, <1>4, <1>23, <2>1, <2>2, <2>3, <2>4, ProcAssumption DEF Owning, Successor, Resuming
<1>24. ASSUME NEW p \in Proc, LossHandled(p)
      PROVE  ClientInv'
  BY <1>0, <1>1, ProcAssumption, <1>24 DEF LossHandled, connectionLostHandled, HandledStop, HandledReconnect,
         CloseActionCompleted, Woken, Goto, Move, Owning, Resuming, Successor
<1>25. ASSUME NEW r \in Reporters, WorkerExits(r)
      PROVE  ClientInv'
  BY <1>0, <1>25, Zenon DEF WorkerExits
<1>26. CASE UNCHANGED vars
  BY <1>0, <1>26, Zenon DEF vars
<1> HIDE DEF ClientInv, TypeOK, NoOverlappingConnections, StatusMatchesConnection,
             LossFindsConnection, Reporters, ConnMuFree, statusVars, clientVars
<1> QED
  BY <1>5, <1>6, <1>7, <1>8, <1>9, <1>10, <1>11, <1>12, <1>13, <1>14, <1>15, <1>16,
     <1>17, <1>18, <1>19, <1>20, <1>21, <1>22, <1>23, <1>24, <1>25, <1>26, Zenon DEF Next, Runs

(* Before the first Connect the client is disconnected and nothing runs.    *)
LEMMA InitClientInv == Init => ClientInv
BY Zenon DEF Init, StatusInit, ClientInv, TypeOK, StatusInv, StatusTypeOK, CompletionOwnership,
       ChannelNeverReplaced, NoOverlappingConnections, StatusMatchesConnection,
       LossFindsConnection, Status, Place, Owning, Blocked, Resuming, Successor, Establishing,
       Locked, ConnMuFree

(* ClientInv holds in every reachable state of the client.                  *)
THEOREM ClientInvariant == Spec => []ClientInv
BY InitClientInv, ClientStep, PTL DEF Spec

(* The client implements ConnectionStatus, so the theorems about the latter *)
(* hold for every client.                                                   *)
THEOREM ClientImplementsStatus == Spec => StatusSpec
<1>1. Init => StatusInit
  BY Zenon DEF Init
<1>2. ClientInv => TypeOK
  BY Zenon DEF ClientInv
<1> QED
  BY <1>1, <1>2, ClientInvariant, ClientStatusStep, PTL DEF Spec, StatusSpec

(* A connection is never opened before its predecessor and all the workers  *)
(* of its predecessor are gone.                                             *)
THEOREM NoOverlappingConnectionsHolds == Spec => []NoOverlappingConnections
<1>1. ClientInv => NoOverlappingConnections
  BY Zenon DEF ClientInv
<1> QED
  BY <1>1, ClientInvariant, PTL

(* Status connected means a watched connection, disconnected means none.    *)
THEOREM StatusMatchesConnectionHolds == Spec => []StatusMatchesConnection
<1>1. ClientInv => StatusMatchesConnection
  BY Zenon DEF ClientInv
<1> QED
  BY <1>1, ClientInvariant, PTL

(* The branch of internalConnLost that logs BUG BUG is unreachable.         *)
THEOREM LossFindsConnectionHolds == Spec => []LossFindsConnection
<1>1. ClientInv => LossFindsConnection
  BY Zenon DEF ClientInv
<1> QED
  BY <1>1, ClientInvariant, PTL

-----------------------------------------------------------------------------
(* Push beside the life of the connection *)

(* What the outcome of a Push rests on: the client's invariant, and every   *)
(* Push is at one place of its call.                                        *)
PushInv == ClientInv /\ token \in [Pushers -> {"idle", "asked", "offered", "ok", "failed"}]

(* A token takes the place its Push moves it to, and no other token moves.  *)
LEMMA OneTokenMoves ==
  ASSUME PushInv, NEW q \in Pushers, NEW from,
         NEW to \in {"asked", "offered", "ok", "failed"}, TokenMoves(q, from, to)
  PROVE  /\ token' \in [Pushers -> {"idle", "asked", "offered", "ok", "failed"}]
         /\ \A p \in Pushers : token[p] # "ok" /\ token'[p] = "ok" => p = q /\ to = "ok"
BY Zenon DEF PushInv, TokenMoves

(* Push changes nothing the client's invariant speaks of.                   *)
LEMMA PushStep == PushInv /\ [PushNext]_<<vars, pushVars>> => PushInv'
<1> SUFFICES ASSUME PushInv, [PushNext]_<<vars, pushVars>>
             PROVE  PushInv'
  BY Zenon
<1>1. [Next]_vars
  BY Zenon DEF PushNext, Push, PushLooksAgain, PushWritten, PushFails
<1>2. ClientInv'
  BY <1>1, ClientStep, Zenon DEF PushInv
<1>3. CASE UNCHANGED pushVars
  BY <1>2, <1>3, Zenon DEF PushInv, pushVars
<1>4. ASSUME NEW q \in Pushers,
             Push(q) \/ PushLooksAgain(q) \/ PushWritten(q) \/ PushFails(q)
      PROVE  PushInv'
  BY <1>2, <1>4, OneTokenMoves, Zenon DEF PushInv, Push, PushLooksAgain, PushWritten, PushFails
<1> QED
  BY <1>3, <1>4, Zenon DEF PushNext

(* PushInv holds in every reachable state of the client and its Pushes.     *)
LEMMA PushInvariant == PushSpec => []PushInv
<1>1. PushInit => PushInv
  BY InitClientInv, Zenon DEF PushInit, PushInv
<1> QED
  BY <1>1, PushStep, PTL DEF PushSpec

(* For any number of Pushes, connections and disconnects: a token completes *)
(* without an error only when its packet was written to a connection or the *)
(* client was reconnecting at the second look, and never once disconnected. *)
THEOREM PushOutcomeHolds == PushSpec => PushOutcome
<1>1. ASSUME PushInv, PushNext, NEW p \in Pushers, token[p] # "ok", token'[p] = "ok"
      PROVE  /\ status # "disconnected"
             /\ p \in written' \/ status = "reconnecting"
  <2>1. ~UNCHANGED pushVars
    BY <1>1, Zenon DEF pushVars
  <2>2. PICK q \in Pushers : Push(q) \/ PushLooksAgain(q) \/ PushWritten(q) \/ PushFails(q)
    BY <1>1, <2>1, Zenon DEF PushNext
  <2>3. ~Push(q) /\ ~PushFails(q)
    BY <1>1, OneTokenMoves, Zenon DEF Push, PushFails
  <2>4. CASE PushLooksAgain(q)
    <3>1. status = "reconnecting"
      BY <1>1, <2>4, OneTokenMoves, Zenon DEF PushLooksAgain
    <3> QED
      BY <3>1, Zenon
  <2>5. CASE PushWritten(q)
    <3>1. status # "disconnected"
      BY <1>1, <2>5, Zenon DEF PushWritten, PushInv, ClientInv, StatusMatchesConnection
    <3>2. p = q
      BY <1>1, <2>5, OneTokenMoves, Zenon DEF PushWritten
    <3> QED
      BY <2>5, <3>1, <3>2, Zenon DEF PushWritten
  <2> QED
    BY <2>2, <2>3, <2>4, <2>5, Zenon
<1>2. PushInv /\ [PushNext]_<<vars, pushVars>> =>
        [\A p \in Pushers : token[p] # "ok" /\ token'[p] = "ok" =>
           /\ status # "disconnected"
           /\ p \in written' \/ status = "reconnecting"]_<<vars, pushVars>>
  BY <1>1, Zenon
<1> QED
  BY <1>2, PushInvariant, PTL DEF PushSpec, PushOutcome
=============================================================================
