-------------------------- MODULE ClientCommsProofs --------------------------
(***************************************************************************)
(* Proofs about the client's packet pipeline, for any number of Push calls *)
(* and of packets received.                                                *)
(***************************************************************************)
EXTENDS ClientComms, TLAPS

(* The time a prover may spend on a leaf, in seconds. *)
USE SMTT(30), ZenonT(20)

(* Whether or not it stops the workers, internalConnLost keeps the types. *)
LEMMA LossTypes ==
  ASSUME TypeOK, internalConnLost
  PROVE  stop' \in BOOLEAN /\ deadline' = deadline /\ conn' \in {"open", "closed"} /\ peer' = peer
<1>1. CASE Connected
  BY <1>1, Zenon DEF internalConnLost, stopCommsWorkers, TypeOK
<1>2. CASE ~Connected
  BY <1>2, Zenon DEF internalConnLost, netVars, TypeOK
<1> QED
  BY <1>1, <1>2, Zenon

(* No step of a goroutine of the pipeline, of a caller or of the peer       *)
(* breaks CommsInv.                                                         *)
LEMMA CommsStep == CommsInv /\ [Next]_vars => CommsInv'
<1> SUFFICES ASSUME CommsInv, [Next]_vars
             PROVE  CommsInv'
  BY Zenon
<1> USE CommsAssumption
    DEF CommsInv, TypeOK, NothingReadIsLost, TokenTellsTheTruth, InHand, Redirected, BeingWritten,
        Workers, PacketKind, Done, Go, Meet, netVars, inVars, outVars
<1>1. ASSUME NEW kind \in PacketKind, ReadPacket(kind)
      PROVE  CommsInv'
  BY <1>1 DEF ReadPacket
<1>2. CASE ReadUnsupported
  BY <1>2 DEF ReadUnsupported
<1>3. CASE WriteReject
  BY <1>3 DEF WriteReject
<1>4. CASE ReadFails
  BY <1>4 DEF ReadFails
<1>5. ASSUME NEW what \in {"push", "err"}, IncomingTakes(what)
      PROVE  CommsInv'
  BY <1>5 DEF IncomingTakes
<1>6. CASE CloseConnectDisconnects
  BY <1>6 DEF CloseConnectDisconnects
<1>7. CASE CloseConnectLost
  BY <1>7, LossTypes DEF CloseConnectLost
<1>8. CASE IncomingEnds
  BY <1>8 DEF IncomingEnds
<1>9. ASSUME NEW what \in {"push", "err"}, FanInTakes(what)
      PROVE  CommsInv'
  BY <1>9 DEF FanInTakes
<1>10. CASE FanInEnds
  BY <1>10 DEF FanInEnds
<1>11. CASE ErrFanTakes
  BY <1>11 DEF ErrFanTakes
<1>12. CASE ErrFanEnds
  BY <1>12 DEF ErrFanEnds
<1>13. CASE CommsTakesPub
  BY <1>13 DEF CommsTakesPub
<1>14. ASSUME NEW g \in {"fanIn", "errFan"}, CommsTakesErr(g)
      PROVE  CommsInv'
  BY <1>14, LossTypes DEF CommsTakesErr
<1>15. CASE CommsDispatches
  BY <1>15 DEF CommsDispatches
<1>16. CASE CommsClosesPub
  BY <1>16 DEF CommsClosesPub
<1>17. CASE CommsEnds
  BY <1>17 DEF CommsEnds
<1>18. CASE DispatcherEnds
  BY <1>18 DEF DispatcherEnds
<1>19. ASSUME NEW p \in Pushers, RedirectorTakesPush(p)
      PROVE  CommsInv'
  BY <1>19 DEF RedirectorTakesPush
<1>20. CASE RedirectorTakesDisconnect
  BY <1>20 DEF RedirectorTakesDisconnect
<1>21. CASE OutgoingTakes
  BY <1>21 DEF OutgoingTakes
<1>22. CASE RedirectorStops
  BY <1>22 DEF RedirectorStops
<1>23. CASE RedirectorEnds
  BY <1>23 DEF RedirectorEnds
<1>24. ASSUME NEW g \in {"outgoing", "keepalive"}, writeLock(g)
      PROVE  CommsInv'
  BY <1>24 DEF writeLock
<1>25. CASE PushWritten
  BY <1>25, Zenon DEF PushWritten
<1>26. CASE DisconnectWritten
  BY <1>26 DEF DisconnectWritten
<1>27. CASE OutgoingFails
  BY <1>27 DEF OutgoingFails
<1>28. CASE OutgoingEnds
  BY <1>28 DEF OutgoingEnds
<1>29. CASE KeepaliveTicks
  BY <1>29 DEF KeepaliveTicks
<1>30. CASE PingEnds
  BY <1>30 DEF PingEnds
<1>31. CASE KeepaliveTimesOut
  BY <1>31, LossTypes DEF KeepaliveTimesOut
<1>32. CASE KeepaliveStops
  BY <1>32 DEF KeepaliveStops
<1>33. ASSUME NEW p \in Pushers, Push(p)
      PROVE  CommsInv'
  BY <1>33 DEF Push
<1>34. ASSUME NEW p \in Pushers, PushTimesOut(p)
      PROVE  CommsInv'
  BY <1>34 DEF PushTimesOut
<1>35. CASE Disconnect
  BY <1>35 DEF Disconnect
<1>36. CASE DisconnectStops
  BY <1>36 DEF DisconnectStops, stopCommsWorkers
<1>37. CASE DisconnectEnds
  BY <1>37 DEF DisconnectEnds
<1>38. CASE PeerFails
  BY <1>38 DEF PeerFails
<1>39. CASE UNCHANGED vars
  BY <1>39 DEF vars
<1> QED
  BY <1>1, <1>2, <1>3, <1>4, <1>5, <1>6, <1>7, <1>8, <1>9, <1>10, <1>11, <1>12, <1>13, <1>14, <1>15, <1>16, <1>17, <1>18, <1>19, <1>20, <1>21, <1>22, <1>23, <1>24, <1>25, <1>26, <1>27, <1>28, <1>29, <1>30, <1>31, <1>32, <1>33, <1>34, <1>35, <1>36, <1>37, <1>38, <1>39, Zenon
     DEF Next, Reader, Incoming, FanIn, ErrFan, Comms, Redirector, Outgoing, Keepalive,
         Disconnecter, Environment

(* The pipeline invariant holds in every reachable state.                   *)
THEOREM CommsInvariant == Spec => []CommsInv
<1>1. Init => CommsInv
  <2> SUFFICES ASSUME Init PROVE CommsInv
    BY Zenon
  <2> USE CommsAssumption DEF Init
  <2>1. TypeOK
    <3>1. at \in [Workers \cup {"disconnect"} -> {"run", "idle"}]
      BY Zenon DEF Workers
    <3>2. pubClosed \in BOOLEAN /\ stop \in BOOLEAN /\ deadline \in BOOLEAN
      BY Zenon
    <3>3. received \in 0 .. MaxPackets /\ dispatched \in 0 .. MaxPackets
      OBVIOUS
    <3> QED
      BY <3>1, <3>2, <3>3, Zenon DEF TypeOK
  <2>2. \A g \in Workers : at[g] = "run"
    BY Zenon DEF Workers
  <2>3. NothingReadIsLost
    BY <2>2 DEF NothingReadIsLost, InHand, Workers
  <2>4. TokenTellsTheTruth
    BY Zenon DEF TokenTellsTheTruth
  <2> QED
    BY <2>1, <2>2, <2>3, <2>4, Zenon DEF CommsInv, Done, Redirected, BeingWritten, Workers
<1> QED
  BY <1>1, CommsStep, PTL DEF Spec

(* No PUSH packet is dropped between the reader and the message handlers.   *)
THEOREM NothingReadIsLostHolds == Spec => []NothingReadIsLost
<1>1. CommsInv => NothingReadIsLost
  BY Zenon DEF CommsInv
<1> QED
  BY <1>1, CommsInvariant, PTL

(* A PushToken without error means the packet was written, and conversely.  *)
THEOREM TokenTellsTheTruthHolds == Spec => []TokenTellsTheTruth
<1>1. CommsInv => TokenTellsTheTruth
  BY Zenon DEF CommsInv
<1> QED
  BY <1>1, CommsInvariant, PTL

(* When stopCommsWorkers reports completion every goroutine has ended.      *)
THEOREM NoStragglersHolds == Spec => []NoStragglers
<1>1. CommsInv => NoStragglers
  BY Zenon DEF CommsInv, NoStragglers, Drained, Done, Workers
<1> QED
  BY <1>1, CommsInvariant, PTL

-----------------------------------------------------------------------------
(* The teardown. *)

(* Where each goroutine can be.                                             *)
Places ==
  /\ at["reader"] \in {"run", "push", "disconnectPkt", "reject", "err", "done"}
  /\ at["incoming"] \in {"run", "push", "err", "done"}
  /\ at["fanIn"] \in {"run", "push", "err", "done"}
  /\ at["errFan"] \in {"run", "err", "done"}
  /\ at["comms"] \in {"run", "push", "done"}
  /\ at["dispatcher"] \in {"run", "done"}
  /\ at["redirector"] \in {"run", "send", "drain", "done"}
  /\ at["outgoing"] \in {"run", "lock", "write", "err", "done"}
  /\ at["keepalive"] \in {"run", "lock", "write", "done"}
  /\ at["disconnect"] \in {"idle", "offer", "await", "stop", "done"}

(* c.stop is closed together with the connection, incomingPubChan not while *)
(* comms offers a packet on it, and connWriteMu has one holder.             *)
PlaceInv ==
  /\ Places
  /\ stop => conn = "closed"
  /\ at["disconnect"] \in {"stop", "done"} => stop
  /\ pubClosed => at["comms"] # "push"
  /\ ~(at["outgoing"] = "write" /\ at["keepalive"] = "write")

(* The first report of a loss closes the connection with c.stop.            *)
LEMMA LossCloses ==
  ASSUME PlaceInv, internalConnLost
  PROVE  (stop => stop') /\ (stop' => conn' = "closed")
<1>1. CASE Connected
  BY <1>1, Zenon DEF internalConnLost, stopCommsWorkers
<1>2. CASE ~Connected
  BY <1>2, Zenon DEF internalConnLost, netVars, PlaceInv
<1> QED
  BY <1>1, <1>2, Zenon

(* No step takes a goroutine anywhere else.                                 *)
LEMMA PlaceStep == CommsInv /\ PlaceInv /\ [Next]_vars => PlaceInv'
<1> SUFFICES ASSUME CommsInv, PlaceInv, [Next]_vars
             PROVE  PlaceInv'
  BY Zenon
<1>0. /\ at \in [Workers \cup {"disconnect"} ->
                   {"run", "err", "reject", "lock", "write", "drain", "send", "idle", "offer",
                    "await", "stop", "done"} \cup PacketKind]
      /\ pubClosed => Done("fanIn")
  BY Zenon DEF CommsInv, TypeOK
<1> USE <1>0 DEF PlaceInv, Places, Workers, PacketKind, Done, Go, Meet, netVars, inVars, outVars
<1>1. ASSUME NEW kind \in PacketKind, ReadPacket(kind)
      PROVE  PlaceInv'
  BY <1>1 DEF ReadPacket
<1>2. CASE ReadUnsupported
  BY <1>2 DEF ReadUnsupported
<1>3. CASE WriteReject
  BY <1>3 DEF WriteReject
<1>4. CASE ReadFails
  BY <1>4 DEF ReadFails
<1>5. ASSUME NEW what \in {"push", "err"}, IncomingTakes(what)
      PROVE  PlaceInv'
  BY <1>5 DEF IncomingTakes
<1>6. CASE CloseConnectDisconnects
  BY <1>6 DEF CloseConnectDisconnects
<1>7. CASE CloseConnectLost
  BY <1>7, LossCloses DEF CloseConnectLost
<1>8. CASE IncomingEnds
  BY <1>8 DEF IncomingEnds
<1>9. ASSUME NEW what \in {"push", "err"}, FanInTakes(what)
      PROVE  PlaceInv'
  BY <1>9 DEF FanInTakes
<1>10. CASE FanInEnds
  BY <1>10 DEF FanInEnds
<1>11. CASE ErrFanTakes
  BY <1>11 DEF ErrFanTakes
<1>12. CASE ErrFanEnds
  BY <1>12 DEF ErrFanEnds
<1>13. CASE CommsTakesPub
  BY <1>13 DEF CommsTakesPub
<1>14. ASSUME NEW g \in {"fanIn", "errFan"}, CommsTakesErr(g)
      PROVE  PlaceInv'
  BY <1>14, LossCloses DEF CommsTakesErr
<1>15. CASE CommsDispatches
  BY <1>15 DEF CommsDispatches
<1>16. CASE CommsClosesPub
  BY <1>16 DEF CommsClosesPub
<1>17. CASE CommsEnds
  BY <1>17 DEF CommsEnds
<1>18. CASE DispatcherEnds
  BY <1>18 DEF DispatcherEnds
<1>19. ASSUME NEW p \in Pushers, RedirectorTakesPush(p)
      PROVE  PlaceInv'
  BY <1>19 DEF RedirectorTakesPush
<1>20. CASE RedirectorTakesDisconnect
  BY <1>20 DEF RedirectorTakesDisconnect
<1>21. CASE OutgoingTakes
  BY <1>21 DEF OutgoingTakes
<1>22. CASE RedirectorStops
  BY <1>22 DEF RedirectorStops
<1>23. CASE RedirectorEnds
  BY <1>23 DEF RedirectorEnds
<1>24. ASSUME NEW g \in {"outgoing", "keepalive"}, writeLock(g)
      PROVE  PlaceInv'
  BY <1>24 DEF writeLock
<1>25. CASE PushWritten
  BY <1>25, Zenon DEF PushWritten
<1>26. CASE DisconnectWritten
  BY <1>26 DEF DisconnectWritten
<1>27. CASE OutgoingFails
  BY <1>27 DEF OutgoingFails
<1>28. CASE OutgoingEnds
  BY <1>28 DEF OutgoingEnds
<1>29. CASE KeepaliveTicks
  BY <1>29 DEF KeepaliveTicks
<1>30. CASE PingEnds
  BY <1>30 DEF PingEnds
<1>31. CASE KeepaliveTimesOut
  BY <1>31, LossCloses DEF KeepaliveTimesOut
<1>32. CASE KeepaliveStops
  BY <1>32 DEF KeepaliveStops
<1>33. ASSUME NEW p \in Pushers, Push(p)
      PROVE  PlaceInv'
  BY <1>33 DEF Push
<1>34. ASSUME NEW p \in Pushers, PushTimesOut(p)
      PROVE  PlaceInv'
  BY <1>34 DEF PushTimesOut
<1>35. CASE Disconnect
  BY <1>35 DEF Disconnect
<1>36. CASE DisconnectStops
  BY <1>36 DEF DisconnectStops, stopCommsWorkers
<1>37. CASE DisconnectEnds
  BY <1>37 DEF DisconnectEnds
<1>38. CASE PeerFails
  BY <1>38 DEF PeerFails
<1>39. CASE UNCHANGED vars
  BY <1>39 DEF vars
<1> QED
  BY <1>1, <1>2, <1>3, <1>4, <1>5, <1>6, <1>7, <1>8, <1>9, <1>10, <1>11, <1>12, <1>13, <1>14, <1>15, <1>16, <1>17, <1>18, <1>19, <1>20, <1>21, <1>22, <1>23, <1>24, <1>25, <1>26, <1>27, <1>28, <1>29, <1>30, <1>31, <1>32, <1>33, <1>34, <1>35, <1>36, <1>37, <1>38, <1>39, Zenon
     DEF Next, Reader, Incoming, FanIn, ErrFan, Comms, Redirector, Outgoing, Keepalive,
         Disconnecter, Environment


(* The connection and all that belongs to it has come to its end.           *)
Ended == (\A g \in Workers : Done(g)) /\ at["disconnect"] \in {"idle", "done"}

(* Some step of the teardown can be taken now: the guards of the steps that *)
(* need neither the peer nor a caller.                                      *)
CanGo ==
  \/ at["reader"] = "run" /\ (conn = "closed" \/ peer = "gone")                      \* ReadFails
  \/ at["reader"] = "reject" /\ WriteEnds                                            \* WriteReject
  \/ at["reader"] \in {"push", "err", "disconnectPkt"} /\ at["incoming"] = "run"     \* IncomingTakes, CloseConnectLost
  \/ Done("reader") /\ at["incoming"] = "run"                                        \* IncomingEnds
  \/ at["incoming"] \in {"push", "err"} /\ at["fanIn"] = "run"                       \* FanInTakes
  \/ Done("incoming") /\ at["fanIn"] = "run"                                         \* FanInEnds
  \/ at["outgoing"] = "err" /\ at["errFan"] = "run"                                  \* ErrFanTakes
  \/ Done("outgoing") /\ at["errFan"] = "run"                                        \* ErrFanEnds
  \/ at["fanIn"] = "push" /\ at["comms"] = "run"                                     \* CommsTakesPub
  \/ (\E g \in {"fanIn", "errFan"} : at[g] = "err") /\ at["comms"] \in {"run", "push"} \* CommsTakesErr
  \/ at["comms"] = "push" /\ at["dispatcher"] = "run"                                \* CommsDispatches
  \/ at["comms"] = "run" /\ Done("fanIn") /\ (~pubClosed \/ Done("errFan"))          \* CommsClosesPub, CommsEnds
  \/ pubClosed /\ at["dispatcher"] = "run"                                           \* DispatcherEnds
  \/ stop /\ at["redirector"] = "run"                                                \* RedirectorStops
  \/ Done("dispatcher") /\ at["redirector"] = "drain"                                \* RedirectorEnds
  \/ at["redirector"] = "send" /\ at["outgoing"] = "run"                             \* OutgoingTakes
  \/ Done("redirector") /\ Done("fanIn") /\ at["outgoing"] = "run"                   \* OutgoingEnds
  \/ (\E g \in {"outgoing", "keepalive"} : at[g] = "lock")
     /\ at["outgoing"] # "write" /\ at["keepalive"] # "write"                        \* writeLock
  \/ at["outgoing"] = "write" /\ WriteFailed                                         \* OutgoingFails
  \/ at["keepalive"] = "write" /\ WriteEnds                                          \* PingEnds
  \/ stop /\ at["keepalive"] = "run"                                                 \* KeepaliveStops
  \/ at["disconnect"] \in {"offer", "await"}                                         \* DisconnectStops
  \/ Drained /\ at["disconnect"] = "stop"                                            \* DisconnectEnds

(* Behind TeardownEnds, for any number of Pushes and packets: however far   *)
(* packets and errors have got when Disconnect is called or the connection  *)
(* is lost, the goroutines never all wait for one another.  Until the last  *)
(* has ended one of them can take a step that brings the end nearer.        *)
THEOREM TeardownNeverStuck ==
  Spec => [](stop \/ at["disconnect"] # "idle" => Ended \/ CanGo)
<1>1. Init => PlaceInv
  <2> SUFFICES ASSUME Init PROVE PlaceInv
    BY Zenon
  <2>1. (\A g \in Workers : at[g] = "run") /\ at["disconnect"] = "idle" /\ ~stop /\ ~pubClosed
    BY Zenon DEF Init, Workers
  <2> QED
    BY <2>1, Zenon DEF PlaceInv, Places, Workers
<1>2. ASSUME CommsInv, PlaceInv, stop \/ at["disconnect"] # "idle", ~CanGo
      PROVE  Ended
  <2> USE <1>2
  <2>1. stop /\ conn = "closed" /\ at["disconnect"] \in {"idle", "stop", "done"}
    BY Zenon DEF CanGo, PlaceInv, Places
  <2>2. WriteEnds /\ WriteFailed
    BY <2>1, Zenon DEF WriteEnds, WriteFailed
  <2>3. /\ at["reader"] \in {"push", "disconnectPkt", "err", "done"} /\ at["keepalive"] \in {"lock", "done"}
        /\ at["outgoing"] \in {"run", "lock", "err", "done"} /\ at["redirector"] \in {"send", "drain", "done"}
    BY <2>1, <2>2, Zenon DEF CanGo, PlaceInv, Places
  <2>4. at["keepalive"] = "done" /\ at["outgoing"] # "lock"
    BY <2>3, Zenon DEF CanGo
  <2>5. at["comms"] # "push"
    <3>1. at["comms"] = "push" => at["dispatcher"] = "done"
      BY Zenon DEF CanGo, PlaceInv, Places
    <3>2. at["dispatcher"] = "done" => pubClosed
      BY Zenon DEF CommsInv, Done
    <3> QED
      BY <3>1, <3>2, Zenon DEF PlaceInv
  <2>6. at["fanIn"] = "done"
    <3>1. at["comms"] = "done" => at["fanIn"] = "done"
      BY Zenon DEF CommsInv, Done
    <3>2. at["comms"] = "run" \/ at["comms"] = "done"
      BY <2>5, Zenon DEF PlaceInv, Places
    <3>3. at["comms"] = "run" => at["fanIn"] \in {"run", "done"}
      BY Zenon DEF CanGo, PlaceInv, Places
    <3>4. at["fanIn"] # "run"
      <4>1. at["fanIn"] = "run" => at["incoming"] = "run"
        BY Zenon DEF CanGo, PlaceInv, Places, Done
      <4>2. at["incoming"] # "run"
        BY <2>3, Zenon DEF CanGo, Done
      <4> QED
        BY <4>1, <4>2, Zenon
    <3> QED
      BY <3>1, <3>2, <3>3, <3>4, Zenon
  <2>7. at["dispatcher"] = "done" /\ pubClosed
    <3>1. pubClosed
      <4>1. at["comms"] = "done" => pubClosed
        BY Zenon DEF CommsInv, Done
      <4> QED
        BY <2>5, <2>6, <4>1, Zenon DEF CanGo, PlaceInv, Places, Done
    <3> QED
      BY <3>1, Zenon DEF CanGo, PlaceInv, Places
  <2>8. at["errFan"] # "err"
    <3>1. at["comms"] = "done" => at["errFan"] = "done"
      BY Zenon DEF CommsInv, Done
    <3> QED
      BY <2>5, <3>1, Zenon DEF CanGo, PlaceInv, Places
  <2>9. at["outgoing"] \in {"run", "done"}
    <3>1. at["errFan"] = "done" => at["outgoing"] = "done"
      BY Zenon DEF CommsInv, Done
    <3> QED
      BY <2>3, <2>4, <2>8, <3>1, Zenon DEF CanGo, PlaceInv, Places
  <2>10. at["redirector"] = "done"
    <3>1. at["outgoing"] = "done" => at["redirector"] = "done"
      BY Zenon DEF CommsInv, Done
    <3> QED
      BY <2>3, <2>7, <2>9, <3>1, Zenon DEF CanGo, Done
  <2>11. at["outgoing"] = "done"
    BY <2>6, <2>9, <2>10, Zenon DEF CanGo, Done
  <2>12. at["errFan"] = "done"
    BY <2>8, <2>11, Zenon DEF CanGo, PlaceInv, Places, Done
  <2>13. at["comms"] = "done"
    BY <2>5, <2>6, <2>12, Zenon DEF CanGo, PlaceInv, Places, Done
  <2>14. at["incoming"] = "done" /\ at["reader"] = "done"
    BY <2>6, Zenon DEF CommsInv, Done
  <2>15. at["disconnect"] # "stop"
    BY <2>4, <2>10, <2>13, Zenon DEF CanGo, Drained, Done
  <2> QED
    BY <2>1, <2>4, <2>6, <2>7, <2>10, <2>11, <2>12, <2>13, <2>14, <2>15, Zenon DEF Ended, Workers, Done
<1>3. CommsInv /\ PlaceInv => (stop \/ at["disconnect"] # "idle" => Ended \/ CanGo)
  BY <1>2, Zenon
<1> QED
  BY <1>1, <1>3, PlaceStep, CommsInvariant, PTL DEF Spec

=============================================================================
