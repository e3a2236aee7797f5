------------------------ MODULE ServerListenersProofs ------------------------
(***************************************************************************)
(* The sessions implement the registry, also under the listeners, and what *)
(* ListenAndServe reports.                                                 *)
(***************************************************************************)
EXTENDS ServerListeners, ServerSessionsProofs

(* The time a prover may spend on a leaf, in seconds. *)
USE SMTT(30), ZenonT(20)

(* Each step of the server is a step of the registry, or none: only         *)
(* HandlerRegisters, Close() of a device connection and the two callers of  *)
(* store.Remove are steps of it.                                            *)
LEMMA RegistryStep ==
  ServerInv /\ [Next]_vars =>
    [Registry!Next]_<<store, {c \in Conn : WasRegistered(c)}, {c \in Conn : active[c]}>>
<1> SUFFICES ASSUME ServerInv, [Next]_vars
             PROVE  [Registry!Next]_<<store, {c \in Conn : WasRegistered(c)}, {c \in Conn : active[c]}>>
  BY Zenon
<1> DEFINE Known == {c \in Conn : WasRegistered(c)}
           Live == {c \in Conn : active[c]}
           Stutter == store' = store /\ Known' = Known /\ Live' = Live
<1>1. ASSUME UNCHANGED <<handlerVars, active, store>>
      PROVE  Stutter
  BY <1>1, Zenon DEF handlerVars, WasRegistered
<1>2. ASSUME NEW c \in Conn,
             \A e \in Conn \ {c} : handler'[e] = handler[e] /\ device'[e] = device[e],
             WasRegistered(c)' <=> WasRegistered(c)
      PROVE  Known' = Known
  <2>1. \A e \in Conn \ {c} : WasRegistered(e)' <=> WasRegistered(e)
    BY <1>2, Zenon DEF WasRegistered
  <2> QED
    BY <1>2, <2>1, Zenon
<1>3. ASSUME NEW c \in Conn, NEW from, NEW to, HandlerMoves(c, from, to), UNCHANGED device,
             from \in Registered \cup {"notifying"}, to \in Registered \cup {"notifying", "gone"}
      PROVE  Known' = Known
  <2>1. handler[c] = from /\ handler'[c] = to /\ \A e \in Conn \ {c} : handler'[e] = handler[e]
    BY <1>3, Zenon DEF HandlerMoves, ServerInv, TypeOK
  <2>2. WasRegistered(c)' <=> WasRegistered(c)
    BY <1>3, <2>1, Zenon DEF WasRegistered
  <2> HIDE DEF Known
  <2> QED
    BY <1>2, <1>3, <2>1, <2>2, Zenon
<1>4. ASSUME NEW c \in Conn,
             \/ Accept(c) \/ HandlerCounts(c) \/ HandlerTracks(c) \/ HandshakeFails(c)
             \/ HandlerAnnounces(c) \/ ReadPing(c) \/ WritePong(c) \/ ReadBad(c)
             \/ LeaveLoop(c, "reject") \/ LeaveLoop(c, "serving") \/ HandlerLeaves(c)
      PROVE  Stutter
  <2>1. UNCHANGED <<device, active, store>>
    BY <1>4, Zenon DEF Accept, HandlerCounts, HandlerTracks, HandshakeFails, HandlerAnnounces, ReadPing, WritePong, ReadBad,
                LeaveLoop, HandlerLeaves, connVars
  <2>0. Live' = Live
    BY <2>1, Zenon
  <2> HIDE DEF Known, Live
  <2>2. CASE Accept(c) \/ HandlerCounts(c) \/ HandlerTracks(c) \/ HandshakeFails(c)
    <3>1. PICK from \in {"free", "spawned", "counted", "handshake"},
               to \in {"spawned", "counted", "handshake", "gone"} : HandlerMoves(c, from, to)
      BY <2>2, Zenon DEF Accept, HandlerCounts, HandlerTracks, HandshakeFails
    <3>2. device[c] = None
      BY <3>1, Zenon DEF HandlerMoves, ServerInv, ConnFacts, ConnFact
    <3>3. WasRegistered(c)' <=> WasRegistered(c)
      BY <2>1, <3>2, ServerAssumption, Zenon DEF WasRegistered
    <3>4. \A e \in Conn \ {c} : handler'[e] = handler[e] /\ device'[e] = device[e]
      BY <2>1, <3>1, Zenon DEF HandlerMoves, ServerInv, TypeOK
    <3>5. Known' = Known
      BY <1>2, <3>3, <3>4, Zenon
    <3> QED
      BY <2>0, <2>1, <3>5, Zenon
  <2>3. CASE \/ HandlerAnnounces(c) \/ ReadPing(c) \/ WritePong(c) \/ ReadBad(c)
             \/ LeaveLoop(c, "reject") \/ LeaveLoop(c, "serving") \/ HandlerLeaves(c)
    <3>1. \E from \in Registered \cup {"notifying"}, to \in Registered \cup {"notifying", "gone"} :
            HandlerMoves(c, from, to)
      BY <2>3, Zenon DEF HandlerAnnounces, ReadPing, WritePong, ReadBad, LeaveLoop, HandlerLeaves, Registered, InLoop
    <3> QED
      BY <1>3, <2>0, <2>1, <3>1, Zenon
  <2> QED
    BY <1>4, <2>2, <2>3, Zenon
<1>5. ASSUME NEW c \in Conn, NEW d \in Device, HandshakeAccepted(c, d)
      PROVE  Stutter
  <2>1. /\ handler[c] = "handshake" /\ handler' = [handler EXCEPT ![c] = "accepted"]
        /\ device' = [device EXCEPT ![c] = d] /\ UNCHANGED <<active, store>>
    BY <1>5, Zenon DEF HandshakeAccepted, HandlerMoves, connVars
  <2>2. handler'[c] = "accepted" /\ \A e \in Conn \ {c} : handler'[e] = handler[e] /\ device'[e] = device[e]
    BY <2>1, Zenon DEF ServerInv, TypeOK
  <2>3. ~WasRegistered(c)' /\ ~WasRegistered(c)
    BY <2>1, <2>2, Zenon DEF WasRegistered, Registered, InLoop
  <2>4. Live' = Live
    BY <2>1, Zenon
  <2> HIDE DEF Known, Live
  <2> QED
    BY <1>2, <2>1, <2>2, <2>3, <2>4, Zenon
<1>6. ASSUME NEW c \in Conn, HandlerRegisters(c)
      PROVE  Registry!Register(device[c], c) /\ device[c] \in Device
  <2>1. /\ handler[c] = "accepted" /\ handler' = [handler EXCEPT ![c] = "announce"]
        /\ active' = [active EXCEPT ![c] = TRUE] /\ store' = [store EXCEPT ![device[c]] = c]
        /\ UNCHANGED device
    BY <1>6, Zenon DEF HandlerRegisters, HandlerMoves, storeRegister
  <2>2. device[c] \in Device /\ ~WasRegistered(c)
    BY <2>1, Zenon DEF ServerInv, ConnFacts, ConnFact, WasRegistered, Registered, InLoop
  <2>3. \A e \in Conn : handler'[e] = IF e = c THEN "announce" ELSE handler[e]
    BY <2>1, Zenon DEF ServerInv, TypeOK
  <2>4. \A e \in Conn : WasRegistered(e)' <=> WasRegistered(e) \/ e = c
    BY <2>1, <2>2, <2>3, Zenon DEF WasRegistered, Registered
  <2>5. active'[c] /\ \A e \in Conn \ {c} : active'[e] = active[e]
    BY <2>1, Zenon DEF ServerInv, TypeOK
  <2>6. Known' = Known \cup {c} /\ c \notin Known
    BY <2>2, <2>4, Zenon
  <2>7. Live' = Live \cup {c}
    BY <2>5, Zenon
  <2> QED
    BY <2>1, <2>2, <2>6, <2>7, Zenon DEF Registry!Register
<1>7. ASSUME NEW c \in Conn, dcClose(c)
      PROVE  Live' = Live \ {c}
  BY <1>7, CloseEffect, Zenon DEF ServerInv
<1>8. ASSUME NEW c \in Conn, HandlerCloses(c)
      PROVE  Registry!Die(c)
  <2>1. Live' = Live \ {c} /\ store' = store
    BY <1>7, <1>8, Zenon DEF HandlerCloses
  <2>2. Known' = Known
    BY <1>3, <1>8, Zenon DEF HandlerCloses, Registered
  <2> QED
    BY <2>1, <2>2, Zenon DEF Registry!Die
<1>9. ASSUME NEW r \in Role, NEW c \in Conn, KillerCloses(r, c)
      PROVE  Registry!Die(c)
  <2>1. Live' = Live \ {c} /\ UNCHANGED <<handler, device, store>>
    BY <1>7, <1>9, Zenon DEF KillerCloses, handlerVars
  <2>2. Known' = Known
    BY <2>1, Zenon DEF WasRegistered
  <2> QED
    BY <2>1, <2>2, Zenon DEF Registry!Die
<1>10. ASSUME NEW c \in Conn, device[c] \in Device, WasRegistered(c), ~active[c],
              storeRemove(device[c], c), Known' = Known, Live' = Live
       PROVE  Registry!End(device[c]) \/ Stutter
  <2>0. store \in [Device -> Conn \cup {None}] /\ c \in Known \ Live
    BY <1>10, Zenon DEF ServerInv, TypeOK
  <2> HIDE DEF Known, Live
  <2>1. CASE store[device[c]] = c
    <3>1. store' = [store EXCEPT ![device[c]] = None]
      BY <1>10, <2>1, Zenon DEF storeRemove
    <3> QED
      BY <1>10, <2>0, <2>1, <3>1, Zenon DEF Registry!End, Known, Live
  <2>2. CASE store[device[c]] # c
    BY <1>10, <2>0, <2>2, Zenon DEF storeRemove
  <2> QED
    BY <2>1, <2>2, Zenon
<1>11. ASSUME NEW c \in Conn, HandlerRemoves(c)
       PROVE  device[c] \in Device /\ (Registry!End(device[c]) \/ Stutter)
  <2>1. HandlerMoves(c, "removing", "notifying") /\ UNCHANGED <<device, active>> /\ storeRemove(device[c], c)
    BY <1>11, Zenon DEF HandlerRemoves, connVars
  <2>2. device[c] \in Device /\ WasRegistered(c) /\ ~active[c]
    BY <2>1, Zenon DEF HandlerMoves, ServerInv, ConnFacts, ConnFact, WasRegistered, Registered
  <2>3. Known' = Known /\ Live' = Live
    BY <1>3, <2>1, Zenon DEF Registered
  <2> QED
    BY <1>10, <2>1, <2>2, <2>3, Zenon
<1>12. ASSUME NEW k \in Kickers, KickRemoves(k)
       PROVE  device[kicked[k]] \in Device /\ (Registry!End(device[kicked[k]]) \/ Stutter)
  <2>1. kicked[k] \in Conn /\ killer[k][kicked[k]] = "done" /\ k \in Role
    BY <1>12, Zenon DEF KickRemoves, KillerMoves, Role, ServerInv, CallerFacts
  <2>2. UNCHANGED <<handler, device, active>> /\ storeRemove(device[kicked[k]], kicked[k])
    BY <1>12, Zenon DEF KickRemoves, handlerVars, connVars
  <2>3. WasRegistered(kicked[k]) /\ ~active[kicked[k]] /\ device[kicked[k]] \in Device
    BY <2>1, Zenon DEF ServerInv, KillerFacts, WasRegistered
  <2>4. Known' = Known /\ Live' = Live
    BY <2>2, Zenon DEF WasRegistered
  <2> QED
    BY <1>10, <2>1, <2>2, <2>3, <2>4, Zenon
<1>13. ASSUME UNCHANGED vars
       PROVE  Stutter
  BY <1>1, <1>13, Zenon DEF vars, connVars
<1> HIDE DEF Stutter
<1>14. ASSUME NEW c \in Conn,
              \/ ReadPush(c) \/ DeadlineExpires(c) \/ TimerFires(c) \/ CloseNextSession(c)
       PROVE  Stutter
  BY <1>1, <1>14, Zenon DEF ReadPush, DeadlineExpires, TimerFires, CloseNextSession, connVars
<1>15. ASSUME NEW r \in Role, NEW c \in Conn, KillerLocks(r, c) \/ KillerWrites(r, c)
       PROVE  Stutter
  BY <1>1, <1>15, Zenon DEF KillerLocks, KillerWrites, BeginWrite, EndWrite, connVars
<1>16. ASSUME NEW k \in Kickers, KickNotifies(k) \/ \E d \in Device : Kick(k, d)
       PROVE  Stutter
  BY <1>1, <1>16, Zenon DEF KickNotifies, Kick, connVars
<1>17. ASSUME NEW p \in Pushers, PushLocks(p) \/ PushWrites(p) \/ \E d \in Device : Push(p, d)
       PROVE  Stutter
  BY <1>1, <1>17, Zenon DEF PushLocks, PushWrites, Push, BeginWrite, EndWrite, connVars
<1>18. ASSUME Close \/ CloseTakesAll \/ CloseSessionsDone \/ CloseConns \/ CloseReturns
       PROVE  Stutter
  BY <1>1, <1>18, Zenon DEF Close, CloseTakesAll, CloseSessionsDone, CloseConns, CloseReturns, connVars
<1>19. ASSUME NEW c \in Conn, HandlerRuns(c) \/ ClientActs(c)
       PROVE  Registry!Next \/ Stutter
  <2>1. CASE HandlerRuns(c)
    BY <1>4, <1>6, <1>8, <1>11, <2>1, Zenon DEF HandlerRuns, WriteReject, ReadEnds, Registry!Next
  <2>2. CASE ClientActs(c)
    BY <1>4, <1>5, <1>14, <2>2, Zenon DEF ClientActs, ReadEnds
  <2> QED
    BY <1>19, <2>1, <2>2, Zenon
<1>20. ASSUME NEW r \in Role, NEW c \in Conn, KillerRuns(r, c)
       PROVE  Registry!Next \/ Stutter
  BY <1>9, <1>15, <1>20, Zenon DEF KillerRuns, Registry!Next
<1>21. ASSUME NEW k \in Kickers, KickRuns(k)
       PROVE  Registry!Next \/ Stutter
  BY <1>12, <1>16, <1>21, Zenon DEF KickRuns, Registry!Next
<1>22. ASSUME CloserRuns
       PROVE  Stutter
  BY <1>14, <1>18, <1>22, Zenon DEF CloserRuns
<1>23. ASSUME Runs
       PROVE  Registry!Next \/ Stutter
  BY <1>14, <1>16, <1>17, <1>19, <1>20, <1>21, <1>22, <1>23, Zenon DEF Runs, PushRuns
<1>24. Registry!Next \/ Stutter
  BY <1>4, <1>13, <1>18, <1>23, Zenon DEF Next
<1> QED
  BY <1>24, Zenon DEF Stutter

(* The server implements the registry of sessions, for any number of        *)
(* connections, devices and concurrent callers.                             *)
THEOREM ServerImplementsRegistry == Spec => ImplementsRegistry
<1>1. Init => Registry!Init
  BY DEF Init, Registry!Init, WasRegistered, Registered, InLoop
<1> QED
  BY <1>1, RegistryStep, ServerInvariant, PTL DEF Spec, ImplementsRegistry, Registry!Spec

(* A step of the whole server is, for the sessions, one of their own steps. *)
LEMMA SessionsStep == [LNext]_allVars => [Next]_vars
<1> SUFFICES ASSUME [LNext]_allVars PROVE [Next]_vars
  BY Zenon
<1>1. CASE ListenAndServe \/ ParentCancels \/ ServeReturns
  BY <1>1, Zenon DEF ListenAndServe, ParentCancels, ServeReturns
<1>2. ASSUME NEW l \in Listeners,
             ListenerRuns(l) \/ AcceptFails(l) \/ CloseListener(l)
      PROVE  [Next]_vars
  BY <1>2, Zenon DEF ListenerRuns, ListenFails, Listens, ContextCloses, AcceptFails, CloseListener
<1>3. ASSUME NEW l \in Listeners, NEW c \in Conn, Accepts(l, c)
      PROVE  [Next]_vars
  BY <1>3, Zenon DEF Accepts, Next
<1>4. CASE CloseCancels
  BY <1>4, Zenon DEF CloseCancels, Next
<1>5. CASE SessionsRun
  BY <1>5, Zenon DEF SessionsRun, Next
<1>6. CASE UNCHANGED allVars
  BY <1>6, Zenon DEF allVars
<1> QED
  BY <1>1, <1>2, <1>3, <1>4, <1>5, <1>6, Zenon DEF LNext

(* The server with its listeners, its late accepts and Close() included,    *)
(* implements the sessions by themselves: what is proved of those holds.    *)
THEOREM ServerImplementsSessions == LSpec => Spec
<1>1. LInit => Init
  BY Zenon DEF LInit
<1> QED
  BY <1>1, SessionsStep, PTL DEF LSpec, Spec

(* So it implements the registry of sessions. *)
THEOREM ServingImplementsRegistry == LSpec => ImplementsRegistry
  BY ServerImplementsSessions, ServerImplementsRegistry, PTL

(* Close() is never undone. *)
LEMMA CloserStays == ASSUME [Next]_vars, closer # "idle" PROVE closer' # "idle"
<1> USE DEF closeVars
<1>1. ASSUME NEW c \in Conn, ClientActs(c) \/ HandlerRuns(c)
      PROVE  UNCHANGED closer
  BY <1>1, Zenon DEF ClientActs, HandlerRuns, HandlerCounts, HandlerTracks, HandlerRegisters, HandlerAnnounces,
     WritePong, WriteReject, HandshakeFails, ReadEnds, HandlerCloses, HandlerRemoves, HandlerLeaves,
     HandshakeAccepted, ReadPush, ReadPing, ReadBad, LeaveLoop
<1>2. ASSUME NEW c \in Conn, DeadlineExpires(c) \/ TimerFires(c) \/ \E r \in Role : KillerRuns(r, c)
      PROVE  UNCHANGED closer
  BY <1>2, Zenon DEF DeadlineExpires, TimerFires, KillerRuns, KillerLocks, KillerWrites, KillerCloses
<1>3. ASSUME NEW k \in Kickers, KickRuns(k) \/ \E d \in Device : Kick(k, d)
      PROVE  UNCHANGED closer
  BY <1>3, Zenon DEF KickRuns, KickRemoves, KickNotifies, Kick
<1>4. ASSUME NEW p \in Pushers, PushRuns(p) \/ \E d \in Device : Push(p, d)
      PROVE  UNCHANGED closer
  BY <1>4, Zenon DEF PushRuns, PushLocks, PushWrites, Push
<1>5. CASE CloserRuns
  BY <1>5, Zenon DEF CloserRuns, CloseTakesAll, CloseNextSession, CloseSessionsDone, CloseConns, CloseReturns, CloserMoves
<1>6. CASE (\E c \in Conn : Accept(c)) \/ (Closers # {} /\ Close) \/ UNCHANGED vars
  BY <1>6, Zenon DEF Accept, Close, CloserMoves, vars
<1> QED
  BY <1>1, <1>2, <1>3, <1>4, <1>5, <1>6, Zenon DEF Next, Runs

(* What FailureReported rests on; inductive.  While ListenAndServe waits,   *)
(* only Close() and the caller cancel its context.                          *)
ListenersInv ==
  /\ FailureReported
  /\ errCh \in Seq({"error", "cancelled"})
  /\ serve = "idle" => errCh = <<>> /\ ctx = "initial" /\ \A l \in Listeners : listener[l] = "idle"
  /\ serve # "returned" /\ (ctx = "cancelled" \/ \E n \in 1 .. Len(errCh) : errCh[n] = "cancelled")
       => parent \/ closer # "idle"

(* What a Serve that returns adds to the channel of ListenAndServe. *)
LEMMA ServeEndsAdds ==
  ASSUME NEW l \in Listeners, NEW e \in {"nil", "error", "cancelled"}, ServeEnds(l, e),
         errCh \in Seq({"error", "cancelled"})
  PROVE  /\ errCh' \in Seq({"error", "cancelled"})
         /\ \A n \in 1 .. Len(errCh') : errCh'[n] = "cancelled" =>
              e = "cancelled" \/ \E m \in 1 .. Len(errCh) : errCh[m] = "cancelled"
<1>1. CASE e # "nil" /\ errCh' = Append(errCh, e)
  <2>1. Len(errCh') = Len(errCh) + 1 /\ Len(errCh) \in Nat
    BY <1>1
  <2>2. \A n \in 1 .. Len(errCh') : n \in 1 .. Len(errCh) \/ n = Len(errCh) + 1
    BY <2>1
  <2> QED
    BY <1>1, <2>1, <2>2
<1>2. CASE errCh' = errCh
  BY <1>2, Zenon
<1> QED
  BY <1>1, <1>2, Zenon DEF ServeEnds

(* A step of the whole server keeps the invariant of the listeners. *)
LEMMA ListenersStep == ListenersInv /\ [LNext]_allVars => ListenersInv'
<1> SUFFICES ASSUME ListenersInv, [LNext]_allVars PROVE ListenersInv'
  BY Zenon
<1> USE DEF ListenersInv, FailureReported, serveVars, sockVars
<1>0. closer # "idle" => closer' # "idle"
  BY SessionsStep, CloserStays, Zenon
<1>1. CASE ListenAndServe
  BY <1>0, <1>1, Zenon DEF ListenAndServe
<1>2. CASE ParentCancels
  BY <1>0, <1>2, Zenon DEF ParentCancels
<1>3. CASE ServeReturns
  <2> USE <1>3 DEF ServeReturns
  <2>1. result' = "cancelled" => parent' \/ closer' # "idle"
    <3>1. CASE errCh # <<>> /\ result' = Head(errCh)
      <4>1. Head(errCh) = errCh[1] /\ 1 \in 1 .. Len(errCh)
        BY <3>1
      <4> QED
        BY <1>0, <3>1, <4>1, Zenon
    <3>2. CASE parent /\ result' = "cancelled"
      BY <3>2, Zenon
    <3> QED
      BY <3>1, <3>2, Zenon
  <2>2. errCh' \in Seq({"error", "cancelled"})
    <3>1. errCh # <<>> => Tail(errCh) \in Seq({"error", "cancelled"})
      OBVIOUS
    <3> QED
      BY <3>1, Zenon
  <2> QED
    BY <2>1, <2>2, Zenon
<1>4. ASSUME NEW l \in Listeners, ListenFails(l) \/ AcceptFails(l)
      PROVE  ListenersInv'
  <2>1. PICK e \in {"nil", "error", "cancelled"} :
          ServeEnds(l, e) /\ (e = "cancelled" => ctx = "cancelled")
    BY <1>4, Zenon DEF ListenFails, AcceptFails, AcceptError
  <2>2. /\ errCh' \in Seq({"error", "cancelled"})
        /\ \A n \in 1 .. Len(errCh') : errCh'[n] = "cancelled" =>
             ctx = "cancelled" \/ \E m \in 1 .. Len(errCh) : errCh[m] = "cancelled"
    BY <2>1, ServeEndsAdds, Zenon
  <2>3. serve # "idle"
    BY <1>4, Zenon DEF ListenFails, AcceptFails
  <2> QED
    BY <1>0, <1>4, <2>2, <2>3, Zenon DEF ListenFails, AcceptFails
<1>5. ASSUME NEW l \in Listeners, Listens(l) \/ ContextCloses(l) \/ CloseListener(l)
      PROVE  ListenersInv'
  BY <1>0, <1>5, Zenon DEF Listens, ContextCloses, CloseListener
<1>6. CASE (\E l \in Listeners, c \in Conn : Accepts(l, c)) \/ SessionsRun \/ UNCHANGED allVars
  <2>1. UNCHANGED lvars
    BY <1>6, Zenon DEF Accepts, SessionsRun, allVars
  <2> QED
    BY <1>0, <2>1, Zenon DEF lvars
<1>7. CASE CloseCancels
  BY <1>0, <1>7, Zenon DEF CloseCancels, Close, CloserMoves
<1> QED
  BY <1>1, <1>2, <1>3, <1>4, <1>5, <1>6, <1>7, Zenon DEF LNext, ListenerRuns

(* ListenAndServe reports a cancellation only if there was one, for any     *)
(* number of listeners.                                                     *)
THEOREM FailureReportedHolds == LSpec => []FailureReported
<1>1. LInit => ListenersInv
  BY DEF LInit, ListenersInv, FailureReported
<1>2. ListenersInv => FailureReported
  BY Zenon DEF ListenersInv
<1> QED
  BY <1>1, <1>2, ListenersStep, PTL DEF LSpec
=============================================================================
