------------------------ MODULE ServerSessionsProofs ------------------------
(***************************************************************************)
(* Proofs about the server's sessions, for any number of connections,      *)
(* devices and callers: how a session starts and ends, then the theorems.  *)
(***************************************************************************)
EXTENDS ServerStepProofs

(* The time a prover may spend on a leaf, in seconds. *)
USE SMTT(30), ZenonT(20)

(* The handshake ends, with or without a session. *)
LEMMA HandshakeStep ==
  ASSUME ServerInv, NEW c \in Conn, HandshakeFails(c) \/ \E d \in Device : HandshakeAccepted(c, d)
  PROVE  ServerInv'
<1>1. /\ handler[c] = "handshake" /\ device[c] = None /\ ~active[c] /\ ~timer[c]
      /\ ~WasRegistered(c) /\ ~(closedEvents[c] > 0)
  BY ServerAssumption, Zenon
     DEF HandshakeFails, HandshakeAccepted, HandlerMoves, ServerInv, ConnFacts, ConnFact, InLoop, Registered,
         WasRegistered
<1>2. UNCHANGED <<active, mu, timer, store, killer, kick, kicked, push, pushed, closer, todo, closedEvents>>
  BY Zenon DEF HandshakeFails, HandshakeAccepted, connVars, kickVars, pushVars, closeVars
<1>3. handler \in [Conn -> {"free", "spawned", "gone"} \cup Counted] /\ device \in [Conn -> Device \cup {None}]
  BY Zenon DEF ServerInv, TypeOK
<1>4. CASE HandshakeFails(c)
  <2>1. /\ handler' = [handler EXCEPT ![c] = "gone"] /\ UNCHANGED device
        /\ open' = [e \in Conn |-> open[e] /\ e \notin {c}]
        /\ deadline' = [e \in Conn |-> IF e \in {c} THEN "none" ELSE deadline[e]]
    BY <1>4, Zenon DEF HandshakeFails, HandlerMoves, netClose
  <2>a. open' \in [Conn -> BOOLEAN] /\ ~open'[c] /\ \A e \in Conn \ {c} : open'[e] = open[e]
    <3>1. open \in [Conn -> BOOLEAN]
      BY Zenon DEF ServerInv, TypeOK
    <3>2. open' = [e \in Conn |-> open[e] /\ e \notin {c}]
      BY <2>1, Zenon
    <3>3. ASSUME NEW e \in Conn PROVE open'[e] <=> open[e] /\ e # c
      <4>1. open'[e] = (open[e] /\ e \notin {c})
        BY <3>2, Zenon
      <4> QED
        BY <3>1, <4>1, Zenon
    <3>4. open' \in [Conn -> BOOLEAN]
      BY <3>2, Zenon
    <3> QED
      BY <3>1, <3>3, <3>4, Zenon
  <2>b. /\ deadline' \in [Conn -> {"none", "set", "expired"}]
        /\ handler' \in [Conn -> {"free", "spawned", "gone"} \cup Counted]
        /\ handler'[c] = "gone"
        /\ \A e \in Conn \ {c} : handler'[e] = handler[e]
    BY <1>3, <2>1, Zenon DEF ServerInv, TypeOK
  <2>2. /\ open' \in [Conn -> BOOLEAN] /\ deadline' \in [Conn -> {"none", "set", "expired"}]
        /\ handler' \in [Conn -> {"free", "spawned", "gone"} \cup Counted]
        /\ handler'[c] = "gone" /\ ~open'[c]
        /\ \A e \in Conn \ {c} : open'[e] = open[e] /\ handler'[e] = handler[e]
    BY <2>a, <2>b, Zenon
  <2>3. TypeOK'
    BY <1>2, <2>1, <2>2, Zenon DEF ServerInv, TypeOK
  <2>4. OnlyConn(c)
    BY <1>2, <2>1, <2>2, Zenon DEF OnlyConn, kickVars, pushVars
  <2>5. ~WasRegistered(c)' /\ handler'[c] \notin Registered
    BY <1>1, <2>1, <2>2, ServerAssumption, Zenon DEF WasRegistered, Registered, InLoop
  <2>6. ConnFact(c)'
    BY <1>1, <1>2, <2>2, <2>5, Zenon DEF ConnFact, Registered, InLoop
  <2> QED
    BY <1>1, <1>2, <2>2, <2>3, <2>4, <2>5, <2>6, HandlerFrame, Zenon DEF Registered, InLoop
<1>5. ASSUME NEW d \in Device, HandshakeAccepted(c, d)
      PROVE  ServerInv'
  <2>1. /\ handler' = [handler EXCEPT ![c] = "accepted"] /\ device' = [device EXCEPT ![c] = d]
        /\ UNCHANGED <<open, deadline>>
    BY <1>5, Zenon DEF HandshakeAccepted, HandlerMoves, connVars
  <2>2. /\ handler' \in [Conn -> {"free", "spawned", "gone"} \cup Counted]
        /\ device' \in [Conn -> Device \cup {None}]
        /\ handler'[c] = "accepted" /\ device'[c] = d
        /\ \A e \in Conn \ {c} : device'[e] = device[e] /\ handler'[e] = handler[e]
    BY <1>3, <2>1, Zenon DEF Counted
  <2>3. TypeOK'
    BY <1>2, <2>1, <2>2, Zenon DEF ServerInv, TypeOK
  <2>4. OnlyConn(c)
    BY <1>2, <2>1, <2>2, Zenon DEF OnlyConn, kickVars, pushVars
  <2>5. ~WasRegistered(c)' /\ handler'[c] \notin Registered
    BY <2>2, Zenon DEF WasRegistered, Registered, InLoop
  <2>6. ConnFact(c)'
    BY <1>1, <1>2, <2>2, <2>5, Zenon DEF ConnFact, Registered, InLoop
  <2> QED
    BY <1>1, <1>2, <2>2, <2>3, <2>4, <2>5, <2>6, HandlerFrame, Zenon DEF Registered, InLoop
<1> QED
  BY <1>4, <1>5, Zenon

(* The deferred Close() of a handler, and its last step. *)
LEMMA HandlerEndsStep ==
  ASSUME ServerInv, NEW c \in Conn, HandlerCloses(c) \/ HandlerLeaves(c)
  PROVE  ServerInv'
<1>1. UNCHANGED <<device, mu, timer, store, killer, kick, kicked, push, pushed, closer, todo>>
  BY Zenon DEF HandlerCloses, HandlerLeaves, dcClose, connVars, kickVars, pushVars, closeVars
<1>2. handler \in [Conn -> {"free", "spawned", "gone"} \cup Counted] /\ closedEvents \in [Conn -> Nat]
  BY Zenon DEF ServerInv, TypeOK
<1>3. ConnFact(c) /\ (closedEvents[c] > 0 => ~active[c] /\ \A d \in Device : store[d] # c)
  BY Zenon DEF ServerInv, ConnFacts, ClosedReported
<1>4. CASE HandlerCloses(c)
  <2>1. /\ handler[c] = "closing" /\ handler' = [handler EXCEPT ![c] = "removing"]
        /\ dcClose(c) /\ UNCHANGED closedEvents
    BY <1>4, Zenon DEF HandlerCloses, HandlerMoves
  <2>2. /\ handler' \in [Conn -> {"free", "spawned", "gone"} \cup Counted]
        /\ handler'[c] = "removing" /\ \A e \in Conn \ {c} : handler'[e] = handler[e]
    BY <1>2, <2>1, Zenon DEF Counted, Registered
  <2>3. /\ active' \in [Conn -> BOOLEAN] /\ open' \in [Conn -> BOOLEAN]
        /\ deadline' \in [Conn -> {"none", "set", "expired"}]
        /\ \A e \in Conn : active'[e] <=> active[e] /\ e # c
        /\ open'[c] => open[c] /\ ~active[c]
    BY <2>1, CloseEffect, Zenon DEF ServerInv
  <2>4. \A e \in Conn \ {c} : open'[e] = open[e] /\ active'[e] = active[e]
    <3>1. open \in [Conn -> BOOLEAN] /\ active \in [Conn -> BOOLEAN]
      BY Zenon DEF ServerInv, TypeOK
    <3>2. active' = [active EXCEPT ![c] = FALSE]
      BY <2>1, Zenon DEF dcClose
    <3>3. ASSUME NEW e \in Conn \ {c} PROVE open'[e] = open[e]
      <4>1. PICK cs \in SUBSET {c} : netClose(cs)
        BY <2>1, Zenon DEF dcClose
      <4>2. open'[e] = (open[e] /\ e \notin cs)
        BY <4>1, Zenon DEF netClose
      <4> QED
        BY <3>1, <4>1, <4>2
    <3> QED
      BY <3>1, <3>2, <3>3, Zenon
  <2>5. TypeOK'
    BY <1>1, <2>1, <2>2, <2>3, Zenon DEF ServerInv, TypeOK
  <2>6. OnlyConn(c)
    BY <1>1, <2>1, <2>2, <2>4, Zenon DEF OnlyConn, kickVars, pushVars
  <2>7. WasRegistered(c)' <=> WasRegistered(c)
    BY <1>1, <2>1, <2>2, Zenon DEF WasRegistered, Registered
  <2>8. ConnFact(c)'
    BY <1>1, <1>3, <2>1, <2>2, <2>3, <2>7, Zenon DEF ConnFact, Registered, InLoop
  <2> QED
    BY <1>1, <1>3, <2>1, <2>2, <2>3, <2>5, <2>6, <2>7, <2>8, HandlerFrame, Zenon DEF Registered
<1>5. CASE HandlerLeaves(c)
  <2>1. /\ handler[c] = "notifying" /\ handler' = [handler EXCEPT ![c] = "gone"]
        /\ closedEvents' = [closedEvents EXCEPT ![c] = @ + 1]
        /\ UNCHANGED <<active, open, deadline>>
    BY <1>5, Zenon DEF HandlerLeaves, HandlerMoves, connVars
  <2>2. /\ handler' \in [Conn -> {"free", "spawned", "gone"} \cup Counted]
        /\ handler'[c] = "gone" /\ \A e \in Conn \ {c} : handler'[e] = handler[e]
        /\ closedEvents' \in [Conn -> Nat] /\ closedEvents'[c] > 0
        /\ \A e \in Conn \ {c} : closedEvents'[e] = closedEvents[e]
    BY <1>2, <2>1
  <2>3. TypeOK'
    BY <1>1, <2>1, <2>2, Zenon DEF ServerInv, TypeOK
  <2>4. OnlyConn(c)
    BY <1>1, <2>1, <2>2, Zenon DEF OnlyConn, kickVars, pushVars
  <2>5. ~active[c] /\ ~open[c] /\ ~timer[c] /\ WasRegistered(c) /\ handler[c] \notin Registered
    BY <1>3, <2>1, Zenon DEF ConnFact, WasRegistered, Registered, InLoop
  <2>6. WasRegistered(c)' /\ handler'[c] \notin Registered
    BY <1>1, <2>2, <2>5, Zenon DEF WasRegistered, Registered, InLoop
  <2>7. ConnFact(c)'
    BY <1>1, <2>1, <2>2, <2>5, <2>6, Zenon DEF ConnFact
  <2>8. \A d \in Device : store[d] # c
    BY <2>5, Zenon DEF ServerInv, StoreEntriesServed
  <2> QED
    BY <1>1, <2>1, <2>2, <2>3, <2>4, <2>5, <2>6, <2>7, <2>8, HandlerFrame, Zenon
<1> QED
  BY <1>4, <1>5, Zenon

(* A PUSH is read, or the keepalive timer fires. *)
LEMMA TimerStep ==
  ASSUME ServerInv, NEW c \in Conn, ReadPush(c) \/ TimerFires(c)
  PROVE  ServerInv'
<1>1. UNCHANGED <<handler, device, active, open, mu, deadline, store, kick, kicked, push, pushed, closer, todo, closedEvents>>
  BY Zenon DEF ReadPush, TimerFires, handlerVars, connVars, kickVars, pushVars, closeVars
<1>2. handler[c] \in InLoop /\ device[c] \in Device
  <2>1. handler[c] \in InLoop
    BY Zenon DEF ReadPush, TimerFires, InLoop, ServerInv, ConnFacts, ConnFact
  <2> QED
    BY <2>1, Zenon DEF ServerInv, ConnFacts, ConnFact, Registered
<1>3. timer \in [Conn -> BOOLEAN]
  BY Zenon DEF ServerInv, TypeOK
<1>4. timer' \in [Conn -> BOOLEAN] /\ \A e \in Conn \ {c} : timer'[e] = timer[e]
  <2>1. CASE ReadPush(c)
    BY <1>3, <2>1, TimersArm, Zenon DEF ReadPush
  <2>2. CASE TimerFires(c)
    BY <1>3, <2>2, TimersStop, Zenon DEF TimerFires
  <2> QED
    BY <2>1, <2>2, Zenon
<1>5. \A e \in Conn : timer'[e] => handler[e] \in InLoop
  BY <1>2, <1>4, Zenon DEF ServerInv, ConnFacts, ConnFact
<1>6. \A e \in Conn : WasRegistered(e)' <=> WasRegistered(e)
  BY <1>1, Zenon DEF WasRegistered
<1>7. ConnFacts'
  BY <1>1, <1>5, <1>6, Zenon DEF ServerInv, ConnFacts, ConnFact
<1>8. StoreEntriesServed' /\ ClosedReported'
  BY <1>1, <1>6, Zenon DEF ServerInv, StoreEntriesServed, ClosedReported
<1>9. NothingLeftBehind'
  BY <1>1, <1>5, Zenon DEF ServerInv, NothingLeftBehind, InLoop
<1>10. CallerFacts'
  BY <1>1, CallersFrame, Zenon DEF handlerVars, kickVars, pushVars
<1>11. CASE UNCHANGED killer
  <2>1. TypeOK'
    BY <1>1, <1>4, <1>11, Zenon DEF ServerInv, TypeOK
  <2>2. LatestSessionReachable' /\ KillerFacts'
    BY <1>1, <1>6, <1>11, Zenon DEF ServerInv, TypeOK, LatestSessionReachable, KillerFacts
  <2> QED
    BY <1>7, <1>8, <1>9, <1>10, <2>1, <2>2, Zenon DEF ServerInv
<1>12. CASE KillerMoves("reaper", c, "off", "lock")
  <2>1. "reaper" \in Role /\ "takeover" \in Role /\ killer' = [killer EXCEPT !["reaper"][c] = "lock"]
    BY <1>12, Zenon DEF KillerMoves, Role
  <2>2. /\ killer' \in [Role -> [Conn -> {"off", "lock", "write", "close", "done"}]]
        /\ \A r \in Role, e \in Conn :
             killer'[r][e] = IF r = "reaper" /\ e = c THEN "lock" ELSE killer[r][e]
    BY <2>1, Zenon DEF ServerInv, TypeOK
  <2>3. TypeOK'
    BY <1>1, <1>4, <2>2, Zenon DEF ServerInv, TypeOK
  <2>4. WasRegistered(c)
    BY <1>2, Zenon DEF WasRegistered, Registered
  <2>5. LatestSessionReachable'
    BY <1>1, <2>1, <2>2, Zenon DEF ServerInv, LatestSessionReachable
  <2>6. KillerFacts'
    BY <1>1, <1>6, <2>2, <2>4 DEF ServerInv, TypeOK, KillerFacts
  <2> QED
    BY <1>7, <1>8, <1>9, <1>10, <2>3, <2>5, <2>6, Zenon DEF ServerInv
<1> QED
  BY <1>11, <1>12, Zenon DEF ReadPush, TimerFires

(* store.Register, and the takeover of the session it supersedes. *)
LEMMA HandlerRegistersStep ==
  ASSUME ServerInv, NEW c \in Conn, HandlerRegisters(c)
  PROVE  ServerInv'
<1> DEFINE prev == store[device[c]]
<1>1. /\ handler[c] = "accepted" /\ handler' = [handler EXCEPT ![c] = "announce"]
      /\ active' = [active EXCEPT ![c] = TRUE]
      /\ store' = [store EXCEPT ![device[c]] = c]
      /\ killer' = IF prev = None THEN killer ELSE [killer EXCEPT !["takeover"][prev] = "lock"]
      /\ UNCHANGED <<device, open, mu, deadline, timer, kick, kicked, push, pushed, closer, todo, closedEvents>>
  BY Zenon DEF HandlerRegisters, HandlerMoves, storeRegister, kickVars, pushVars, closeVars
<1>2. /\ handler \in [Conn -> {"free", "spawned", "gone"} \cup Counted]
      /\ active \in [Conn -> BOOLEAN] /\ store \in [Device -> Conn \cup {None}]
      /\ killer \in [Role -> [Conn -> {"off", "lock", "write", "close", "done"}]]
  BY Zenon DEF ServerInv, TypeOK
<1>3. device[c] \in Device /\ ~WasRegistered(c) /\ handler[c] \notin Registered /\ ~timer[c]
  BY <1>1, Zenon DEF ServerInv, ConnFacts, ConnFact, WasRegistered, Registered, InLoop
<1>4. prev \in Conn \cup {None} /\ "takeover" \in Role
  BY <1>2, <1>3, Zenon DEF Role
<1>5. None \notin Conn
  BY ServerAssumption, Zenon
<1>6. \A d \in Device : store[d] # c
  BY <1>3, Zenon DEF ServerInv, StoreEntriesServed
<1>7. /\ handler' \in [Conn -> {"free", "spawned", "gone"} \cup Counted]
      /\ handler'[c] = "announce" /\ \A e \in Conn \ {c} : handler'[e] = handler[e]
  BY <1>1, <1>2, Zenon DEF Counted, Registered
<1>8. active' \in [Conn -> BOOLEAN] /\ active'[c] /\ \A e \in Conn \ {c} : active'[e] = active[e]
  BY <1>1, <1>2, Zenon
<1>9. /\ store' \in [Device -> Conn \cup {None}]
      /\ \A d \in Device : store'[d] = IF d = device[c] THEN c ELSE store[d]
  BY <1>1, <1>2, <1>3, Zenon
<1>10. /\ killer' \in [Role -> [Conn -> {"off", "lock", "write", "close", "done"}]]
       /\ \A r \in Role, e \in Conn :
            killer'[r][e] = IF r = "takeover" /\ e = prev THEN "lock" ELSE killer[r][e]
  <2>1. CASE prev = None
    BY <1>1, <1>2, <1>5, <2>1, Zenon
  <2>2. CASE prev \in Conn
    <3> HIDE DEF prev
    <3>1. killer' = [killer EXCEPT !["takeover"][prev] = "lock"]
      BY <1>1, <1>5, <2>2, Zenon
    <3> QED
      BY <1>2, <1>4, <2>2, <3>1, Zenon
  <2> QED
    BY <1>4, <2>1, <2>2, Zenon
<1>11. TypeOK'
  BY <1>1, <1>7, <1>8, <1>9, <1>10, Zenon DEF ServerInv, TypeOK
<1>12. WasRegistered(c)' /\ \A e \in Conn \ {c} : WasRegistered(e)' <=> WasRegistered(e)
  BY <1>1, <1>3, <1>7, Zenon DEF WasRegistered, Registered
<1>13. prev \in Conn => WasRegistered(prev) /\ prev # c
  BY <1>3, <1>6, Zenon DEF ServerInv, StoreEntriesServed, WasRegistered
<1>14. StoreEntriesServed'
  BY <1>1, <1>3, <1>5, <1>7, <1>9 DEF ServerInv, StoreEntriesServed, Registered
<1>15. LatestSessionReachable'
  <2> SUFFICES ASSUME NEW e \in Conn, handler'[e] \in Registered, active'[e],
                      killer'["takeover"][e] = "off"
               PROVE  store'[device[e]] = e
    BY <1>1, Zenon DEF LatestSessionReachable
  <2>1. CASE e = c
    BY <1>3, <1>9, <2>1, Zenon
  <2>2. CASE e # c
    <3>1. handler[e] \in Registered /\ active[e] /\ killer["takeover"][e] = "off" /\ e # prev
      BY <1>4, <1>7, <1>8, <1>10, <2>2
    <3>2. store[device[e]] = e /\ device[e] \in Device
      BY <3>1, Zenon DEF ServerInv, LatestSessionReachable, ConnFacts, ConnFact
    <3> QED
      BY <1>9, <3>1, <3>2, Zenon
  <2> QED
    BY <2>1, <2>2, Zenon
<1>16. NothingLeftBehind'
  BY <1>1, <1>7, <1>8, Zenon DEF ServerInv, NothingLeftBehind
<1>17. ClosedReported'
  <2>1. ~(closedEvents[c] > 0)
    BY <1>3, Zenon DEF ServerInv, ConnFacts, ConnFact
  <2> QED
    BY <1>1, <1>7, <1>8, <1>9, <1>12, <2>1 DEF ServerInv, ClosedReported
<1>18. ConnFacts'
  BY <1>1, <1>3, <1>7, <1>8, <1>12 DEF ServerInv, ConnFacts, ConnFact, Registered
<1>19. KillerFacts'
  <2>1. ASSUME NEW r \in Role, NEW e \in Conn
        PROVE  /\ killer'[r][e] # "off" => WasRegistered(e)'
               /\ killer'[r][e] = "done" => ~active'[e]
    <3>1. /\ killer[r][e] # "off" => WasRegistered(e)
          /\ killer[r][e] = "done" => ~active[e]
      BY Zenon DEF ServerInv, KillerFacts
    <3>2. CASE e = prev
      <4>1. WasRegistered(e)' /\ active'[e] = active[e]
        BY <1>8, <1>12, <1>13, <3>2, Zenon
      <4> QED
        BY <1>10, <3>1, <4>1, Zenon
    <3>3. CASE e # prev
      <4>1. killer'[r][e] = killer[r][e]
        BY <1>10, <3>3, Zenon
      <4>2. CASE e = c
        BY <1>3, <3>1, <4>1, <4>2, Zenon
      <4>3. CASE e # c
        BY <1>8, <1>12, <3>1, <4>1, <4>3, Zenon
      <4> QED
        BY <4>2, <4>3, Zenon
    <3> QED
      BY <3>2, <3>3, Zenon
  <2> QED
    BY <1>1, <1>12, <2>1, Zenon DEF ServerInv, TypeOK, KillerFacts
<1>20. CallerFacts'
  <2>1. ASSUME NEW k \in Kickers, kick[k] = "notify"
        PROVE  /\ WasRegistered(kicked[k])' /\ ~active'[kicked[k]]
               /\ \A d \in Device : store'[d] # kicked[k]
    <3>1. PICK e \in Conn : e = kicked[k]
      BY <2>1, Zenon DEF ServerInv, CallerFacts
    <3>2. WasRegistered(e) /\ ~active[e] /\ \A d \in Device : store[d] # e
      BY <2>1, <3>1, Zenon DEF ServerInv, CallerFacts
    <3>3. e # c /\ WasRegistered(e)' /\ ~active'[e] /\ \A d \in Device : store'[d] # e
      BY <1>3, <1>8, <1>9, <1>12, <3>2
    <3> QED
      BY <1>1, <3>1, <3>3, Zenon DEF WasRegistered
  <2>2. \A k \in Kickers : kick[k] # "idle" => kicked[k] \in Conn
    BY Zenon DEF ServerInv, CallerFacts
  <2>3. \A p \in Pushers : push[p] # "idle" => pushed[p] \in Conn
    BY Zenon DEF ServerInv, CallerFacts
  <2> QED
    BY <1>1, <2>1, <2>2, <2>3, Zenon DEF CallerFacts, WasRegistered
<1> QED
  BY <1>11, <1>14, <1>15, <1>16, <1>17, <1>18, <1>19, <1>20, Zenon DEF ServerInv

(* The deferred store.Remove of a handler. *)
LEMMA HandlerRemovesStep ==
  ASSUME ServerInv, NEW c \in Conn, HandlerRemoves(c)
  PROVE  ServerInv'
<1>1. /\ handler[c] = "removing" /\ handler' = [handler EXCEPT ![c] = "notifying"]
      /\ store' = [store EXCEPT ![device[c]] = IF @ = c THEN None ELSE @]
      /\ UNCHANGED <<device, active, open, mu, deadline, timer, killer, kick, kicked, push, pushed, closer, todo,
                     closedEvents>>
  BY Zenon DEF HandlerRemoves, HandlerMoves, storeRemove, connVars, kickVars, pushVars, closeVars
<1>2. handler \in [Conn -> {"free", "spawned", "gone"} \cup Counted] /\ store \in [Device -> Conn \cup {None}]
  BY Zenon DEF ServerInv, TypeOK
<1>3. device[c] \in Device /\ ~active[c] /\ WasRegistered(c) /\ ~open[c] /\ ~timer[c]
  BY <1>1, Zenon DEF ServerInv, ConnFacts, ConnFact, WasRegistered, Registered, InLoop
<1>4. None \notin Conn
  BY ServerAssumption, Zenon
<1>5. /\ handler' \in [Conn -> {"free", "spawned", "gone"} \cup Counted]
      /\ handler'[c] = "notifying" /\ \A e \in Conn \ {c} : handler'[e] = handler[e]
  BY <1>1, <1>2, Zenon DEF Counted
<1>6. store' \in [Device -> Conn \cup {None}]
  BY <1>1, <1>2, <1>3, Zenon
<1>7. \A d \in Device : store'[d] = IF store[d] = c THEN None ELSE store[d]
  BY <1>1, <1>2, <1>3, Zenon DEF ServerInv, StoreEntriesServed
<1>8. TypeOK'
  BY <1>1, <1>5, <1>6, Zenon DEF ServerInv, TypeOK
<1>9. \A e \in Conn : WasRegistered(e)' <=> WasRegistered(e)
  BY <1>1, <1>3, <1>5, Zenon DEF WasRegistered
<1>10. StoreEntriesServed'
  BY <1>1, <1>4, <1>5, <1>7 DEF ServerInv, StoreEntriesServed
<1>11. LatestSessionReachable'
  <2> SUFFICES ASSUME NEW e \in Conn, handler'[e] \in Registered, active[e], killer["takeover"][e] = "off"
               PROVE  store'[device[e]] = e
    BY <1>1, Zenon DEF LatestSessionReachable
  <2>1. e # c /\ handler[e] \in Registered
    BY <1>3, <1>5, Zenon
  <2>2. store[device[e]] = e /\ device[e] \in Device
    BY <2>1, Zenon DEF ServerInv, LatestSessionReachable, ConnFacts, ConnFact
  <2> QED
    BY <1>7, <2>1, <2>2, Zenon
<1>12. NothingLeftBehind'
  BY <1>1, <1>5, Zenon DEF ServerInv, NothingLeftBehind
<1>13. ClosedReported'
  <2>1. ASSUME NEW e \in Conn, closedEvents[e] > 0
        PROVE  ~active[e] /\ \A d \in Device : store'[d] # e
    BY <1>4, <1>7, <2>1, Zenon DEF ServerInv, ClosedReported
  <2>2. ASSUME NEW e \in Conn, handler'[e] = "gone", WasRegistered(e)'
        PROVE  closedEvents[e] > 0
    BY <1>5, <1>9, <2>2, Zenon DEF ServerInv, ClosedReported
  <2> QED
    BY <1>1, <2>1, <2>2, Zenon DEF ClosedReported
<1>14. ConnFacts'
  BY <1>1, <1>3, <1>5, <1>9, Zenon DEF ServerInv, ConnFacts, ConnFact, Registered, InLoop
<1>15. KillerFacts'
  BY <1>1, <1>9, Zenon DEF ServerInv, TypeOK, KillerFacts
<1>16. CallerFacts'
  <2>1. ASSUME NEW k \in Kickers, kick[k] = "notify"
        PROVE  /\ WasRegistered(kicked[k])' /\ ~active[kicked[k]]
               /\ \A d \in Device : store'[d] # kicked[k]
    <3>1. PICK e \in Conn : e = kicked[k]
      BY <2>1, Zenon DEF ServerInv, CallerFacts
    <3>2. WasRegistered(e) /\ ~active[e] /\ \A d \in Device : store[d] # e
      BY <2>1, <3>1, Zenon DEF ServerInv, CallerFacts
    <3>3. WasRegistered(e)' /\ \A d \in Device : store'[d] # e
      BY <1>4, <1>7, <1>9, <3>2, Zenon
    <3> QED
      BY <1>1, <3>1, <3>2, <3>3, Zenon DEF WasRegistered
  <2>2. \A k \in Kickers : kick[k] # "idle" => kicked[k] \in Conn
    BY Zenon DEF ServerInv, CallerFacts
  <2>3. \A p \in Pushers : push[p] # "idle" => pushed[p] \in Conn
    BY Zenon DEF ServerInv, CallerFacts
  <2> QED
    BY <1>1, <2>1, <2>2, <2>3, Zenon DEF CallerFacts, WasRegistered
<1> QED
  BY <1>8, <1>10, <1>11, <1>12, <1>13, <1>14, <1>15, <1>16, Zenon DEF ServerInv

(* No step of a handler, a killer, a timer or a caller breaks ServerInv. *)
LEMMA ServerStep == ServerInv /\ [Next]_vars => ServerInv'
<1> SUFFICES ASSUME ServerInv, [Next]_vars
             PROVE  ServerInv'
  BY Zenon
<1>1. ASSUME NEW c \in Conn, HandlerRuns(c) \/ ClientActs(c) \/ Accept(c) \/ TimerFires(c) \/ DeadlineExpires(c)
      PROVE  ServerInv'
  BY <1>1, HandlerMovesOnly, HandshakeStep, HandlerRegistersStep, HandlerRemovesStep, HandlerEndsStep,
     TimerStep, QuietStep, Zenon
     DEF HandlerRuns, ClientActs, WriteReject, ReadEnds
<1>2. ASSUME NEW r \in Role, NEW c \in Conn, KillerRuns(r, c)
      PROVE  ServerInv'
  BY <1>2, KillerSends, KillerClosesStep, Zenon DEF KillerRuns
<1>3. ASSUME NEW k \in Kickers, KickRuns(k) \/ \E d \in Device : Kick(k, d)
      PROVE  ServerInv'
  BY <1>3, KickStep, KickRemovesStep, KickNotifiesStep, Zenon DEF KickRuns
<1>4. ASSUME NEW p \in Pushers, PushRuns(p) \/ \E d \in Device : Push(p, d)
      PROVE  ServerInv'
  BY <1>4, PushStep, Zenon DEF PushRuns
<1>5. ASSUME CloserRuns \/ Close \/ UNCHANGED vars
      PROVE  ServerInv'
  BY <1>5, CloseTakesAllStep, CloseConnsStep, CloseNextSessionStep, QuietStep, Zenon DEF CloserRuns
<1> QED
  BY <1>1, <1>2, <1>3, <1>4, <1>5, Zenon DEF Next, Runs

(* ServerInv holds in every reachable state of the server.                  *)
THEOREM ServerInvariant == Spec => []ServerInv
<1>1. ASSUME Init
      PROVE  ServerInv
  <2>1. TypeOK
    BY <1>1, Zenon DEF Init, TypeOK, Counted
  <2>2. StoreEntriesServed /\ LatestSessionReachable /\ NothingLeftBehind
    BY <1>1, ServerAssumption, Zenon
       DEF Init, StoreEntriesServed, LatestSessionReachable, NothingLeftBehind, Registered, InLoop
  <2>3. ClosedReported /\ ConnFacts
    BY <1>1 DEF Init, ClosedReported, ConnFacts, ConnFact, Registered, InLoop
  <2>4. KillerFacts /\ CallerFacts
    BY <1>1, Zenon DEF Init, KillerFacts, CallerFacts
  <2> QED
    BY <2>1, <2>2, <2>3, <2>4, Zenon DEF ServerInv
<1> QED
  BY <1>1, ServerStep, PTL DEF Spec

(* Push, Kick and Close() never get hold of a connection that nobody is     *)
(* going to remove from the store.                                          *)
THEOREM StoreEntriesServedHolds == Spec => []StoreEntriesServed
<1>1. ServerInv => StoreEntriesServed
  BY Zenon DEF ServerInv
<1> QED
  BY <1>1, ServerInvariant, PTL

(* However many takeovers, Kicks and late cleanups overlap, the last active *)
(* session of a device is the one Push and Kick reach.                      *)
THEOREM LatestSessionReachableHolds == Spec => []LatestSessionReachable
<1>1. ServerInv => LatestSessionReachable
  BY Zenon DEF ServerInv
<1> QED
  BY <1>1, ServerInvariant, PTL

(* A returned handleConnection leaves no open net.Conn and no armed timer.  *)
THEOREM NothingLeftBehindHolds == Spec => []NothingLeftBehind
<1>1. ServerInv => NothingLeftBehind
  BY Zenon DEF ServerInv
<1> QED
  BY <1>1, ServerInvariant, PTL

(* OnConnectionClosed is called for every session, and only for one that    *)
(* is closed and out of reach of Push and Kick.                             *)
THEOREM ClosedReportedHolds == Spec => []ClosedReported
<1>1. ServerInv => ClosedReported
  BY Zenon DEF ServerInv
<1> QED
  BY <1>1, ServerInvariant, PTL

-----------------------------------------------------------------------------
(* dc.mu *)

(* Who is between Lock and Unlock of dc.mu of connection c.                 *)
KillerHolds(r, c) == killer[r][c] = "write"
PushHolds(p, c) == push[p] = "write" /\ pushed[p] = c

(* dc.mu is held by exactly one killer or Push, or it is free.              *)
OneHolder(c) ==
  /\ mu[c] <=> (\E r \in Role : KillerHolds(r, c)) \/ (\E p \in Pushers : PushHolds(p, c))
  /\ \A r, s \in Role : KillerHolds(r, c) /\ KillerHolds(s, c) => r = s
  /\ \A p, q \in Pushers : PushHolds(p, c) /\ PushHolds(q, c) => p = q
  /\ \A r \in Role, p \in Pushers : ~(KillerHolds(r, c) /\ PushHolds(p, c))

MutexHeld == \A c \in Conn : OneHolder(c)

(* The write of its holder is under a deadline.                             *)
WriteTimed == \A c \in Conn : mu[c] /\ open[c] => deadline[c] # "none"

(* A session is taken over at most once: no goroutine that is already       *)
(* between Lock and Unlock is started again.                                *)
TakenOver == \A c \in Conn, d \in Device : store[d] = c => killer["takeover"][c] = "off"

MutexInv == MutexHeld /\ WriteTimed /\ TakenOver

(* Steps by which nobody takes or releases dc.mu.                           *)
LEMMA MutexFrame ==
  ASSUME MutexInv, UNCHANGED mu, TakenOver',
         \A r \in Role, c \in Conn : KillerHolds(r, c)' <=> KillerHolds(r, c),
         \A p \in Pushers, c \in Conn : PushHolds(p, c)' <=> PushHolds(p, c),
         \A c \in Conn : open'[c] => open[c] /\ (deadline[c] # "none" => deadline'[c] # "none")
  PROVE  MutexInv'
<1>1. MutexHeld'
  BY Zenon DEF MutexInv, MutexHeld, OneHolder
<1>2. WriteTimed'
  BY Zenon DEF MutexInv, WriteTimed
<1> QED
  BY <1>1, <1>2, Zenon DEF MutexInv

(* Closing connections leaves the deadlines of the open ones alone.         *)
LEMMA NetCloseTimed ==
  ASSUME TypeOK, NEW cs, netClose(cs)
  PROVE  \A c \in Conn : open'[c] => open[c] /\ (deadline[c] # "none" => deadline'[c] # "none")
<1> SUFFICES ASSUME NEW c \in Conn, open'[c]
             PROVE  open[c] /\ (deadline[c] # "none" => deadline'[c] # "none")
  BY Zenon
<1>1. open'[c] = (open[c] /\ c \notin cs) /\ deadline'[c] = IF c \in cs THEN "none" ELSE deadline[c]
  BY Zenon DEF netClose
<1> QED
  BY <1>1, Zenon

(* Somebody takes the free dc.mu of c and sets the write deadline.          *)
LEMMA MutexTaken ==
  ASSUME MutexInv, NEW c \in Conn, TakenOver', UNCHANGED open,
         \A r \in Role : ~KillerHolds(r, c), \A p \in Pushers : ~PushHolds(p, c),
         mu'[c], open[c] => deadline'[c] = "set",
         \A e \in Conn \ {c} : mu'[e] = mu[e] /\ deadline'[e] = deadline[e],
         \/ /\ \E s \in Role : \A r \in Role, e \in Conn :
                 KillerHolds(r, e)' <=> KillerHolds(r, e) \/ (r = s /\ e = c)
            /\ \A p \in Pushers, e \in Conn : PushHolds(p, e)' <=> PushHolds(p, e)
         \/ /\ \E q \in Pushers : \A p \in Pushers, e \in Conn :
                 PushHolds(p, e)' <=> PushHolds(p, e) \/ (p = q /\ e = c)
            /\ \A r \in Role, e \in Conn : KillerHolds(r, e)' <=> KillerHolds(r, e)
  PROVE  MutexInv'
<1>1. WriteTimed'
  BY Zenon DEF MutexInv, WriteTimed
<1>2. MutexHeld'
  <2> SUFFICES ASSUME NEW e \in Conn PROVE OneHolder(e)'
    BY Zenon DEF MutexHeld
  <2>1. CASE e = c
    BY <2>1, Zenon DEF OneHolder
  <2>2. CASE e # c
    BY <2>2, Zenon DEF MutexInv, MutexHeld, OneHolder
  <2> QED
    BY <2>1, <2>2, Zenon
<1> QED
  BY <1>1, <1>2, Zenon DEF MutexInv

(* The holder of dc.mu of c releases it.                                    *)
LEMMA MutexReleased ==
  ASSUME MutexInv, NEW c \in Conn, TakenOver', UNCHANGED <<open, deadline>>,
         \A r \in Role : ~KillerHolds(r, c)', \A p \in Pushers : ~PushHolds(p, c)', ~mu'[c],
         \A e \in Conn \ {c} :
           /\ mu'[e] = mu[e]
           /\ \A r \in Role : KillerHolds(r, e)' <=> KillerHolds(r, e)
           /\ \A p \in Pushers : PushHolds(p, e)' <=> PushHolds(p, e)
  PROVE  MutexInv'
<1>1. WriteTimed'
  BY Zenon DEF MutexInv, WriteTimed
<1>2. MutexHeld'
  <2> SUFFICES ASSUME NEW e \in Conn PROVE OneHolder(e)'
    BY Zenon DEF MutexHeld
  <2>1. CASE e = c
    BY <2>1, Zenon DEF OneHolder
  <2>2. CASE e # c
    BY <2>2, Zenon DEF MutexInv, MutexHeld, OneHolder
  <2> QED
    BY <2>1, <2>2, Zenon
<1> QED
  BY <1>1, <1>2, Zenon DEF MutexInv

(* A handler's steps, the passing of time and the steps of Close() that     *)
(* tear nothing down hold no dc.mu.                                         *)
LEMMA MutexBystanders ==
  ASSUME ServerInv, MutexInv,
         \/ \E c \in Conn :
              \/ HandlerCounts(c) \/ HandlerTracks(c) \/ HandlerAnnounces(c) \/ WritePong(c) \/ WriteReject(c)
              \/ HandshakeFails(c) \/ ReadEnds(c) \/ HandlerCloses(c) \/ HandlerRemoves(c) \/ HandlerLeaves(c)
              \/ (\E d \in Device : HandshakeAccepted(c, d)) \/ ReadPush(c) \/ ReadPing(c) \/ ReadBad(c)
              \/ Accept(c) \/ DeadlineExpires(c)
         \/ \E k \in Kickers : KickNotifies(k)
         \/ CloseTakesAll \/ CloseSessionsDone \/ CloseConns \/ CloseReturns \/ Close \/ UNCHANGED vars
  PROVE  MutexInv'
<1> USE DEF connVars, kickVars, pushVars, closeVars, vars, LeaveLoop
<1>1. UNCHANGED <<mu, killer, push, pushed>>
  BY Zenon DEF HandlerCounts, HandlerTracks, HandlerAnnounces, WritePong, WriteReject, HandshakeFails, ReadEnds,
       HandlerCloses, HandlerRemoves, HandlerLeaves, HandshakeAccepted, ReadPush, ReadPing, ReadBad, Accept,
       DeadlineExpires, KickNotifies, CloseTakesAll, CloseSessionsDone, CloseConns, CloseReturns, Close, dcClose
<1>2. \/ UNCHANGED store
      \/ \E d, c : store' = [store EXCEPT ![d] = IF @ = c THEN None ELSE @]
  BY Zenon DEF HandlerCounts, HandlerTracks, HandlerAnnounces, WritePong, WriteReject, HandshakeFails, ReadEnds,
       HandlerCloses, HandlerRemoves, HandlerLeaves, HandshakeAccepted, ReadPush, ReadPing, ReadBad, Accept,
       DeadlineExpires, KickNotifies, CloseTakesAll, CloseSessionsDone, CloseConns, CloseReturns, Close, storeRemove
<1>3. TakenOver'
  <2>1. store \in [Device -> Conn \cup {None}] /\ TakenOver
    BY Zenon DEF ServerInv, TypeOK, MutexInv
  <2>2. \A d \in Device : store'[d] = store[d] \/ store'[d] = None
    BY <1>2, <2>1
  <2> QED
    BY <1>1, <2>1, <2>2, ServerAssumption, Zenon DEF TakenOver
<1>4. \/ UNCHANGED <<open, deadline>>
      \/ \E cs : netClose(cs)
      \/ \E c \in Conn : DeadlineExpires(c)
  BY Zenon DEF HandlerCounts, HandlerTracks, HandlerAnnounces, WritePong, WriteReject, HandshakeFails, ReadEnds,
       HandlerCloses, HandlerRemoves, HandlerLeaves, HandshakeAccepted, ReadPush, ReadPing, ReadBad, Accept,
       KickNotifies, CloseTakesAll, CloseSessionsDone, CloseConns, CloseReturns, Close, dcClose
<1>5. \A c \in Conn : open'[c] => open[c] /\ (deadline[c] # "none" => deadline'[c] # "none")
  <2>1. CASE UNCHANGED <<open, deadline>>
    BY <2>1, Zenon
  <2>2. CASE \E cs : netClose(cs)
    BY <2>2, NetCloseTimed, Zenon DEF ServerInv
  <2>3. CASE \E c \in Conn : DeadlineExpires(c)
    <3>1. deadline \in [Conn -> {"none", "set", "expired"}]
      BY Zenon DEF ServerInv, TypeOK
    <3> QED
      BY <2>3, <3>1, Zenon DEF DeadlineExpires
  <2> QED
    BY <1>4, <2>1, <2>2, <2>3, Zenon
<1> QED
  BY <1>1, <1>3, <1>5, MutexFrame, Zenon DEF KillerHolds, PushHolds

(* A takeover, a timer, Kick and Close() only start killers.                *)
LEMMA MutexKillersStart ==
  ASSUME ServerInv, MutexInv,
         \/ \E c \in Conn : HandlerRegisters(c) \/ TimerFires(c) \/ CloseNextSession(c)
         \/ \E k \in Kickers : KickRemoves(k) \/ \E d \in Device : Kick(k, d)
  PROVE  MutexInv'
<1> USE DEF connVars, kickVars, pushVars, closeVars
<1>0. /\ killer \in [Role -> [Conn -> {"off", "lock", "write", "close", "done"}]]
      /\ store \in [Device -> Conn \cup {None}] /\ TakenOver
      /\ "takeover" \in Role /\ "reaper" \in Role /\ "shutdown" \in Role /\ Kickers \subseteq Role
      /\ "takeover" \notin Kickers
  BY ServerAssumption, Zenon DEF ServerInv, TypeOK, MutexInv, Role
<1>1. UNCHANGED <<mu, open, deadline, push, pushed>>
  BY Zenon DEF HandlerRegisters, TimerFires, CloseNextSession, KickRemoves, Kick
<1>2. ASSUME NEW c \in Conn, HandlerRegisters(c)
      PROVE  MutexInv'
  <2> DEFINE prev == store[device[c]]
  <2>1. /\ device[c] \in Device /\ handler[c] = "accepted" /\ ~WasRegistered(c)
        /\ store' = [store EXCEPT ![device[c]] = c]
        /\ killer' = IF prev = None THEN killer ELSE [killer EXCEPT !["takeover"][prev] = "lock"]
    BY <1>2, Zenon DEF HandlerRegisters, HandlerMoves, storeRegister, ServerInv, ConnFacts, ConnFact, WasRegistered,
         Registered, InLoop
  <2>2. /\ killer["takeover"][c] = "off" /\ prev # c
        /\ prev # None => prev \in Conn /\ killer["takeover"][prev] = "off"
    <3>1. killer["takeover"][c] = "off"
      BY <1>0, <2>1, Zenon DEF ServerInv, KillerFacts
    <3>2. handler[c] \notin Registered
      BY <2>1, Zenon DEF Registered, InLoop
    <3>3. prev = c => handler[c] \in Registered
      BY <2>1, Zenon DEF ServerInv, StoreEntriesServed
    <3>4. prev # None => prev \in Conn
      BY <1>0, <2>1
    <3>5. prev # None => killer["takeover"][prev] = "off"
      BY <1>0, <2>1, <3>4, Zenon DEF TakenOver
    <3> QED
      BY <3>1, <3>2, <3>3, <3>4, <3>5, Zenon
  <2>3. \A r \in Role, e \in Conn :
          killer'[r][e] = IF prev # None /\ r = "takeover" /\ e = prev THEN "lock" ELSE killer[r][e]
    BY <1>0, <2>1, <2>2, Zenon
  <2>4. TakenOver'
    <3> SUFFICES ASSUME NEW e \in Conn, NEW d \in Device, store'[d] = e
                 PROVE  killer'["takeover"][e] = "off"
      BY Zenon DEF TakenOver
    <3>1. CASE d = device[c]
      BY <1>0, <2>1, <2>2, <2>3, <3>1, Zenon
    <3>2. CASE d # device[c]
      <4>1. store[d] = e /\ device[e] = d
        BY <1>0, <2>1, <3>2, Zenon DEF ServerInv, StoreEntriesServed
      <4>2. prev # None => device[prev] = device[c]
        BY <2>1, <2>2, Zenon DEF ServerInv, StoreEntriesServed
      <4> QED
        BY <1>0, <2>3, <3>2, <4>1, <4>2, Zenon DEF TakenOver
    <3> QED
      BY <3>1, <3>2, Zenon
  <2>5. \A r \in Role, e \in Conn : KillerHolds(r, e)' <=> KillerHolds(r, e)
    BY <2>2, <2>3, Zenon DEF KillerHolds
  <2> QED
    BY <1>1, <2>4, <2>5, MutexFrame, Zenon DEF PushHolds
<1>3. ASSUME NEW r \in Role \ {"takeover"}, NEW c \in Conn, killer[r][c] # "write", NEW to \in {"lock", "off"},
             killer' = [killer EXCEPT ![r][c] = to],
             \A d \in Device : store'[d] = store[d] \/ store'[d] = None
      PROVE  MutexInv'
  <2>1. \A s \in Role, e \in Conn : killer'[s][e] = IF s = r /\ e = c THEN to ELSE killer[s][e]
    BY <1>0, <1>3, Zenon
  <2>2. TakenOver'
    <3>1. \A e \in Conn : killer'["takeover"][e] = killer["takeover"][e]
      BY <1>0, <1>3, <2>1
    <3>2. \A d \in Device, e \in Conn : store'[d] = e => store[d] = e
      BY <1>3, ServerAssumption, Zenon
    <3>3. TakenOver
      BY <1>0, Zenon
    <3> QED
      BY <3>1, <3>2, <3>3, Zenon DEF TakenOver
  <2>3. \A s \in Role, e \in Conn : KillerHolds(s, e)' <=> KillerHolds(s, e)
    <3>1. to # "write"
      BY <1>3
    <3> QED
      BY <1>3, <2>1, <3>1 DEF KillerHolds
  <2> QED
    BY <1>1, <2>2, <2>3, MutexFrame, Zenon DEF PushHolds
<1>4. ASSUME NEW c \in Conn, TimerFires(c) \/ CloseNextSession(c)
      PROVE  MutexInv'
  <2>1. CASE TimerFires(c)
    <3>1. killer["reaper"][c] = "off" /\ killer' = [killer EXCEPT !["reaper"][c] = "lock"] /\ UNCHANGED store
      BY <2>1, Zenon DEF TimerFires, KillerMoves
    <3> QED
      BY <1>0, <1>3, <3>1, Zenon
  <2>2. CASE CloseNextSession(c)
    <3>1. killer["shutdown"][c] = "off" /\ killer' = [killer EXCEPT !["shutdown"][c] = "lock"] /\ UNCHANGED store
      BY <2>2, Zenon DEF CloseNextSession, ShutdownIdle
    <3> QED
      BY <1>0, <1>3, <3>1, Zenon
  <2> QED
    BY <1>4, <2>1, <2>2, Zenon
<1>5. ASSUME NEW k \in Kickers, KickRemoves(k) \/ \E d \in Device : Kick(k, d)
      PROVE  MutexInv'
  <2>1. CASE KickRemoves(k)
    <3>1. /\ kicked[k] \in Conn /\ killer[k][kicked[k]] = "done"
          /\ killer' = [killer EXCEPT ![k][kicked[k]] = "off"]
      BY <2>1, Zenon DEF KickRemoves, KillerMoves, ServerInv, CallerFacts
    <3>2. \A d \in Device : store'[d] = store[d] \/ store'[d] = None
      <4>1. \E d, c : store' = [store EXCEPT ![d] = IF @ = c THEN None ELSE @]
        BY <2>1, Zenon DEF KickRemoves, storeRemove
      <4> QED
        BY <1>0, <4>1
    <3> QED
      BY <1>0, <1>3, <3>1, <3>2, Zenon
  <2>2. ASSUME NEW d \in Device, Kick(k, d)
        PROVE  MutexInv'
    <3>1. /\ store[d] \in Conn /\ killer[k][store[d]] = "off" /\ UNCHANGED store
          /\ killer' = [killer EXCEPT ![k][store[d]] = "lock"]
      BY <1>0, <2>2 DEF Kick, KillerMoves
    <3> QED
      BY <1>0, <1>3, <3>1, Zenon
  <2> QED
    BY <1>5, <2>1, <2>2, Zenon
<1> QED
  BY <1>2, <1>4, <1>5, Zenon

(* A killer takes dc.mu of its connection, writes and closes.               *)
LEMMA MutexKillersRun ==
  ASSUME ServerInv, MutexInv, NEW r \in Role, NEW c \in Conn, KillerRuns(r, c)
  PROVE  MutexInv'
<1>0. /\ killer \in [Role -> [Conn -> {"off", "lock", "write", "close", "done"}]]
      /\ mu \in [Conn -> BOOLEAN] /\ active \in [Conn -> BOOLEAN] /\ open \in [Conn -> BOOLEAN]
      /\ deadline \in [Conn -> {"none", "set", "expired"}]
  BY Zenon DEF ServerInv, TypeOK
<1>1. UNCHANGED <<store, push, pushed>> /\ killer[r][c] # "off"
  BY Zenon DEF KillerRuns, KillerLocks, KillerWrites, KillerCloses, KillerMoves, pushVars
<1>2. \A s \in Role, e \in Conn : killer'[s][e] = killer[s][e] \/ (s = r /\ e = c)
  <2>1. \E x : killer' = [killer EXCEPT ![r][c] = x]
    BY Zenon DEF KillerRuns, KillerLocks, KillerWrites, KillerCloses, KillerMoves
  <2>2. PICK x : killer' = [killer EXCEPT ![r][c] = x]
    BY <2>1, Zenon
  <2>3. \A s \in Role : killer'[s] = IF s = r THEN [killer[r] EXCEPT ![c] = x] ELSE killer[s]
    BY <1>0, <2>2, Zenon
  <2>4. \A e \in Conn : killer'[r][e] = IF e = c THEN x ELSE killer[r][e]
    BY <1>0, <2>3, Zenon
  <2> QED
    BY <2>3, <2>4, Zenon
<1>3. TakenOver'
  <2>1. "takeover" \in Role
    BY Zenon DEF Role
  <2> QED
    BY <1>1, <1>2, <2>1, Zenon DEF MutexInv, TakenOver
<1>4. CASE KillerLocks(r, c) /\ active[c]
  <2>1. /\ ~mu[c] /\ killer[r][c] = "lock" /\ killer' = [killer EXCEPT ![r][c] = "write"] /\ UNCHANGED open
        /\ mu' = [mu EXCEPT ![c] = active[c]]
        /\ deadline' = [deadline EXCEPT ![c] = IF active[c] /\ open[c] THEN "set" ELSE @]
    BY <1>4, Zenon DEF KillerLocks, KillerMoves, BeginWrite
  <2>2. /\ killer'[r][c] = "write" /\ mu'[c] /\ \A e \in Conn \ {c} : mu'[e] = mu[e]
        /\ open[c] => deadline'[c] = "set"
        /\ \A e \in Conn \ {c} : deadline'[e] = deadline[e]
    BY <1>0, <1>4, <2>1, Zenon
  <2>3. (\A s \in Role : ~KillerHolds(s, c)) /\ (\A p \in Pushers : ~PushHolds(p, c))
    BY <2>1, Zenon DEF MutexInv, MutexHeld, OneHolder
  <2>4. \A s \in Role, e \in Conn : KillerHolds(s, e)' <=> KillerHolds(s, e) \/ (s = r /\ e = c)
    BY <1>2, <2>2, Zenon DEF KillerHolds
  <2>5. \A p \in Pushers, e \in Conn : PushHolds(p, e)' <=> PushHolds(p, e)
    BY <1>1, Zenon DEF PushHolds
  <2> QED
    BY <1>3, <2>1, <2>2, <2>3, <2>4, <2>5, MutexTaken
<1>5. CASE (KillerLocks(r, c) /\ ~active[c]) \/ KillerCloses(r, c)
  <2>1. killer[r][c] # "write" /\ killer'[r][c] # "write"
    <3>1. CASE KillerLocks(r, c) /\ ~active[c]
      BY <1>0, <3>1, Zenon DEF KillerLocks, KillerMoves
    <3>2. CASE KillerCloses(r, c)
      BY <1>0, <3>2 DEF KillerCloses, KillerMoves
    <3> QED
      BY <1>5, <3>1, <3>2, Zenon
  <2>2. /\ UNCHANGED mu
        /\ \A e \in Conn : open'[e] => open[e] /\ (deadline[e] # "none" => deadline'[e] # "none")
    <3>1. CASE KillerLocks(r, c) /\ ~active[c]
      <4>1. /\ ~mu[c] /\ ~active[c] /\ UNCHANGED open /\ mu' = [mu EXCEPT ![c] = active[c]]
            /\ deadline' = [deadline EXCEPT ![c] = IF active[c] /\ open[c] THEN "set" ELSE @]
        BY <3>1, Zenon DEF KillerLocks, BeginWrite
      <4>2. mu[c] = active[c]
        BY <1>0, <4>1, Zenon
      <4>3. mu' = mu
        BY <1>0, <4>1, <4>2
      <4>4. deadline' = deadline
        BY <1>0, <4>1
      <4> QED
        BY <4>1, <4>3, <4>4, Zenon
    <3>2. CASE KillerCloses(r, c)
      BY <3>2, NetCloseTimed, Zenon DEF KillerCloses, dcClose, ServerInv
    <3> QED
      BY <1>5, <3>1, <3>2, Zenon
  <2>3. \A s \in Role, e \in Conn : KillerHolds(s, e)' <=> KillerHolds(s, e)
    BY <1>2, <2>1, Zenon DEF KillerHolds
  <2> QED
    BY <1>1, <1>3, <2>2, <2>3, MutexFrame, Zenon DEF PushHolds
<1>6. CASE KillerWrites(r, c)
  <2>1. /\ killer[r][c] = "write" /\ killer' = [killer EXCEPT ![r][c] = "close"] /\ UNCHANGED <<open, deadline>>
        /\ mu' = [mu EXCEPT ![c] = FALSE]
    BY <1>6, Zenon DEF KillerWrites, KillerMoves, EndWrite
  <2>2. killer'[r][c] = "close" /\ ~mu'[c] /\ \A e \in Conn \ {c} : mu'[e] = mu[e]
    BY <1>0, <2>1, Zenon
  <2>3. (\A s \in Role : ~KillerHolds(s, c)') /\ (\A p \in Pushers : ~PushHolds(p, c)')
    <3>1. KillerHolds(r, c) /\ ~KillerHolds(r, c)' /\ OneHolder(c)
      BY <2>1, <2>2, Zenon DEF KillerHolds, MutexInv, MutexHeld
    <3>2. (\A s \in Role \ {r} : ~KillerHolds(s, c)) /\ (\A p \in Pushers : ~PushHolds(p, c))
      BY <3>1, Zenon DEF OneHolder
    <3> QED
      BY <1>1, <1>2, <3>1, <3>2, Zenon DEF KillerHolds, PushHolds
  <2>4. \A e \in Conn \ {c} : \A s \in Role : KillerHolds(s, e)' <=> KillerHolds(s, e)
    BY <1>2, Zenon DEF KillerHolds
  <2>5. \A e \in Conn \ {c} : \A p \in Pushers : PushHolds(p, e)' <=> PushHolds(p, e)
    BY <1>1, Zenon DEF PushHolds
  <2> QED
    BY <1>3, <2>1, <2>2, <2>3, <2>4, <2>5, MutexReleased, Zenon
<1> QED
  BY <1>4, <1>5, <1>6, Zenon DEF KillerRuns

(* A Push takes dc.mu of the connection it found, writes and returns.       *)
LEMMA MutexPushes ==
  ASSUME ServerInv, MutexInv, NEW p \in Pushers, PushRuns(p) \/ \E d \in Device : Push(p, d)
  PROVE  MutexInv'
<1>c. PICK c : c = pushed[p]
  BY Zenon
<1>0. /\ mu \in [Conn -> BOOLEAN] /\ active \in [Conn -> BOOLEAN] /\ open \in [Conn -> BOOLEAN]
      /\ deadline \in [Conn -> {"none", "set", "expired"}]
      /\ push \in [Pushers -> {"idle", "lock", "write"}] /\ pushed \in [Pushers -> Conn \cup {None}]
      /\ push[p] # "idle" => c \in Conn
  BY <1>c, Zenon DEF ServerInv, TypeOK, CallerFacts
<1>1. UNCHANGED <<store, killer, open>>
  BY Zenon DEF PushRuns, PushLocks, PushWrites, Push, BeginWrite, EndWrite, connVars
<1>2. \A q \in Pushers \ {p} : push'[q] = push[q] /\ pushed'[q] = pushed[q]
  <2>1. (\E x : push' = [push EXCEPT ![p] = x]) /\ (UNCHANGED pushed \/ \E x : pushed' = [pushed EXCEPT ![p] = x])
    BY Zenon DEF PushRuns, PushLocks, PushWrites, Push, PushReturns
  <2> QED
    BY <1>0, <2>1, Zenon
<1>3. TakenOver'
  BY <1>1, Zenon DEF MutexInv, TakenOver
<1>4. CASE PushLocks(p) /\ active[c]
  <2>1. /\ push[p] = "lock" /\ ~mu[c] /\ push' = [push EXCEPT ![p] = "write"] /\ UNCHANGED pushed
        /\ mu' = [mu EXCEPT ![c] = active[c]]
        /\ deadline' = [deadline EXCEPT ![c] = IF active[c] /\ open[c] THEN "set" ELSE @]
    BY <1>c, <1>4, Zenon DEF PushLocks, BeginWrite
  <2>a. c \in Conn
    BY <1>0, <2>1, Zenon
  <2>2. /\ push'[p] = "write" /\ mu'[c] /\ \A e \in Conn \ {c} : mu'[e] = mu[e]
        /\ open[c] => deadline'[c] = "set"
        /\ \A e \in Conn \ {c} : deadline'[e] = deadline[e]
    BY <1>0, <1>4, <2>1, <2>a, Zenon
  <2>3. (\A s \in Role : ~KillerHolds(s, c)) /\ (\A q \in Pushers : ~PushHolds(q, c))
    BY <2>1, <2>a, Zenon DEF MutexInv, MutexHeld, OneHolder
  <2>4. \A q \in Pushers, e \in Conn : PushHolds(q, e)' <=> PushHolds(q, e) \/ (q = p /\ e = c)
    BY <1>c, <1>2, <2>1, <2>2, Zenon DEF PushHolds
  <2>5. \A s \in Role, e \in Conn : KillerHolds(s, e)' <=> KillerHolds(s, e)
    BY <1>1, Zenon DEF KillerHolds
  <2> QED
    BY <1>1, <1>3, <2>a, <2>2, <2>3, <2>4, <2>5, MutexTaken
<1>5. CASE (PushLocks(p) /\ ~active[c]) \/ \E d \in Device : Push(p, d)
  <2>1. push[p] # "write" /\ push'[p] # "write"
    <3>1. CASE PushLocks(p) /\ ~active[c]
      BY <1>c, <1>0, <3>1, Zenon DEF PushLocks, PushReturns
    <3>2. CASE \E d \in Device : Push(p, d)
      BY <1>0, <3>2, Zenon DEF Push
    <3> QED
      BY <1>5, <3>1, <3>2, Zenon
  <2>2. UNCHANGED <<mu, deadline>>
    <3>1. CASE PushLocks(p) /\ ~active[c]
      <4>1. /\ ~mu[c] /\ ~active[c] /\ push[p] = "lock" /\ mu' = [mu EXCEPT ![c] = active[c]]
            /\ deadline' = [deadline EXCEPT ![c] = IF active[c] /\ open[c] THEN "set" ELSE @]
        BY <1>c, <3>1, Zenon DEF PushLocks, BeginWrite
      <4>2. c \in Conn
        BY <1>0, <4>1, Zenon
      <4>3. mu[c] = active[c]
        BY <1>0, <4>1, <4>2
      <4>4. mu' = mu
        BY <1>0, <4>1, <4>2, <4>3
      <4>5. deadline' = deadline
        BY <1>0, <4>1, <4>2
      <4> QED
        BY <4>4, <4>5, Zenon
    <3>2. CASE \E d \in Device : Push(p, d)
      BY <3>2, Zenon DEF Push, connVars
    <3> QED
      BY <1>5, <3>1, <3>2, Zenon
  <2>3. \A q \in Pushers, e \in Conn : PushHolds(q, e)' <=> PushHolds(q, e)
    BY <1>2, <2>1, Zenon DEF PushHolds
  <2> QED
    BY <1>1, <1>3, <2>2, <2>3, MutexFrame, Zenon DEF KillerHolds
<1>6. CASE PushWrites(p)
  <2>1. /\ push[p] = "write" /\ push' = [push EXCEPT ![p] = "idle"] /\ UNCHANGED deadline
        /\ mu' = [mu EXCEPT ![c] = FALSE]
    BY <1>c, <1>6, Zenon DEF PushWrites, PushReturns, EndWrite
  <2>a. c \in Conn
    BY <1>0, <2>1, Zenon
  <2>2. push'[p] = "idle" /\ ~mu'[c] /\ \A e \in Conn \ {c} : mu'[e] = mu[e]
    BY <1>0, <2>1, <2>a, Zenon
  <2>3. (\A s \in Role : ~KillerHolds(s, c)') /\ (\A q \in Pushers : ~PushHolds(q, c)')
    <3>1. PushHolds(p, c) /\ ~PushHolds(p, c)' /\ OneHolder(c)
      BY <1>c, <2>1, <2>2, <2>a, Zenon DEF PushHolds, MutexInv, MutexHeld
    <3>2. (\A s \in Role : ~KillerHolds(s, c)) /\ (\A q \in Pushers \ {p} : ~PushHolds(q, c))
      BY <3>1, Zenon DEF OneHolder
    <3> QED
      BY <1>1, <1>2, <3>1, <3>2, Zenon DEF KillerHolds, PushHolds
  <2>4. \A e \in Conn \ {c} : \A q \in Pushers : PushHolds(q, e)' <=> PushHolds(q, e)
    BY <1>c, <1>2, <2>1, <2>2, Zenon DEF PushHolds
  <2>5. \A e \in Conn \ {c} : \A s \in Role : KillerHolds(s, e)' <=> KillerHolds(s, e)
    BY <1>1, Zenon DEF KillerHolds
  <2> QED
    BY <1>1, <1>3, <2>a, <2>1, <2>2, <2>3, <2>4, <2>5, MutexReleased, Zenon
<1> QED
  BY <1>4, <1>5, <1>6, Zenon DEF PushRuns

(* Somebody holds dc.mu only while its write is bound to end: the client    *)
(* reads, the connection is closed or the write deadline is going to expire.*)
MutexNotPinned ==
  MutexHeld /\ \A c \in Conn : mu[c] => WriteReturns(c) \/ deadline[c] = "set"

(* "A stuck or slow client must not pin the connection mutex", for any      *)
(* number of killers and Pushes on a connection: at most one of them is     *)
(* between Lock and Unlock, dc.mu is locked only as long as one is, and     *)
(* that one's write is over already or a deadline is running for it.  The   *)
(* safety part of KilledSessionsEnd and PushesReturn.                       *)
THEOREM MutexNeverPinned == Spec => []MutexNotPinned
<1>1. Init => MutexInv
  <2> SUFFICES ASSUME Init PROVE MutexInv
    BY Zenon
  <2>1. /\ \A c \in Conn : ~mu[c] /\ \A r \in Role : killer[r][c] = "off"
        /\ \A p \in Pushers : push[p] = "idle"
        /\ \A d \in Device : store[d] = None
    BY Zenon DEF Init
  <2> QED
    BY <2>1, ServerAssumption, Zenon
       DEF MutexInv, MutexHeld, OneHolder, WriteTimed, TakenOver, KillerHolds, PushHolds
<1>2. ServerInv /\ MutexInv /\ [Next]_vars => MutexInv'
  <2> SUFFICES ASSUME ServerInv, MutexInv, [Next]_vars PROVE MutexInv'
    BY Zenon
  <2>1. ASSUME NEW c \in Conn, HandlerRuns(c) \/ ClientActs(c) \/ Accept(c) \/ TimerFires(c) \/ DeadlineExpires(c)
        PROVE  MutexInv'
    BY <2>1, MutexBystanders, MutexKillersStart, Zenon DEF HandlerRuns, ClientActs
  <2>2. ASSUME NEW r \in Role, NEW c \in Conn, KillerRuns(r, c)
        PROVE  MutexInv'
    BY <2>2, MutexKillersRun, Zenon
  <2>3. ASSUME NEW k \in Kickers, KickRuns(k) \/ \E d \in Device : Kick(k, d)
        PROVE  MutexInv'
    BY <2>3, MutexBystanders, MutexKillersStart, Zenon DEF KickRuns
  <2>4. ASSUME NEW p \in Pushers, PushRuns(p) \/ \E d \in Device : Push(p, d)
        PROVE  MutexInv'
    BY <2>4, MutexPushes, Zenon
  <2>5. ASSUME CloserRuns \/ Close \/ UNCHANGED vars
        PROVE  MutexInv'
    BY <2>5, MutexBystanders, MutexKillersStart, Zenon DEF CloserRuns
  <2> QED
    BY <2>1, <2>2, <2>3, <2>4, <2>5, Zenon DEF Next, Runs
<1>3. ServerInv /\ MutexInv => MutexNotPinned
  <2> SUFFICES ASSUME ServerInv, MutexInv, NEW c \in Conn, mu[c]
               PROVE  WriteReturns(c) \/ deadline[c] = "set"
    BY Zenon DEF MutexInv, MutexNotPinned
  <2>1. deadline[c] \in {"none", "set", "expired"}
    BY Zenon DEF ServerInv, TypeOK
  <2> QED
    BY <2>1, Zenon DEF MutexInv, WriteTimed, WriteReturns
<1> QED
  BY <1>1, <1>2, <1>3, ServerInvariant, PTL DEF Spec

=============================================================================
