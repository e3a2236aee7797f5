--------------------------- MODULE ServerStepProofs ---------------------------
(***************************************************************************)
(* What the callers of Kick, Push and Close(), whoever tears a connection  *)
(* down and a handler within its session do to the invariant of            *)
(* ServerSessions.                                                         *)
(***************************************************************************)
EXTENDS ServerSessions, TLAPS

(* The time a prover may spend on a leaf, in seconds. *)
USE SMTT(30), ZenonT(20)

(* What Close() of a device connection does to the connections.            *)
LEMMA CloseEffect ==
  ASSUME TypeOK, NEW c \in Conn, dcClose(c)
  PROVE  /\ active' \in [Conn -> BOOLEAN]
         /\ open' \in [Conn -> BOOLEAN]
         /\ deadline' \in [Conn -> {"none", "set", "expired"}]
         /\ \A e \in Conn : active'[e] <=> active[e] /\ e # c
         /\ \A e \in Conn : open'[e] => open[e] /\ (e = c => ~active[e])
<1> USE DEF TypeOK
<1>1. active' = [active EXCEPT ![c] = FALSE]
  BY Zenon DEF dcClose
<1>2. CASE active[c]
  <2>1. netClose({c})
    BY <1>2, Zenon DEF dcClose
  <2> QED
    BY <1>1, <2>1, Zenon DEF netClose
<1>3. CASE ~active[c]
  <2>1. netClose({})
    BY <1>3, Zenon DEF dcClose
  <2> QED
    BY <1>1, <1>3, <2>1, Zenon DEF netClose
<1> QED
  BY <1>2, <1>3, Zenon

(* Steps that leave the connections and the store alone. *)
LEMMA SessionsFrame ==
  ASSUME ServerInv, UNCHANGED <<handlerVars, active, open, timer, store, closedEvents>>
  PROVE  /\ StoreEntriesServed' /\ NothingLeftBehind' /\ ClosedReported' /\ ConnFacts'
         /\ \A c \in Conn : WasRegistered(c)' <=> WasRegistered(c)
<1> USE DEF handlerVars, WasRegistered
<1>1. StoreEntriesServed' /\ NothingLeftBehind'
  BY Zenon DEF ServerInv, StoreEntriesServed, NothingLeftBehind
<1>2. ClosedReported'
  BY Zenon DEF ServerInv, ClosedReported
<1>3. ConnFacts'
  BY Zenon DEF ServerInv, ConnFacts, ConnFact
<1> QED
  BY <1>1, <1>2, <1>3, Zenon

(* Steps that only move a Push or Close(), or touch dc.mu and deadlines. *)
LEMMA Frame ==
  ASSUME ServerInv, TypeOK',
         UNCHANGED <<handlerVars, active, open, timer, store, killer, kickVars, closedEvents, todo>>,
         \A p \in Pushers : push'[p] # "idle" => pushed'[p] \in Conn
  PROVE  ServerInv'
<1> USE DEF handlerVars, kickVars
<1>1. LatestSessionReachable'
  BY Zenon DEF ServerInv, LatestSessionReachable
<1>2. KillerFacts'
  BY Zenon DEF ServerInv, KillerFacts, WasRegistered
<1>3. CallerFacts'
  BY Zenon DEF ServerInv, CallerFacts, WasRegistered
<1> QED
  BY <1>1, <1>2, <1>3, SessionsFrame, Zenon DEF ServerInv

(* Who starts, moves or ends SendDisconnect; Close() on connections.       *)
LEMMA KillerFrame ==
  ASSUME ServerInv, TypeOK',
         UNCHANGED <<handlerVars, active, open, timer, store, closedEvents>>,
         \A r \in Role, c \in Conn :
           /\ killer'[r][c] # killer[r][c] /\ killer'[r][c] # "off" => WasRegistered(c)
           /\ killer'[r][c] = "done" => killer[r][c] = "done"
           /\ r = "takeover" /\ killer'[r][c] = "off" => killer[r][c] = "off",
         \A c \in todo' : WasRegistered(c),
         CallerFacts'
  PROVE  ServerInv'
<1> USE DEF handlerVars
<1>1. LatestSessionReachable'
  BY Zenon DEF ServerInv, LatestSessionReachable, Role
<1>2. KillerFacts'
  BY DEF ServerInv, KillerFacts, WasRegistered
<1> QED
  BY <1>1, <1>2, SessionsFrame, Zenon DEF ServerInv

(* Calls in flight keep their facts when no session changes. *)
LEMMA CallersFrame ==
  ASSUME ServerInv, UNCHANGED <<handlerVars, active, store, kickVars, pushVars>>
  PROVE  CallerFacts'
BY Zenon DEF ServerInv, CallerFacts, WasRegistered, handlerVars, kickVars, pushVars

(* SendDisconnect takes and releases dc.mu. *)
LEMMA KillerSends ==
  ASSUME ServerInv, NEW r \in Role, NEW c \in Conn, KillerLocks(r, c) \/ KillerWrites(r, c)
  PROVE  ServerInv'
<1> DEFINE to == IF killer[r][c] = "lock" /\ active[c] THEN "write" ELSE "close"
<1>1. /\ killer[r][c] \in {"lock", "write"} /\ killer' = [killer EXCEPT ![r][c] = to]
      /\ mu' \in [Conn -> BOOLEAN] /\ deadline' \in [Conn -> {"none", "set", "expired"}]
      /\ UNCHANGED <<handlerVars, active, open, timer, store, kickVars, pushVars, closeVars, closedEvents>>
  <2>1. CASE KillerLocks(r, c)
    BY <2>1, Zenon DEF KillerLocks, KillerMoves, BeginWrite, ServerInv, TypeOK
  <2>2. CASE KillerWrites(r, c)
    BY <2>2, Zenon DEF KillerWrites, KillerMoves, EndWrite, ServerInv, TypeOK
  <2> QED
    BY <2>1, <2>2, Zenon
<1>2. TypeOK'
  BY <1>1, Zenon DEF ServerInv, TypeOK, handlerVars, kickVars, pushVars, closeVars
<1>3. \A s \in Role, e \in Conn : killer'[s][e] = IF s = r /\ e = c THEN to ELSE killer[s][e]
  BY <1>1, Zenon DEF ServerInv, TypeOK
<1>4. WasRegistered(c) /\ \A e \in todo' : WasRegistered(e)
  BY <1>1, Zenon DEF ServerInv, KillerFacts, closeVars
<1> QED
  BY <1>1, <1>2, <1>3, <1>4, CallersFrame, KillerFrame

(* Close() of a device connection by a killer. *)
LEMMA KillerClosesStep ==
  ASSUME ServerInv, NEW r \in Role, NEW c \in Conn, KillerCloses(r, c)
  PROVE  ServerInv'
<1>1. /\ killer[r][c] = "close" /\ killer' \in [Role -> [Conn -> {"off", "lock", "write", "close", "done"}]]
      /\ \A s \in Role, e \in Conn : <<s, e>> # <<r, c>> => killer'[s][e] = killer[s][e]
      /\ r = "takeover" => killer'[r][c] # "off"
  BY Zenon DEF KillerCloses, KillerMoves, ServerInv, TypeOK
<1>2. /\ active' \in [Conn -> BOOLEAN] /\ open' \in [Conn -> BOOLEAN]
      /\ \A e \in Conn : (active'[e] <=> active[e] /\ e # c)
      /\ \A e \in Conn : open'[e] => open[e] /\ (e = c => ~active[e])
      /\ deadline' \in [Conn -> {"none", "set", "expired"}]
  BY CloseEffect, Zenon DEF KillerCloses, ServerInv
<1>3. UNCHANGED <<handlerVars, timer, store, kickVars, pushVars, closeVars, closedEvents, mu>>
  BY Zenon DEF KillerCloses, dcClose
<1>4. TypeOK'
  BY <1>1, <1>2, <1>3, Zenon DEF ServerInv, TypeOK, handlerVars, kickVars, pushVars, closeVars
<1>5. \A e \in Conn : WasRegistered(e)' <=> WasRegistered(e)
  BY <1>3, Zenon DEF WasRegistered, handlerVars
<1>6. StoreEntriesServed' /\ NothingLeftBehind'
  BY <1>2, <1>3, Zenon DEF ServerInv, StoreEntriesServed, NothingLeftBehind, handlerVars
<1>7. LatestSessionReachable'
  BY <1>1, <1>2, <1>3 DEF ServerInv, LatestSessionReachable, handlerVars, Role
<1>8. ClosedReported'
  BY <1>2, <1>3, <1>5, Zenon DEF ServerInv, ClosedReported, handlerVars
<1>9. ConnFacts'
  BY <1>2, <1>3, <1>5, Zenon DEF ServerInv, ConnFacts, ConnFact, handlerVars
<1>10. KillerFacts'
  <2>1. WasRegistered(c)
    BY <1>1, Zenon DEF ServerInv, KillerFacts
  <2>2. ASSUME NEW s \in Role, NEW e \in Conn
        PROVE  /\ killer'[s][e] # "off" => WasRegistered(e)'
               /\ killer'[s][e] = "done" => ~active'[e]
    BY <1>1, <1>2, <1>5, <2>1 DEF ServerInv, KillerFacts
  <2> QED
    BY <1>3, <1>5, <2>2, Zenon DEF ServerInv, TypeOK, KillerFacts, closeVars
<1>11. CallerFacts'
  BY <1>2, <1>3, <1>5, Zenon DEF ServerInv, CallerFacts, kickVars, pushVars
<1> QED
  BY <1>4, <1>6, <1>7, <1>8, <1>9, <1>10, <1>11, Zenon DEF ServerInv

(* Kick finds an active session. *)
LEMMA KickStep ==
  ASSUME ServerInv, NEW k \in Kickers, NEW d \in Device, Kick(k, d)
  PROVE  ServerInv'
<1>1. PICK c \in Conn : c = store[d]
  BY Zenon DEF Kick, ServerInv, TypeOK
<1>2. /\ k \in Role /\ killer[k][c] = "off" /\ killer' = [killer EXCEPT ![k][c] = "lock"]
      /\ kick' = [kick EXCEPT ![k] = "kill"] /\ kicked' = [kicked EXCEPT ![k] = c]
      /\ UNCHANGED <<handlerVars, connVars, timer, store, pushVars, closeVars, closedEvents>>
  BY <1>1, Zenon DEF Kick, KillerMoves, Role
<1>3. TypeOK'
  BY <1>2, Zenon DEF ServerInv, TypeOK, handlerVars, connVars, pushVars, closeVars
<1>4. WasRegistered(c) /\ \A e \in todo' : WasRegistered(e)
  BY <1>1, <1>2 DEF ServerInv, StoreEntriesServed, WasRegistered, KillerFacts, closeVars
<1>5. \A s \in Role, e \in Conn : killer'[s][e] = IF s = k /\ e = c THEN "lock" ELSE killer[s][e]
  BY <1>2, Zenon DEF ServerInv, TypeOK
<1>6. CallerFacts'
  <2>1. \A j \in Kickers : j # k => kick'[j] = kick[j] /\ kicked'[j] = kicked[j]
    BY <1>2, Zenon DEF ServerInv, TypeOK
  <2>2. kick'[k] = "kill" /\ kicked'[k] = c
    BY <1>2, Zenon DEF ServerInv, TypeOK
  <2> QED
    BY <1>1, <1>2, <2>1, <2>2
       DEF ServerInv, CallerFacts, WasRegistered, handlerVars, connVars, pushVars
<1> QED
  BY <1>2, <1>3, <1>4, <1>5, <1>6, KillerFrame DEF connVars

(* Kick removes the session it closed from the store. *)
LEMMA KickRemovesStep ==
  ASSUME ServerInv, NEW k \in Kickers, KickRemoves(k)
  PROVE  ServerInv'
<1>1. PICK c \in Conn : c = kicked[k]
  BY Zenon DEF KickRemoves, ServerInv, CallerFacts
<1>2. k \in Role /\ k # "takeover" /\ killer[k][c] = "done" /\ kick[k] = "kill"
  BY <1>1, ServerAssumption, Zenon DEF KickRemoves, KillerMoves, Role
<1>3. ~active[c] /\ WasRegistered(c) /\ device[c] \in Device
  BY <1>2, Zenon DEF ServerInv, KillerFacts, WasRegistered
<1>4. /\ killer' = [killer EXCEPT ![k][c] = "off"]
      /\ kick' = [kick EXCEPT ![k] = "notify"]
      /\ store' = [store EXCEPT ![device[c]] = IF @ = c THEN None ELSE @]
      /\ UNCHANGED <<handlerVars, connVars, timer, kicked, pushVars, closeVars, closedEvents>>
  BY <1>1, Zenon DEF KickRemoves, KillerMoves, storeRemove
<1>5. TypeOK'
  <2> DEFINE Places == {"off", "lock", "write", "close", "done"}
  <2>0. kick' \in [Kickers -> {"idle", "kill", "notify"}]
    BY <1>4, Zenon DEF ServerInv, TypeOK
  <2>1. killer' \in [Role -> [Conn -> Places]]
    <3>1. killer \in [Role -> [Conn -> Places]] /\ "off" \in Places
      BY Zenon DEF ServerInv, TypeOK
    <3> HIDE DEF Places
    <3> QED
      BY <1>2, <1>4, <3>1, Zenon
  <2>2. store' \in [Device -> Conn \cup {None}]
    BY <1>3, <1>4, Zenon DEF ServerInv, TypeOK
  <2> QED
    BY <1>4, <2>0, <2>1, <2>2, Zenon DEF ServerInv, TypeOK, handlerVars, connVars, pushVars, closeVars
<1>6. \A s \in Role, e \in Conn : killer'[s][e] = IF s = k /\ e = c THEN "off" ELSE killer[s][e]
  BY <1>2, <1>4, Zenon DEF ServerInv, TypeOK
<1>7. \A d \in Device : store'[d] = IF store[d] = c THEN None ELSE store[d]
  BY <1>3, <1>4 DEF ServerInv, TypeOK, StoreEntriesServed
<1>8. None \notin Conn
  BY ServerAssumption, Zenon
<1>9. UNCHANGED <<handler, device, active, open, timer, closedEvents, kicked, push, pushed, todo>>
  BY <1>4, Zenon DEF handlerVars, connVars, pushVars, closeVars
<1>10. \A e \in Conn : WasRegistered(e)' <=> WasRegistered(e)
  BY <1>9, Zenon DEF WasRegistered
<1>11. StoreEntriesServed' /\ NothingLeftBehind'
  BY <1>7, <1>8, <1>9 DEF ServerInv, StoreEntriesServed, NothingLeftBehind
<1>12. LatestSessionReachable'
  <2> SUFFICES ASSUME NEW e \in Conn, handler[e] \in Registered, active[e],
                      killer'["takeover"][e] = "off"
               PROVE  store'[device[e]] = e
    BY <1>9, Zenon DEF LatestSessionReachable
  <2>1. e # c /\ killer["takeover"][e] = "off"
    BY <1>2, <1>3, <1>6, Zenon DEF Role
  <2>2. store[device[e]] = e /\ device[e] \in Device
    BY <2>1, Zenon DEF ServerInv, LatestSessionReachable, ConnFacts, ConnFact
  <2> QED
    BY <1>7, <2>1, <2>2, Zenon
<1>13. ClosedReported'
  BY <1>7, <1>8, <1>9, <1>10, Zenon DEF ServerInv, ClosedReported
<1>14. ConnFacts'
  BY <1>9, <1>10, Zenon DEF ServerInv, ConnFacts, ConnFact
<1>15. KillerFacts'
  BY <1>6, <1>9, <1>10 DEF ServerInv, TypeOK, KillerFacts
<1>16. CallerFacts'
  <2>1. ASSUME NEW j \in Kickers
        PROVE  /\ kick'[j] # "idle" => kicked[j] \in Conn
               /\ kick'[j] = "notify" =>
                    WasRegistered(kicked[j]) /\ ~active[kicked[j]] /\ \A d \in Device : store'[d] # kicked[j]
    <3>1. CASE j = k
      BY <1>1, <1>3, <1>7, <1>8, <3>1, Zenon
    <3>2. CASE j # k
      <4>1. kick'[j] = kick[j]
        BY <1>4, <3>2, Zenon DEF ServerInv, TypeOK
      <4> QED
        BY <1>7, <1>8, <4>1, Zenon DEF ServerInv, CallerFacts
    <3> QED
      BY <3>1, <3>2, Zenon
  <2>2. ASSUME NEW j \in Kickers, kick'[j] = "notify"
        PROVE  WasRegistered(kicked[j])'
    BY <1>9, <2>1, <2>2, Zenon DEF WasRegistered
  <2> QED
    BY <1>9, <2>1, <2>2, Zenon DEF ServerInv, CallerFacts
<1> QED
  BY <1>5, <1>11, <1>12, <1>13, <1>14, <1>15, <1>16, Zenon DEF ServerInv

(* Kick calls OnConnectionClosed. *)
LEMMA KickNotifiesStep ==
  ASSUME ServerInv, NEW k \in Kickers, KickNotifies(k)
  PROVE  ServerInv'
<1>1. PICK c \in Conn : c = kicked[k]
  BY Zenon DEF KickNotifies, ServerInv, CallerFacts
<1>2. WasRegistered(c) /\ ~active[c] /\ \A d \in Device : store[d] # c
  BY <1>1, Zenon DEF KickNotifies, ServerInv, CallerFacts
<1>3. /\ closedEvents' = [closedEvents EXCEPT ![c] = @ + 1]
      /\ kick' = [kick EXCEPT ![k] = "idle"] /\ kicked' = [kicked EXCEPT ![k] = None]
      /\ UNCHANGED <<handler, device, active, open, mu, deadline, timer, store, killer, push, pushed, closer, todo>>
  BY <1>1, Zenon DEF KickNotifies, handlerVars, connVars, pushVars, closeVars
<1>4. TypeOK'
  BY <1>3 DEF ServerInv, TypeOK
<1>5. \A e \in Conn : closedEvents'[e] = IF e = c THEN closedEvents[e] + 1 ELSE closedEvents[e]
  BY <1>3, Zenon DEF ServerInv, TypeOK
<1>6. \A e \in Conn : WasRegistered(e)' <=> WasRegistered(e)
  BY <1>3, Zenon DEF WasRegistered
<1>7. StoreEntriesServed' /\ LatestSessionReachable' /\ NothingLeftBehind'
  BY <1>3, Zenon DEF ServerInv, StoreEntriesServed, LatestSessionReachable, NothingLeftBehind
<1>8. closedEvents[c] \in Nat /\ \A e \in Conn : closedEvents[e] > 0 => closedEvents'[e] > 0
  BY <1>5 DEF ServerInv, TypeOK
<1>9. ClosedReported' /\ ConnFacts'
  <2>1. ClosedReported'
    BY <1>2, <1>3, <1>5, <1>6, <1>8, Zenon DEF ServerInv, ClosedReported
  <2>2. ConnFacts'
    BY <1>2, <1>3, <1>5, <1>6, Zenon DEF ServerInv, ConnFacts, ConnFact
  <2> QED
    BY <2>1, <2>2, Zenon
<1>10. KillerFacts'
  BY <1>3, <1>6, Zenon DEF ServerInv, TypeOK, KillerFacts
<1>11. CallerFacts'
  <2>1. ASSUME NEW j \in Kickers, kick'[j] # "idle"
        PROVE  kick'[j] = kick[j] /\ kicked'[j] = kicked[j]
    BY <1>3, <2>1, Zenon DEF ServerInv, TypeOK
  <2> QED
    BY <1>3, <2>1 DEF ServerInv, CallerFacts, WasRegistered
<1> QED
  BY <1>4, <1>7, <1>9, <1>10, <1>11, Zenon DEF ServerInv

(* Close() starts its loop over the sessions in the store. *)
LEMMA CloseTakesAllStep ==
  ASSUME ServerInv, CloseTakesAll
  PROVE  ServerInv'
<1>1. TypeOK'
  BY Zenon DEF CloseTakesAll, CloserMoves, ServerInv, TypeOK, handlerVars, connVars, kickVars, pushVars
<1>2. \A c \in todo' : WasRegistered(c)
  BY Zenon DEF CloseTakesAll, ServerInv, StoreEntriesServed, WasRegistered
<1>3. UNCHANGED <<handlerVars, active, open, timer, store, killer, kickVars, pushVars, closedEvents>>
  BY Zenon DEF CloseTakesAll, connVars
<1> QED
  BY <1>1, <1>2, <1>3, CallersFrame, KillerFrame, Zenon

(* Close() takes the next session. *)
LEMMA CloseNextSessionStep ==
  ASSUME ServerInv, NEW c \in Conn, CloseNextSession(c)
  PROVE  ServerInv'
<1>1. /\ killer' = [killer EXCEPT !["shutdown"][c] = "lock"] /\ todo' \subseteq todo
      /\ UNCHANGED <<handlerVars, connVars, timer, store, kickVars, pushVars, closer, closedEvents>>
  BY Zenon DEF CloseNextSession
<1>2. TypeOK'
  <2>1. killer' \in [Role -> [Conn -> {"off", "lock", "write", "close", "done"}]]
    BY <1>1, Zenon DEF ServerInv, TypeOK, Role
  <2> QED
    BY <1>1, <2>1, Zenon DEF ServerInv, TypeOK, handlerVars, connVars, kickVars, pushVars
<1>3. WasRegistered(c) /\ \A e \in todo' : WasRegistered(e)
  BY <1>1, Zenon DEF CloseNextSession, ServerInv, KillerFacts
<1>4. \A s \in Role, e \in Conn : killer'[s][e] = IF s = "shutdown" /\ e = c THEN "lock" ELSE killer[s][e]
  BY <1>1, Zenon DEF ServerInv, TypeOK
<1>5. UNCHANGED <<handlerVars, active, open, timer, store, kickVars, pushVars, closedEvents>>
  BY <1>1, Zenon DEF connVars
<1> QED
  BY <1>2, <1>3, <1>4, <1>5, CallersFrame, KillerFrame, Zenon

(* Close() closes every connection in s.conns. *)
LEMMA CloseConnsStep ==
  ASSUME ServerInv, CloseConns
  PROVE  ServerInv'
<1>1. UNCHANGED <<handler, device, active, mu, timer, store, killer, kick, kicked, push, pushed, todo, closedEvents>>
  BY Zenon DEF CloseConns, handlerVars, kickVars, pushVars
<1>2. /\ open' \in [Conn -> BOOLEAN] /\ \A c \in Conn : open'[c] => open[c]
      /\ deadline' \in [Conn -> {"none", "set", "expired"}] /\ closer' = "wait"
  BY Zenon DEF CloseConns, CloserMoves, netClose, ServerInv, TypeOK
<1>3. TypeOK'
  BY <1>1, <1>2, Zenon DEF ServerInv, TypeOK
<1>4. StoreEntriesServed' /\ LatestSessionReachable' /\ NothingLeftBehind'
  BY <1>1, <1>2, Zenon DEF ServerInv, StoreEntriesServed, LatestSessionReachable, NothingLeftBehind
<1>5. ClosedReported'
  BY <1>1, Zenon DEF ServerInv, ClosedReported, WasRegistered
<1>6. ConnFacts'
  BY <1>1, <1>2, Zenon DEF ServerInv, ConnFacts, ConnFact, WasRegistered
<1>7. KillerFacts'
  BY <1>1, Zenon DEF ServerInv, KillerFacts, WasRegistered
<1>8. CallerFacts'
  BY <1>1, CallersFrame, Zenon DEF handlerVars, kickVars, pushVars
<1> QED
  BY <1>3, <1>4, <1>5, <1>6, <1>7, <1>8, Zenon DEF ServerInv

(* A Push looks its connection up, takes dc.mu and writes. *)
LEMMA PushStep ==
  ASSUME ServerInv, NEW p \in Pushers, PushLocks(p) \/ PushWrites(p) \/ \E d \in Device : Push(p, d)
  PROVE  ServerInv'
<1>1. UNCHANGED <<handlerVars, active, open, timer, store, killer, kickVars, closer, todo, closedEvents>>
  BY Zenon DEF PushLocks, PushWrites, Push, BeginWrite, EndWrite, connVars, closeVars
<1>2. /\ push \in [Pushers -> {"idle", "lock", "write"}] /\ pushed \in [Pushers -> Conn \cup {None}]
      /\ \A q \in Pushers : push[q] # "idle" => pushed[q] \in Conn
  BY Zenon DEF ServerInv, TypeOK, CallerFacts
<1>3. \/ \E c \in Conn : push' = [push EXCEPT ![p] = "lock"] /\ pushed' = [pushed EXCEPT ![p] = c]
      \/ push[p] = "lock" /\ push' = [push EXCEPT ![p] = "write"] /\ UNCHANGED pushed
      \/ push' = [push EXCEPT ![p] = "idle"] /\ pushed' = [pushed EXCEPT ![p] = None]
  <2>1. ASSUME NEW d \in Device, Push(p, d)
        PROVE  store[d] \in Conn
    BY <2>1 DEF Push, ServerInv, TypeOK
  <2> QED
    BY <2>1, Zenon DEF PushLocks, PushWrites, Push, PushReturns
<1>4. /\ push' \in [Pushers -> {"idle", "lock", "write"}] /\ pushed' \in [Pushers -> Conn \cup {None}]
      /\ \A q \in Pushers : push'[q] # "idle" => pushed'[q] \in Conn
  BY <1>2, <1>3
<1>5. mu' \in [Conn -> BOOLEAN] /\ deadline' \in [Conn -> {"none", "set", "expired"}]
  <2>1. CASE PushLocks(p)
    <3>1. pushed[p] \in Conn
      BY <1>2, <2>1, Zenon DEF PushLocks
    <3> QED
      BY <2>1, <3>1, Zenon DEF PushLocks, BeginWrite, ServerInv, TypeOK
  <2>2. CASE PushWrites(p)
    <3>1. mu' = [mu EXCEPT ![pushed[p]] = FALSE] /\ UNCHANGED deadline
      BY <2>2, Zenon DEF PushWrites, EndWrite
    <3>2. mu \in [Conn -> BOOLEAN] /\ deadline \in [Conn -> {"none", "set", "expired"}]
      BY Zenon DEF ServerInv, TypeOK
    <3>3. pushed[p] \in Conn
      BY <1>2, <2>2, Zenon DEF PushWrites
    <3> QED
      BY <3>1, <3>2, <3>3, Zenon
  <2>3. CASE \E d \in Device : Push(p, d)
    BY <2>3, Zenon DEF Push, connVars, ServerInv, TypeOK
  <2> QED
    BY <2>1, <2>2, <2>3, Zenon
<1>6. TypeOK'
  BY <1>1, <1>4, <1>5, Zenon DEF ServerInv, TypeOK, handlerVars, kickVars
<1> QED
  BY <1>1, <1>4, <1>6, Frame, Zenon

(* Close() starts, leaves its session loop or returns; a deadline expires. *)
LEMMA QuietStep ==
  ASSUME ServerInv,
         \/ Close \/ CloseSessionsDone \/ CloseReturns \/ UNCHANGED vars
         \/ \E c \in Conn : DeadlineExpires(c)
  PROVE  ServerInv'
<1>1. UNCHANGED <<handlerVars, active, open, mu, timer, store, killer, kickVars, pushVars, todo, closedEvents>>
  BY Zenon DEF Close, CloseSessionsDone, CloseReturns, DeadlineExpires, vars, connVars, closeVars
<1>2. closer' \in {"idle", "listeners", "sessions", "conns", "wait", "returned"}
  BY Zenon DEF Close, CloseSessionsDone, CloseReturns, DeadlineExpires, CloserMoves, vars, closeVars, ServerInv, TypeOK
<1>3. deadline' \in [Conn -> {"none", "set", "expired"}]
  BY DEF Close, CloseSessionsDone, CloseReturns, DeadlineExpires, vars, connVars, ServerInv, TypeOK
<1>4. TypeOK'
  BY <1>1, <1>2, <1>3, Zenon DEF ServerInv, TypeOK, handlerVars, kickVars, pushVars
<1>5. \A p \in Pushers : push'[p] # "idle" => pushed'[p] \in Conn
  BY <1>1, Zenon DEF ServerInv, CallerFacts, pushVars
<1> QED
  BY <1>1, <1>4, <1>5, Frame, Zenon

(* The connection c is the only one a step changes. *)
OnlyConn(c) ==
  /\ \A e \in Conn \ {c} :
       /\ handler'[e] = handler[e] /\ device'[e] = device[e]
       /\ active'[e] = active[e] /\ open'[e] = open[e]
       /\ timer'[e] = timer[e] /\ closedEvents'[e] = closedEvents[e]
  /\ UNCHANGED <<store, killer, kickVars, pushVars, todo>>

(* A step of one handler: what it must establish for its own connection.   *)
LEMMA HandlerFrame ==
  ASSUME ServerInv, TypeOK', NEW c \in Conn, OnlyConn(c), ConnFact(c)',
         WasRegistered(c) => WasRegistered(c)' /\ device'[c] = device[c],
         handler'[c] \in Registered /\ active'[c] => handler[c] \in Registered /\ active[c],
         active'[c] => active[c],
         handler[c] \in Registered => handler'[c] \in Registered,
         handler'[c] = "gone" => ~open'[c] /\ ~active'[c] /\ ~timer'[c],
         handler'[c] = "gone" /\ WasRegistered(c)' => closedEvents'[c] > 0,
         closedEvents'[c] > 0 => ~active'[c] /\ \A d \in Device : store[d] # c
  PROVE  ServerInv'
<1>1. UNCHANGED <<store, killer, kick, kicked, push, pushed, todo>>
  BY Zenon DEF OnlyConn, kickVars, pushVars
<1>2. \A e \in Conn : WasRegistered(e) => WasRegistered(e)' /\ device'[e] = device[e]
  BY Zenon DEF OnlyConn, WasRegistered
<1>3. \A e \in Conn : active'[e] => active[e]
  BY Zenon DEF OnlyConn
<1>4. StoreEntriesServed'
  <2> SUFFICES ASSUME NEW d \in Device, NEW e \in Conn, store[d] = e
               PROVE  device'[e] = d /\ handler'[e] \in Registered
    BY <1>1, Zenon DEF StoreEntriesServed
  <2>1. device[e] = d /\ handler[e] \in Registered
    BY Zenon DEF ServerInv, StoreEntriesServed
  <2>2. WasRegistered(e)
    BY <2>1, Zenon DEF WasRegistered
  <2> QED
    BY <1>2, <2>1, <2>2, Zenon DEF OnlyConn
<1>5. LatestSessionReachable'
  <2> SUFFICES ASSUME NEW e \in Conn, handler'[e] \in Registered, active'[e],
                      killer["takeover"][e] = "off"
               PROVE  store[device'[e]] = e
    BY <1>1, Zenon DEF LatestSessionReachable
  <2>1. handler[e] \in Registered /\ active[e]
    BY Zenon DEF OnlyConn
  <2>2. store[device[e]] = e /\ WasRegistered(e)
    BY <2>1, Zenon DEF ServerInv, LatestSessionReachable, ConnFacts, ConnFact, WasRegistered
  <2> QED
    BY <1>2, <2>2, Zenon
<1>6. NothingLeftBehind'
  BY Zenon DEF ServerInv, NothingLeftBehind, OnlyConn
<1>7. ClosedReported'
  <2>1. ASSUME NEW e \in Conn \ {c}
        PROVE  WasRegistered(e)' <=> WasRegistered(e)
    BY Zenon DEF OnlyConn, WasRegistered
  <2> QED
    BY <1>1, <2>1 DEF ServerInv, ClosedReported, OnlyConn
<1>8. ConnFacts'
  BY Zenon DEF ServerInv, ConnFacts, ConnFact, OnlyConn, WasRegistered
<1>9. KillerFacts'
  BY <1>1, <1>2, <1>3, Zenon DEF ServerInv, TypeOK, KillerFacts
<1>10. CallerFacts'
  BY <1>1, <1>2, <1>3, Zenon DEF ServerInv, CallerFacts
<1> QED
  BY <1>4, <1>5, <1>6, <1>7, <1>8, <1>9, <1>10, Zenon DEF ServerInv

(* A handler moves before its session exists, or within the session.       *)
LEMMA HandlerMovesStep ==
  ASSUME ServerInv, NEW c \in Conn, NEW from, NEW to, HandlerMoves(c, from, to),
         UNCHANGED <<device, connVars, store, killer, kickVars, pushVars, closeVars, closedEvents>>,
         timer' \in [Conn -> BOOLEAN],
         \A e \in Conn \ {c} : timer'[e] = timer[e],
         timer'[c] => to \in InLoop,
         \/ from \in {"free", "spawned", "counted"} /\ to \in {"spawned", "counted", "handshake"}
         \/ from \in Registered /\ to \in Registered \ {"removing"}
  PROVE  ServerInv'
<1>1. /\ to \in {"spawned", "counted", "handshake"} \cup Registered
      /\ handler[c] = from /\ handler' = [handler EXCEPT ![c] = to]
      /\ UNCHANGED <<device, active, open, mu, deadline, store, killer, kick, kicked, push, pushed, closer, todo,
                     closedEvents>>
  BY Zenon DEF HandlerMoves, connVars, kickVars, pushVars, closeVars
<1>2. handler \in [Conn -> {"free", "spawned", "gone"} \cup Counted]
  BY Zenon DEF ServerInv, TypeOK
<1>3. handler'[c] = to /\ \A e \in Conn \ {c} : handler'[e] = handler[e]
  BY <1>1, <1>2, Zenon
<1>4. handler' \in [Conn -> {"free", "spawned", "gone"} \cup Counted]
  BY <1>1, <1>2, Zenon DEF Counted
<1>5. TypeOK'
  BY <1>1, <1>4 DEF ServerInv, TypeOK
<1>6. OnlyConn(c)
  BY <1>1, <1>3, Zenon DEF OnlyConn, kickVars, pushVars
<1>7. ConnFact(c) /\ (closedEvents[c] > 0 => ~active[c] /\ \A d \in Device : store[d] # c)
  BY Zenon DEF ServerInv, ConnFacts, ClosedReported
<1>8. WasRegistered(c)' <=> WasRegistered(c)
  BY <1>1, <1>3, <1>7, Zenon DEF WasRegistered, Registered, InLoop, ConnFact
<1>9. ConnFact(c)'
  BY <1>1, <1>3, <1>7, <1>8, Zenon DEF ConnFact, Registered, InLoop
<1>10. /\ handler'[c] \in Registered <=> handler[c] \in Registered
       /\ handler'[c] # "gone"
  BY <1>1, <1>3, Zenon DEF Registered, InLoop
<1> QED
  BY <1>1, <1>5, <1>6, <1>7, <1>8, <1>9, <1>10, HandlerFrame, Zenon

(* Arming a timer touches no other. *)
LEMMA TimersArm ==
  ASSUME timer \in [Conn -> BOOLEAN], NEW c \in Conn, ArmTimer(c) \/ UNCHANGED timer
  PROVE  timer' \in [Conn -> BOOLEAN] /\ \A e \in Conn \ {c} : timer'[e] = timer[e]
<1> DEFINE armed == c \in Timed
<1>1. armed \in BOOLEAN
  OBVIOUS
<1>2. CASE ArmTimer(c)
  <2>1. timer' = [timer EXCEPT ![c] = armed]
    BY <1>2, Zenon DEF ArmTimer
  <2> HIDE DEF armed
  <2> QED
    BY <1>1, <2>1, Zenon
<1> QED
  BY <1>2, Zenon

(* So does stopping one. *)
LEMMA TimersStop ==
  ASSUME timer \in [Conn -> BOOLEAN], NEW c \in Conn, timer' = [timer EXCEPT ![c] = FALSE]
  PROVE  /\ timer' \in [Conn -> BOOLEAN] /\ \A e \in Conn \ {c} : timer'[e] = timer[e]
         /\ ~timer'[c]
<1>1. timer' \in [Conn -> BOOLEAN]
  BY Zenon
<1>2. \A e \in Conn \ {c} : timer'[e] = timer[e]
  BY Zenon
<1>3. ~timer'[c]
  BY Zenon
<1> QED
  BY <1>1, <1>2, <1>3, Zenon

(* The handler actions that HandlerMovesStep covers. *)
LEMMA HandlerMovesOnly ==
  ASSUME ServerInv, NEW c \in Conn,
         \/ Accept(c) \/ HandlerCounts(c) \/ HandlerTracks(c)
         \/ HandlerAnnounces(c) \/ ReadPing(c) \/ WritePong(c) \/ ReadBad(c)
         \/ LeaveLoop(c, "reject") \/ LeaveLoop(c, "serving")
  PROVE  ServerInv'
<1> DEFINE Same == UNCHANGED <<device, connVars, store, killer, kickVars, pushVars, closeVars, closedEvents>>
           Timers == timer' \in [Conn -> BOOLEAN] /\ \A e \in Conn \ {c} : timer'[e] = timer[e]
<1>1. timer \in [Conn -> BOOLEAN]
  BY Zenon DEF ServerInv, TypeOK
<1>3. CASE Accept(c) \/ HandlerCounts(c) \/ HandlerTracks(c)
  <2>1. PICK from \in {"free", "spawned", "counted"}, to \in {"spawned", "counted", "handshake"} :
          HandlerMoves(c, from, to)
    BY <1>3, Zenon DEF Accept, HandlerCounts, HandlerTracks
  <2>2. Same /\ UNCHANGED timer
    BY <1>3, Zenon DEF Accept, HandlerCounts, HandlerTracks
  <2>3. ~timer[c]
    BY <2>1, Zenon DEF ServerInv, ConnFacts, ConnFact, HandlerMoves, InLoop
  <2> QED
    BY <1>1, <2>1, <2>2, <2>3, HandlerMovesStep, Zenon
<1>4. CASE \/ HandlerAnnounces(c) \/ ReadPing(c) \/ WritePong(c) \/ ReadBad(c)
  <2>1. PICK from \in Registered, to \in InLoop : HandlerMoves(c, from, to)
    BY <1>4, Zenon DEF HandlerAnnounces, ReadPing, WritePong, ReadBad, Registered, InLoop
  <2>2. Same
    BY <1>4, Zenon DEF HandlerAnnounces, ReadPing, WritePong, ReadBad
  <2>3. ArmTimer(c) \/ UNCHANGED timer
    BY <1>4, Zenon DEF HandlerAnnounces, ReadPing, WritePong, ReadBad
  <2>4. Timers
    BY <1>1, <2>3, TimersArm, Zenon
  <2> QED
    BY <2>1, <2>2, <2>4, HandlerMovesStep, Zenon DEF Registered, InLoop
<1>5. CASE LeaveLoop(c, "reject") \/ LeaveLoop(c, "serving")
  <2>1. PICK from \in Registered : HandlerMoves(c, from, "closing")
    BY <1>5, Zenon DEF LeaveLoop, Registered, InLoop
  <2>2. Same
    BY <1>5, Zenon DEF LeaveLoop
  <2>3. Timers /\ ~timer'[c]
    BY <1>1, <1>5, TimersStop, Zenon DEF LeaveLoop
  <2>4. "closing" \in Registered \ {"removing"}
    BY Zenon DEF Registered
  <2> QED
    BY <2>1, <2>2, <2>3, <2>4, HandlerMovesStep, Zenon
<1> QED
  BY <1>3, <1>4, <1>5, Zenon

=============================================================================
