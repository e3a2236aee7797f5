--------------------------- MODULE ServerSessions ---------------------------
(***************************************************************************)
(* server/server.go, server/conn.go and server/store.go: the goroutines    *)
(* that share the device connections of one server.                        *)
(*                                                                         *)
(*   - one handleConnection goroutine per accepted net.Conn (handler[c]);  *)
(*   - callers of Kick, Push and Close;                                    *)
(*   - the killers: whoever executes SendDisconnect(reason); Close() on a  *)
(*     device connection, that is, the goroutine that tears down a         *)
(*     superseded connection, the callback of the keepalive timer, a Kick  *)
(*     call and the session loop of Close().  killer[r][c] is the place of *)
(*     role r in those two calls on c.                                     *)
(*                                                                         *)
(* Places of a handler:                                                    *)
(*   free, spawned   not accepted; accepted, "go handler(conn)" executed   *)
(*   counted         after wg.Add(1), before it is entered in s.conns      *)
(*   handshake       reading the CONNECT packet                            *)
(*   accepted        CONNACK(accepted) written, not yet in the store       *)
(*   announce        in the store, before OnConnectionEstablished          *)
(*   serving         in the packet loop                                    *)
(*   pong, reject    writing PINGRESP; DISCONNECT after a bad packet       *)
(*   closing, removing, notifying  in the deferred cleanup                 *)
(*   gone            after OnConnectionClosed, delete(s.conns), wg.Done    *)
(*                                                                         *)
(* A write to a connection ends when the client reads, when the write      *)
(* deadline expires or when the connection is closed; a CONNACK, the first *)
(* few bytes sent, always fits the socket buffer.  What the client sends   *)
(* is an arbitrary packet of the kinds the packet loop tells apart.        *)
(***************************************************************************)

EXTENDS Naturals

CONSTANTS
  Conn, Device,       \* net.Conn values and device IDs
  Stalled,            \* connections whose client stops reading after CONNACK
  Timed,              \* connections for which the keepalive policy decides > 0
  Kickers, Pushers,   \* callers of Kick and of Push
  Closers,            \* the caller of Close(), or nobody
  None                \* no connection / no device

ASSUME ServerAssumption ==
  /\ Stalled \subseteq Conn
  /\ Timed \subseteq Conn
  /\ None \notin Conn \cup Device
  /\ \A x, y \in Closers : x = y
  /\ Kickers \cap {"takeover", "reaper", "shutdown"} = {}

Role == {"takeover", "reaper", "shutdown"} \cup Kickers

VARIABLES
  handler, device,   \* per connection: place of its handler, its device ID
  active, open,      \* dc.active; the net.Conn is not closed on our side
  mu, deadline,      \* dc.mu is held; write deadline "none", "set", "expired"
  timer,             \* the keepalive timer is armed
  store,             \* ConnectionStore.conns
  killer,            \* "off", "lock" (wants dc.mu), "write", "close", "done"
  kick, kicked,      \* place and target of each Kick call
  push, pushed,      \* place and target of each Push call
  closer, todo,      \* place of Close(), connections its session loop has left
  closedEvents       \* OnConnectionClosed calls per connection

handlerVars == <<handler, device>>
connVars == <<active, open, mu, deadline>>
kickVars == <<kick, kicked>>
pushVars == <<push, pushed>>
closeVars == <<closer, todo>>
vars == <<handlerVars, connVars, timer, store, killer, kickVars, pushVars, closeVars, closedEvents>>

InLoop == {"serving", "pong", "reject"}
Registered == {"announce", "closing", "removing"} \cup InLoop
Counted == {"counted", "handshake", "accepted", "notifying"} \cup Registered
Tracked == Counted \ {"counted"}    \* the connections in s.conns

TypeOK ==
  /\ handler \in [Conn -> {"free", "spawned", "gone"} \cup Counted]
  /\ device \in [Conn -> Device \cup {None}]
  /\ active \in [Conn -> BOOLEAN]
  /\ open \in [Conn -> BOOLEAN]
  /\ mu \in [Conn -> BOOLEAN]
  /\ deadline \in [Conn -> {"none", "set", "expired"}]
  /\ timer \in [Conn -> BOOLEAN]
  /\ store \in [Device -> Conn \cup {None}]
  /\ killer \in [Role -> [Conn -> {"off", "lock", "write", "close", "done"}]]
  /\ kick \in [Kickers -> {"idle", "kill", "notify"}]
  /\ kicked \in [Kickers -> Conn \cup {None}]
  /\ push \in [Pushers -> {"idle", "lock", "write"}]
  /\ pushed \in [Pushers -> Conn \cup {None}]
  /\ closer \in {"idle", "listeners", "sessions", "conns", "wait", "returned"}
  /\ todo \subseteq Conn
  /\ closedEvents \in [Conn -> Nat]

Init ==
  /\ handler = [c \in Conn |-> "free"]
  /\ device = [c \in Conn |-> None]
  /\ active = [c \in Conn |-> FALSE]
  /\ open = [c \in Conn |-> TRUE]
  /\ mu = [c \in Conn |-> FALSE]
  /\ deadline = [c \in Conn |-> "none"]
  /\ timer = [c \in Conn |-> FALSE]
  /\ store = [d \in Device |-> None]
  /\ killer = [r \in Role |-> [c \in Conn |-> "off"]]
  /\ kick = [k \in Kickers |-> "idle"]
  /\ kicked = [k \in Kickers |-> None]
  /\ push = [p \in Pushers |-> "idle"]
  /\ pushed = [p \in Pushers |-> None]
  /\ closer = "idle"
  /\ todo = {}
  /\ closedEvents = [c \in Conn |-> 0]

-----------------------------------------------------------------------------
(* deviceConnection *)

(* Mutant: no write deadline. *)
BeginWriteNoDeadline(c) ==
  /\ ~mu[c]
  /\ mu' = [mu EXCEPT ![c] = active[c]]
  /\ UNCHANGED <<active, open, deadline>>

(* Write and SendDisconnect up to the packet write: lock dc.mu, return if   *)
(* the connection is not active, set the write deadline.                    *)
BeginWrite(c) ==
  /\ ~mu[c]
  /\ mu' = [mu EXCEPT ![c] = active[c]]
  /\ deadline' = [deadline EXCEPT ![c] = IF active[c] /\ open[c] THEN "set" ELSE @]
  /\ UNCHANGED <<active, open>>

(* The packet write returns and dc.mu is unlocked. *)
WriteReturns(c) == c \notin Stalled \/ deadline[c] = "expired" \/ ~open[c]

(* Mutant: dc.mu stays locked when the write fails. *)
EndWriteLeavesLocked(c) ==
  /\ WriteReturns(c)
  /\ mu' = [mu EXCEPT ![c] = deadline[c] = "expired"]
  /\ UNCHANGED <<active, open, deadline>>

EndWrite(c) ==
  /\ WriteReturns(c)
  /\ mu' = [mu EXCEPT ![c] = FALSE]
  /\ UNCHANGED <<active, open, deadline>>

(* conn.Close() on the connections cs; their deadlines are gone with them. *)
netClose(cs) ==
  /\ open' = [c \in Conn |-> open[c] /\ c \notin cs]
  /\ deadline' = [c \in Conn |-> IF c \in cs THEN "none" ELSE deadline[c]]

(* Close: CompareAndSwap, then conn.Close() by the winner. *)
dcClose(c) ==
  /\ active' = [active EXCEPT ![c] = FALSE]
  /\ netClose(IF active[c] THEN {c} ELSE {})
  /\ UNCHANGED mu

(* Time passes: a deadline that was set, and never cleared, expires.  A     *)
(* client that reads takes what is being written to it long before that.    *)
DeadlineExpires(c) ==
  /\ deadline[c] = "set"
  /\ c \in Stalled \/ (~mu[c] /\ handler[c] \notin {"pong", "reject"})
  /\ deadline' = [deadline EXCEPT ![c] = "expired"]
  /\ UNCHANGED <<handlerVars, active, open, mu, timer, store, killer, kickVars, pushVars, closeVars, closedEvents>>

-----------------------------------------------------------------------------
(* ConnectionStore *)

storeRegister(d, c) == store' = [store EXCEPT ![d] = c]

(* Mutant: removes whatever connection the device has. *)
storeRemoveAny(d, c) == store' = [store EXCEPT ![d] = None]

storeRemove(d, c) == store' = [store EXCEPT ![d] = IF @ = c THEN None ELSE @]

-----------------------------------------------------------------------------
(* handleConnection *)

HandlerMoves(c, from, to) ==
  /\ handler[c] = from
  /\ handler' = [handler EXCEPT ![c] = to]

(* A listener hands a connection over; one that is still starting when      *)
(* Close() is called may do so later (ServerListeners).                     *)
Accept(c) ==
  /\ HandlerMoves(c, "free", "spawned")
  /\ UNCHANGED <<device, connVars, timer, store, killer, kickVars, pushVars, closeVars, closedEvents>>

HandlerCounts(c) ==
  /\ HandlerMoves(c, "spawned", "counted")
  /\ UNCHANGED <<device, connVars, timer, store, killer, kickVars, pushVars, closeVars, closedEvents>>

HandlerTracks(c) ==
  /\ HandlerMoves(c, "counted", "handshake")
  /\ UNCHANGED <<device, connVars, timer, store, killer, kickVars, pushVars, closeVars, closedEvents>>

(* Mutant: the connection is not closed. *)
HandshakeFailsLeavesOpen(c) ==
  /\ HandlerMoves(c, "handshake", "gone")
  /\ UNCHANGED <<device, connVars, timer, store, killer, kickVars, pushVars, closeVars, closedEvents>>

(* Read error, not a CONNECT, wrong magic number or version, credential     *)
(* refused, empty device ID or CONNACK not written: conn.Close().           *)
HandshakeFails(c) ==
  /\ HandlerMoves(c, "handshake", "gone")
  /\ netClose({c})
  /\ UNCHANGED <<device, active, mu, timer, store, killer, kickVars, pushVars, closeVars, closedEvents>>

HandshakeAccepted(c, d) ==
  /\ open[c]
  /\ HandlerMoves(c, "handshake", "accepted")
  /\ device' = [device EXCEPT ![c] = d]
  /\ UNCHANGED <<connVars, timer, store, killer, kickVars, pushVars, closeVars, closedEvents>>

(* newDeviceConnection and store.Register; a previous connection of the     *)
(* device is handed to a takeover goroutine.                                *)
HandlerRegisters(c) ==
  LET prev == store[device[c]] IN
  /\ HandlerMoves(c, "accepted", "announce")
  /\ active' = [active EXCEPT ![c] = TRUE]
  /\ storeRegister(device[c], c)
  /\ killer' = IF prev = None THEN killer ELSE [killer EXCEPT !["takeover"][prev] = "lock"]
  /\ UNCHANGED <<device, open, mu, deadline, timer, kickVars, pushVars, closeVars, closedEvents>>

(* if serverKp > 0: time.AfterFunc, and Reset after each packet. *)
ArmTimer(c) == timer' = [timer EXCEPT ![c] = c \in Timed]

(* OnConnectionEstablished; handleDeviceConnection arms the timer. *)
HandlerAnnounces(c) ==
  /\ HandlerMoves(c, "announce", "serving")
  /\ ArmTimer(c)
  /\ UNCHANGED <<device, connVars, store, killer, kickVars, pushVars, closeVars, closedEvents>>

-----------------------------------------------------------------------------
(* handleDeviceConnection *)

(* A PUSH: the timer is reset, the message handler runs on its own. *)
ReadPush(c) ==
  /\ handler[c] = "serving"
  /\ open[c]
  /\ ArmTimer(c)
  /\ UNCHANGED <<handlerVars, connVars, store, killer, kickVars, pushVars, closeVars, closedEvents>>

ReadPing(c) ==
  /\ open[c]
  /\ HandlerMoves(c, "serving", "pong")
  /\ ArmTimer(c)
  /\ UNCHANGED <<device, connVars, store, killer, kickVars, pushVars, closeVars, closedEvents>>

(* pr.Write(conn): neither dc.mu nor a deadline of its own, result ignored. *)
WritePong(c) ==
  /\ WriteReturns(c)
  /\ HandlerMoves(c, "pong", "serving")
  /\ UNCHANGED <<device, connVars, timer, store, killer, kickVars, pushVars, closeVars, closedEvents>>

(* A known packet that does not belong here (timer reset) or an unknown     *)
(* packet type (an error of ReadPacket, timer left alone).                  *)
ReadBad(c) ==
  /\ open[c]
  /\ HandlerMoves(c, "serving", "reject")
  /\ ArmTimer(c) \/ UNCHANGED timer
  /\ UNCHANGED <<device, connVars, store, killer, kickVars, pushVars, closeVars, closedEvents>>

(* The loop is left and the deferred keepaliveTimer.Stop() runs. *)
LeaveLoop(c, from) ==
  /\ HandlerMoves(c, from, "closing")
  /\ timer' = [timer EXCEPT ![c] = FALSE]
  /\ UNCHANGED <<device, connVars, store, killer, kickVars, pushVars, closeVars, closedEvents>>

(* DISCONNECT(protocol violation): like PINGRESP, no dc.mu and no deadline. *)
WriteReject(c) == WriteReturns(c) /\ LeaveLoop(c, "reject")

(* A DISCONNECT packet, EOF, or the connection was closed on our side. *)
ReadEnds(c) == LeaveLoop(c, "serving")

HandlerCloses(c) ==
  /\ HandlerMoves(c, "closing", "removing")
  /\ dcClose(c)
  /\ UNCHANGED <<device, timer, store, killer, kickVars, pushVars, closeVars, closedEvents>>

(* Mutant: the cleanup leaves the store alone. *)
HandlerForgetsRemove(c) ==
  /\ HandlerMoves(c, "removing", "notifying")
  /\ UNCHANGED <<device, connVars, timer, store, killer, kickVars, pushVars, closeVars, closedEvents>>

HandlerRemoves(c) ==
  /\ HandlerMoves(c, "removing", "notifying")
  /\ storeRemove(device[c], c)
  /\ UNCHANGED <<device, connVars, timer, killer, kickVars, pushVars, closeVars, closedEvents>>

(* Mutant: a connection that is no longer in the store is not reported. *)
HandlerLeavesSilently(c) ==
  /\ HandlerMoves(c, "notifying", "gone")
  /\ UNCHANGED <<device, connVars, timer, store, killer, kickVars, pushVars, closeVars, closedEvents>>

(* OnConnectionClosed, delete(s.conns, conn) and wg.Done(). *)
HandlerLeaves(c) ==
  /\ HandlerMoves(c, "notifying", "gone")
  /\ closedEvents' = [closedEvents EXCEPT ![c] = @ + 1]
  /\ UNCHANGED <<device, connVars, timer, store, killer, kickVars, pushVars, closeVars>>

-----------------------------------------------------------------------------
(* SendDisconnect(reason); Close() *)

KillerMoves(r, c, from, to) ==
  /\ killer[r][c] = from
  /\ killer' = [killer EXCEPT ![r][c] = to]

KillerLocks(r, c) ==
  /\ BeginWrite(c)
  /\ KillerMoves(r, c, "lock", IF active[c] THEN "write" ELSE "close")
  /\ UNCHANGED <<handlerVars, timer, store, kickVars, pushVars, closeVars, closedEvents>>

KillerWrites(r, c) ==
  /\ EndWrite(c)
  /\ KillerMoves(r, c, "write", "close")
  /\ UNCHANGED <<handlerVars, timer, store, kickVars, pushVars, closeVars, closedEvents>>

KillerCloses(r, c) ==
  /\ KillerMoves(r, c, "close", IF r \in {"reaper", "shutdown"} THEN "off" ELSE "done")
  /\ dcClose(c)
  /\ UNCHANGED <<handlerVars, timer, store, kickVars, pushVars, closeVars, closedEvents>>

(* No packet for 1.5 x keepalive; a packet that was just read may still     *)
(* reset the timer while the callback runs.  A second callback that starts  *)
(* before the first has ended would only repeat it and is left out.         *)
TimerFires(c) ==
  /\ timer[c]
  /\ timer' = [timer EXCEPT ![c] = FALSE]
  /\ KillerMoves("reaper", c, "off", "lock")
  /\ UNCHANGED <<handlerVars, connVars, store, kickVars, pushVars, closeVars, closedEvents>>

-----------------------------------------------------------------------------
(* Kick, Push and Close of the Server interface *)

Kick(k, d) ==
  LET c == store[d] IN
  /\ kick[k] = "idle"
  /\ c # None
  /\ active[c]
  /\ kick' = [kick EXCEPT ![k] = "kill"]
  /\ kicked' = [kicked EXCEPT ![k] = c]
  /\ KillerMoves(k, c, "off", "lock")
  /\ UNCHANGED <<handlerVars, connVars, timer, store, pushVars, closeVars, closedEvents>>

KickRemoves(k) ==
  LET c == kicked[k] IN
  /\ kick[k] = "kill"
  /\ kick' = [kick EXCEPT ![k] = "notify"]
  /\ KillerMoves(k, c, "done", "off")
  /\ storeRemove(device[c], c)
  /\ UNCHANGED <<handlerVars, connVars, timer, kicked, pushVars, closeVars, closedEvents>>

KickNotifies(k) ==
  /\ kick[k] = "notify"
  /\ closedEvents' = [closedEvents EXCEPT ![kicked[k]] = @ + 1]
  /\ kick' = [kick EXCEPT ![k] = "idle"]
  /\ kicked' = [kicked EXCEPT ![k] = None]
  /\ UNCHANGED <<handlerVars, connVars, timer, store, killer, pushVars, closeVars>>

Push(p, d) ==
  LET c == store[d] IN
  /\ push[p] = "idle"
  /\ c # None
  /\ active[c]
  /\ push' = [push EXCEPT ![p] = "lock"]
  /\ pushed' = [pushed EXCEPT ![p] = c]
  /\ UNCHANGED <<handlerVars, connVars, timer, store, killer, kickVars, closeVars, closedEvents>>

PushReturns(p) ==
  /\ push' = [push EXCEPT ![p] = "idle"]
  /\ pushed' = [pushed EXCEPT ![p] = None]

PushLocks(p) ==
  LET c == pushed[p] IN
  /\ push[p] = "lock"
  /\ BeginWrite(c)
  /\ IF active[c] THEN push' = [push EXCEPT ![p] = "write"] /\ UNCHANGED pushed
                  ELSE PushReturns(p)
  /\ UNCHANGED <<handlerVars, timer, store, killer, kickVars, closeVars, closedEvents>>

PushWrites(p) ==
  /\ push[p] = "write"
  /\ EndWrite(pushed[p])
  /\ PushReturns(p)
  /\ UNCHANGED <<handlerVars, timer, store, killer, kickVars, closeVars, closedEvents>>

CloserMoves(from, to) == closer = from /\ closer' = to

(* s.cancel() and the listeners' Close. *)
Close ==
  /\ CloserMoves("idle", "listeners")
  /\ UNCHANGED <<handlerVars, connVars, timer, store, killer, kickVars, pushVars, todo, closedEvents>>

CloseTakesAll ==
  /\ CloserMoves("listeners", "sessions")
  /\ todo' = {c \in Conn : \E d \in Device : store[d] = c}
  /\ UNCHANGED <<handlerVars, connVars, timer, store, killer, kickVars, pushVars, closedEvents>>

ShutdownIdle == \A c \in Conn : killer["shutdown"][c] = "off"

CloseNextSession(c) ==
  /\ closer = "sessions"
  /\ ShutdownIdle
  /\ c \in todo
  /\ todo' = todo \ {c}
  /\ killer' = [killer EXCEPT !["shutdown"][c] = "lock"]
  /\ UNCHANGED <<handlerVars, connVars, timer, store, kickVars, pushVars, closer, closedEvents>>

CloseSessionsDone ==
  /\ todo = {}
  /\ ShutdownIdle
  /\ CloserMoves("sessions", "conns")
  /\ UNCHANGED <<handlerVars, connVars, timer, store, killer, kickVars, pushVars, todo, closedEvents>>

(* Mutant: connections that have no session yet are not closed. *)
CloseConnsSessionsOnly ==
  /\ CloserMoves("conns", "wait")
  /\ netClose({c \in Conn : handler[c] \in Registered})
  /\ UNCHANGED <<handlerVars, active, mu, timer, store, killer, kickVars, pushVars, todo, closedEvents>>

CloseConns ==
  /\ CloserMoves("conns", "wait")
  /\ netClose({c \in Conn : handler[c] \in Tracked})
  /\ UNCHANGED <<handlerVars, active, mu, timer, store, killer, kickVars, pushVars, todo, closedEvents>>

CloseReturns ==
  /\ \A c \in Conn : handler[c] \notin Counted
  /\ CloserMoves("wait", "returned")
  /\ UNCHANGED <<handlerVars, connVars, timer, store, killer, kickVars, pushVars, todo, closedEvents>>

-----------------------------------------------------------------------------
(* Steps a goroutine takes by itself, and steps that need the client, the   *)
(* passing of time or a caller.                                             *)
HandlerRuns(c) ==
  \/ HandlerCounts(c) \/ HandlerTracks(c) \/ HandlerRegisters(c) \/ HandlerAnnounces(c)
  \/ WritePong(c) \/ WriteReject(c)
  \/ ~open[c] /\ (HandshakeFails(c) \/ ReadEnds(c))
  \/ HandlerCloses(c) \/ HandlerRemoves(c) \/ HandlerLeaves(c)

ClientActs(c) ==
  \/ open[c] /\ (HandshakeFails(c) \/ ReadEnds(c))
  \/ \E d \in Device : HandshakeAccepted(c, d)
  \/ ReadPush(c) \/ ReadPing(c) \/ ReadBad(c)

KillerRuns(r, c) == KillerLocks(r, c) \/ KillerWrites(r, c) \/ KillerCloses(r, c)

KickRuns(k) == KickRemoves(k) \/ KickNotifies(k)

PushRuns(p) == PushLocks(p) \/ PushWrites(p)

CloserRuns ==
  \/ CloseTakesAll \/ (\E c \in Conn : CloseNextSession(c)) \/ CloseSessionsDone
  \/ CloseConns \/ CloseReturns

(* Everything but the start of a connection and of Close(). *)
Runs ==
  \/ \E c \in Conn :
       \/ ClientActs(c) \/ HandlerRuns(c)
       \/ DeadlineExpires(c) \/ TimerFires(c)
       \/ \E r \in Role : KillerRuns(r, c)
  \/ \E k \in Kickers : KickRuns(k) \/ \E d \in Device : Kick(k, d)
  \/ \E p \in Pushers : PushRuns(p) \/ \E d \in Device : Push(p, d)
  \/ CloserRuns

Next == Runs \/ (\E c \in Conn : Accept(c)) \/ (Closers # {} /\ Close)

Spec == Init /\ [][Next]_vars

(* Goroutines that can run are scheduled and deadlines expire.  dc.mu is a  *)
(* sync.Mutex, whose starvation mode serves every waiter in turn; of that   *)
(* only this is used, that the killers of a connection and each Push get    *)
(* their turns.                                                             *)
Fairness ==
  /\ \A c \in Conn : WF_vars(HandlerRuns(c)) /\ WF_vars(DeadlineExpires(c))
  /\ \A c \in Conn : SF_vars(\E r \in Role : KillerRuns(r, c))
  /\ \A k \in Kickers : WF_vars(KickRuns(k))
  /\ \A p \in Pushers : SF_vars(PushRuns(p))
  /\ WF_vars(CloserRuns)

FairSpec == Spec /\ Fairness

-----------------------------------------------------------------------------
(* Properties *)

(* The store never points at a connection whose handler is past its         *)
(* cleanup, nor at one of another device: Push, Kick and Close() always     *)
(* work on a connection somebody is still going to remove.                  *)
StoreEntriesServed ==
  \A d \in Device, c \in Conn :
    store[d] = c => device[c] = d /\ handler[c] \in Registered

(* The last session of a device to register stays reachable: an active      *)
(* registered connection that no later one has superseded is the one in the *)
(* store, whatever late cleanups and Kicks of its predecessors do.          *)
LatestSessionReachable ==
  \A c \in Conn :
    handler[c] \in Registered /\ active[c] /\ killer["takeover"][c] = "off"
      => store[device[c]] = c

(* When the handler has returned, the net.Conn is closed and no timer can   *)
(* fire for it any more.                                                    *)
NothingLeftBehind ==
  \A c \in Conn : handler[c] = "gone" => ~open[c] /\ ~active[c] /\ ~timer[c]

WasRegistered(c) == handler[c] \in Registered \cup {"notifying", "gone"} /\ device[c] \in Device

(* A session that was established is reported closed before its handler     *)
(* returns, by the handler or by Kick, and never while Push could still     *)
(* reach it: OnConnectionClosed comes after Close and after store.Remove.   *)
ClosedReported ==
  \A c \in Conn :
    /\ handler[c] = "gone" /\ WasRegistered(c) => closedEvents[c] > 0
    /\ closedEvents[c] > 0 => ~active[c] /\ \A d \in Device : store[d] # c

(* A timer is armed only while the packet loop runs, and an inactive        *)
(* registered connection is closed.                                         *)
ConnFact(c) ==
  /\ handler[c] \in {"free", "spawned", "counted", "handshake"} => device[c] = None
  /\ handler[c] \in {"accepted", "notifying"} \cup Registered => device[c] \in Device
  /\ handler[c] \notin Registered => ~active[c]
  /\ handler[c] = "removing" => ~active[c]
  /\ handler[c] \in Registered \cup {"notifying"} => active[c] \/ ~open[c]
  /\ timer[c] => handler[c] \in InLoop
  /\ closedEvents[c] > 0 => WasRegistered(c)

ConnFacts == \A c \in Conn : ConnFact(c)

(* Only a registered connection is ever torn down. *)
KillerFacts ==
  /\ \A r \in Role, c \in Conn :
       /\ killer[r][c] # "off" => WasRegistered(c)
       /\ killer[r][c] = "done" => ~active[c]
  /\ \A c \in todo : WasRegistered(c)

(* Kick reports a session that is closed and out of the store. *)
CallerFacts ==
  /\ \A k \in Kickers :
       /\ kick[k] # "idle" => kicked[k] \in Conn
       /\ kick[k] = "notify" =>
            /\ WasRegistered(kicked[k]) /\ ~active[kicked[k]]
            /\ \A d \in Device : store[d] # kicked[k]
  /\ \A p \in Pushers : push[p] # "idle" => pushed[p] \in Conn

(* What the four above rest on; inductive. *)
ServerInv ==
  /\ TypeOK
  /\ StoreEntriesServed
  /\ LatestSessionReachable
  /\ NothingLeftBehind
  /\ ClosedReported
  /\ ConnFacts
  /\ KillerFacts
  /\ CallerFacts

(* The server implements the registry of sessions: takeovers, Kicks and     *)
(* late cleanups together only replace a session by a new connection or     *)
(* remove one that was closed.                                              *)
Registry == INSTANCE SessionRegistry WITH
  session <- store,
  known <- {c \in Conn : WasRegistered(c)},
  live <- {c \in Conn : active[c]}

ImplementsRegistry == Registry!Spec

(* "A stuck or slow client must not pin the connection mutex": a session    *)
(* that was superseded, timed out or kicked goes away even if its client    *)
(* never reads.                                                             *)
KilledSessionsEnd ==
  \A c \in Conn : (\E r \in Role : killer[r][c] = "lock") ~> (handler[c] = "gone")

(* A Push that found a connection returns, even if it waits for dc.mu       *)
(* behind others and its client never reads.                                *)
PushesReturn == \A p \in Pushers : (push[p] # "idle") ~> (push[p] = "idle")

(* A PINGREQ is answered: the server is never about to write a PINGRESP on  *)
(* a healthy connection (open, its client reads, nobody is tearing it down) *)
(* with a write deadline in the past, which would make the write fail.      *)
PingsAnswered ==
  \A c \in Conn :
    handler[c] = "pong" /\ open[c] /\ c \notin Stalled /\ (\A r \in Role : killer[r][c] = "off")
      => deadline[c] # "expired"
=============================================================================
