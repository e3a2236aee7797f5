------------------------------ MODULE Keepalive ------------------------------
(***************************************************************************)
(* client/keepalive.go against server/keepalive.go and the reaper of       *)
(* server/server.go: who notices, and when, that a connection is dead, on  *)
(* a clock.                                                                *)
(*                                                                         *)
(* Times are ages in clock units, Second units to a second, relative to    *)
(* the present: sent and recv stand for time.Since(c.lastSent) and         *)
(* time.Since(c.lastReceived), idle for the age of the server's timer.     *)
(* Goroutines are late by less than one unit, so a comparison "since >=    *)
(* limit" at equality comes out either way (Reached).  A packet takes at   *)
(* most Delay units; packets do not overtake.                              *)
(*                                                                         *)
(* The connection is healthy until Die: then nothing arrives any more, and *)
(* neither side is told.  held: a PUSH write to the dead peer has filled   *)
(* the socket buffer and blocks while holding connWriteMu (no write        *)
(* timeout).  What happens after a loss was reported or the session was    *)
(* reaped is the subject of ClientLifecycle and ServerSessions.            *)
(***************************************************************************)
EXTENDS Integers, Sequences

CONSTANTS
  Second,     \* clock units per second
  Word,       \* 2^16: the keepalive field of CONNECT and CONNACK is a uint16
  Options,    \* client options: [adaptive, hb, short, max, probes, window, talk]
  Policies,   \* server policies: [min, max, default, disable]
  Delay       \* bound on the time a packet is under way, in units

ASSUME KeepaliveAssumption ==
  /\ Second \in Nat /\ Second > 0 /\ Second % 4 = 0
  /\ Word \in Nat \ {0}
  /\ Delay \in Nat
  /\ Options \subseteq [adaptive : BOOLEAN, hb : Nat, short : Nat, max : Nat,
                        probes : Nat, window : Nat, talk : SUBSET {"client", "server"}]
  /\ Policies \subseteq [min : Nat, max : Nat, default : Nat, disable : BOOLEAN]

VARIABLES
  opt,         \* the options of this client; talk: the applications that call Push
  decided,     \* what the server's policy decided, in seconds
  keepalive,   \* the goroutine: "none", "running", "blocked", "lost"
  tick, due,   \* units since the ticker fired; its tick is not yet served
  sent, recv,  \* ages of lastSent and lastReceived
  probing,     \* the locals of adaptiveKeepalive
  probe,       \* age of its sentAt
  answered,    \* a packet arrived since sentAt
  idle,        \* age of the server's keepalive timer
  reaped,      \* its callback has run
  toServer, toClient,   \* packets under way: [kind, age]
  path,        \* "up" or "dead"
  deadFor,     \* age of the failure
  held         \* connWriteMu is held by a write that does not return

clientVars == <<keepalive, tick, due, sent, recv, probing, probe, answered, held>>
serverVars == <<idle, reaped>>
wire == <<toServer, toClient, path, deadFor>>
config == <<opt, decided>>
vars == <<config, clientVars, serverVars, wire>>

Least(a, b) == IF a <= b THEN a ELSE b
Most(a, b) == IF a >= b THEN a ELSE b
Reached(age, limit) == IF age = limit THEN BOOLEAN ELSE {age > limit}

-----------------------------------------------------------------------------
(* Negotiation *)

(* newConnectMsgFromOptions *)
Proposal(o) == (IF o.adaptive THEN o.max ELSE o.hb) % Word

Decide(p, kp) ==
  IF kp <= 0 THEN (IF p.disable THEN 0 ELSE p.default)
  ELSE IF kp < p.min THEN p.min ELSE Least(kp, p.max)

(* Mutant: CONNACK echoes the proposal. *)
EchoesProposal == Proposal(opt)

(* ca.ServerKeepalive = uint16(serverKp), stored by the client. *)
serverKp == decided % Word

effectiveHeartbeat == Second * (IF serverKp > 0 THEN serverKp ELSE opt.hb)

Timeout(seconds) == (seconds * 3) \div 2

(* The server's timer, in units; none if the policy decided 0. *)
ReapAfter == Timeout(Second * decided)
Timed == decided > 0

-----------------------------------------------------------------------------
(* Which loop the goroutine runs, and how often it looks. *)

Short == Second * Most(opt.short, 1)
Ceiling == Second * Least(Most(opt.max, Most(opt.short, 1)), serverKp)
ProbeCount == IF opt.probes < 1 THEN 3 ELSE opt.probes
Window == IF opt.window = 0 THEN 2 * Second ELSE opt.window

loop ==
  IF opt.adaptive
    THEN IF serverKp = 0 THEN "none" ELSE IF Ceiling <= Short THEN "fixed" ELSE "adaptive"
    ELSE IF opt.hb = 0 THEN "none" ELSE "fixed"

Interval ==
  IF loop = "adaptive" THEN Second \div 4 ELSE Most(effectiveHeartbeat \div 4, Second)

ShortProbing == [phase |-> "short", ok |-> 0, interval |-> Short, success |-> 0,
                 heart |-> 0, awaiting |-> FALSE]

Init ==
  /\ opt \in Options
  /\ \E p \in Policies : decided = Decide(p, Proposal(opt))
  /\ keepalive = IF loop = "none" THEN "none" ELSE "running"
  /\ tick = 0 /\ due = FALSE
  /\ sent = 0 /\ recv = 0
  /\ probing = ShortProbing
  /\ probe = 0 /\ answered = FALSE
  /\ idle = 0 /\ reaped = FALSE
  /\ toServer = <<>> /\ toClient = <<>>
  /\ path = "up" /\ deadFor = 0
  /\ held = FALSE

-----------------------------------------------------------------------------
(* The wire *)

Packet(kind) == [kind |-> kind, age |-> 0]
Older1(q) == [i \in DOMAIN q |-> [q[i] EXCEPT !.age = @ + 1]]
Overdue(q) == q # <<>> /\ Head(q).age >= Delay
Spaced(q) == \A i \in DOMAIN q : q[i].age > 0
Send(q, kind) == IF path = "up" THEN Append(q, Packet(kind)) ELSE q

(* The connection is not over for the client: its own keepalive has not     *)
(* given up, nor got stuck for good, and no DISCONNECT of the reaper has    *)
(* reached it.                                                              *)
Up == keepalive \in {"none", "running"} /\ (reaped => path = "dead")

(* An age that somebody looks at. *)
Older(age, watched) == IF watched THEN age + 1 ELSE age

(* Time passes: no packet is late, no timer has expired, the keepalive      *)
(* goroutine has served its tick.                                           *)
Tick ==
  /\ Up
  /\ ~due
  /\ ~Overdue(toServer) /\ ~Overdue(toClient)
  /\ Timed /\ ~reaped => idle < ReapAfter
  /\ tick' = (tick + 1) % Interval
  /\ due' = (keepalive = "running" /\ tick' = 0)
  /\ sent' = Older(sent, keepalive = "running")
  /\ recv' = Older(recv, keepalive = "running")
  /\ probe' = Older(probe, probing.awaiting /\ probing.phase # "stable")
  /\ idle' = Older(idle, Timed /\ ~reaped)
  /\ toServer' = Older1(toServer) /\ toClient' = Older1(toClient)
  /\ deadFor' = Older(deadFor, path = "dead" /\ keepalive = "running")
  /\ UNCHANGED <<config, keepalive, probing, answered, held, reaped, path>>

Die ==
  /\ Up
  /\ path = "up"
  /\ path' = "dead"
  /\ toServer' = <<>> /\ toClient' = <<>>
  /\ UNCHANGED <<config, clientVars, serverVars, deadFor>>

-----------------------------------------------------------------------------
(* The server *)

(* handleDeviceConnection: any packet resets the timer, a PINGREQ is        *)
(* answered.                                                                *)
ServerReads ==
  /\ Up
  /\ toServer # <<>>
  /\ toServer' = Tail(toServer)
  /\ idle' = 0
  /\ toClient' = IF Head(toServer).kind = "ping" THEN Send(toClient, "pong") ELSE toClient
  /\ UNCHANGED <<config, clientVars, reaped, path, deadFor>>

(* Push of the Server interface. *)
ServerPushes ==
  /\ Up
  /\ "server" \in opt.talk /\ ~reaped /\ path = "up" /\ Spaced(toClient)
  /\ toClient' = Send(toClient, "push")
  /\ UNCHANGED <<config, clientVars, serverVars, toServer, path, deadFor>>

Reap ==
  /\ Up
  /\ Timed /\ ~reaped /\ idle >= ReapAfter
  /\ reaped' = TRUE
  /\ UNCHANGED <<config, clientVars, idle, wire>>

-----------------------------------------------------------------------------
(* The client beside its keepalive goroutine *)

(* Mutant: only PUSH packets count as received. *)
ClientReadsIgnoresPong ==
  /\ Up
  /\ toClient # <<>>
  /\ toClient' = Tail(toClient)
  /\ recv' = IF Head(toClient).kind = "push" THEN 0 ELSE recv
  /\ answered' = TRUE
  /\ UNCHANGED <<config, keepalive, tick, due, sent, probing, probe, held, serverVars, toServer, path, deadFor>>

(* startIncomingComms: UpdateLastReceived. *)
ClientReads ==
  /\ Up
  /\ toClient # <<>>
  /\ toClient' = Tail(toClient)
  /\ recv' = 0
  /\ answered' = TRUE
  /\ UNCHANGED <<config, keepalive, tick, due, sent, probing, probe, held, serverVars, toServer, path, deadFor>>

(* startOutgoingComms writes a PUSH: UpdateLastSent.  A second one within   *)
(* the same unit would change nothing.                                      *)
ClientPushes ==
  /\ Up
  /\ "client" \in opt.talk /\ ~held /\ Spaced(toServer)
  /\ sent' = 0
  /\ toServer' = Send(toServer, "push")
  /\ UNCHANGED <<config, keepalive, tick, due, recv, probing, probe, answered, held, serverVars, toClient, path, deadFor>>

PushBlocks ==
  /\ Up
  /\ "client" \in opt.talk /\ ~held /\ path = "dead"
  /\ held' = TRUE
  /\ UNCHANGED <<config, keepalive, tick, due, sent, recv, probing, probe, answered, serverVars, wire>>

-----------------------------------------------------------------------------
(* The keepalive goroutine serves a tick. *)

Serves(kind) ==
  /\ Up
  /\ due
  /\ loop = kind
  /\ due' = FALSE
  /\ UNCHANGED <<config, tick, recv, held, serverVars, toClient, path, deadFor>>

(* writePingReq takes connWriteMu; then lastSent.Store. *)
WritesPing ==
  /\ ~held
  /\ sent' = 0
  /\ toServer' = Send(toServer, "ping")

Blocks ==
  /\ held
  /\ keepalive' = "blocked"
  /\ UNCHANGED <<sent, toServer, probing, probe, answered>>

(* keepalive and fixedKeepalive: a ping if nothing was sent for a           *)
(* heartbeat, a loss if nothing was received for one and a half.            *)
FixedCheck ==
  /\ Serves("fixed")
  /\ UNCHANGED <<probing, probe, answered>>
  /\ \E ping \in Reached(sent, effectiveHeartbeat), out \in Reached(recv, Timeout(effectiveHeartbeat)) :
       \/ ping /\ Blocks
       \/ /\ keepalive' = IF out THEN "lost" ELSE "running"
          /\ ping => WritesPing
          /\ ~ping => UNCHANGED <<sent, toServer>>

(* One tick of adaptiveKeepalive, in its phases. *)
AdaptiveServes(phases) ==
  /\ Serves("adaptive")
  /\ probing.phase \in phases

Period == IF probing.phase = "stable" THEN probing.heart ELSE probing.interval

NextProbing(new) ==
  /\ probing' = new
  /\ UNCHANGED <<keepalive, sent, probe, answered, toServer>>

(* sendProbe, if the period is over; otherwise this tick does nothing. *)
ProbeIfDue ==
  \E over \in Reached(sent, Period) :
    IF ~over THEN UNCHANGED <<keepalive, sent, probing, probe, answered, toServer>>
    ELSE \/ Blocks
         \/ /\ WritesPing
            /\ probing' = [probing EXCEPT !.awaiting = TRUE]
            /\ probe' = 0 /\ answered' = FALSE
            /\ UNCHANGED keepalive

(* enterStable *)
Stable(p) ==
  [p EXCEPT !.phase = "stable", !.awaiting = FALSE,
            !.heart = IF p.success > 0 THEN Most((p.success * 9) \div 10, Short) ELSE Short]

AdaptiveProbes ==
  /\ AdaptiveServes({"short", "doubling"})
  /\ ~probing.awaiting
  /\ ProbeIfDue

(* Mutant: the successful short probes are not counted. *)
ShortAnsweredUncounted ==
  /\ AdaptiveServes({"short"})
  /\ probing.awaiting /\ answered
  /\ NextProbing([probing EXCEPT !.awaiting = FALSE])

ShortAnswered ==
  LET ok == probing.ok + 1 IN
  /\ AdaptiveServes({"short"})
  /\ probing.awaiting /\ answered
  /\ NextProbing(IF ok >= ProbeCount
                   THEN [probing EXCEPT !.awaiting = FALSE, !.ok = ok, !.phase = "doubling",
                                        !.interval = Short, !.success = Short]
                   ELSE [probing EXCEPT !.awaiting = FALSE, !.ok = ok])

(* Mutant: the interval is not held at the ceiling. *)
ProbeAnsweredUncapped ==
  LET won == [probing EXCEPT !.awaiting = FALSE, !.success = probing.interval] IN
  /\ AdaptiveServes({"doubling"})
  /\ probing.awaiting /\ answered
  /\ NextProbing(IF probing.interval >= Ceiling THEN Stable(won)
                 ELSE [won EXCEPT !.interval = 2 * probing.interval])

(* A doubling probe is answered: the next one is twice as long, up to the   *)
(* ceiling.  Nothing enters the fine-tuning phase of the code.              *)
ProbeAnswered ==
  LET won == [probing EXCEPT !.awaiting = FALSE, !.success = probing.interval]
      next == Least(2 * probing.interval, Ceiling) IN
  /\ AdaptiveServes({"doubling"})
  /\ probing.awaiting /\ answered
  /\ NextProbing(IF next <= probing.interval THEN Stable(won) ELSE [won EXCEPT !.interval = next])

(* The response window of a probe is over: in the short phase the           *)
(* connection is lost, while doubling the client settles.                   *)
Unanswered ==
  /\ AdaptiveServes({"short", "doubling"})
  /\ probing.awaiting /\ ~answered
  /\ \E over \in Reached(probe, Window) :
       IF over /\ probing.phase = "short"
         THEN keepalive' = "lost" /\ UNCHANGED <<sent, probing, probe, answered, toServer>>
         ELSE NextProbing(IF over THEN Stable(probing) ELSE probing)

(* Mutant: keeps waiting in the stable phase. *)
StableCheckNeverLost ==
  /\ AdaptiveServes({"stable"})
  /\ ProbeIfDue

StableCheck ==
  /\ AdaptiveServes({"stable"})
  /\ \E out \in Reached(recv, Timeout(probing.heart)) :
       IF out THEN NextProbing(ShortProbing) ELSE ProbeIfDue

AdaptiveCheck ==
  AdaptiveProbes \/ ShortAnswered \/ ProbeAnswered \/ Unanswered \/ StableCheck

Next ==
  \/ Tick \/ Die
  \/ ServerReads \/ ServerPushes \/ Reap
  \/ ClientReads \/ ClientPushes \/ PushBlocks
  \/ FixedCheck \/ AdaptiveCheck

Spec == Init /\ [][Next]_vars

(* Time passes, packets arrive, timers fire and goroutines run; nothing is  *)
(* assumed of the application and of the failure.                           *)
Fairness ==
  /\ WF_vars(Tick)
  /\ WF_vars(ServerReads)
  /\ WF_vars(ClientReads)
  /\ WF_vars(Reap)
  /\ WF_vars(FixedCheck \/ AdaptiveCheck)

FairSpec == Spec /\ Fairness

-----------------------------------------------------------------------------
(* Properties *)

(* Room for the answer to a ping: with a fixed heartbeat, one period, one   *)
(* look of the ticker and a round trip within one and a half periods, which *)
(* heartbeats of one or two seconds do not have; for an adaptive client, a  *)
(* round trip within the window of a probe.                                 *)
AnswerRoom ==
  IF loop = "adaptive" THEN 2 * Delay < Window
  ELSE effectiveHeartbeat + Interval + 2 * Delay < Timeout(effectiveHeartbeat)

(* The longest time between two packets of the client.  The adaptive one    *)
(* does not probe while it waits for an answer, nor at the tick at which it *)
(* falls back to short probes.                                              *)
LongestSilence ==
  Interval + IF loop = "adaptive" THEN Most(Ceiling, Window + Interval) + Interval
                                  ELSE effectiveHeartbeat

(* Room for that, and for a packet under way, within the server's timeout   *)
(* as the client knows it.                                                  *)
PingRoom == LongestSilence + Delay < Timeout(effectiveHeartbeat)

(* 90% of the longest interval an adaptive client may use. *)
SettledHeart == Most((Ceiling * 9) \div 10, Short)

(* The time within which the client gives up on a peer that went silent:    *)
(* an adaptive client first has to leave its long interval, then to wait    *)
(* for one more short probe.                                                *)
NoticeBound ==
  IF loop = "fixed"
    THEN Timeout(effectiveHeartbeat) + Interval
    ELSE Most(Ceiling + Window, Timeout(SettledHeart)) + Short + Window + 4 * Interval

(* A peer that silently went away is noticed in bounded time, in every      *)
(* phase of the adaptive heartbeat, unless the goroutine is stuck behind a  *)
(* PUSH that holds connWriteMu, or an adaptive client keeps pushing.        *)
DeadPeerNoticed ==
  keepalive \in {"running", "lost"} /\ ~(opt.adaptive /\ "client" \in opt.talk) => deadFor <= NoticeBound

(* A healthy connection of a client that does not push is never declared    *)
(* lost by its own keepalive: the answer to each ping comes in time.        *)
HealthyNotLost ==
  path = "up" /\ "client" \notin opt.talk /\ AnswerRoom => keepalive # "lost"

(* A healthy client that runs a keepalive is never reaped, whatever its     *)
(* loop, its options and the server's policy made of the proposal, provided *)
(* the echo fits its 16 bits.                                               *)
HealthyNotReaped ==
  path = "up" /\ keepalive = "running" /\ decided < Word /\ PingRoom => ~reaped

(* The adaptive client never sleeps past the ceiling that the server's      *)
(* keepalive and its own maximum set.                                       *)
AdaptiveBounded ==
  loop = "adaptive" =>
    /\ Short <= probing.interval /\ probing.interval <= Ceiling
    /\ probing.success <= probing.interval
    /\ probing.phase = "stable" => Short <= probing.heart /\ probing.heart <= Ceiling

(* On a healthy connection, a client that does not push settles at 90% of   *)
(* the longest interval it may use and stays there, provided one and a half *)
(* of that leave room for a tick and a round trip.                          *)
Settles ==
  [](path = "up" /\ "client" \notin opt.talk /\ loop = "adaptive")
      /\ SettledHeart + Interval + 2 * Delay < Timeout(SettledHeart)
    => <>[](probing.phase = "stable" /\ probing.heart = SettledHeart)

(* A connection is declared lost only if it is: the client never gives up a *)
(* connection whose server is there and reads.                              *)
LossIsReal == keepalive = "lost" => path = "dead"
=============================================================================
