--------------------------- MODULE ConnectAttempts ---------------------------
(***************************************************************************)
(* client/client.go, client/net.go and client/backoff.go: how one          *)
(* goroutine, that of Connect or that of reconnect, gets a connection out  *)
(* of a list of servers: attemptConnection with its return codes, the      *)
(* retry loop around it, and the backoff that spaces the attempts.         *)
(*                                                                         *)
(* at is the place of the goroutine:                                       *)
(*   dial, handshake   in attemptConnection, with server number i          *)
(*   hung              in a dial that has no timeout and no answer         *)
(*   ended, returned   its loop has ended; it has returned conn, rc, err   *)
(*   lost              reconnect has been entered                          *)
(*   pausing, asleep   in the sleep before, or between, the attempts       *)
(*   up                startWorkers has the connection                     *)
(*   failed, abandoned the token has its error; the status has changed     *)
(*                                                                         *)
(* Time is counted in units; only what the backoff measures is kept: the   *)
(* time since the last error of each of its two situations.                *)
(***************************************************************************)
EXTENDS Integers, Sequences

CONSTANTS
  ServerLists,      \* the lists of server schemes, sequences over Schemes
  Codes,            \* the CONNACK return codes that servers send
  Keepalives,       \* the keepalives that they echo
  ConnectRetry, ConnectRetryInterval, ConnectTimeout,
  ReconnectBase, MaxReconnectInterval,  \* the options
  Durations         \* how long a dial, a handshake or a connection may take

Schemes == {"tcp", "kcp", "tls", "quic", "ws", "wss", "other"}

ASSUME AttemptAssumption ==
  /\ ServerLists \subseteq Seq(Schemes) \ {<<>>}
  /\ Codes \subseteq 0 .. 255
  /\ Keepalives \subseteq Nat
  /\ ConnectRetry \in BOOLEAN
  /\ ConnectTimeout \in Nat \ {0} /\ ConnectRetryInterval \in Nat
  /\ ReconnectBase \in Nat \ {0} /\ MaxReconnectInterval \in Nat \ {0}
  /\ Durations \subseteq Nat /\ 0 \in Durations

(* codec/constants.go *)
Accepted == 0
ErrRefusedBadProtocolVersion == 1
ErrRefusedNotAuthorised == 3
ErrNetworkError == 254
ErrProtocolViolation == 255

Refusals == {ErrRefusedBadProtocolVersion, ErrRefusedNotAuthorised, ErrProtocolViolation}

Situations == {"connectionLost", "attemptReconnection"}

VARIABLES
  servers,    \* the option Servers of this client
  caller,     \* "connect" or "reconnect"
  at, i,      \* as above; the server of the current try
  left,       \* time left before connDeadline of this try
  conn,       \* the local conn: "nil", "open" or "closed"
  deadline,   \* conn has a deadline
  rc, err,    \* the locals; err is "nil", "io" or "refused"
  asked,      \* the answers of this attempt: a code and a keepalive, or none
  serverKp,   \* c.serverKp
  trying,     \* the status is still connecting or reconnecting
  sleep,      \* the last sleep decided on by this caller
  last,       \* lastSleepPeriod of each situation, -1 without an entry
  since,      \* time since lastErrorTime of each situation
  healed      \* from now on the last server accepts

answer == <<conn, deadline, rc, err, asked, serverKp>>
backoff == <<last, since>>
environment == <<servers, healed>>
vars == <<environment, caller, at, i, left, answer, trying, sleep, backoff>>

NoAnswer == [code |-> -1, kp |-> -1]

Least(a, b) == IF a <= b THEN a ELSE b

ProcessTime(situation) == IF situation = "connectionLost" THEN 3 ELSE ConnectTimeout

(* An error this long after the last one starts the backoff afresh, however *)
(* long the last sleep was: longer times need not be told apart.            *)
Fresh(situation) == 2 * ProcessTime(situation) + MaxReconnectInterval + 1

Elapse(d) ==
  since' = [s \in Situations |-> IF last[s] = -1 THEN 0 ELSE Least(since[s] + d, Fresh(s))]

Init ==
  /\ servers \in ServerLists
  /\ caller \in {"connect", "reconnect"}
  /\ at = IF caller = "connect" THEN "dial" ELSE "lost"
  /\ i = 1 /\ left = ConnectTimeout
  /\ conn = "nil" /\ deadline = FALSE
  /\ rc = 0 /\ err = "nil" /\ asked = <<>>
  /\ serverKp = 0
  /\ trying = TRUE
  /\ sleep = 0
  /\ last = [s \in Situations |-> -1]
  /\ since = [s \in Situations |-> 0]
  /\ healed = FALSE

-----------------------------------------------------------------------------
(* The loop of attemptConnection. *)

(* The next server of the list, or the code after the loop. *)
NextServer ==
  IF i < Len(servers)
    THEN at' = "dial" /\ i' = i + 1 /\ left' = ConnectTimeout
    ELSE at' = "ended" /\ UNCHANGED <<i, left>>

Fallible == healed => i < Len(servers)

(* tcp is dialled with the timeout of the dialer and kcp without waiting;   *)
(* nothing bounds the TLS and WebSocket handshakes or OpenStreamSync.       *)
Bounded(scheme) == scheme \in {"tcp", "kcp", "other"}

DialTakes(d) == Elapse(d) /\ (Bounded(servers[i]) => d <= left)

(* openConnection fails, and conn is nil. *)
DialFails ==
  /\ at = "dial" /\ Fallible
  /\ \E d \in Durations : DialTakes(d)
  /\ conn' = "nil" /\ deadline' = FALSE
  /\ rc' = ErrNetworkError /\ err' = "io"
  /\ asked' = Append(asked, NoAnswer)
  /\ NextServer
  /\ UNCHANGED <<environment, caller, serverKp, trying, sleep, last>>

(* A server that never answers the handshake of its transport. *)
DialHangs ==
  /\ at = "dial" /\ Fallible
  /\ ~Bounded(servers[i])
  /\ at' = "hung"
  /\ UNCHANGED <<environment, caller, i, left, answer, trying, sleep, backoff>>

(* openConnection and SetDeadline. *)
Dials ==
  /\ at = "dial"
  /\ servers[i] # "other"
  /\ \E d \in Durations :
       /\ DialTakes(d) /\ (Fallible \/ d < left)
       /\ left' = left - Least(d, left)
  /\ conn' = "open" /\ deadline' = TRUE
  /\ err' = "nil"
  /\ at' = "handshake"
  /\ UNCHANGED <<environment, caller, i, rc, asked, serverKp, trying, sleep, last>>

(* connectServer: CONNECT cannot be written, the deadline expires, the      *)
(* connection breaks, or the first packet is not a CONNACK.                 *)
HandshakeFails ==
  /\ at = "handshake" /\ (Fallible \/ left = 0)
  /\ \E d \in Durations : d <= left /\ Elapse(d)
  /\ rc' = ErrNetworkError /\ err' = "io"
  /\ asked' = Append(asked, NoAnswer)
  /\ NextServer
  /\ UNCHANGED <<environment, caller, conn, deadline, serverKp, trying, sleep, last>>

(* rc == Accepted: the deadline is cleared and the keepalive stored. *)
Accept(kp) ==
  /\ deadline' = FALSE
  /\ serverKp' = kp
  /\ at' = "ended"
  /\ UNCHANGED <<i, left>>

(* A CONNACK arrives in time: err is nil whatever its code.  Not accepted,  *)
(* it has no keepalive, the loop goes on and leaves conn as it is.          *)
Connack(code, kp) ==
  /\ at = "handshake" /\ (Fallible \/ code = Accepted)
  /\ code # Accepted => kp = 0
  /\ \E d \in Durations : d < left /\ Elapse(d)
  /\ rc' = code /\ err' = "nil"
  /\ asked' = Append(asked, [code |-> code, kp |-> kp])
  /\ IF code = Accepted THEN Accept(kp) ELSE NextServer /\ UNCHANGED <<deadline, serverKp>>
  /\ UNCHANGED <<environment, caller, conn, trying, sleep, last>>

(* Mutant: the connection that was refused stays open. *)
ReturnsWithoutClosing ==
  /\ at = "ended"
  /\ err' = IF rc \in Refusals THEN "refused" ELSE err
  /\ at' = "returned"
  /\ UNCHANGED <<environment, caller, i, left, conn, deadline, rc, asked, serverKp, trying, sleep, backoff>>

(* After the loop, only the codes in Refusals become errors. *)
Returns ==
  /\ at = "ended"
  /\ IF rc \in Refusals
       THEN conn' = "closed" /\ err' = "refused"
       ELSE UNCHANGED <<conn, err>>
  /\ at' = "returned"
  /\ UNCHANGED <<environment, caller, i, left, deadline, rc, asked, serverKp, trying, sleep, backoff>>

-----------------------------------------------------------------------------
(* Connect and reconnect, which call attemptConnection in a loop. *)

(* A new call of attemptConnection, with locals of its own. *)
Attempt ==
  /\ at' = "dial"
  /\ i' = 1 /\ left' = ConnectTimeout
  /\ conn' = "nil" /\ deadline' = FALSE
  /\ rc' = 0 /\ err' = "nil" /\ asked' = <<>>
  /\ UNCHANGED serverKp

(* Mutant: looks at the return code instead of the error. *)
SucceedsIfAnswered ==
  /\ at = "returned" /\ rc # ErrNetworkError
  /\ at' = "up"
  /\ UNCHANGED <<environment, caller, i, left, answer, trying, sleep, backoff>>

Succeeds ==
  /\ at = "returned" /\ err = "nil"
  /\ at' = "up"
  /\ UNCHANGED <<environment, caller, i, left, answer, trying, sleep, backoff>>

(* Connect: to retry, or to fail at once. *)
ConnectRetries ==
  /\ at = "returned" /\ caller = "connect"
  /\ err = "io" /\ ConnectRetry
  /\ at' = "asleep" /\ sleep' = ConnectRetryInterval
  /\ UNCHANGED <<environment, caller, i, left, answer, trying, backoff>>

(* Mutant: fails on every error. *)
ConnectFailsAtOnce ==
  /\ at = "returned" /\ caller = "connect"
  /\ err # "nil"
  /\ at' = "failed"
  /\ UNCHANGED <<environment, caller, i, left, answer, trying, sleep, backoff>>

ConnectFails ==
  /\ at = "returned" /\ caller = "connect"
  /\ err = "refused" \/ (err = "io" /\ ~ConnectRetry)
  /\ at' = "failed"
  /\ UNCHANGED <<environment, caller, i, left, answer, trying, sleep, backoff>>

ConnectWakes ==
  /\ at = "asleep" /\ caller = "connect"
  /\ Elapse(sleep)
  /\ IF trying THEN Attempt ELSE at' = "failed" /\ UNCHANGED <<i, left, answer>>
  /\ UNCHANGED <<environment, caller, trying, sleep, last>>

(* getBackoffSleepTime: the next sleep of a situation. *)
InitSleep == Least(ReconnectBase, MaxReconnectInterval)

FirstSleep(situation) == IF situation = "connectionLost" THEN 0 ELSE InitSleep

IsContinual(situation) ==
  last[situation] # -1 /\ since[situation] <= 2 * ProcessTime(situation) + last[situation]

(* Mutant: the sleep is doubled beyond the maximum. *)
NextSleepUncapped(situation) ==
  CASE ~IsContinual(situation) -> FirstSleep(situation)
    [] last[situation] = 0     -> InitSleep
    [] OTHER                   -> IF last[situation] <= MaxReconnectInterval
                                    THEN 2 * last[situation] ELSE MaxReconnectInterval

(* Mutant: a sleep starts from the initial one again. *)
NextSleepForgets(situation) ==
  IF IsContinual(situation) THEN InitSleep ELSE FirstSleep(situation)

NextSleep(situation) ==
  CASE ~IsContinual(situation) -> FirstSleep(situation)
    [] last[situation] = 0     -> InitSleep
    [] OTHER                   -> Least(2 * last[situation], MaxReconnectInterval)

(* jitterDuration with its factor between 0.75 and 1.25 *)
Jittered(d) == {t \in 0 .. 2 * d : 3 * d <= 4 * t /\ 4 * t <= 5 * d}

SleepWithBackoff(situation) ==
  /\ sleep' = NextSleep(situation)
  /\ last' = [last EXCEPT ![situation] = NextSleep(situation)]
  /\ since' = [since EXCEPT ![situation] = 0]

ReconnectPauses ==
  /\ at = "lost"
  /\ SleepWithBackoff("connectionLost")
  /\ at' = "pausing"
  /\ UNCHANGED <<environment, caller, i, left, answer, trying>>

ReconnectStarts ==
  /\ at = "pausing"
  /\ \E d \in Jittered(sleep) : Elapse(d)
  /\ sleep' = 0
  /\ Attempt
  /\ UNCHANGED <<environment, caller, trying, last>>

ReconnectSleeps ==
  /\ at = "returned" /\ caller = "reconnect"
  /\ err # "nil"
  /\ SleepWithBackoff("attemptReconnection")
  /\ at' = "asleep"
  /\ UNCHANGED <<environment, caller, i, left, answer, trying>>

(* Mutant: a refusal ends the loop, as it does in Connect. *)
ReconnectWakesUnlessRefused ==
  /\ at = "asleep" /\ caller = "reconnect"
  /\ \E d \in Jittered(sleep) : Elapse(d)
  /\ IF trying /\ err # "refused" THEN Attempt ELSE at' = "abandoned" /\ UNCHANGED <<i, left, answer>>
  /\ UNCHANGED <<environment, caller, trying, sleep, last>>

ReconnectWakes ==
  /\ at = "asleep" /\ caller = "reconnect"
  /\ \E d \in Jittered(sleep) : Elapse(d)
  /\ IF trying THEN Attempt ELSE at' = "abandoned" /\ UNCHANGED <<i, left, answer>>
  /\ UNCHANGED <<environment, caller, trying, sleep, last>>

-----------------------------------------------------------------------------
(* The rest of the client, and the servers. *)

(* The connection is lost again, and internalConnLost starts reconnect. *)
Lost ==
  /\ at = "up" /\ trying
  /\ \E d \in Durations : Elapse(d)
  /\ at' = "lost" /\ caller' = "reconnect"
  /\ UNCHANGED <<environment, i, left, answer, trying, sleep, last>>

(* Disconnect *)
Stops ==
  /\ trying /\ at \notin {"failed", "abandoned", "up"}
  /\ trying' = FALSE
  /\ UNCHANGED <<environment, caller, at, i, left, answer, sleep, backoff>>

Heals ==
  /\ ~healed /\ servers[Len(servers)] # "other"
  /\ healed' = TRUE
  /\ UNCHANGED <<servers, caller, at, i, left, answer, trying, sleep, backoff>>

Step ==
  \/ DialFails \/ Dials \/ HandshakeFails
  \/ \E code \in Codes, kp \in Keepalives : Connack(code, kp)
  \/ Returns \/ Succeeds
  \/ ConnectRetries \/ ConnectFails \/ ConnectWakes
  \/ ReconnectPauses \/ ReconnectStarts \/ ReconnectSleeps \/ ReconnectWakes

Next == Step \/ DialHangs \/ Lost \/ Stops \/ Heals

Spec == Init /\ [][Next]_vars

(* The goroutine runs, sleeps end and timeouts expire: the code between two *)
(* places is never left waiting except in a dial without a timeout.         *)
FairSpec == Spec /\ WF_vars(Step)

-----------------------------------------------------------------------------
(* Properties *)

TypeOK ==
  /\ servers \in ServerLists
  /\ caller \in {"connect", "reconnect"}
  /\ at \in {"lost", "pausing", "dial", "handshake", "hung", "ended", "returned",
             "asleep", "up", "failed", "abandoned"}
  /\ i \in 1 .. Len(servers) /\ left \in 0 .. ConnectTimeout
  /\ conn \in {"nil", "open", "closed"} /\ deadline \in BOOLEAN
  /\ rc \in 0 .. 255 /\ err \in {"nil", "io", "refused"}
  /\ asked \in Seq([code : Int, kp : Int])
  /\ serverKp \in Nat
  /\ trying \in BOOLEAN /\ healed \in BOOLEAN
  /\ sleep \in Nat
  /\ last \in [Situations -> Nat \cup {-1}]
  /\ since \in [Situations -> Nat]

LastAnswer == asked[Len(asked)]

(* What startWorkers gets from attemptConnection is an open connection      *)
(* that was not refused with a code the client knows; accepted, it has no   *)
(* handshake deadline left on it that would end it later, the keepalive     *)
(* kept is its own, and no server before it in the list had accepted.       *)
HandedOver ==
  at = "up" =>
    /\ conn = "open" /\ LastAnswer.code \notin Refusals
    /\ LastAnswer.code = Accepted => ~deadline /\ serverKp = LastAnswer.kp
    /\ \A n \in 1 .. Len(asked) - 1 : asked[n].code # Accepted

(* An attempt fails only after every server was asked and none accepted,    *)
(* and a connection whose refusal is reported has been closed.              *)
FailedAttempt ==
  at = "returned" /\ err # "nil" =>
    /\ Len(asked) = Len(servers)
    /\ \A n \in 1 .. Len(asked) : asked[n].code # Accepted
    /\ err = "refused" => conn = "closed"

(* With ConnectRetry, Connect gives up only when the last server refused    *)
(* the client or when the status has changed under it.                      *)
ConnectPersists ==
  at = "failed" /\ ConnectRetry => ~trying \/ LastAnswer.code \in Refusals

(* The backoff never sleeps longer than MaxReconnectInterval and between    *)
(* failing attempts never shorter than the initial sleep: reconnect does    *)
(* not spin.                                                                *)
BackoffBounded ==
  /\ \A s \in Situations : last[s] \in {-1, 0} \cup (InitSleep .. MaxReconnectInterval)
  /\ caller = "reconnect" /\ at = "asleep" => sleep >= InitSleep

(* When an attempt and the jitter cannot take longer than two connect       *)
(* timeouts ... *)
Patient ==
  /\ \A n \in 1 .. Len(servers) : Bounded(servers[n])
  /\ 4 * (Len(servers) * ConnectTimeout) + MaxReconnectInterval <= 8 * ConnectTimeout

(* ... the sleeps of one reconnect double up to the maximum.                *)
BackoffGrows ==
  [][ Patient /\ ReconnectSleeps /\ sleep > 0 => sleep' = Least(2 * sleep, MaxReconnectInterval) ]_vars

(* While the loop of attemptConnection runs there is one answer for each    *)
(* server before i, and none is an acceptance ...                           *)
Asking ==
  /\ at \in {"dial", "handshake"} =>
       /\ Len(asked) = i - 1
       /\ \A n \in 1 .. Len(asked) : asked[n].code # Accepted
  /\ at = "handshake" => conn = "open"

(* ... and when it has ended, rc and err tell the last answer. *)
Answered ==
  /\ at \in {"ended", "returned", "up"} =>
       /\ asked # <<>>
       /\ \A n \in 1 .. Len(asked) - 1 : asked[n].code # Accepted
       /\ LastAnswer.code = Accepted => err = "nil" /\ ~deadline /\ serverKp = LastAnswer.kp
       /\ LastAnswer.code # Accepted => Len(asked) = Len(servers)
       /\ err = "nil" => conn = "open"
       /\ err = "nil" \/ rc \in Refusals => rc = LastAnswer.code
  /\ at = "ended" => err # "refused"
  /\ at = "up" => err = "nil"
  /\ at \in {"returned", "up"} => (err = "refused" <=> rc \in Refusals)
  /\ at = "returned" /\ err = "refused" => conn = "closed"

(* Between two errors of one reconnect lie one jittered sleep and the time  *)
(* of the tries.                                                            *)
Spaced ==
  Patient /\ caller = "reconnect" /\ sleep > 0
    /\ at \in {"dial", "handshake", "ended", "returned", "asleep"} =>
    /\ last["attemptReconnection"] = sleep
    /\ at = "asleep" => since["attemptReconnection"] = 0
    /\ at \in {"dial", "handshake"} =>
         4 * since["attemptReconnection"] <= 5 * sleep + 4 * (i * ConnectTimeout - left)
    /\ at \in {"ended", "returned"} =>
         4 * since["attemptReconnection"] <= 5 * sleep + 4 * (i * ConnectTimeout)

(* What the properties above rest on; inductive. *)
AttemptInv ==
  /\ TypeOK
  /\ Asking /\ Answered /\ Spaced
  /\ BackoffBounded /\ ConnectPersists
  /\ caller = "connect" => at \notin {"lost", "pausing", "abandoned"}
  /\ caller = "reconnect" => at # "failed"

(* When no dial can hang and the last server comes back, reconnect gets a   *)
(* connection unless it is told to stop.                                    *)
Recovers ==
  (\A n \in 1 .. Len(servers) : Bounded(servers[n])) /\ healed /\ caller = "reconnect"
    ~> at = "up" \/ ~trying

=============================================================================
