------------------------ MODULE ConnectAttemptsProofs ------------------------
(* Proofs about the attempts to connect and their backoff. *)
EXTENDS ConnectAttempts, TLAPS

(* The time a prover may spend on a leaf, in seconds. *)
USE SMTT(30), ZenonT(20)

(* One more server takes at most one more connect timeout. *)
LEMMA TimesNext == \A a, b \in Nat : (a + 1) * b = a * b + b
  BY SMT

(* The time of some of the servers is at most that of all. *)
LEMMA TimesMono == \A a, b, c \in Nat : a <= b => a * c <= b * c
<1> SUFFICES ASSUME NEW a \in Nat, NEW b \in Nat, NEW c \in Nat, a <= b
             PROVE  a * c <= b * c
  BY Zenon
<1> DEFINE d == b - a
<1>1. d \in Nat /\ b = a + d
  OBVIOUS
<1>2. b * c = a * c + d * c /\ d * c >= 0 /\ a * c \in Nat
  BY <1>1, SMT
<1> QED
  BY <1>2

(* The invariant holds in the initial states. *)
LEMMA AttemptInit == Init => AttemptInv
<1> USE AttemptAssumption DEF Init, AttemptInv
<1> SUFFICES ASSUME Init PROVE AttemptInv
  BY Zenon
<1>1. servers \in Seq(Schemes) /\ servers # <<>> /\ Len(servers) \in Nat /\ Len(servers) >= 1
  BY DEF Schemes
<1>2. TypeOK
  <2>1. at \in {"dial", "lost"} /\ asked \in Seq([code : Int, kp : Int])
    OBVIOUS
  <2>2. last \in [Situations -> Nat \cup {-1}] /\ since \in [Situations -> Nat]
    BY Zenon
  <2>3. i \in 1 .. Len(servers) /\ left \in 0 .. ConnectTimeout
    BY <1>1
  <2>4. rc \in 0 .. 255 /\ serverKp \in Nat /\ sleep \in Nat
    OBVIOUS
  <2>5. deadline \in BOOLEAN /\ trying \in BOOLEAN /\ healed \in BOOLEAN /\ servers \in ServerLists /\ caller \in {"connect", "reconnect"}
    BY Zenon
  <2>6. conn \in {"nil", "open", "closed"} /\ err \in {"nil", "io", "refused"}
    BY Zenon
  <2> QED
    BY <2>1, <2>2, <2>3, <2>4, <2>5, <2>6, Zenon DEF TypeOK
<1>3. Asking /\ Answered /\ Spaced /\ BackoffBounded /\ ConnectPersists
  BY <1>1 DEF Asking, Answered, Spaced, BackoffBounded, ConnectPersists, Situations
<1> QED
  BY <1>2, <1>3, Zenon

(* What passing time does to the times since the last errors. *)
LEMMA ElapseBounds ==
  ASSUME TypeOK, NEW d \in Nat, Elapse(d)
  PROVE  /\ since' \in [Situations -> Nat]
         /\ \A s \in Situations : since'[s] <= since[s] + d
<1> DEFINE e(s) == IF last[s] = -1 THEN 0 ELSE Least(since[s] + d, Fresh(s))
<1>1. ASSUME NEW s \in Situations
      PROVE  Fresh(s) \in Nat /\ since[s] \in Nat
  BY AttemptAssumption DEF TypeOK, Fresh, ProcessTime
<1>2. ASSUME NEW s \in Situations
      PROVE  e(s) \in Nat /\ e(s) <= since[s] + d
  BY <1>1 DEF Least
<1>3. since' = [s \in Situations |-> e(s)]
  BY Zenon DEF Elapse
<1> HIDE DEF e
<1> QED
  BY <1>2, <1>3, Zenon

(* The shape of the list of servers and of the answers. *)
LEMMA Lists ==
  ASSUME TypeOK
  PROVE  /\ Len(servers) \in Nat /\ Len(servers) >= 1
         /\ Len(asked) \in Nat /\ i \in Nat /\ left \in Nat /\ ConnectTimeout \in Nat
         /\ i * ConnectTimeout \in Nat
<1>1. servers \in Seq(Schemes) /\ servers # <<>>
  BY AttemptAssumption, Zenon DEF TypeOK
<1>2. Len(servers) \in Nat /\ Len(servers) >= 1
  BY <1>1
<1>3. Len(asked) \in Nat
  BY DEF TypeOK
<1>4. i \in Nat /\ left \in Nat /\ ConnectTimeout \in Nat
  BY <1>2, AttemptAssumption DEF TypeOK
<1> QED
  BY <1>2, <1>3, <1>4

(* Between two bounded dials no more than the time left passes. *)
LEMMA PatientDial ==
  ASSUME TypeOK, Patient, NEW d \in Nat, DialTakes(d)
  PROVE  d <= left
  BY Lists, Zenon DEF TypeOK, Patient, DialTakes

(* An answer that is not an acceptance ends the try with server i. *)
LEMMA NotAccepted ==
  ASSUME TypeOK, Asking, at \in {"dial", "handshake"}, NextServer,
         NEW r \in [code : Int, kp : Int], r.code # Accepted, asked' = Append(asked, r),
         UNCHANGED servers
  PROVE  /\ at' \in {"dial", "ended"}
         /\ i' \in 1 .. Len(servers)' /\ left' \in 0 .. ConnectTimeout
         /\ asked' \in Seq([code : Int, kp : Int]) /\ asked' # <<>>
         /\ LastAnswer' = r
         /\ \A n \in 1 .. Len(asked') : asked'[n].code # Accepted
         /\ at' = "dial" => Len(asked') = i' - 1
         /\ at' = "ended" => Len(asked') = Len(servers)'
<1> USE Lists
<1>1. at' \in {"dial", "ended"} /\ i' \in 1 .. Len(servers)' /\ left' \in 0 .. ConnectTimeout
  BY DEF TypeOK, NextServer
<1>2. asked' \in Seq([code : Int, kp : Int]) /\ Len(asked') = Len(asked) + 1
  BY DEF TypeOK
<1>3. LastAnswer' = r
  BY <1>2 DEF TypeOK, LastAnswer
<1>4. Len(asked) = i - 1 /\ \A n \in 1 .. Len(asked) : asked[n].code # Accepted
  BY Zenon DEF Asking
<1>5. \A n \in 1 .. Len(asked') : asked'[n].code # Accepted
  BY <1>2, <1>4 DEF TypeOK
<1>6. at' = "dial" => Len(asked') = i' - 1
  BY <1>2, <1>4 DEF NextServer, TypeOK
<1>7. at' = "ended" => Len(asked') = Len(servers)'
  BY <1>2, <1>4 DEF NextServer, TypeOK
<1>8. asked' # <<>>
  BY <1>2
<1> QED
  BY <1>1, <1>2, <1>3, <1>5, <1>6, <1>7, <1>8, Zenon

(* The bound on the time since the last error after a try that took d. *)
LEMMA SpacedNext ==
  ASSUME TypeOK, Spaced, at \in {"dial", "handshake"}, NextServer,
         NEW d \in Nat, Elapse(d), Patient => d <= left,
         UNCHANGED <<servers, caller, sleep, last>>
  PROVE  Spaced'
<1> SUFFICES ASSUME Patient', caller' = "reconnect", sleep' > 0
             PROVE  /\ last'["attemptReconnection"] = sleep'
                    /\ at' = "dial" => 4 * since'["attemptReconnection"] <= 5 * sleep' + 4 * (i' * ConnectTimeout - left')
                    /\ at' = "ended" => 4 * since'["attemptReconnection"] <= 5 * sleep' + 4 * (i' * ConnectTimeout)
  BY Zenon DEF Spaced, NextServer
<1>1. Patient
  BY Zenon DEF Patient, Bounded
<1>2. /\ last["attemptReconnection"] = sleep
      /\ 4 * since["attemptReconnection"] <= 5 * sleep + 4 * (i * ConnectTimeout - left)
  BY <1>1, Zenon DEF Spaced
<1>3. since'["attemptReconnection"] <= since["attemptReconnection"] + d
      /\ since'["attemptReconnection"] \in Nat /\ since["attemptReconnection"] \in Nat /\ sleep \in Nat
  BY ElapseBounds, Zenon DEF Situations, TypeOK
<1>4. 4 * since'["attemptReconnection"] <= 5 * sleep + 4 * (i * ConnectTimeout)
  <2> DEFINE total == i * ConnectTimeout
  <2>1. total \in Nat /\ left \in Nat /\ d <= left
    BY <1>1, Lists, Zenon
  <2>2. 4 * since["attemptReconnection"] <= 5 * sleep + 4 * (total - left)
    BY <1>2, Zenon
  <2> HIDE DEF total
  <2>3. 4 * since'["attemptReconnection"] <= 5 * sleep + 4 * total
    BY <1>3, <2>1, <2>2
  <2> QED
    BY <2>3, Zenon DEF total
<1>5. CASE i < Len(servers)
  <2>1. i' = i + 1 /\ left' = ConnectTimeout /\ at' = "dial"
    BY <1>5, Zenon DEF NextServer
  <2>2. i' * ConnectTimeout - left' = i * ConnectTimeout
    BY <2>1, TimesNext, Lists
  <2> QED
    BY <1>2, <1>4, <2>1, <2>2, Zenon
<1>6. CASE ~(i < Len(servers))
  <2>1. i' = i /\ left' = left /\ at' = "ended"
    BY <1>6, Zenon DEF NextServer
  <2> QED
    BY <1>2, <1>4, <2>1, Zenon
<1> QED
  BY <1>5, <1>6, Zenon

(* The locals of a new attempt. *)
LEMMA AttemptLocals ==
  ASSUME TypeOK, Attempt, UNCHANGED servers
  PROVE  /\ at' = "dial" /\ i' \in 1 .. Len(servers)' /\ left' \in 0 .. ConnectTimeout
         /\ conn' = "nil" /\ deadline' \in BOOLEAN
         /\ rc' \in 0 .. 255 /\ err' = "nil" /\ asked' \in Seq([code : Int, kp : Int])
         /\ serverKp' \in Nat
<1>1. Len(servers) \in Nat /\ Len(servers) >= 1 /\ ConnectTimeout \in Nat
  BY Lists, Zenon
<1>2. asked' \in Seq([code : Int, kp : Int])
  BY DEF Attempt
<1>3. i' = 1 /\ left' = ConnectTimeout /\ deadline' = FALSE /\ rc' = 0 /\ serverKp' = serverKp
      /\ at' = "dial" /\ conn' = "nil" /\ err' = "nil"
  BY Zenon DEF Attempt
<1>4. i' \in 1 .. Len(servers)' /\ left' \in 0 .. ConnectTimeout /\ rc' \in 0 .. 255
  BY <1>1, <1>3
<1>5. serverKp' \in Nat
  BY <1>3, Zenon DEF TypeOK
<1> QED
  BY <1>2, <1>3, <1>4, <1>5, Zenon

(* What the backoff decides. *)
LEMMA NextSleepBounds ==
  ASSUME TypeOK, BackoffBounded, NEW s \in Situations
  PROVE  /\ NextSleep(s) \in Nat
         /\ NextSleep(s) \in {0} \cup (InitSleep .. MaxReconnectInterval)
         /\ s = "attemptReconnection" => NextSleep(s) >= InitSleep
         /\ InitSleep \in Nat /\ InitSleep >= 1
<1>1. InitSleep \in Nat /\ InitSleep >= 1 /\ InitSleep <= MaxReconnectInterval
  BY AttemptAssumption DEF InitSleep, Least
<1>2. last[s] \in {-1, 0} \cup (InitSleep .. MaxReconnectInterval)
  BY Zenon DEF BackoffBounded
<1>3. CASE ~IsContinual(s)
  BY <1>1, <1>3, AttemptAssumption DEF NextSleep, FirstSleep
<1>4. CASE IsContinual(s) /\ last[s] = 0
  BY <1>1, <1>4, AttemptAssumption DEF NextSleep
<1>5. CASE IsContinual(s) /\ last[s] # 0
  <2>1. last[s] \in InitSleep .. MaxReconnectInterval
    BY <1>2, <1>5, Zenon DEF IsContinual
  <2>2. NextSleep(s) = Least(2 * last[s], MaxReconnectInterval)
    BY <1>5, Zenon DEF NextSleep
  <2> QED
    BY <1>1, <2>1, <2>2, AttemptAssumption DEF Least
<1> QED
  BY <1>3, <1>4, <1>5, Zenon

(* A step of the program or of its environment keeps the invariant. *)
LEMMA AttemptStep == AttemptInv /\ [Next]_vars => AttemptInv'
<1> SUFFICES ASSUME AttemptInv, [Next]_vars PROVE AttemptInv'
  BY Zenon
<1> USE DEF AttemptInv, environment, backoff, answer
<1>0. TypeOK /\ Asking /\ Answered /\ Spaced /\ BackoffBounded /\ ConnectPersists
  BY Zenon
<1>a. Durations \subseteq Nat
  BY AttemptAssumption, Zenon
<1>b. NoAnswer \in [code : Int, kp : Int] /\ NoAnswer.code = -1 /\ NoAnswer.code # Accepted
  BY DEF NoAnswer, Accepted
<1>c. ErrNetworkError \in 0 .. 255 /\ ErrNetworkError \notin Refusals
  BY DEF ErrNetworkError, Refusals, ErrRefusedBadProtocolVersion, ErrRefusedNotAuthorised, ErrProtocolViolation
<1>1. CASE DialFails
  <2> USE <1>1 DEF DialFails
  <2>1. PICK d \in Durations : DialTakes(d)
    BY Zenon
  <2>2. d \in Nat /\ Elapse(d) /\ (Patient => d <= left)
    BY <1>0, <1>a, <2>1, PatientDial, Zenon DEF DialTakes
  <2>3. since' \in [Situations -> Nat]
    BY <1>0, <2>2, ElapseBounds, Zenon
  <2>4. /\ at' \in {"dial", "ended"}
        /\ i' \in 1 .. Len(servers)' /\ left' \in 0 .. ConnectTimeout
        /\ asked' \in Seq([code : Int, kp : Int]) /\ asked' # <<>>
        /\ LastAnswer' = NoAnswer
        /\ \A n \in 1 .. Len(asked') : asked'[n].code # Accepted
        /\ at' = "dial" => Len(asked') = i' - 1
        /\ at' = "ended" => Len(asked') = Len(servers)'
    BY <1>0, <1>b, NotAccepted, Zenon
  <2>5. TypeOK'
    BY <1>0, <1>c, <2>3, <2>4, Zenon DEF TypeOK
  <2>6. Asking'
    BY <2>4, Zenon DEF Asking
  <2>7. Answered'
    <3>1. err' = "io" /\ rc' \notin Refusals /\ LastAnswer'.code # Accepted
      BY <1>b, <1>c, <2>4, Zenon
    <3>2. Len(asked') \in Nat
      BY <2>5 DEF TypeOK
    <3>3. \A n \in 1 .. Len(asked') - 1 : asked'[n].code # Accepted
      BY <2>4, <3>2
    <3> QED
      BY <2>4, <3>1, <3>3, Zenon DEF Answered
  <2>8. Spaced'
    BY <1>0, <2>2, SpacedNext, Zenon
  <2>9. BackoffBounded' /\ ConnectPersists'
    BY <1>0, <2>4, Zenon DEF BackoffBounded, ConnectPersists
  <2> QED
    BY <2>4, <2>5, <2>6, <2>7, <2>8, <2>9, Zenon
<1>2. CASE Dials
  <2> USE <1>2 DEF Dials
  <2>1. PICK d \in Durations : DialTakes(d) /\ left' = left - Least(d, left)
    BY Zenon
  <2>2. d \in Nat /\ Elapse(d) /\ (Patient => d <= left)
    BY <1>0, <1>a, <2>1, PatientDial, Zenon DEF DialTakes
  <2>3. since' \in [Situations -> Nat] /\ \A s \in Situations : since'[s] <= since[s] + d
    BY <1>0, <2>2, ElapseBounds, Zenon
  <2>4. left' \in 0 .. ConnectTimeout /\ (d <= left => left' = left - d)
    BY <1>0, <2>1, <2>2, Lists DEF TypeOK, Least
  <2>5. TypeOK'
    BY <1>0, <2>3, <2>4, Zenon DEF TypeOK
  <2>6. Asking' /\ Answered'
    BY <1>0, Zenon DEF Asking, Answered
  <2>8. Spaced'
    <3> SUFFICES ASSUME Patient', caller' = "reconnect", sleep' > 0
                 PROVE  /\ last'["attemptReconnection"] = sleep'
                        /\ 4 * since'["attemptReconnection"] <= 5 * sleep' + 4 * (i' * ConnectTimeout - left')
      BY Zenon DEF Spaced
    <3>1. Patient
      BY Zenon DEF Patient, Bounded
    <3> DEFINE total == i * ConnectTimeout
    <3>2. last["attemptReconnection"] = sleep
          /\ 4 * since["attemptReconnection"] <= 5 * sleep + 4 * (total - left)
      BY <1>0, <3>1, Zenon DEF Spaced
    <3>3. total \in Nat /\ left \in Nat /\ sleep \in Nat
          /\ since["attemptReconnection"] \in Nat /\ since'["attemptReconnection"] \in Nat
          /\ since'["attemptReconnection"] <= since["attemptReconnection"] + d
      BY <1>0, <2>3, Lists, Zenon DEF TypeOK, Situations
    <3> HIDE DEF total
    <3>4. 4 * since'["attemptReconnection"] <= 5 * sleep + 4 * (total - left')
      BY <2>2, <2>4, <3>1, <3>2, <3>3
    <3> QED
      BY <3>2, <3>4, Zenon DEF total
  <2>9. BackoffBounded' /\ ConnectPersists'
    BY <1>0, Zenon DEF BackoffBounded, ConnectPersists
  <2> QED
    BY <2>5, <2>6, <2>8, <2>9, Zenon
<1>3. CASE HandshakeFails
  <2> USE <1>3 DEF HandshakeFails
  <2>1. PICK d \in Durations : d <= left /\ Elapse(d)
    BY Zenon
  <2>3. since' \in [Situations -> Nat]
    BY <1>0, <1>a, <2>1, ElapseBounds, Zenon
  <2>4. /\ at' \in {"dial", "ended"}
        /\ i' \in 1 .. Len(servers)' /\ left' \in 0 .. ConnectTimeout
        /\ asked' \in Seq([code : Int, kp : Int]) /\ asked' # <<>>
        /\ LastAnswer' = NoAnswer
        /\ \A n \in 1 .. Len(asked') : asked'[n].code # Accepted
        /\ at' = "dial" => Len(asked') = i' - 1
        /\ at' = "ended" => Len(asked') = Len(servers)'
    BY <1>0, <1>b, NotAccepted, Zenon
  <2>5. TypeOK'
    BY <1>0, <1>c, <2>3, <2>4 DEF TypeOK
  <2>6. Asking'
    BY <2>4, Zenon DEF Asking
  <2>7. Answered'
    <3>1. err' = "io" /\ rc' \notin Refusals /\ LastAnswer'.code # Accepted
      BY <1>b, <1>c, <2>4, Zenon
    <3>2. Len(asked') \in Nat
      BY <2>5 DEF TypeOK
    <3>3. \A n \in 1 .. Len(asked') - 1 : asked'[n].code # Accepted
      BY <2>4, <3>2
    <3> QED
      BY <2>4, <3>1, <3>3, Zenon DEF Answered
  <2>8. Spaced'
    BY <1>0, <1>a, <2>1, SpacedNext, Zenon
  <2>9. BackoffBounded' /\ ConnectPersists'
    BY <1>0, <2>4, Zenon DEF BackoffBounded, ConnectPersists
  <2> QED
    BY <2>4, <2>5, <2>6, <2>7, <2>8, <2>9, Zenon
<1>4. ASSUME NEW code \in Codes, NEW kp \in Keepalives, Connack(code, kp)
      PROVE  AttemptInv'
  <2> USE <1>4 DEF Connack
  <2> DEFINE r == [code |-> code, kp |-> kp]
  <2>1. PICK d \in Durations : d < left /\ Elapse(d)
    BY Zenon
  <2>2. d \in Nat /\ d <= left
    BY <1>0, <1>a, <2>1, Lists
  <2>3. since' \in [Situations -> Nat] /\ \A s \in Situations : since'[s] <= since[s] + d
    BY <1>0, <2>1, <2>2, ElapseBounds, Zenon
  <2>4. code \in 0 .. 255 /\ kp \in Nat /\ r \in [code : Int, kp : Int] /\ r.code = code /\ r.kp = kp
    BY AttemptAssumption
  <2>5. conn = "open"
    BY <1>0, Zenon DEF Asking
  <2>9. BackoffBounded' /\ ConnectPersists'
    BY <1>0, Zenon DEF BackoffBounded, ConnectPersists, NextServer, Accept
  <2>10. CASE code # Accepted
    <3> USE <2>10
    <3>1. NextServer
      BY Zenon
    <3>4. /\ at' \in {"dial", "ended"}
          /\ i' \in 1 .. Len(servers)' /\ left' \in 0 .. ConnectTimeout
          /\ asked' \in Seq([code : Int, kp : Int]) /\ asked' # <<>>
          /\ LastAnswer' = r
          /\ \A n \in 1 .. Len(asked') : asked'[n].code # Accepted
          /\ at' = "dial" => Len(asked') = i' - 1
          /\ at' = "ended" => Len(asked') = Len(servers)'
      <4> HIDE DEF r
      <4> QED
        BY <1>0, <2>4, <3>1, NotAccepted, Zenon DEF r
    <3>5. TypeOK'
      BY <1>0, <2>3, <2>4, <3>4 DEF TypeOK
    <3>6. Asking'
      BY <3>4, Zenon DEF Asking
    <3>7. Answered'
      <4>1. conn' = "open" /\ err' = "nil" /\ rc' = LastAnswer'.code /\ LastAnswer'.code # Accepted
        BY <2>4, <2>5, <3>4, Zenon
      <4>2. Len(asked') \in Nat
        BY <3>5 DEF TypeOK
      <4>3. \A n \in 1 .. Len(asked') - 1 : asked'[n].code # Accepted
        BY <3>4, <4>2
      <4> QED
        BY <3>4, <4>1, <4>3, Zenon DEF Answered
    <3>8. Spaced'
      BY <1>0, <2>1, <2>2, <3>1, SpacedNext, Zenon
    <3> QED
      BY <2>9, <3>4, <3>5, <3>6, <3>7, <3>8, Zenon
  <2>11. CASE code = Accepted
    <3> USE <2>11
    <3>1. at' = "ended" /\ i' = i /\ left' = left /\ deadline' = FALSE /\ serverKp' = kp
      BY Zenon DEF Accept
    <3>2. asked' \in Seq([code : Int, kp : Int]) /\ Len(asked') = Len(asked) + 1
      BY <1>0, <2>4 DEF TypeOK
    <3>3. asked' # <<>> /\ LastAnswer' = r
      <4> HIDE DEF r
      <4>1. asked' = Append(asked, r)
        BY Zenon DEF r
      <4>2. asked'[Len(asked) + 1] = r
        BY <1>0, <2>4, <4>1 DEF TypeOK
      <4> QED
        BY <1>0, <3>2, <4>2, Lists DEF LastAnswer
    <3>4. \A n \in 1 .. Len(asked') - 1 : asked'[n].code # Accepted
      BY <1>0, <3>2, Lists DEF Asking, TypeOK
    <3>5. TypeOK'
      BY <1>0, <2>3, <2>4, <3>1, <3>2, Zenon DEF TypeOK
    <3>6. Asking' /\ Answered'
      BY <2>4, <2>5, <3>1, <3>3, <3>4, Zenon DEF Asking, Answered
    <3>7. Spaced'
      <4> SUFFICES ASSUME Patient', caller' = "reconnect", sleep' > 0
                   PROVE  /\ last'["attemptReconnection"] = sleep'
                          /\ 4 * since'["attemptReconnection"] <= 5 * sleep' + 4 * (i' * ConnectTimeout)
        BY <3>1, Zenon DEF Spaced
      <4>1. Patient
        BY Zenon DEF Patient, Bounded
      <4> DEFINE total == i * ConnectTimeout
      <4>2. last["attemptReconnection"] = sleep
            /\ 4 * since["attemptReconnection"] <= 5 * sleep + 4 * (total - left)
        BY <1>0, <4>1, Zenon DEF Spaced
      <4>3. total \in Nat /\ left \in Nat /\ sleep \in Nat
            /\ since["attemptReconnection"] \in Nat /\ since'["attemptReconnection"] \in Nat
            /\ since'["attemptReconnection"] <= since["attemptReconnection"] + d
        BY <1>0, <2>3, Lists, Zenon DEF TypeOK, Situations
      <4> HIDE DEF total
      <4>4. 4 * since'["attemptReconnection"] <= 5 * sleep + 4 * total
        BY <2>2, <4>2, <4>3
      <4> QED
        BY <3>1, <4>2, <4>4, Zenon DEF total
    <3> QED
      BY <2>9, <3>1, <3>5, <3>6, <3>7, Zenon
  <2> QED
    BY <2>10, <2>11, Zenon
<1>5. CASE Returns
  <2> USE <1>5 DEF Returns
  <2>1. TypeOK'
    BY <1>0 DEF TypeOK
  <2>2. Asking' /\ Answered'
    <3>1. LastAnswer' = LastAnswer /\ at = "ended" /\ at' = "returned" /\ err # "refused"
      BY <1>0, Zenon DEF LastAnswer, Answered
    <3>2. Accepted \notin Refusals
      BY DEF Accepted, Refusals, ErrRefusedBadProtocolVersion, ErrRefusedNotAuthorised, ErrProtocolViolation
    <3>3. CASE rc \in Refusals
      <4>1. conn' = "closed" /\ err' = "refused" /\ LastAnswer.code # Accepted
        BY <1>0, <3>1, <3>2, <3>3, Zenon DEF Answered
      <4> QED
        BY <1>0, <3>1, <3>3, <4>1, Zenon DEF Asking, Answered
    <3>4. CASE rc \notin Refusals
      BY <1>0, <3>1, <3>4, Zenon DEF Asking, Answered
    <3> QED
      BY <3>3, <3>4, Zenon
  <2>3. Spaced'
    BY <1>0, Zenon DEF Spaced, Patient, Bounded
  <2>4. BackoffBounded' /\ ConnectPersists'
    BY <1>0, Zenon DEF BackoffBounded, ConnectPersists
  <2> QED
    BY <2>1, <2>2, <2>3, <2>4, Zenon
<1>6. CASE Succeeds \/ ConnectRetries \/ ConnectFails \/ DialHangs
  <2> USE <1>6 DEF Succeeds, ConnectRetries, ConnectFails, DialHangs
  <2>1. TypeOK'
    <3>1. sleep' \in Nat
      BY <1>0, AttemptAssumption, Zenon DEF TypeOK
    <3>2. at' \in {"up", "asleep", "failed", "hung"}
      BY Zenon
    <3>3. UNCHANGED <<servers, healed, caller, i, left, conn, deadline, rc, err, asked, serverKp, trying, last, since>>
      BY Zenon
    <3> QED
      BY <1>0, <3>1, <3>2, <3>3 DEF TypeOK
  <2>2. Asking' /\ Answered'
    BY <1>0 DEF Asking, Answered, LastAnswer
  <2>3. Spaced'
    BY <1>0, Zenon DEF Spaced, Patient, Bounded
  <2>4. BackoffBounded'
    BY <1>0, Zenon DEF BackoffBounded
  <2>5. ConnectPersists'
    BY <1>0, Zenon DEF ConnectPersists, Answered, LastAnswer
  <2> QED
    BY <2>1, <2>2, <2>3, <2>4, <2>5, Zenon
<1>7. CASE ConnectWakes
  <2> USE <1>7 DEF ConnectWakes, Attempt
  <2>1. since' \in [Situations -> Nat]
    BY <1>0, ElapseBounds, Zenon DEF TypeOK
  <2>2. TypeOK'
    <3>1. CASE trying
      <4> HIDE DEF Attempt
      <4> QED
        BY <1>0, <2>1, <3>1, AttemptLocals, Zenon DEF TypeOK
    <3>2. CASE ~trying
      BY <1>0, <2>1, <3>2 DEF TypeOK
    <3> QED
      BY <3>1, <3>2, Zenon
  <2>a. /\ (at' = "dial" /\ i' = 1 /\ asked' = <<>>) \/ (at' = "failed" /\ ~trying')
        /\ caller' = "connect" /\ last' = last
    BY Zenon
  <2> HIDE <1>7 DEF ConnectWakes, Attempt
  <2>3. Asking' /\ Answered'
    BY <2>a DEF Asking, Answered
  <2>4. Spaced' /\ BackoffBounded' /\ ConnectPersists'
    BY <1>0, <2>a, Zenon DEF Spaced, BackoffBounded, ConnectPersists
  <2> QED
    BY <2>2, <2>3, <2>4, <2>a, Zenon
<1>8. CASE ReconnectPauses
  <2> USE <1>8 DEF ReconnectPauses, SleepWithBackoff
  <2>1. /\ NextSleep("connectionLost") \in Nat
        /\ NextSleep("connectionLost") \in {0} \cup (InitSleep .. MaxReconnectInterval)
    BY <1>0, NextSleepBounds, Zenon DEF Situations
  <2>2. TypeOK'
    BY <1>0, <2>1, Zenon DEF TypeOK
  <2>3. Asking' /\ Answered' /\ Spaced' /\ ConnectPersists'
    BY <1>0, Zenon DEF Asking, Answered, Spaced, ConnectPersists
  <2>4. BackoffBounded'
    BY <1>0, <2>1, Zenon DEF BackoffBounded, TypeOK
  <2> QED
    BY <2>2, <2>3, <2>4, Zenon
<1>9. CASE ReconnectStarts
  <2> USE <1>9 DEF ReconnectStarts, Attempt
  <2>1. PICK d \in Jittered(sleep) : Elapse(d)
    BY Zenon
  <2>2. d \in Nat
    BY <1>0 DEF Jittered, TypeOK
  <2>3. since' \in [Situations -> Nat]
    BY <1>0, <2>1, <2>2, ElapseBounds, Zenon
  <2>4. TypeOK'
    <3> HIDE DEF Attempt
    <3> QED
      BY <1>0, <2>3, AttemptLocals, Zenon DEF TypeOK
  <2>a. at' = "dial" /\ i' = 1 /\ asked' = <<>> /\ sleep' = 0 /\ last' = last
    BY Zenon
  <2> HIDE <1>9 DEF ReconnectStarts, Attempt
  <2>5. Asking' /\ Answered'
    BY <2>a DEF Asking, Answered
  <2>6. Spaced'
    BY <2>a DEF Spaced
  <2>7. BackoffBounded' /\ ConnectPersists'
    BY <1>0, <2>a, Zenon DEF BackoffBounded, ConnectPersists
  <2>8. caller' = caller /\ at # "failed"
    BY <1>9, Zenon DEF ReconnectStarts
  <2> QED
    BY <2>4, <2>5, <2>6, <2>7, <2>8, <2>a, Zenon
<1>10. CASE ReconnectSleeps
  <2> USE <1>10 DEF ReconnectSleeps, SleepWithBackoff
  <2> DEFINE next == NextSleep("attemptReconnection")
  <2>1. next \in Nat /\ next \in InitSleep .. MaxReconnectInterval /\ InitSleep \in Nat /\ InitSleep >= 1
    BY <1>0, NextSleepBounds DEF Situations
  <2>a. sleep' = next /\ last' = [last EXCEPT !["attemptReconnection"] = next]
    BY Zenon
  <2> HIDE DEF next
  <2>2. TypeOK'
    BY <1>0, <2>1, <2>a, Zenon DEF TypeOK
  <2>3. Asking' /\ Answered' /\ ConnectPersists'
    BY <1>0, Zenon DEF Asking, Answered, ConnectPersists
  <2>4. Spaced'
    BY <1>0, <2>a, Zenon DEF Spaced, TypeOK, Situations
  <2>5. BackoffBounded'
    BY <1>0, <2>1, <2>a DEF BackoffBounded, TypeOK
  <2> QED
    BY <2>2, <2>3, <2>4, <2>5, Zenon
<1>11. CASE ReconnectWakes
  <2> USE <1>11 DEF ReconnectWakes, Attempt
  <2>1. PICK d \in Jittered(sleep) : Elapse(d)
    BY Zenon
  <2>2. d \in Nat /\ 4 * d <= 5 * sleep
    BY <1>0 DEF Jittered, TypeOK
  <2>3. since' \in [Situations -> Nat] /\ \A s \in Situations : since'[s] <= since[s] + d
    BY <1>0, <2>1, <2>2, ElapseBounds, Zenon
  <2>4. TypeOK'
    <3>1. CASE trying
      <4> HIDE DEF Attempt
      <4> QED
        BY <1>0, <2>3, <3>1, AttemptLocals, Zenon DEF TypeOK
    <3>2. CASE ~trying
      BY <1>0, <2>3, <3>2 DEF TypeOK
    <3> QED
      BY <3>1, <3>2, Zenon
  <2>5. Asking' /\ Answered' /\ BackoffBounded' /\ ConnectPersists'
    <3>1. /\ (at' = "dial" /\ i' = 1 /\ asked' = <<>>) \/ at' = "abandoned"
          /\ caller' = "reconnect" /\ last' = last
      BY Zenon
    <3> HIDE <1>11 DEF ReconnectWakes, Attempt
    <3>2. Asking' /\ Answered'
      BY <3>1 DEF Asking, Answered
    <3> QED
      BY <1>0, <3>1, <3>2, Zenon DEF BackoffBounded, ConnectPersists
  <2>6. Spaced'
    <3> SUFFICES ASSUME Patient', caller' = "reconnect", sleep' > 0, at' = "dial"
                 PROVE  /\ last'["attemptReconnection"] = sleep'
                        /\ 4 * since'["attemptReconnection"] <= 5 * sleep' + 4 * (i' * ConnectTimeout - left')
      BY Zenon DEF Spaced
    <3>1. Patient
      BY Zenon DEF Patient, Bounded
    <3>2. last["attemptReconnection"] = sleep /\ since["attemptReconnection"] = 0
      BY <1>0, <3>1, Zenon DEF Spaced
    <3>3. since'["attemptReconnection"] <= d /\ since'["attemptReconnection"] \in Nat
      BY <2>2, <2>3, <3>2 DEF Situations
    <3>4. i' * ConnectTimeout - left' = 0
      BY AttemptAssumption
    <3>5. sleep' = sleep /\ last' = last /\ sleep \in Nat
      BY <1>0, Zenon DEF TypeOK
    <3> HIDE <1>11 DEF ReconnectWakes, Attempt
    <3>6. 4 * since'["attemptReconnection"] <= 5 * sleep'
      BY <2>2, <3>3, <3>5
    <3>7. 5 * sleep' + 4 * (i' * ConnectTimeout - left') = 5 * sleep'
      BY <3>4, <3>5
    <3> QED
      BY <3>2, <3>5, <3>6, <3>7, Zenon
  <2> QED
    BY <2>4, <2>5, <2>6, Zenon
<1>12. CASE Lost
  <2> USE <1>12 DEF Lost
  <2>1. PICK d \in Durations : Elapse(d)
    BY Zenon
  <2>2. since' \in [Situations -> Nat]
    BY <1>0, <1>a, <2>1, ElapseBounds, Zenon
  <2>3. TypeOK'
    BY <1>0, <2>2, Zenon DEF TypeOK
  <2>4. Asking' /\ Answered' /\ Spaced' /\ BackoffBounded' /\ ConnectPersists'
    BY <1>0, Zenon DEF Asking, Answered, Spaced, BackoffBounded, ConnectPersists
  <2> QED
    BY <2>3, <2>4, Zenon
<1>13. CASE Stops \/ Heals \/ UNCHANGED vars
  <2>1. UNCHANGED <<servers, caller, at, i, left, answer, sleep, backoff>> /\ (trying' => trying)
    BY <1>13 DEF Stops, Heals, vars
  <2>2. trying' \in BOOLEAN /\ healed' \in BOOLEAN
    BY <1>0, <1>13, Zenon DEF Stops, Heals, vars, TypeOK
  <2>3. TypeOK'
    BY <1>0, <2>1, <2>2 DEF TypeOK
  <2>4. Asking' /\ Answered'
    BY <1>0, <2>1, Zenon DEF Asking, Answered, LastAnswer
  <2>5. Spaced' /\ BackoffBounded'
    BY <1>0, <2>1, Zenon DEF Spaced, BackoffBounded, Patient, Bounded
  <2>6. ConnectPersists'
    BY <1>0, <2>1, Zenon DEF ConnectPersists, LastAnswer
  <2> QED
    BY <2>1, <2>3, <2>4, <2>5, <2>6, Zenon
<1> QED
  BY <1>1, <1>2, <1>3, <1>4, <1>5, <1>6, <1>7, <1>8, <1>9, <1>10, <1>11, <1>12, <1>13, Zenon DEF Next, Step

(* Every reachable state of the attempts satisfies the inductive invariant. *)
THEOREM AttemptInvariant == Spec => []AttemptInv
  BY AttemptInit, AttemptStep, PTL DEF Spec

(* What Connect and reconnect hand to startWorkers, for every list of       *)
(* servers, every answer and every option.                                  *)
THEOREM HandedOverHolds == Spec => []HandedOver
<1>1. AttemptInv => HandedOver
  BY Zenon DEF AttemptInv, HandedOver, Answered
<1> QED
  BY <1>1, AttemptInvariant, PTL

(* When attemptConnection may fail. *)
THEOREM FailedAttemptHolds == Spec => []FailedAttempt
<1>1. AttemptInv => FailedAttempt
  <2> SUFFICES ASSUME AttemptInv, at = "returned", err # "nil"
               PROVE  /\ Len(asked) = Len(servers)
                      /\ \A n \in 1 .. Len(asked) : asked[n].code # Accepted
                      /\ err = "refused" => conn = "closed"
    BY Zenon DEF FailedAttempt
  <2>1. LastAnswer.code # Accepted /\ \A n \in 1 .. Len(asked) - 1 : asked[n].code # Accepted
    BY Zenon DEF AttemptInv, Answered
  <2>2. \A n \in 1 .. Len(asked) : n \in 1 .. Len(asked) - 1 \/ n = Len(asked)
    BY Lists DEF AttemptInv
  <2> QED
    BY <2>1, <2>2, Zenon DEF AttemptInv, Answered, LastAnswer
<1> QED
  BY <1>1, AttemptInvariant, PTL

(* When Connect may give up although it was told to retry. *)
THEOREM ConnectPersistsHolds == Spec => []ConnectPersists
<1>1. AttemptInv => ConnectPersists
  BY Zenon DEF AttemptInv
<1> QED
  BY <1>1, AttemptInvariant, PTL

(* The sleeps of reconnect stay between their bounds. *)
THEOREM BackoffBoundedHolds == Spec => []BackoffBounded
<1>1. AttemptInv => BackoffBounded
  BY Zenon DEF AttemptInv
<1> QED
  BY <1>1, AttemptInvariant, PTL

(* The sleeps of one reconnect double up to the maximum whenever an attempt *)
(* and the jitter fit into two connect timeouts.                            *)
THEOREM BackoffGrowsHolds == Spec => BackoffGrows
<1> DEFINE Grows == Patient /\ ReconnectSleeps /\ sleep > 0 => sleep' = Least(2 * sleep, MaxReconnectInterval)
<1>1. ASSUME AttemptInv PROVE Grows
  <2> SUFFICES ASSUME Patient, ReconnectSleeps, sleep > 0
               PROVE  sleep' = Least(2 * sleep, MaxReconnectInterval)
    BY Zenon
  <2> DEFINE s == "attemptReconnection"
  <2>1. TypeOK /\ Spaced
    BY <1>1, Zenon DEF AttemptInv
  <2>2. last[s] = sleep /\ 4 * since[s] <= 5 * sleep + 4 * (i * ConnectTimeout)
    BY <2>1, Zenon DEF Spaced, ReconnectSleeps
  <2>3. i * ConnectTimeout <= Len(servers) * ConnectTimeout /\ i * ConnectTimeout \in Nat
        /\ Len(servers) * ConnectTimeout \in Nat
    <3>1. i \in Nat /\ Len(servers) \in Nat /\ ConnectTimeout \in Nat /\ i <= Len(servers)
      BY <2>1, Lists DEF TypeOK
    <3>2. i * ConnectTimeout <= Len(servers) * ConnectTimeout
      BY <3>1, TimesMono, Zenon
    <3>3. i * ConnectTimeout \in Nat /\ Len(servers) * ConnectTimeout \in Nat
      BY <3>1
    <3> QED
      BY <3>2, <3>3, Zenon
  <2>4. sleep <= MaxReconnectInterval /\ sleep \in Nat /\ since[s] \in Nat
    BY <1>1, <2>2 DEF AttemptInv, BackoffBounded, TypeOK, Situations
  <2>5. since[s] <= 2 * ConnectTimeout + sleep
    <3> DEFINE part == i * ConnectTimeout
               all  == Len(servers) * ConnectTimeout
    <3>1. part <= all /\ part \in Nat /\ all \in Nat /\ ConnectTimeout \in Nat /\ MaxReconnectInterval \in Nat
      BY <2>3, AttemptAssumption, Zenon
    <3>2. 4 * all + MaxReconnectInterval <= 8 * ConnectTimeout /\ 4 * since[s] <= 5 * sleep + 4 * part
      BY <2>2, Zenon DEF Patient
    <3> HIDE DEF part, all
    <3> QED
      BY <2>4, <3>1, <3>2
  <2>6. IsContinual(s) /\ last[s] # 0
    BY <2>2, <2>4, <2>5 DEF IsContinual, ProcessTime
  <2>7. NextSleep(s) = Least(2 * sleep, MaxReconnectInterval)
    BY <2>2, <2>6, Zenon DEF NextSleep
  <2> QED
    BY <2>7, Zenon DEF ReconnectSleeps, SleepWithBackoff
<1>2. AttemptInv /\ [Next]_vars => [Grows]_vars
  BY <1>1, Zenon
<1> QED
  BY <1>2, AttemptInvariant, PTL DEF Spec, BackoffGrows
=============================================================================
