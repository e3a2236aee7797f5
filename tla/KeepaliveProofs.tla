--------------------------- MODULE KeepaliveProofs ---------------------------
(* Proofs about the keepalive of the client, for every heartbeat, policy    *)
(* and delay.                                                               *)
EXTENDS Keepalive, SequenceTheorems, TLAPS

(* The time a prover may spend on a leaf, in seconds. *)
USE SMTT(30), ZenonT(20)

(* The ticker counts to its interval and starts again. *)
LEMMA Wraps ==
  ASSUME NEW n \in Nat \ {0}, NEW k \in 0 .. (n - 1)
  PROVE  \/ k + 1 < n /\ (k + 1) % n = k + 1
         \/ k + 1 = n /\ (k + 1) % n = 0
<1>1. CASE k + 1 < n
  BY <1>1, SMT
<1>2. CASE k + 1 = n
  BY <1>2, SMT
<1> QED
  BY <1>1, <1>2

(* The configuration of a connection, and what is computed from it. *)
Configured ==
  /\ opt \in [adaptive : BOOLEAN, hb : Nat, short : Nat, max : Nat,
              probes : Nat, window : Nat, talk : SUBSET {"client", "server"}]
  /\ decided \in Nat

(* What client and server agree on is fixed by the handshake. *)
LEMMA ConfiguredInit == Init => Configured
<1> SUFFICES ASSUME Init PROVE Configured
  BY Zenon
<1>1. opt \in Options
  BY Zenon DEF Init
<1>2. opt \in [adaptive : BOOLEAN, hb : Nat, short : Nat, max : Nat,
              probes : Nat, window : Nat, talk : SUBSET {"client", "server"}]
  BY <1>1, KeepaliveAssumption, Zenon
<1>3. PICK p \in Policies : decided = Decide(p, Proposal(opt))
  BY Zenon DEF Init
<1>4. p \in [min : Nat, max : Nat, default : Nat, disable : BOOLEAN]
  BY KeepaliveAssumption, Zenon
<1>5. Proposal(opt) \in Nat
  BY <1>2, KeepaliveAssumption DEF Proposal
<1> HIDE DEF Proposal
<1>6. decided \in Nat
  BY <1>3, <1>4, <1>5, Zenon DEF Decide, Least
<1> QED
  BY <1>2, <1>6, Zenon DEF Configured

(* The intervals and limits of the loop in use are positive numbers. *)
LEMMA Sizes ==
  ASSUME Configured
  PROVE  /\ serverKp \in Nat /\ effectiveHeartbeat \in Nat /\ Timeout(effectiveHeartbeat) \in Nat
         /\ Short \in Nat \ {0} /\ Ceiling \in Nat
         /\ Interval \in Nat \ {0}
<1>1. Second \in Nat /\ Second >= 4 /\ Word \in Nat /\ Word > 0
  BY KeepaliveAssumption
<1>2. serverKp \in Nat
  BY <1>1 DEF serverKp, Configured
<1>3. effectiveHeartbeat \in Nat
  <2>1. (IF serverKp > 0 THEN serverKp ELSE opt.hb) \in Nat
    BY <1>2, Zenon DEF Configured
  <2> QED
    BY <1>1, <2>1 DEF effectiveHeartbeat
<1>4. Timeout(effectiveHeartbeat) \in Nat
  BY <1>3 DEF Timeout
<1>5. Most(opt.short, 1) \in Nat /\ Most(opt.short, 1) >= 1
  BY DEF Configured, Most
<1>6. Short \in Nat /\ Short > 0
  BY <1>1, <1>5 DEF Short
<1>7. Ceiling \in Nat
  <2>1. Least(Most(opt.max, Most(opt.short, 1)), serverKp) \in Nat
    BY <1>2, <1>5, Zenon DEF Configured, Most, Least
  <2> QED
    BY <1>1, <2>1 DEF Ceiling
<1>8. Interval \in Nat /\ Interval > 0
  <2>1. Second \div 4 \in Nat /\ Second \div 4 > 0 /\ effectiveHeartbeat \div 4 \in Nat
    BY <1>1, <1>3
  <2> QED
    BY <1>1, <2>1 DEF Interval, Most
<1> QED
  BY <1>2, <1>3, <1>4, <1>6, <1>7, <1>8

(* No step changes the configuration. *)
LEMMA SameConfig ==
  ASSUME [Next]_vars
  PROVE  /\ UNCHANGED config
         /\ loop' = loop /\ Short' = Short /\ Ceiling' = Ceiling /\ Interval' = Interval
         /\ effectiveHeartbeat' = effectiveHeartbeat
         /\ Configured => Configured'
<1>1. UNCHANGED config
  <2>1. CASE FixedCheck
    BY <2>1, Zenon DEF FixedCheck, Serves
  <2>2. CASE AdaptiveCheck
    BY <2>2, Zenon DEF AdaptiveCheck, AdaptiveProbes, ShortAnswered, ProbeAnswered, Unanswered, StableCheck,
       AdaptiveServes, Serves
  <2> QED
    BY <2>1, <2>2, Zenon DEF Next, Tick, Die, ServerReads, ServerPushes, Reap, ClientReads, ClientPushes, PushBlocks, vars
<1>2. opt' = opt /\ decided' = decided
  BY <1>1, Zenon DEF config
<1>3. serverKp' = serverKp
  BY <1>2, Zenon DEF serverKp
<1>4. effectiveHeartbeat' = effectiveHeartbeat /\ Short' = Short /\ Ceiling' = Ceiling
  BY <1>2, <1>3, Zenon DEF effectiveHeartbeat, Short, Ceiling
<1>5. loop' = loop
  BY <1>2, <1>3, <1>4, Zenon DEF loop
<1>6. Interval' = Interval
  BY <1>4, <1>5, Zenon DEF Interval
<1> QED
  BY <1>1, <1>2, <1>4, <1>5, <1>6, Zenon DEF Configured

-----------------------------------------------------------------------------
(* The locals of adaptiveKeepalive. *)
Probing ==
  probing \in [phase : {"short", "doubling", "stable"}, ok : Nat, interval : Nat, success : Nat,
               heart : Nat, awaiting : BOOLEAN]

AdaptiveInv == Configured /\ Probing /\ AdaptiveBounded

(* enterStable keeps within the bounds. *)
LEMMA StableBounds ==
  ASSUME Configured, loop = "adaptive",
         NEW p \in [phase : {"short", "doubling", "stable"}, ok : Nat, interval : Nat, success : Nat,
                    heart : Nat, awaiting : BOOLEAN],
         Short <= Ceiling, p.success <= p.interval, p.interval <= Ceiling, Short <= p.interval
  PROVE  LET q == Stable(p) IN
         /\ q \in [phase : {"short", "doubling", "stable"}, ok : Nat, interval : Nat, success : Nat,
                    heart : Nat, awaiting : BOOLEAN]
         /\ q.interval = p.interval /\ q.success = p.success
         /\ Short <= q.heart /\ q.heart <= Ceiling
<1> DEFINE h == IF p.success > 0 THEN Most((p.success * 9) \div 10, Short) ELSE Short
<1>1. Short \in Nat /\ Ceiling \in Nat /\ p.success \in Nat /\ p.interval \in Nat
  BY Sizes, Zenon
<1>2. (p.success * 9) \div 10 \in Nat /\ (p.success * 9) \div 10 <= p.success
  BY <1>1
<1>3. h \in Nat /\ Short <= h /\ h <= Ceiling
  BY <1>1, <1>2 DEF Most
<1>4. Stable(p) = [p EXCEPT !.phase = "stable", !.awaiting = FALSE, !.heart = h]
  BY Zenon DEF Stable
<1> HIDE DEF h
<1> QED
  BY <1>3, <1>4, Zenon

(* The adaptive loop starts within its bounds. *)
LEMMA AdaptiveInit == Init => AdaptiveInv
<1> SUFFICES ASSUME Init PROVE AdaptiveInv
  BY Zenon
<1>1. Configured /\ Short \in Nat /\ Ceiling \in Nat
  BY ConfiguredInit, Sizes, Zenon
<1>2. probing = ShortProbing
  BY Zenon DEF Init
<1>3. loop = "adaptive" => Short <= Ceiling
  BY <1>1 DEF loop
<1> QED
  BY <1>1, <1>2, <1>3 DEF AdaptiveInv, Probing, AdaptiveBounded, ShortProbing

(* No step takes it out of them. *)
LEMMA AdaptiveStep == AdaptiveInv /\ [Next]_vars => AdaptiveInv'
<1> SUFFICES ASSUME AdaptiveInv, [Next]_vars PROVE AdaptiveInv'
  BY Zenon
<1>1. Configured /\ Configured' /\ loop' = loop /\ Short' = Short /\ Ceiling' = Ceiling
      /\ Short \in Nat /\ Ceiling \in Nat /\ Probing /\ AdaptiveBounded
  BY SameConfig, Sizes, Zenon DEF AdaptiveInv
<1>2. CASE UNCHANGED probing
  BY <1>1, <1>2, Zenon DEF AdaptiveInv, Probing, AdaptiveBounded
<1>3. CASE AdaptiveCheck /\ probing' # probing
  <2>1. loop = "adaptive"
    BY <1>3, Zenon DEF AdaptiveCheck, AdaptiveProbes, ShortAnswered, ProbeAnswered, Unanswered, StableCheck,
       AdaptiveServes, Serves
  <2>2. /\ Short <= probing.interval /\ probing.interval <= Ceiling
        /\ probing.success <= probing.interval
    BY <1>1, <2>1, Zenon DEF AdaptiveBounded
  <2>3. CASE probing' = [probing EXCEPT !.awaiting = TRUE]
    BY <1>1, <2>3, Zenon DEF AdaptiveInv, Probing, AdaptiveBounded
  <2>4. CASE ShortAnswered
    <3>1. probing.phase = "short" /\ probing.ok + 1 \in Nat
      BY <1>1, <2>4 DEF ShortAnswered, AdaptiveServes, Probing
    <3>2. CASE probing' = [probing EXCEPT !.awaiting = FALSE, !.ok = probing.ok + 1, !.phase = "doubling",
                                          !.interval = Short, !.success = Short]
      <4>1. probing'.phase = "doubling" /\ probing'.interval = Short /\ probing'.success = Short
        BY <1>1, <3>2, Zenon DEF Probing
      <4>2. Probing'
        BY <1>1, <3>1, <3>2, Zenon DEF Probing
      <4>3. Short <= Ceiling
        BY <1>1, <2>2 DEF Probing
      <4> QED
        BY <1>1, <4>1, <4>2, <4>3 DEF AdaptiveInv, AdaptiveBounded
    <3>3. CASE probing' = [probing EXCEPT !.awaiting = FALSE, !.ok = probing.ok + 1]
      BY <1>1, <2>2, <3>1, <3>3, Zenon DEF AdaptiveInv, Probing, AdaptiveBounded
    <3> QED
      BY <2>4, <3>2, <3>3, Zenon DEF ShortAnswered, NextProbing
  <2>5. CASE ProbeAnswered
    <3> DEFINE won == [probing EXCEPT !.awaiting = FALSE, !.success = probing.interval]
               next == Least(2 * probing.interval, Ceiling)
    <3>1. probing' = IF next <= probing.interval THEN Stable(won) ELSE [won EXCEPT !.interval = next]
      BY <2>5, Zenon DEF ProbeAnswered, NextProbing
    <3>2. won \in [phase : {"short", "doubling", "stable"}, ok : Nat, interval : Nat, success : Nat,
                    heart : Nat, awaiting : BOOLEAN]
          /\ won.success = probing.interval /\ won.interval = probing.interval
      BY <1>1, Zenon DEF Probing
    <3>3. probing.phase = "doubling"
      BY <2>5, Zenon DEF ProbeAnswered, AdaptiveServes
    <3>4. CASE next <= probing.interval
      <4> HIDE DEF won, next
      <4>1. probing' = Stable(won)
        BY <3>1, <3>4, Zenon
      <4>2. probing.interval \in Nat
        BY <1>1, Zenon DEF Probing
      <4> QED
        BY <1>1, <2>1, <2>2, <3>2, <4>1, <4>2, StableBounds DEF AdaptiveInv, Probing, AdaptiveBounded
    <3>5. CASE ~(next <= probing.interval)
      <4>1. next \in Nat /\ next <= Ceiling /\ probing.interval <= next
        BY <1>1, <3>5 DEF Probing, Least
      <4>2. probing' = [won EXCEPT !.interval = next]
        BY <3>1, <3>5, Zenon
      <4>3. won.phase = "doubling"
        BY <1>1, <3>3, Zenon DEF Probing
      <4> HIDE DEF won, next
      <4> QED
        BY <1>1, <2>2, <3>2, <4>1, <4>2, <4>3 DEF AdaptiveInv, Probing, AdaptiveBounded
    <3> QED
      BY <3>4, <3>5, Zenon
  <2>6. CASE probing' = Stable(probing)
    BY <1>1, <2>1, <2>2, <2>6, StableBounds DEF AdaptiveInv, Probing, AdaptiveBounded
  <2>7. CASE probing' = ShortProbing
    BY <1>1, <2>2, <2>7 DEF AdaptiveInv, Probing, AdaptiveBounded, ShortProbing
  <2> QED
    BY <1>3, <2>3, <2>4, <2>5, <2>6, <2>7, Zenon DEF AdaptiveCheck, AdaptiveProbes, Unanswered, StableCheck,
       ProbeIfDue, NextProbing, Blocks
<1>4. CASE ~AdaptiveCheck
  <2>1. UNCHANGED probing
    BY <1>4, Zenon DEF Next, Tick, Die, ServerReads, ServerPushes, Reap, ClientReads, ClientPushes, PushBlocks,
       FixedCheck, vars, clientVars
  <2> QED
    BY <1>2, <2>1, Zenon
<1> QED
  BY <1>2, <1>3, <1>4, Zenon

(* The adaptive client keeps its interval between its shortest one and the  *)
(* ceiling, for every option and every policy of the server.                *)
THEOREM AdaptiveBoundedHolds == Spec => []AdaptiveBounded
<1>1. AdaptiveInv => AdaptiveBounded
  BY Zenon DEF AdaptiveInv
<1> QED
  BY <1>1, AdaptiveInit, AdaptiveStep, PTL DEF Spec

-----------------------------------------------------------------------------
(* A client with a fixed heartbeat: the age of its last packet is below the *)
(* timeout whenever a tick was served, and grows no faster than the ticker; *)
(* a dead peer has been silent for longer than it has been dead.            *)
FixedInv ==
  /\ Configured
  /\ loop = "fixed" =>
       /\ recv \in Nat /\ deadFor \in Nat
       /\ tick \in 0 .. (Interval - 1)
       /\ due \in BOOLEAN /\ (due => tick = 0)
       /\ path = "dead" => toClient = <<>> /\ deadFor <= recv
       /\ path # "dead" => deadFor = 0
       /\ keepalive \in {"running", "lost", "blocked"}
       /\ keepalive = "running" =>
            recv <= Timeout(effectiveHeartbeat) + (IF due THEN Interval ELSE tick)
       /\ keepalive = "lost" => recv <= Timeout(effectiveHeartbeat) + Interval

(* The fixed loop starts with a fresh connection. *)
LEMMA FixedInit == Init => FixedInv
<1> SUFFICES ASSUME Init PROVE FixedInv
  BY Zenon
<1>1. Configured
  BY ConfiguredInit, Zenon
<1>2. Interval \in Nat \ {0} /\ Timeout(effectiveHeartbeat) \in Nat
  BY <1>1, Sizes, Zenon
<1>3. loop = "fixed" => keepalive = "running"
  BY Zenon DEF Init
<1>4. recv = 0 /\ deadFor = 0 /\ tick = 0 /\ due = FALSE /\ path = "up"
  BY Zenon DEF Init
<1>5. tick \in 0 .. (Interval - 1) /\ recv <= Timeout(effectiveHeartbeat) + tick
  BY <1>2, <1>4
<1> QED
  BY <1>1, <1>3, <1>4, <1>5, Zenon DEF FixedInv

(* Every step keeps the times of the fixed loop. *)
LEMMA FixedStep == FixedInv /\ [Next]_vars => FixedInv'
<1> SUFFICES ASSUME FixedInv, [Next]_vars, loop = "fixed" PROVE FixedInv'
  BY SameConfig, Zenon DEF FixedInv
<1> DEFINE T == Timeout(effectiveHeartbeat)
<1>1. /\ Configured' /\ loop' = "fixed" /\ Interval' = Interval /\ Timeout(effectiveHeartbeat)' = T
      /\ Interval \in Nat \ {0} /\ T \in Nat
  <2>1. Configured /\ Configured' /\ loop' = loop /\ Interval' = Interval /\ effectiveHeartbeat' = effectiveHeartbeat
    BY SameConfig, Zenon DEF FixedInv
  <2> QED
    BY <2>1, Sizes, Zenon DEF Timeout
<1>2. /\ recv \in Nat /\ deadFor \in Nat
      /\ tick \in 0 .. (Interval - 1)
      /\ due \in BOOLEAN /\ (due => tick = 0)
      /\ path = "dead" => toClient = <<>> /\ deadFor <= recv
      /\ path # "dead" => deadFor = 0
      /\ keepalive \in {"running", "lost", "blocked"}
      /\ keepalive = "running" => recv <= T + (IF due THEN Interval ELSE tick)
      /\ keepalive = "lost" => recv <= T + Interval
  BY Zenon DEF FixedInv
<1> SUFFICES /\ recv' \in Nat /\ deadFor' \in Nat
             /\ tick' \in 0 .. (Interval - 1)
             /\ due' \in BOOLEAN /\ (due' => tick' = 0)
             /\ path' = "dead" => toClient' = <<>> /\ deadFor' <= recv'
             /\ path' # "dead" => deadFor' = 0
             /\ keepalive' \in {"running", "lost", "blocked"}
             /\ keepalive' = "running" => recv' <= T + (IF due' THEN Interval ELSE tick')
             /\ keepalive' = "lost" => recv' <= T + Interval
  BY <1>1, Zenon DEF FixedInv
<1> HIDE DEF T
<1>3. CASE Tick
  <2>1. keepalive = "running" /\ ~due /\ keepalive' = "running"
    BY <1>2, <1>3, Zenon DEF Tick, Up
  <2>2. recv' = recv + 1
    BY <1>3, <2>1, Zenon DEF Tick, Older
  <2>3. /\ deadFor' = IF path = "dead" THEN deadFor + 1 ELSE deadFor
        /\ path' = path
        /\ toClient' = Older1(toClient)
    BY <1>3, <2>1, Zenon DEF Tick, Older
  <2>4. path = "dead" => toClient' = <<>>
    BY <1>2, <2>3 DEF Older1
  <2>5. tick' = (tick + 1) % Interval /\ due' = (tick' = 0)
    BY <1>3, <2>1, Zenon DEF Tick
  <2>6. CASE tick + 1 < Interval /\ tick' = tick + 1
    <3>1. tick' # 0 /\ recv' <= T + tick' /\ tick' \in 0 .. (Interval - 1)
      BY <1>1, <1>2, <2>1, <2>2, <2>6
    <3>2. due' = FALSE
      BY <2>5, <3>1, Zenon
    <3>3. path' = "dead" => deadFor' <= recv'
      BY <1>2, <2>2, <2>3
    <3>4. recv' \in Nat /\ deadFor' \in Nat /\ (path' # "dead" => deadFor' = 0)
      BY <1>2, <2>2, <2>3
    <3> QED
      BY <2>1, <2>3, <2>4, <3>1, <3>2, <3>3, <3>4, Zenon
  <2>7. CASE tick + 1 = Interval /\ tick' = 0
    <3>1. due' = TRUE
      BY <2>5, <2>7, Zenon
    <3> QED
      BY <1>1, <1>2, <2>1, <2>2, <2>3, <2>4, <2>7, <3>1
  <2> QED
    BY <1>1, <1>2, <2>5, <2>6, <2>7, Wraps, Zenon
<1>4. CASE FixedCheck
  <2>1. PICK ping \in BOOLEAN, out \in Reached(recv, T) :
          \/ keepalive' = "blocked"
          \/ keepalive' = IF out THEN "lost" ELSE "running"
    BY <1>4, Zenon DEF FixedCheck, Blocks, Reached, T
  <2>2. keepalive' = "running" => recv <= T
    <3>1. CASE recv = T
      BY <1>1, <3>1
    <3>2. CASE recv # T
      <4>1. out = (recv > T)
        BY <2>1, <3>2, Zenon DEF Reached
      <4>2. keepalive' = "running" => ~(recv > T)
        BY <2>1, <4>1, Zenon
      <4> QED
        BY <1>1, <1>2, <4>2
    <3> QED
      BY <3>1, <3>2, Zenon
  <2>3. due /\ ~due' /\ due' \in BOOLEAN /\ UNCHANGED <<tick, recv, toClient, path, deadFor>> /\ keepalive = "running"
    BY <1>2, <1>4, Zenon DEF FixedCheck, Serves, Up
  <2> QED
    BY <1>1, <1>2, <2>1, <2>2, <2>3
<1>5. CASE Die
  BY <1>1, <1>2, <1>5 DEF Die, clientVars
<1>6. CASE ClientReads
  BY <1>1, <1>2, <1>6 DEF ClientReads
<1>7. CASE ServerReads \/ ServerPushes
  BY <1>1, <1>2, <1>7 DEF ServerReads, ServerPushes, clientVars, Send
<1>8. CASE Reap \/ ClientPushes \/ PushBlocks \/ UNCHANGED vars
  BY <1>1, <1>2, <1>8 DEF Reap, ClientPushes, PushBlocks, vars, clientVars, wire
<1>9. CASE AdaptiveCheck
  BY <1>9, Zenon DEF AdaptiveCheck, AdaptiveProbes, ShortAnswered, ProbeAnswered, Unanswered, StableCheck,
     AdaptiveServes, Serves
<1> QED
  BY <1>3, <1>4, <1>5, <1>6, <1>7, <1>8, <1>9, Zenon DEF Next

-----------------------------------------------------------------------------
(* A client without an answer gives up, however it is configured.           *)

(* The time since the keepalive goroutine last served a tick. *)
Elapsed == IF due THEN Interval ELSE tick

(* A unit of time passes: so does a unit since the last look.               *)
LEMMA ElapsedTick ==
  ASSUME Interval \in Nat \ {0}, Interval' = Interval, tick \in 0 .. (Interval - 1), ~due,
         tick' = (tick + 1) % Interval, due' = (tick' = 0)
  PROVE  /\ Elapsed = tick /\ Elapsed' = Elapsed + 1
         /\ tick' \in 0 .. (Interval - 1) /\ due' \in BOOLEAN /\ (due' => tick' = 0)
<1>1. Elapsed = tick
  BY Zenon DEF Elapsed
<1>2. CASE tick + 1 < Interval /\ tick' = tick + 1
  <2>1. tick' # 0 /\ tick' \in 0 .. (Interval - 1)
    BY <1>2
  <2>2. due' = FALSE
    BY <2>1, Zenon
  <2> QED
    BY <1>1, <1>2, <2>1, <2>2, Zenon DEF Elapsed
<1>3. CASE tick + 1 = Interval /\ tick' = 0
  <2>1. tick' \in 0 .. (Interval - 1)
    BY <1>3
  <2>2. due' = TRUE
    BY <1>3, Zenon
  <2> QED
    BY <1>1, <1>3, <2>1, <2>2, Zenon DEF Elapsed
<1> QED
  BY <1>2, <1>3, Wraps, Zenon

(* How long an adaptive client may take to leave its long intervals. *)
Longest == Most(Ceiling + Window, Timeout(SettledHeart))

(* A shorter period has a shorter timeout, and 90% of less is less. *)
LEMMA Monotone ==
  ASSUME NEW a \in Nat, NEW b \in Nat, a <= b
  PROVE  Timeout(a) \in Nat /\ Timeout(a) <= Timeout(b) /\ (a * 9) \div 10 <= (b * 9) \div 10
<1>1. a * 3 <= b * 3 /\ a * 9 <= b * 9 /\ a * 3 \in Nat /\ b * 3 \in Nat /\ a * 9 \in Nat /\ b * 9 \in Nat
  OBVIOUS
<1>2. \A x, y \in Nat : x <= y => x \div 2 <= y \div 2 /\ x \div 10 <= y \div 10 /\ x \div 2 \in Nat
  OBVIOUS
<1> QED
  BY <1>1, <1>2, Zenon DEF Timeout

(* The times of the adaptive loop. *)
LEMMA AdaptiveSizes ==
  ASSUME Configured, loop = "adaptive"
  PROVE  /\ Interval \in Nat \ {0} /\ Window \in Nat
         /\ Short \in Nat /\ Ceiling \in Nat /\ Interval <= Short /\ Short <= Ceiling
         /\ SettledHeart \in Nat /\ Short <= SettledHeart
         /\ Longest \in Nat /\ Ceiling + Window <= Longest /\ Timeout(SettledHeart) <= Longest
         /\ NoticeBound = Longest + Short + Window + 4 * Interval
<1>1. Interval \in Nat \ {0} /\ Short \in Nat /\ Ceiling \in Nat
  BY Sizes, Zenon
<1>2. Short <= Ceiling
  BY <1>1 DEF loop
<1>3. Second \in Nat /\ Interval = Second \div 4
  BY KeepaliveAssumption, Zenon DEF Interval
<1>4. Second <= Short
  <2>1. Most(opt.short, 1) \in Nat /\ Most(opt.short, 1) >= 1
    BY DEF Configured, Most
  <2>2. \A a, b \in Nat : b >= 1 => a <= a * b
    OBVIOUS
  <2> QED
    BY <1>3, <2>1, <2>2, Zenon DEF Short
<1>5. Interval <= Short
  <2>1. Second \div 4 <= Second
    BY <1>3
  <2> QED
    BY <1>1, <1>3, <1>4, <2>1
<1>6. Window \in Nat
  <2>1. opt.window \in Nat
    BY Zenon DEF Configured
  <2> QED
    BY <1>3, <2>1 DEF Window
<1>7. SettledHeart \in Nat /\ Short <= SettledHeart
  BY <1>1 DEF SettledHeart, Most
<1>8. Timeout(SettledHeart) \in Nat
  BY <1>7, Monotone
<1>9. Longest \in Nat /\ Ceiling + Window <= Longest /\ Timeout(SettledHeart) <= Longest
  BY <1>1, <1>6, <1>8 DEF Longest, Most
<1>10. NoticeBound = Longest + Short + Window + 4 * Interval
  BY Zenon DEF NoticeBound, Longest
<1> QED
  BY <1>1, <1>2, <1>5, <1>6, <1>7, <1>9, <1>10, Zenon
(* An adaptive client that does not push. *)
Quiet == loop = "adaptive" /\ "client" \notin opt.talk

(* The peer has been dead for no longer than the phase of the client lets   *)
(* it.  A probe that is answered was answered since the last tick.  While   *)
(* the client doubles its interval, no probe was sent since the failure, or *)
(* the last one waits for its answer.                                       *)
NoticePhase ==
  /\ probing.phase = "short" => probing.interval = Short
  /\ probing.phase # "stable" /\ probing.awaiting =>
       probe = sent /\ sent <= Window + Elapsed /\ (answered => deadFor <= Elapsed)
  /\ probing.phase = "doubling" /\ ~probing.awaiting =>
       deadFor <= sent /\ deadFor <= Ceiling + Elapsed
  /\ probing.phase = "doubling" /\ probing.awaiting =>
       deadFor <= sent + Ceiling + Interval
  /\ probing.phase = "stable" =>
       deadFor <= Longest + 2 * Interval + Elapsed /\ probing.heart <= SettledHeart
  /\ probing.phase = "short" /\ ~probing.awaiting =>
       /\ deadFor <= sent + Longest + 2 * Interval
       /\ deadFor <= Longest + Short + 2 * Interval + Elapsed
  /\ probing.phase = "short" /\ probing.awaiting =>
       deadFor <= sent + Longest + Short + 3 * Interval

NoticeTimes ==
  /\ held = FALSE /\ answered \in BOOLEAN
  /\ sent \in Nat /\ recv \in Nat /\ probe \in Nat /\ deadFor \in Nat
  /\ tick \in 0 .. (Interval - 1)
  /\ due \in BOOLEAN /\ (due => tick = 0)
  /\ path = "dead" => toClient = <<>> /\ deadFor <= recv
  /\ path # "dead" => deadFor = 0
  /\ Elapsed <= sent
  /\ NoticePhase

NoticeInv ==
  /\ AdaptiveInv
  /\ Quiet =>
       /\ keepalive \in {"running", "lost"}
       /\ keepalive = "running" => NoticeTimes
       /\ keepalive = "lost" => deadFor <= NoticeBound

(* The adaptive loop starts with a fresh connection. *)
LEMMA NoticeInit == Init => NoticeInv
<1> SUFFICES ASSUME Init, Quiet PROVE keepalive = "running" /\ NoticeTimes
  BY AdaptiveInit, Zenon DEF NoticeInv
<1>1. Configured /\ loop = "adaptive"
  BY ConfiguredInit, Zenon DEF Quiet
<1>2. Interval \in Nat \ {0} /\ Window \in Nat /\ Short \in Nat /\ Ceiling \in Nat /\ Longest \in Nat
  BY <1>1, AdaptiveSizes, Zenon
<1>3. /\ keepalive = "running" /\ held = FALSE /\ answered = FALSE /\ due = FALSE /\ path = "up"
      /\ sent = 0 /\ recv = 0 /\ probe = 0 /\ deadFor = 0 /\ tick = 0
      /\ probing.phase = "short" /\ probing.interval = Short /\ probing.awaiting = FALSE
  BY <1>1, Zenon DEF Init, ShortProbing
<1>4. Elapsed = 0
  BY <1>3, Zenon DEF Elapsed
<1>5. tick \in 0 .. (Interval - 1) /\ 0 \in Nat /\ 0 <= 0
  BY <1>2, <1>3
<1>6. NoticePhase
  <2>1. deadFor <= sent + Longest + 2 * Interval /\ deadFor <= Longest + Short + 2 * Interval + Elapsed
    BY <1>2, <1>3, <1>4
  <2> QED
    BY <1>3, <2>1, Zenon DEF NoticePhase
<1> QED
  BY <1>3, <1>4, <1>5, <1>6, Zenon DEF NoticeTimes

(* A unit of time passes. *)
LEMMA NoticeTick ==
  ASSUME Configured, loop = "adaptive", Probing, keepalive = "running", NoticeTimes, Tick,
         UNCHANGED <<Interval, Window, Short, Ceiling, Longest, SettledHeart>>
  PROVE  NoticeTimes'
<1>1. /\ Interval \in Nat \ {0} /\ Window \in Nat /\ Short \in Nat /\ Ceiling \in Nat
      /\ Longest \in Nat /\ SettledHeart \in Nat
  BY AdaptiveSizes, Zenon
<1>2. /\ sent' = sent + 1 /\ recv' = recv + 1
      /\ probe' = (IF probing.awaiting /\ probing.phase # "stable" THEN probe + 1 ELSE probe)
      /\ deadFor' = (IF path = "dead" THEN deadFor + 1 ELSE deadFor)
      /\ ~due /\ tick' = (tick + 1) % Interval /\ due' = (tick' = 0)
      /\ toClient' = Older1(toClient)
      /\ UNCHANGED <<probing, answered, held, path>>
  BY Zenon DEF Tick, Older
<1>3. /\ held = FALSE /\ answered \in BOOLEAN
      /\ sent \in Nat /\ recv \in Nat /\ probe \in Nat /\ deadFor \in Nat
      /\ tick \in 0 .. (Interval - 1)
      /\ path = "dead" => toClient = <<>> /\ deadFor <= recv
      /\ path # "dead" => deadFor = 0
      /\ Elapsed = tick
  BY <1>2, Zenon DEF NoticeTimes, Elapsed
<1>4. Elapsed' = Elapsed + 1 /\ tick' \in 0 .. (Interval - 1) /\ due' \in BOOLEAN /\ (due' => tick' = 0)
  <2>1. CASE tick + 1 < Interval /\ tick' = tick + 1
    <3>1. tick' # 0 /\ tick' \in 0 .. (Interval - 1)
      BY <1>1, <1>3, <2>1
    <3>2. due' = FALSE
      BY <1>2, <3>1, Zenon
    <3> QED
      BY <1>3, <2>1, <3>1, <3>2, Zenon DEF Elapsed
  <2>2. CASE tick + 1 = Interval /\ tick' = 0
    <3>1. due' = TRUE
      BY <1>2, <2>2, Zenon
    <3>2. tick' \in 0 .. (Interval - 1)
      BY <1>1, <2>2
    <3> QED
      BY <1>3, <2>2, <3>1, <3>2, Zenon DEF Elapsed
  <2> QED
    BY <1>1, <1>2, <1>3, <2>1, <2>2, Wraps, Zenon
<1>5. path = "dead" => toClient' = <<>>
  BY <1>2, <1>3 DEF Older1
<1>6. /\ sent' \in Nat /\ recv' \in Nat /\ probe' \in Nat /\ deadFor' \in Nat /\ deadFor' <= deadFor + 1
      /\ path = "dead" => deadFor' <= recv'
      /\ path # "dead" => deadFor' = 0
  BY <1>2, <1>3
<1>7. Elapsed \in Nat /\ Elapsed <= sent
  BY <1>1, <1>3 DEF NoticeTimes
<1>8. /\ Elapsed' <= sent'
      /\ probing'.phase = "short" => probing'.interval = Short'
      /\ probing'.phase # "stable" /\ probing'.awaiting =>
           probe' = sent' /\ sent' <= Window' + Elapsed' /\ (answered' => deadFor' <= Elapsed')
  <2>1. /\ probing.phase = "short" => probing.interval = Short
        /\ probing.phase # "stable" /\ probing.awaiting =>
             probe = sent /\ sent <= Window + Elapsed /\ (answered => deadFor <= Elapsed)
    BY Zenon DEF NoticeTimes, NoticePhase
  <2> QED
    BY <1>1, <1>2, <1>3, <1>4, <1>6, <1>7, <2>1
<1>9. /\ probing'.phase = "doubling" /\ ~probing'.awaiting =>
           deadFor' <= sent' /\ deadFor' <= Ceiling' + Elapsed'
      /\ probing'.phase = "doubling" /\ probing'.awaiting =>
           deadFor' <= sent' + Ceiling' + Interval'
      /\ probing'.phase = "stable" =>
           deadFor' <= Longest' + 2 * Interval' + Elapsed' /\ probing'.heart <= SettledHeart'
  <2>1. /\ probing.phase = "doubling" /\ ~probing.awaiting =>
             deadFor <= sent /\ deadFor <= Ceiling + Elapsed
        /\ probing.phase = "doubling" /\ probing.awaiting =>
             deadFor <= sent + Ceiling + Interval
        /\ probing.phase = "stable" =>
             deadFor <= Longest + 2 * Interval + Elapsed /\ probing.heart <= SettledHeart
    BY Zenon DEF NoticeTimes, NoticePhase
  <2> QED
    BY <1>1, <1>2, <1>3, <1>4, <1>6, <1>7, <2>1
<1>10. /\ probing'.phase = "short" /\ ~probing'.awaiting =>
            /\ deadFor' <= sent' + Longest' + 2 * Interval'
            /\ deadFor' <= Longest' + Short' + 2 * Interval' + Elapsed'
       /\ probing'.phase = "short" /\ probing'.awaiting =>
            deadFor' <= sent' + Longest' + Short' + 3 * Interval'
  <2>1. /\ probing.phase = "short" /\ ~probing.awaiting =>
             /\ deadFor <= sent + Longest + 2 * Interval
             /\ deadFor <= Longest + Short + 2 * Interval + Elapsed
        /\ probing.phase = "short" /\ probing.awaiting =>
             deadFor <= sent + Longest + Short + 3 * Interval
    BY Zenon DEF NoticeTimes, NoticePhase
  <2> QED
    BY <1>1, <1>2, <1>3, <1>4, <1>6, <1>7, <2>1
<1>11. held' = FALSE /\ answered' \in BOOLEAN /\ tick' \in 0 .. (Interval' - 1)
  BY <1>2, <1>3, <1>4, Zenon
<1> QED
  BY <1>2, <1>4, <1>5, <1>6, <1>8, <1>9, <1>10, <1>11, Zenon DEF NoticeTimes, NoticePhase

(* What a comparison of an age with a limit tells. *)
LEMMA Compared ==
  ASSUME NEW a \in Nat, NEW b \in Nat, NEW over \in Reached(a, b)
  PROVE  (over => b <= a) /\ (~over => a <= b)
<1>1. CASE a = b
  BY <1>1
<1>2. CASE a # b
  <2>1. over = (a > b)
    BY <1>2, Zenon DEF Reached
  <2>2. (a > b => b <= a) /\ (~(a > b) => a <= b)
    OBVIOUS
  <2> QED
    BY <2>1, <2>2, Zenon
<1> QED
  BY <1>1, <1>2, Zenon

(* enterStable does not choose more than 90% of the ceiling. *)
LEMMA StableHeart ==
  ASSUME Configured, loop = "adaptive", Probing, NEW s \in Nat, s <= Ceiling
  PROVE  LET q == Stable([probing EXCEPT !.awaiting = FALSE, !.success = s]) IN
         q.heart <= SettledHeart /\ q.phase = "stable"
<1> DEFINE p == [probing EXCEPT !.awaiting = FALSE, !.success = s]
           h == IF s > 0 THEN Most((s * 9) \div 10, Short) ELSE Short
<1>1. Short \in Nat /\ Ceiling \in Nat /\ Short <= SettledHeart /\ SettledHeart \in Nat
  BY AdaptiveSizes, Zenon
<1>2. (s * 9) \div 10 <= (Ceiling * 9) \div 10 /\ (s * 9) \div 10 \in Nat /\ (Ceiling * 9) \div 10 \in Nat
  <2>1. (s * 9) \div 10 <= (Ceiling * 9) \div 10
    BY <1>1, Monotone, Zenon
  <2> QED
    BY <1>1, <2>1
<1>3. h <= SettledHeart
  BY <1>1, <1>2 DEF Most, SettledHeart
<1>4. p.success = s /\ Stable(p) = [p EXCEPT !.phase = "stable", !.awaiting = FALSE, !.heart = h]
  BY Zenon DEF Probing, Stable
<1>5. Stable(p).heart = h /\ Stable(p).phase = "stable"
  BY <1>4, Zenon DEF Probing
<1> QED
  BY <1>3, <1>5, Zenon

(* The keepalive goroutine serves a tick: it gives up in time, or knows how *)
(* long the peer may have been dead.                                        *)
LEMMA NoticeServe ==
  ASSUME Configured, loop = "adaptive", Probing, AdaptiveBounded, keepalive = "running", NoticeTimes,
         AdaptiveCheck, UNCHANGED <<Interval, Window, Short, Ceiling, Longest, SettledHeart>>
  PROVE  \/ keepalive' = "running" /\ NoticeTimes'
         \/ keepalive' = "lost" /\ deadFor' <= NoticeBound
<1>1. /\ Interval \in Nat \ {0} /\ Window \in Nat /\ Short \in Nat /\ Ceiling \in Nat
      /\ Longest \in Nat /\ SettledHeart \in Nat /\ Interval <= Short /\ Short <= Ceiling
      /\ Ceiling + Window <= Longest /\ Timeout(SettledHeart) <= Longest
      /\ NoticeBound = Longest + Short + Window + 4 * Interval
  BY AdaptiveSizes, Zenon
<1>2. /\ due /\ due' = FALSE
      /\ UNCHANGED <<tick, recv, held, toClient, path, deadFor>>
  BY Zenon DEF AdaptiveCheck, AdaptiveProbes, ShortAnswered, ProbeAnswered, Unanswered, StableCheck,
     AdaptiveServes, Serves
<1>3. /\ held = FALSE /\ answered \in BOOLEAN
      /\ sent \in Nat /\ recv \in Nat /\ probe \in Nat /\ deadFor \in Nat
      /\ tick = 0 /\ tick \in 0 .. (Interval - 1)
      /\ path = "dead" => toClient = <<>> /\ deadFor <= recv
      /\ path # "dead" => deadFor = 0
  BY <1>2, Zenon DEF NoticeTimes
<1>4. Elapsed = Interval /\ Elapsed' = 0
  BY <1>2, <1>3, Zenon DEF Elapsed
<1>5. Interval <= sent
  BY <1>4, Zenon DEF NoticeTimes
<1>6. /\ probing.phase \in {"short", "doubling", "stable"} /\ probing.awaiting \in BOOLEAN
      /\ probing.interval \in Nat /\ probing.success \in Nat /\ probing.heart \in Nat
      /\ probing.interval <= Ceiling /\ probing.success <= probing.interval
  BY Zenon DEF Probing, AdaptiveBounded
<1>7. ASSUME answered' \in BOOLEAN, sent' \in Nat, probe' \in Nat, NoticePhase'
      PROVE  NoticeTimes'
  <2>1. Elapsed' <= sent'
    BY <1>4, <1>7
  <2> QED
    BY <1>2, <1>3, <1>7, <2>1, Zenon DEF NoticeTimes
<1>8. CASE AdaptiveProbes
  <2>1. probing.phase \in {"short", "doubling"} /\ ~probing.awaiting /\ ProbeIfDue
    BY <1>8, Zenon DEF AdaptiveProbes, AdaptiveServes
  <2>2. PICK over \in Reached(sent, probing.interval) :
          IF ~over THEN UNCHANGED <<keepalive, sent, probing, probe, answered, toServer>>
          ELSE \/ Blocks
               \/ /\ WritesPing
                  /\ probing' = [probing EXCEPT !.awaiting = TRUE]
                  /\ probe' = 0 /\ answered' = FALSE
                  /\ UNCHANGED keepalive
    BY <2>1, Zenon DEF ProbeIfDue, Period
  <2>3. CASE ~over
    <3>1. UNCHANGED <<keepalive, sent, probing, probe, answered>>
      BY <2>2, <2>3, Zenon
    <3>2. sent <= probing.interval
      BY <1>3, <1>6, <2>2, <2>3, Compared, Zenon
    <3>3. CASE probing.phase = "short"
      <4>1. probing.interval = Short /\ deadFor <= sent + Longest + 2 * Interval
        BY <2>1, <3>3, Zenon DEF NoticeTimes, NoticePhase
      <4>2. deadFor <= Longest + Short + 2 * Interval + 0
        BY <1>1, <1>3, <3>2, <4>1
      <4>3. NoticePhase'
        BY <1>2, <1>4, <2>1, <3>1, <3>3, <4>1, <4>2, Zenon DEF NoticePhase
      <4> QED
        BY <1>3, <1>7, <3>1, <4>3, Zenon
    <3>4. CASE probing.phase = "doubling"
      <4>1. deadFor <= sent
        BY <2>1, <3>4, Zenon DEF NoticeTimes, NoticePhase
      <4>2. deadFor <= Ceiling + 0
        BY <1>1, <1>3, <1>6, <3>2, <4>1
      <4>3. NoticePhase'
        BY <1>2, <1>4, <2>1, <3>1, <3>4, <4>1, <4>2, Zenon DEF NoticePhase
      <4> QED
        BY <1>3, <1>7, <3>1, <4>3, Zenon
    <3> QED
      BY <2>1, <3>3, <3>4, Zenon
  <2>4. CASE over
    <3>1. /\ sent' = 0 /\ probe' = 0 /\ answered' = FALSE /\ UNCHANGED keepalive
          /\ probing' = [probing EXCEPT !.awaiting = TRUE]
      BY <1>3, <2>2, <2>4, Zenon DEF Blocks, WritesPing
    <3>2. probing'.phase = probing.phase /\ probing'.awaiting = TRUE /\ probing'.interval = probing.interval
      BY <3>1, Zenon DEF Probing
    <3>3. 0 \in Nat /\ 0 <= Window + 0
      BY <1>1
    <3>4. CASE probing.phase = "short"
      <4>1. probing.interval = Short /\ deadFor <= Longest + Short + 2 * Interval + Interval
        BY <1>4, <2>1, <3>4, Zenon DEF NoticeTimes, NoticePhase
      <4>2. deadFor <= 0 + Longest + Short + 3 * Interval
        BY <1>1, <1>3, <4>1
      <4>3. NoticePhase'
        BY <1>2, <1>4, <3>1, <3>2, <3>3, <3>4, <4>1, <4>2, Zenon DEF NoticePhase
      <4> QED
        BY <1>7, <3>1, <3>3, <4>3, Zenon
    <3>5. CASE probing.phase = "doubling"
      <4>1. deadFor <= Ceiling + Interval
        BY <1>4, <2>1, <3>5, Zenon DEF NoticeTimes, NoticePhase
      <4>2. deadFor <= 0 + Ceiling + Interval
        BY <1>1, <1>3, <4>1
      <4>3. NoticePhase'
        BY <1>2, <1>4, <3>1, <3>2, <3>3, <3>5, <4>2, Zenon DEF NoticePhase
      <4> QED
        BY <1>7, <3>1, <3>3, <4>3, Zenon
    <3> QED
      BY <2>1, <3>4, <3>5, Zenon
  <2> QED
    BY <2>3, <2>4, Zenon
<1>9. CASE ShortAnswered \/ ProbeAnswered
  <2>1. /\ probing.phase # "stable" /\ probing.awaiting /\ answered
        /\ UNCHANGED <<keepalive, sent, probe, answered>>
    BY <1>9, Zenon DEF ShortAnswered, ProbeAnswered, NextProbing, AdaptiveServes
  <2>2. deadFor <= Interval
    BY <1>4, <2>1, Zenon DEF NoticeTimes, NoticePhase
  <2>3. /\ deadFor <= sent /\ deadFor <= Ceiling + 0
        /\ deadFor <= Longest + 2 * Interval + 0
        /\ deadFor <= sent + Longest + 2 * Interval
        /\ deadFor <= Longest + Short + 2 * Interval + 0
    BY <1>1, <1>3, <1>5, <2>2
  <2>4. CASE ShortAnswered
    <3>1. probing.phase = "short" /\ probing.interval = Short
      BY <2>4, Zenon DEF ShortAnswered, AdaptiveServes, NoticeTimes, NoticePhase
    <3>2. \/ probing' = [probing EXCEPT !.awaiting = FALSE, !.ok = probing.ok + 1, !.phase = "doubling",
                                       !.interval = Short, !.success = Short]
          \/ probing' = [probing EXCEPT !.awaiting = FALSE, !.ok = probing.ok + 1]
      BY <2>4, Zenon DEF ShortAnswered, NextProbing
    <3>3. /\ probing'.awaiting = FALSE
          /\ probing'.phase = "doubling" \/ (probing'.phase = "short" /\ probing'.interval = Short)
      BY <3>1, <3>2, Zenon DEF Probing
    <3>4. NoticePhase'
      BY <1>2, <1>4, <2>1, <2>3, <3>3, Zenon DEF NoticePhase
    <3> QED
      BY <1>3, <1>7, <2>1, <3>4, Zenon
  <2>5. CASE ProbeAnswered
    <3> DEFINE won == [probing EXCEPT !.awaiting = FALSE, !.success = probing.interval]
               next == Least(2 * probing.interval, Ceiling)
    <3>1. probing.phase = "doubling"
          /\ (probing' = Stable(won) \/ probing' = [won EXCEPT !.interval = next])
      BY <2>5, Zenon DEF ProbeAnswered, NextProbing, AdaptiveServes
    <3>2. CASE probing' = Stable(won)
      <4>1. probing'.heart <= SettledHeart /\ probing'.phase = "stable"
        BY <1>6, <3>2, StableHeart, Zenon
      <4>2. NoticePhase'
        BY <1>2, <1>4, <2>3, <4>1, Zenon DEF NoticePhase
      <4> QED
        BY <1>3, <1>7, <2>1, <4>2, Zenon
    <3>3. CASE probing' = [won EXCEPT !.interval = next]
      <4>1. probing'.phase = "doubling" /\ probing'.awaiting = FALSE
        BY <3>1, <3>3, Zenon DEF Probing
      <4>2. NoticePhase'
        BY <1>2, <1>4, <2>1, <2>3, <4>1, Zenon DEF NoticePhase
      <4> QED
        BY <1>3, <1>7, <2>1, <4>2, Zenon
    <3> QED
      BY <3>1, <3>2, <3>3, Zenon
  <2> QED
    BY <1>9, <2>4, <2>5, Zenon
<1>10. CASE Unanswered
  <2>1. probing.phase \in {"short", "doubling"} /\ probing.awaiting /\ ~answered
    BY <1>10, Zenon DEF Unanswered, AdaptiveServes
  <2>2. PICK over \in Reached(probe, Window) :
          IF over /\ probing.phase = "short"
            THEN keepalive' = "lost" /\ UNCHANGED <<sent, probing, probe, answered, toServer>>
            ELSE NextProbing(IF over THEN Stable(probing) ELSE probing)
    BY <1>10, Zenon DEF Unanswered
  <2>3. probe = sent /\ sent <= Window + Interval
    BY <1>4, <2>1, Zenon DEF NoticeTimes, NoticePhase
  <2>4. CASE over /\ probing.phase = "short"
    <3>1. deadFor <= sent + Longest + Short + 3 * Interval
      BY <2>1, <2>4, Zenon DEF NoticeTimes, NoticePhase
    <3>2. deadFor <= NoticeBound
      BY <1>1, <1>3, <2>3, <3>1
    <3> QED
      BY <1>2, <2>2, <2>4, <3>2, Zenon
  <2>5. CASE over /\ probing.phase = "doubling"
    <3>1. UNCHANGED <<keepalive, sent, probe, answered>> /\ probing' = Stable(probing)
      BY <2>2, <2>5, Zenon DEF NextProbing
    <3>2. deadFor <= sent + Ceiling + Interval
      BY <2>1, <2>5, Zenon DEF NoticeTimes, NoticePhase
    <3>3. deadFor <= Longest + 2 * Interval + 0
      BY <1>1, <1>3, <2>3, <3>2
    <3>4. probing'.heart <= SettledHeart /\ probing'.phase = "stable"
      <4>1. probing.success <= Ceiling
        BY <1>1, <1>6
      <4> DEFINE p == [probing EXCEPT !.awaiting = FALSE, !.success = probing.success]
      <4>2. Stable(p).heart = Stable(probing).heart /\ Stable(probing).phase = "stable"
        BY Zenon DEF Stable, Probing
      <4>3. Stable(p).heart <= SettledHeart
        BY <1>6, <4>1, StableHeart, Zenon
      <4> QED
        BY <3>1, <4>2, <4>3, Zenon
    <3>5. NoticePhase'
      BY <1>2, <1>4, <3>3, <3>4, Zenon DEF NoticePhase
    <3> QED
      BY <1>3, <1>7, <3>1, <3>5, Zenon
  <2>6. CASE ~over
    <3>1. UNCHANGED <<keepalive, sent, probe, answered, probing>>
      BY <2>2, <2>6, Zenon DEF NextProbing
    <3>2. probe <= Window
      BY <1>1, <1>3, <2>2, <2>6, Compared, Zenon
    <3>3. sent <= Window + 0
      BY <1>1, <1>3, <2>3, <3>2
    <3>4. /\ probing.phase = "short" => probing.interval = Short
          /\ probing.phase = "doubling" => deadFor <= sent + Ceiling + Interval
          /\ probing.phase = "short" => deadFor <= sent + Longest + Short + 3 * Interval
      BY <2>1, Zenon DEF NoticeTimes, NoticePhase
    <3>5. NoticePhase'
      BY <1>2, <1>4, <2>1, <2>3, <3>1, <3>3, <3>4, Zenon DEF NoticePhase
    <3> QED
      BY <1>3, <1>7, <3>1, <3>5, Zenon
  <2> QED
    BY <2>1, <2>4, <2>5, <2>6, Zenon
<1>11. CASE StableCheck
  <2>1. probing.phase = "stable"
    BY <1>11, Zenon DEF StableCheck, AdaptiveServes
  <2>2. PICK out \in Reached(recv, Timeout(probing.heart)) :
          IF out THEN NextProbing(ShortProbing) ELSE ProbeIfDue
    BY <1>11, Zenon DEF StableCheck
  <2>3. deadFor <= Longest + 2 * Interval + Interval /\ probing.heart <= SettledHeart
    BY <1>4, <2>1, Zenon DEF NoticeTimes, NoticePhase
  <2>4. CASE out
    <3>1. /\ UNCHANGED <<keepalive, sent, probe, answered>>
          /\ probing'.phase = "short" /\ probing'.interval = Short /\ probing'.awaiting = FALSE
      <4>1. UNCHANGED <<keepalive, sent, probe, answered>> /\ probing' = ShortProbing
        BY <2>2, <2>4, Zenon DEF NextProbing
      <4> QED
        BY <4>1, Zenon DEF ShortProbing
    <3>2. /\ deadFor <= sent + Longest + 2 * Interval
          /\ deadFor <= Longest + Short + 2 * Interval + 0
      BY <1>1, <1>3, <1>5, <2>3
    <3>3. NoticePhase'
      BY <1>2, <1>4, <3>1, <3>2, Zenon DEF NoticePhase
    <3> QED
      BY <1>3, <1>7, <3>1, <3>3, Zenon
  <2>5. CASE ~out
    <3>1. Timeout(probing.heart) \in Nat /\ Timeout(probing.heart) <= Timeout(SettledHeart)
          /\ Timeout(SettledHeart) \in Nat
      <4>1. SettledHeart <= SettledHeart
        BY <1>1
      <4> QED
        BY <1>1, <1>6, <2>3, <4>1, Monotone, Zenon
    <3>2. recv <= Timeout(probing.heart)
      BY <1>3, <2>2, <2>5, <3>1, Compared, Zenon
    <3>3. deadFor <= Longest + 2 * Interval + 0
      BY <1>1, <1>3, <3>1, <3>2
    <3>4. /\ UNCHANGED keepalive
          /\ probing' = probing \/ probing' = [probing EXCEPT !.awaiting = TRUE]
          /\ answered' \in BOOLEAN /\ sent' \in {sent, 0} /\ probe' \in {probe, 0}
      BY <1>3, <2>2, <2>5, Zenon DEF ProbeIfDue, Blocks, WritesPing
    <3>5. probing'.phase = "stable" /\ probing'.heart = probing.heart
      BY <2>1, <3>4, Zenon DEF Probing
    <3>6. sent' \in Nat /\ probe' \in Nat
      BY <1>3, <3>4
    <3>7. NoticePhase'
      BY <1>2, <1>4, <2>3, <3>3, <3>5, Zenon DEF NoticePhase
    <3> QED
      BY <1>7, <3>4, <3>6, <3>7, Zenon
  <2> QED
    BY <2>4, <2>5, Zenon
<1> QED
  BY <1>8, <1>9, <1>10, <1>11, Zenon DEF AdaptiveCheck

(* Every step keeps what the adaptive client knows of its peer. *)
LEMMA NoticeStep == NoticeInv /\ [Next]_vars => NoticeInv'
<1> SUFFICES ASSUME NoticeInv, [Next]_vars, Quiet'
             PROVE  \/ keepalive' = "running" /\ NoticeTimes'
                    \/ keepalive' = "lost" /\ (deadFor <= NoticeBound)'
  BY AdaptiveStep, Zenon DEF NoticeInv
<1>1. /\ Configured /\ Probing /\ AdaptiveBounded /\ UNCHANGED <<opt, Interval, Short, Ceiling>>
      /\ loop' = loop /\ UNCHANGED effectiveHeartbeat
  BY SameConfig, Zenon DEF NoticeInv, AdaptiveInv, config
<1>2. loop = "adaptive" /\ "client" \notin opt.talk
  BY <1>1, Zenon DEF Quiet
<1>3. Window' = Window /\ SettledHeart' = SettledHeart
  BY <1>1, Zenon DEF Window, SettledHeart
<1>4. Longest' = Longest /\ NoticeBound' = NoticeBound
  BY <1>1, <1>3, Zenon DEF Longest, NoticeBound, Timeout
<1>5. UNCHANGED <<Interval, Window, Short, Ceiling, Longest, SettledHeart>>
  BY <1>1, <1>3, <1>4, Zenon
<1>6. CASE UNCHANGED vars
  <2>1. /\ UNCHANGED <<keepalive, tick, due, sent, recv, probing, probe, answered, held, path, deadFor, toClient>>
    BY <1>6, Zenon DEF vars, clientVars, wire
  <2>2. Elapsed' = Elapsed
    BY <1>5, <2>1, Zenon DEF Elapsed
  <2>3. keepalive = "running" => NoticeTimes'
    BY <1>2, <1>5, <2>1, <2>2, Zenon DEF NoticeInv, Quiet, NoticeTimes, NoticePhase
  <2> QED
    BY <1>2, <1>4, <2>1, <2>3, Zenon DEF NoticeInv, Quiet
<1>7. CASE Next
  <2>1. keepalive = "running" /\ NoticeTimes
    <3>1. Up
      BY <1>7, Zenon DEF Next, Tick, Die, ServerReads, ServerPushes, Reap, ClientReads, ClientPushes, PushBlocks,
         FixedCheck, AdaptiveCheck, AdaptiveProbes, ShortAnswered, ProbeAnswered, Unanswered, StableCheck,
         AdaptiveServes, Serves
    <3> QED
      BY <1>2, <3>1, Zenon DEF NoticeInv, Quiet, Up
  <2>2. CASE Tick
    <3>1. UNCHANGED keepalive
      BY <2>2, Zenon DEF Tick
    <3> QED
      BY <1>1, <1>2, <1>5, <2>1, <2>2, <3>1, NoticeTick, Zenon
  <2>3. CASE AdaptiveCheck
    BY <1>1, <1>2, <1>4, <1>5, <2>1, <2>3, NoticeServe, Zenon
  <2>4. CASE Die
    <3>1. /\ UNCHANGED <<keepalive, tick, due, sent, recv, probing, probe, answered, held, deadFor>>
          /\ path = "up" /\ path' = "dead" /\ toClient' = <<>>
      BY <2>4, Zenon DEF Die, clientVars
    <3>2. deadFor = 0 /\ recv \in Nat
      BY <2>1, <3>1, Zenon DEF NoticeTimes
    <3>3. deadFor <= recv
      BY <3>2
    <3>4. Elapsed' = Elapsed
      BY <1>5, <3>1, Zenon DEF Elapsed
    <3> QED
      BY <1>5, <2>1, <3>1, <3>3, <3>4, Zenon DEF NoticeTimes, NoticePhase
  <2>5. CASE ClientReads
    <3>1. /\ UNCHANGED <<keepalive, tick, due, sent, probing, probe, held, path, deadFor>>
          /\ toClient # <<>> /\ recv' = 0 /\ answered' = TRUE
      BY <2>5, Zenon DEF ClientReads
    <3>2. path # "dead" /\ deadFor = 0
      BY <2>1, <3>1, Zenon DEF NoticeTimes
    <3>3. Elapsed' = Elapsed /\ 0 \in Nat
      BY <1>5, <3>1, Zenon DEF Elapsed
    <3>4. 0 <= Elapsed
      <4>1. Interval \in Nat /\ tick \in 0 .. (Interval - 1)
        BY <1>1, <1>2, <2>1, AdaptiveSizes, Zenon DEF NoticeTimes
      <4> QED
        BY <4>1 DEF Elapsed
    <3> QED
      BY <1>5, <2>1, <3>1, <3>2, <3>3, <3>4, Zenon DEF NoticeTimes, NoticePhase
  <2>6. CASE ServerReads \/ ServerPushes \/ Reap
    <3>1. /\ UNCHANGED <<keepalive, tick, due, sent, recv, probing, probe, answered, held, path, deadFor>>
          /\ path = "dead" => toClient' = toClient
      BY <2>6, Zenon DEF ServerReads, ServerPushes, Reap, Send, clientVars, wire
    <3>2. Elapsed' = Elapsed
      BY <1>5, <3>1, Zenon DEF Elapsed
    <3> QED
      BY <1>5, <2>1, <3>1, <3>2, Zenon DEF NoticeTimes, NoticePhase
  <2>7. ~(ClientPushes \/ PushBlocks \/ FixedCheck)
    BY <1>2, Zenon DEF ClientPushes, PushBlocks, FixedCheck, Serves
  <2> QED
    BY <1>7, <2>2, <2>3, <2>4, <2>5, <2>6, <2>7, Zenon DEF Next
<1> QED
  BY <1>6, <1>7, Zenon

(* Without a keepalive goroutine there is nothing to notice with. *)
LEMMA NoKeepalive == Spec => [](loop = "none" => keepalive = "none")
<1>1. Init => (loop = "none" => keepalive = "none")
  BY Zenon DEF Init
<1>2. (loop = "none" => keepalive = "none") /\ [Next]_vars => (loop = "none" => keepalive = "none")'
  <2> SUFFICES ASSUME loop = "none" => keepalive = "none", [Next]_vars, loop' = "none"
               PROVE  keepalive' = "none"
    BY Zenon
  <2>1. loop = "none" /\ keepalive = "none"
    BY SameConfig, Zenon
  <2>2. ~FixedCheck /\ ~AdaptiveCheck
    BY <2>1, Zenon DEF FixedCheck, AdaptiveCheck, AdaptiveProbes, ShortAnswered, ProbeAnswered, Unanswered,
       StableCheck, AdaptiveServes, Serves
  <2> QED
    BY <2>1, <2>2, Zenon DEF Next, Tick, Die, ServerReads, ServerPushes, Reap, ClientReads, ClientPushes,
       PushBlocks, vars, clientVars
<1> QED
  BY <1>1, <1>2, PTL DEF Spec

(* A client with a fixed heartbeat gives up on a dead peer within one and a *)
(* half heartbeats and one look of the ticker.                              *)
LEMMA FixedNotices == FixedInv /\ loop = "fixed" => DeadPeerNoticed
<1> SUFFICES ASSUME FixedInv, loop = "fixed", keepalive \in {"running", "lost"}
             PROVE  deadFor <= NoticeBound
  BY Zenon DEF DeadPeerNoticed
<1>1. NoticeBound = Timeout(effectiveHeartbeat) + Interval
  BY Zenon DEF NoticeBound
<1>2. Timeout(effectiveHeartbeat) \in Nat /\ Interval \in Nat
  BY Sizes, Zenon DEF FixedInv
<1>3. recv \in Nat /\ deadFor \in Nat /\ deadFor <= recv
  BY DEF FixedInv
<1>4. recv <= Timeout(effectiveHeartbeat) + Interval
  BY <1>2 DEF FixedInv
<1> QED
  BY <1>1, <1>2, <1>3, <1>4

(* An adaptive client gives up within its bound, from every phase.          *)
LEMMA AdaptiveNotices == NoticeInv /\ loop = "adaptive" => DeadPeerNoticed
<1> SUFFICES ASSUME NoticeInv, loop = "adaptive", keepalive \in {"running", "lost"},
                    ~(opt.adaptive /\ "client" \in opt.talk)
             PROVE  deadFor <= NoticeBound
  BY Zenon DEF DeadPeerNoticed
<1>1. opt.adaptive
  BY Zenon DEF loop
<1>2. Configured /\ Probing /\ Quiet
  BY <1>1, Zenon DEF NoticeInv, AdaptiveInv, Quiet
<1>3. CASE keepalive = "lost"
  BY <1>2, <1>3, Zenon DEF NoticeInv
<1>4. CASE keepalive = "running"
  <2>1. NoticeTimes
    BY <1>2, <1>4, Zenon DEF NoticeInv
  <2>2. /\ Interval \in Nat \ {0} /\ Window \in Nat /\ Short \in Nat /\ Ceiling \in Nat
        /\ Longest \in Nat /\ Ceiling + Window <= Longest
        /\ NoticeBound = Longest + Short + Window + 4 * Interval
    BY <1>2, AdaptiveSizes, Zenon
  <2>3. Elapsed \in Nat /\ Elapsed <= Interval /\ sent \in Nat /\ deadFor \in Nat
    <3>1. tick \in 0 .. (Interval - 1) /\ sent \in Nat /\ deadFor \in Nat
      BY <2>1, Zenon DEF NoticeTimes
    <3> QED
      BY <2>2, <3>1 DEF Elapsed
  <2>4. probing.phase \in {"short", "doubling", "stable"} /\ probing.awaiting \in BOOLEAN
    BY <1>2, Zenon DEF Probing
  <2>5. \/ sent <= Window + Elapsed /\ deadFor <= sent + Ceiling + Interval
        \/ sent <= Window + Elapsed /\ deadFor <= sent + Longest + Short + 3 * Interval
        \/ deadFor <= Ceiling + Elapsed
        \/ deadFor <= Longest + 2 * Interval + Elapsed
        \/ deadFor <= Longest + Short + 2 * Interval + Elapsed
    BY <2>1, <2>4, Zenon DEF NoticeTimes, NoticePhase
  <2> QED
    BY <2>2, <2>3, <2>5
<1> QED
  BY <1>3, <1>4, Zenon

(* DeadPeerNoticed for every client: whatever the options, the policy, the  *)
(* delay and the phase in which the peer goes away, the client gives up on  *)
(* it in time, unless it hangs behind a PUSH that holds connWriteMu or is   *)
(* adaptive and keeps pushing.                                              *)
THEOREM DeadPeerNoticedHolds == Spec => []DeadPeerNoticed
<1>1. /\ (loop = "none" => keepalive = "none") /\ FixedInv /\ NoticeInv
      => DeadPeerNoticed
  <2>1. loop \in {"none", "fixed", "adaptive"}
    BY Zenon DEF loop
  <2>2. keepalive = "none" => DeadPeerNoticed
    BY Zenon DEF DeadPeerNoticed
  <2> QED
    BY <2>1, <2>2, FixedNotices, AdaptiveNotices, Zenon
<1> QED
  BY <1>1, NoKeepalive, FixedInit, FixedStep, NoticeInit, NoticeStep, PTL DEF Spec

-----------------------------------------------------------------------------
(* The packets in flight. *)
Kinds == [kind : {"ping", "push", "pong"}, age : Nat]

(* A unit of time makes every packet in flight older, and loses none. *)
LEMMA OlderSeq ==
  ASSUME NEW q \in Seq(Kinds)
  PROVE  /\ Older1(q) \in Seq(Kinds) /\ Len(Older1(q)) = Len(q)
         /\ \A n \in 1 .. Len(q) : Older1(q)[n].kind = q[n].kind /\ Older1(q)[n].age = q[n].age + 1
<1>1. Len(q) \in Nat /\ DOMAIN q = 1 .. Len(q) /\ \A n \in 1 .. Len(q) : q[n] \in Kinds
  OBVIOUS
<1>2. Older1(q) = [n \in 1 .. Len(q) |-> [q[n] EXCEPT !.age = @ + 1]]
  BY <1>1, Zenon DEF Older1
<1>3. \A n \in 1 .. Len(q) : [q[n] EXCEPT !.age = @ + 1] \in Kinds
  <2> TAKE n \in 1 .. Len(q)
  <2>1. q[n] \in [kind : {"ping", "push", "pong"}, age : Nat]
    BY <1>1, Zenon DEF Kinds
  <2>2. [q[n] EXCEPT !.age = q[n].age + 1] \in [kind : {"ping", "push", "pong"}, age : Nat]
    BY <2>1
  <2> QED
    BY <2>2, Zenon DEF Kinds
<1>4. Older1(q) \in [1 .. Len(q) -> Kinds]
  BY <1>2, <1>3, Zenon
<1>5. Older1(q) \in Seq(Kinds) /\ Len(Older1(q)) = Len(q)
  BY <1>1, <1>4, SeqDef, LenProperties
<1>6. \A n \in 1 .. Len(q) : Older1(q)[n].kind = q[n].kind /\ Older1(q)[n].age = q[n].age + 1
  BY <1>1, <1>2 DEF Kinds
<1> QED
  BY <1>5, <1>6, Zenon

(* The packets in flight, their ages one unit on. *)
LEMMA Ages ==
  ASSUME NEW q \in Seq(Kinds), NEW n \in 1 .. Len(q)
  PROVE  /\ q[n].age \in Nat /\ q[1].age \in Nat
         /\ Len(q) \in Nat /\ 1 \in 1 .. Len(q) /\ q # <<>> /\ Head(q) = q[1]
<1>1. Len(q) \in Nat /\ 1 \in 1 .. Len(q)
  OBVIOUS
<1>2. q[n] \in Kinds /\ q[1] \in Kinds
  BY <1>1, ElementOfSeq, Zenon
<1> QED
  BY <1>1, <1>2 DEF Kinds

(* Packets under way arrive in the order in which they were sent and no     *)
(* later than Delay.                                                        *)
InOrder(q) ==
  /\ q \in Seq(Kinds)
  /\ \A n \in 1 .. Len(q) : q[1].age <= Delay
  /\ \A m, n \in 1 .. Len(q) : m <= n => q[n].age <= q[m].age

(* What is known of each of them. *)
LEMMA OrderFacts ==
  ASSUME NEW q, InOrder(q)
  PROVE  /\ q \in Seq(Kinds) /\ Len(q) \in Nat
         /\ (q # <<>>) <=> (1 \in 1 .. Len(q))
         /\ q # <<>> => Head(q) = q[1]
         /\ \A n \in 1 .. Len(q) : q[n].age \in Nat /\ q[n].age <= Delay /\ q[n].kind \in {"ping", "push", "pong"}
<1>1. q \in Seq(Kinds) /\ Len(q) \in Nat
  BY DEF InOrder
<1>2. (q # <<>>) <=> (1 \in 1 .. Len(q))
  BY <1>1
<1>3. q # <<>> => Head(q) = q[1]
  BY <1>1
<1>4. ASSUME NEW n \in 1 .. Len(q)
      PROVE  q[n].age \in Nat /\ q[n].age <= Delay /\ q[n].kind \in {"ping", "push", "pong"}
  <2>1. q[n].age \in Nat /\ q[1].age \in Nat /\ 1 \in 1 .. Len(q)
    BY <1>1, Ages, Zenon
  <2>2. q[n] \in Kinds
    BY <1>1, ElementOfSeq, Zenon
  <2>3. 1 <= n
    BY <1>1
  <2>4. q[n].age <= q[1].age /\ q[1].age <= Delay
    BY <2>1, <2>3, Zenon DEF InOrder
  <2>5. q[n].age <= Delay
    BY <2>1, <2>4, KeepaliveAssumption
  <2> QED
    BY <2>1, <2>2, <2>5, Zenon DEF Kinds
<1> QED
  BY <1>1, <1>2, <1>3, <1>4, Zenon

(* Nothing is under way. *)
LEMMA OrderEmpty == InOrder(<<>>)
<1>1. <<>> \in Seq(Kinds) /\ Len(<<>>) = 0
  OBVIOUS
<1>2. \A n : n \notin 1 .. 0
  OBVIOUS
<1> QED
  BY <1>1, <1>2, Zenon DEF InOrder

(* A unit of time passes, and no packet is late. *)
LEMMA OrderTick ==
  ASSUME NEW q, InOrder(q), ~Overdue(q)
  PROVE  /\ InOrder(Older1(q)) /\ Len(Older1(q)) = Len(q)
         /\ \A n \in 1 .. Len(q) : Older1(q)[n].kind = q[n].kind /\ Older1(q)[n].age = q[n].age + 1
<1>1. q \in Seq(Kinds) /\ \A n \in 1 .. Len(q) : q[n].age \in Nat
  BY OrderFacts, Zenon
<1> DEFINE r == Older1(q)
<1>2. /\ r \in Seq(Kinds) /\ Len(r) = Len(q)
      /\ \A n \in 1 .. Len(q) : r[n].kind = q[n].kind /\ r[n].age = q[n].age + 1
  BY <1>1, OlderSeq, Zenon
<1> HIDE DEF r
<1>3. ASSUME NEW n \in 1 .. Len(r) PROVE r[1].age <= Delay
  <2>1. n \in 1 .. Len(q)
    BY <1>2, Zenon
  <2>2. 1 \in 1 .. Len(q) /\ q # <<>> /\ Head(q) = q[1] /\ q[1].age \in Nat
    BY <1>1, <2>1, Ages, Zenon
  <2>3. ~(q[1].age >= Delay) /\ r[1].age = q[1].age + 1
    BY <1>2, <2>2, Zenon DEF Overdue
  <2> QED
    BY <2>2, <2>3, KeepaliveAssumption
<1>4. ASSUME NEW m \in 1 .. Len(r), NEW n \in 1 .. Len(r), m <= n PROVE r[n].age <= r[m].age
  <2>1. q[n].age <= q[m].age /\ q[n].age \in Nat /\ q[m].age \in Nat
    BY <1>1, <1>2, <1>4, Zenon DEF InOrder
  <2>2. r[n].age = q[n].age + 1 /\ r[m].age = q[m].age + 1
    BY <1>2, Zenon
  <2>3. \A a, b \in Nat : a <= b => a + 1 <= b + 1
    OBVIOUS
  <2> QED
    BY <2>1, <2>2, <2>3, Zenon
<1>5. InOrder(r)
  BY <1>2, <1>3, <1>4, Zenon DEF InOrder
<1> QED
  BY <1>2, <1>5, Zenon DEF r

(* A new packet is the youngest. *)
LEMMA OrderSend ==
  ASSUME NEW q, InOrder(q), NEW k \in {"ping", "push", "pong"}
  PROVE  LET r == Append(q, Packet(k)) IN
         /\ InOrder(r) /\ r # <<>> /\ Len(r) = Len(q) + 1 /\ Len(q) + 1 \in 1 .. Len(r)
         /\ r[Len(q) + 1].kind = k /\ r[Len(q) + 1].age = 0
         /\ \A n \in 1 .. Len(q) : r[n] = q[n] /\ n \in 1 .. Len(r)
         /\ \A n \in 1 .. Len(r) : n \in 1 .. Len(q) \/ n = Len(q) + 1
<1> DEFINE r == Append(q, Packet(k))
<1>1. Packet(k) \in Kinds /\ Packet(k).kind = k /\ Packet(k).age = 0
  BY Zenon DEF Packet, Kinds
<1>2. /\ q \in Seq(Kinds) /\ Len(q) \in Nat
      /\ \A n \in 1 .. Len(q) : q[n].age \in Nat /\ q[n].age <= Delay
  BY OrderFacts, Zenon
<1>3. /\ r \in Seq(Kinds) /\ Len(r) = Len(q) + 1
      /\ r[Len(q) + 1] = Packet(k)
      /\ \A n \in 1 .. Len(q) : r[n] = q[n]
  BY <1>1, <1>2
<1>4. r # <<>>
  BY <1>2, <1>3
<1> HIDE DEF r
<1>5. /\ \A n \in 1 .. Len(r) : n \in 1 .. Len(q) \/ n = Len(q) + 1
      /\ \A n \in 1 .. Len(q) : n \in 1 .. Len(r)
      /\ Len(q) + 1 \in 1 .. Len(r) /\ 1 \in 1 .. Len(r)
  BY <1>2, <1>3
<1>6. r[Len(q) + 1].age = 0 /\ r[Len(q) + 1].kind = k
  BY <1>1, <1>3, Zenon
<1>7. \A n \in 1 .. Len(r) : r[n].age \in Nat /\ r[n].age <= Delay
  <2>1. 0 \in Nat /\ 0 <= Delay
    BY KeepaliveAssumption
  <2> QED
    BY <1>2, <1>3, <1>5, <1>6, <2>1, Zenon
<1>8. ASSUME NEW m \in 1 .. Len(r), NEW n \in 1 .. Len(r), m <= n PROVE r[n].age <= r[m].age
  <2>1. CASE n = Len(q) + 1
    BY <1>6, <1>7, <2>1
  <2>2. CASE n \in 1 .. Len(q)
    <3>1. m \in 1 .. Len(q)
      BY <1>2, <1>3, <1>8, <2>2
    <3> QED
      BY <1>3, <1>8, <2>2, <3>1, Zenon DEF InOrder
  <2> QED
    BY <1>5, <2>1, <2>2, Zenon
<1>9. InOrder(r)
  BY <1>3, <1>5, <1>7, <1>8, Zenon DEF InOrder
<1> QED
  BY <1>3, <1>4, <1>5, <1>6, <1>9, Zenon DEF r

(* The oldest packet arrives. *)
LEMMA OrderReceive ==
  ASSUME NEW q, InOrder(q), q # <<>>
  PROVE  /\ InOrder(Tail(q)) /\ Len(Tail(q)) = Len(q) - 1
         /\ \A n \in 1 .. Len(Tail(q)) : Tail(q)[n] = q[n + 1] /\ n + 1 \in 1 .. Len(q)
         /\ \A n \in 1 .. Len(q) : n = 1 \/ (n - 1 \in 1 .. Len(Tail(q)) /\ Tail(q)[n - 1] = q[n])
<1> DEFINE r == Tail(q)
<1>1. /\ q \in Seq(Kinds) /\ Len(q) \in Nat /\ 1 \in 1 .. Len(q)
      /\ \A n \in 1 .. Len(q) : q[n].age \in Nat /\ q[n].age <= Delay
  BY OrderFacts, Zenon
<1>2. /\ r \in Seq(Kinds) /\ Len(r) = Len(q) - 1
      /\ \A n \in 1 .. Len(r) : r[n] = q[n + 1]
  BY <1>1
<1> HIDE DEF r
<1>3. \A n \in 1 .. Len(r) : n + 1 \in 1 .. Len(q) /\ 1 \in 1 .. Len(r)
  BY <1>1, <1>2
<1>4. ASSUME NEW n \in 1 .. Len(q), n # 1 PROVE n - 1 \in 1 .. Len(r) /\ r[n - 1] = q[n]
  <2>1. n - 1 \in 1 .. Len(r) /\ (n - 1) + 1 = n
    BY <1>1, <1>2, <1>4
  <2> QED
    BY <1>2, <2>1, Zenon
<1>5. ASSUME NEW m \in 1 .. Len(r), NEW n \in 1 .. Len(r), m <= n PROVE r[n].age <= r[m].age
  <2>1. m + 1 <= n + 1
    BY <1>1, <1>2, <1>5
  <2> QED
    BY <1>2, <1>3, <2>1, Zenon DEF InOrder
<1>6. InOrder(r)
  BY <1>1, <1>2, <1>3, <1>5, Zenon DEF InOrder
<1> QED
  BY <1>2, <1>3, <1>4, <1>6, Zenon DEF r

(* What is under way is in order, and nothing is after the failure. *)
WireInv ==
  /\ InOrder(toServer) /\ InOrder(toClient)
  /\ path # "up" => toServer = <<>> /\ toClient = <<>>

(* The keepalive goroutine sends a ping or nothing. *)
LEMMA ServesWire ==
  ASSUME FixedCheck \/ AdaptiveCheck
  PROVE  /\ UNCHANGED <<toClient, path>>
         /\ toServer' = toServer \/ toServer' = Send(toServer, "ping")
<1>1. CASE FixedCheck
  BY <1>1, Zenon DEF FixedCheck, Serves, WritesPing, Blocks
<1>2. CASE AdaptiveCheck
  BY <1>2, Zenon DEF AdaptiveCheck, AdaptiveProbes, ShortAnswered, ProbeAnswered, Unanswered, StableCheck,
     AdaptiveServes, Serves, NextProbing, ProbeIfDue, WritesPing, Blocks
<1> QED
  BY <1>1, <1>2, Zenon

(* The queues of a new connection are empty. *)
LEMMA WireInit == Init => WireInv
BY OrderEmpty, Zenon DEF Init, WireInv

(* Every step keeps the packets in order. *)
LEMMA WireStep == WireInv /\ [Next]_vars => WireInv'
<1> SUFFICES ASSUME WireInv, [Next]_vars PROVE WireInv'
  BY Zenon
<1>1. /\ InOrder(toServer) /\ InOrder(toClient)
      /\ path # "up" => toServer = <<>> /\ toClient = <<>>
  BY Zenon DEF WireInv
<1>2. ASSUME NEW q, InOrder(q), NEW k \in {"ping", "push", "pong"}
      PROVE  InOrder(Send(q, k)) /\ (path # "up" => Send(q, k) = q)
  BY <1>2, OrderSend, Zenon DEF Send
<1>3. CASE Tick
  <2>1. /\ toServer' = Older1(toServer) /\ toClient' = Older1(toClient) /\ UNCHANGED path
        /\ ~Overdue(toServer) /\ ~Overdue(toClient)
    BY <1>3, Zenon DEF Tick
  <2>2. InOrder(toServer') /\ InOrder(toClient')
    BY <1>1, <2>1, OrderTick, Zenon
  <2>3. Older1(<<>>) = <<>>
    BY DEF Older1
  <2> QED
    BY <1>1, <2>1, <2>2, <2>3, Zenon DEF WireInv
<1>4. CASE Die
  BY <1>4, OrderEmpty, Zenon DEF Die, WireInv
<1>5. CASE ServerReads
  <2>1. /\ toServer # <<>> /\ toServer' = Tail(toServer) /\ UNCHANGED path
        /\ toClient' = toClient \/ toClient' = Send(toClient, "pong")
    BY <1>5, Zenon DEF ServerReads
  <2> QED
    BY <1>1, <1>2, <2>1, OrderReceive, Zenon DEF WireInv
<1>6. CASE ServerPushes
  BY <1>1, <1>2, <1>6, Zenon DEF ServerPushes, WireInv
<1>7. CASE ClientReads
  <2>1. toClient # <<>> /\ toClient' = Tail(toClient) /\ UNCHANGED <<path, toServer>>
    BY <1>7, Zenon DEF ClientReads
  <2> QED
    BY <1>1, <2>1, OrderReceive, Zenon DEF WireInv
<1>8. CASE ClientPushes
  BY <1>1, <1>2, <1>8, Zenon DEF ClientPushes, WireInv
<1>9. CASE Reap \/ PushBlocks \/ UNCHANGED vars
  BY <1>1, <1>9, Zenon DEF Reap, PushBlocks, vars, wire, WireInv
<1>10. CASE FixedCheck \/ AdaptiveCheck
  BY <1>1, <1>2, <1>10, ServesWire, Zenon DEF WireInv
<1> QED
  BY <1>3, <1>4, <1>5, <1>6, <1>7, <1>8, <1>9, <1>10, Zenon DEF Next

-----------------------------------------------------------------------------
(* The healthy connection of a client with a fixed heartbeat. *)

(* A connection that is to stay up: a fixed heartbeat with room for a round *)
(* trip, an application that does not push, and a peer that is there.       *)
Sound == loop = "fixed" /\ "client" \notin opt.talk /\ AnswerRoom /\ path = "up"

Awaited == toServer # <<>> \/ \E n \in 1 .. Len(toClient) : toClient[n].kind = "pong"

(* At most one ping is under way, or its answer; what has been received is  *)
(* never older than one period, one look of the ticker and the time the     *)
(* ping and its answer have been under way.                                 *)
Exchange ==
  /\ Len(toServer) <= 1
  /\ toServer # <<>> => toServer[1].age = sent /\ toServer[1].kind = "ping"
  /\ \A n \in 1 .. Len(toClient) : toClient[n].kind = "pong" => sent <= toClient[n].age + Delay
  /\ recv <= IF Awaited THEN sent + effectiveHeartbeat + Interval ELSE sent

Running ==
  /\ keepalive = "running" /\ held = FALSE
  /\ sent \in Nat /\ recv \in Nat
  /\ tick \in 0 .. (Interval - 1)
  /\ due \in BOOLEAN /\ (due => tick = 0)
  /\ sent <= effectiveHeartbeat + Elapsed

HealthyInv == Configured /\ WireInv /\ (Sound => Running /\ Exchange)

(* A new connection is healthy. *)
LEMMA HealthyInit == Init => HealthyInv
<1> SUFFICES ASSUME Init, Sound PROVE Running /\ Exchange
  BY ConfiguredInit, WireInit, Zenon DEF HealthyInv
<1>1. Configured /\ Interval \in Nat \ {0} /\ effectiveHeartbeat \in Nat
  BY ConfiguredInit, Sizes, Zenon
<1>2. Running
  <2>1. keepalive = "running" /\ held = FALSE /\ due = FALSE /\ tick = 0
        /\ sent = 0 /\ recv = 0
    BY Zenon DEF Init, Sound
  <2>2. Elapsed = 0
    BY <2>1, Zenon DEF Elapsed
  <2>3. tick \in 0 .. (Interval - 1) /\ sent <= effectiveHeartbeat + Elapsed
    BY <1>1, <2>1, <2>2
  <2> QED
    BY <2>1, <2>3, Zenon DEF Running
<1>3. Exchange
  <2>1. toServer = <<>> /\ toClient = <<>> /\ sent = 0 /\ recv = 0
    BY Zenon DEF Init
  <2>2. Len(toServer) = 0 /\ Len(toClient) = 0 /\ ~Awaited
    BY <2>1 DEF Awaited
  <2> QED
    BY <2>1, <2>2 DEF Exchange
<1> QED
  BY <1>2, <1>3, Zenon

(* In a sound connection nothing is ever late enough for the client to give *)
(* up or for a second ping.                                                 *)
LEMMA NothingLate ==
  ASSUME Configured, WireInv, Sound, Running, Exchange
  PROVE  /\ recv < Timeout(effectiveHeartbeat)
         /\ Awaited => sent < effectiveHeartbeat
<1> DEFINE H == effectiveHeartbeat
           T == Timeout(effectiveHeartbeat)
<1>1. H \in Nat /\ Interval \in Nat /\ Delay \in Nat /\ T \in Nat /\ H + Interval + 2 * Delay < T
  BY Sizes, KeepaliveAssumption, Zenon DEF Sound, AnswerRoom
<1>2. T <= 2 * H
  BY <1>1 DEF Timeout
<1>3. sent \in Nat /\ recv \in Nat
  BY Zenon DEF Running
<1>4. Awaited => sent <= 2 * Delay
  <2>1. CASE toServer # <<>>
    <3>1. sent <= Delay
      BY <2>1, OrderFacts, Zenon DEF Exchange, WireInv
    <3> QED
      BY <1>1, <1>3, <3>1
  <2>2. ASSUME NEW n \in 1 .. Len(toClient), toClient[n].kind = "pong"
        PROVE  sent <= 2 * Delay
    <3>1. sent <= toClient[n].age + Delay /\ toClient[n].age \in Nat /\ toClient[n].age <= Delay
      BY <2>2, OrderFacts, Zenon DEF Exchange, WireInv
    <3>2. \A a \in Nat : a <= Delay /\ sent <= a + Delay => sent <= 2 * Delay
      BY <1>1, <1>3
    <3> QED
      BY <3>1, <3>2, Zenon
  <2> QED
    BY <2>1, <2>2, Zenon DEF Awaited
<1>5. recv <= IF Awaited THEN sent + H + Interval ELSE sent
  BY Zenon DEF Exchange
<1>6. sent <= H + Interval
  <2>1. tick \in 0 .. (Interval - 1) /\ sent <= H + Elapsed
    BY Zenon DEF Running
  <2> QED
    BY <1>1, <1>3, <2>1 DEF Elapsed
<1> HIDE DEF H, T
<1>7. CASE Awaited
  <2>1. sent <= 2 * Delay /\ recv <= sent + H + Interval
    BY <1>4, <1>5, <1>7, Zenon
  <2>2. recv < T /\ sent < H
    BY <1>1, <1>2, <1>3, <2>1
  <2> QED
    BY <2>2, Zenon DEF H, T
<1>8. CASE ~Awaited
  <2>1. recv <= sent
    BY <1>5, <1>8, Zenon
  <2>2. recv < T
    BY <1>1, <1>3, <1>6, <2>1
  <2> QED
    BY <1>8, <2>2, Zenon DEF T
<1> QED
  BY <1>7, <1>8, Zenon

(* Every step of a healthy connection keeps it so. *)
LEMMA HealthyStep == HealthyInv /\ [Next]_vars => HealthyInv'
<1> SUFFICES ASSUME HealthyInv, [Next]_vars, Sound' PROVE Running' /\ Exchange'
  BY SameConfig, WireStep, Zenon DEF HealthyInv
<1> DEFINE H == effectiveHeartbeat
<1>1. /\ Configured /\ opt' = opt /\ loop' = loop /\ Interval' = Interval /\ effectiveHeartbeat' = H
      /\ Interval \in Nat \ {0} /\ H \in Nat /\ Delay \in Nat
  BY SameConfig, Sizes, KeepaliveAssumption, Zenon DEF HealthyInv, config
<1>2. path = "up"
  <2>1. path' = "up"
    BY Zenon DEF Sound
  <2> QED
    BY <2>1, Zenon DEF Next, Tick, Die, ServerReads, ServerPushes, Reap, ClientReads, ClientPushes, PushBlocks,
       FixedCheck, Serves, AdaptiveCheck, AdaptiveProbes, ShortAnswered, ProbeAnswered, Unanswered, StableCheck,
       AdaptiveServes, vars, wire
<1>3. Sound
  <2>1. AnswerRoom
    BY <1>1, Zenon DEF Sound, AnswerRoom, Timeout
  <2> QED
    BY <1>1, <1>2, <2>1, Zenon DEF Sound
<1>4. Running /\ Exchange /\ InOrder(toServer) /\ InOrder(toClient)
  BY <1>3, Zenon DEF HealthyInv, WireInv
<1>5. /\ keepalive = "running" /\ held = FALSE /\ sent \in Nat /\ recv \in Nat
      /\ tick \in 0 .. (Interval - 1) /\ due \in BOOLEAN /\ (due => tick = 0)
      /\ sent <= H + Elapsed
  BY <1>4, Zenon DEF Running
<1>6. /\ Len(toServer) <= 1
      /\ toServer # <<>> => toServer[1].age = sent /\ toServer[1].kind = "ping"
      /\ \A n \in 1 .. Len(toClient) : toClient[n].kind = "pong" => sent <= toClient[n].age + Delay
      /\ recv <= IF Awaited THEN sent + H + Interval ELSE sent
  BY <1>4, Zenon DEF Exchange
<1>7. recv < Timeout(H) /\ (Awaited => sent < H)
  BY <1>1, <1>3, <1>4, NothingLate, Zenon DEF HealthyInv
<1>8. /\ Elapsed \in Nat /\ Elapsed <= Interval /\ Timeout(H) \in Nat
      /\ Len(toServer) \in Nat /\ Len(toClient) \in Nat
  <2>1. Elapsed \in Nat /\ Elapsed <= Interval
    BY <1>1, <1>5 DEF Elapsed
  <2>2. Timeout(H) \in Nat
    BY <1>1 DEF Timeout
  <2> QED
    BY <1>4, <2>1, <2>2, OrderFacts, Zenon
<1> HIDE DEF H
<1>9. CASE Tick
  <2>1. /\ sent' = sent + 1 /\ recv' = recv + 1
        /\ ~due /\ ~Overdue(toServer) /\ ~Overdue(toClient)
        /\ toServer' = Older1(toServer) /\ toClient' = Older1(toClient)
        /\ tick' = (tick + 1) % Interval /\ due' = (tick' = 0)
        /\ UNCHANGED <<keepalive, held>>
    BY <1>5, <1>9, Zenon DEF Tick, Older
  <2>2. sent' \in Nat /\ recv' \in Nat
    BY <1>5, <2>1
  <2>3. Elapsed' = Elapsed + 1 /\ tick' \in 0 .. (Interval - 1) /\ due' \in BOOLEAN /\ (due' => tick' = 0)
    BY <1>1, <1>5, <2>1, ElapsedTick, Zenon
  <2>4. sent' <= H + Elapsed'
    BY <1>1, <1>5, <1>8, <2>1, <2>3
  <2>5. Running'
    BY <1>1, <1>5, <2>1, <2>2, <2>3, <2>4, Zenon DEF Running
  <2>6. /\ InOrder(toServer') /\ Len(toServer') = Len(toServer)
        /\ \A n \in 1 .. Len(toServer) : toServer'[n].kind = toServer[n].kind /\ toServer'[n].age = toServer[n].age + 1
    BY <1>4, <2>1, OrderTick, Zenon
  <2>7. /\ Len(toClient') = Len(toClient)
        /\ \A n \in 1 .. Len(toClient) : toClient'[n].kind = toClient[n].kind /\ toClient'[n].age = toClient[n].age + 1
    BY <1>4, <2>1, OrderTick, Zenon
  <2>8. /\ (toServer' # <<>>) <=> (toServer # <<>>)
        /\ toServer # <<>> => 1 \in 1 .. Len(toServer)
    BY <1>4, <2>6, OrderFacts, Zenon
  <2>9. toServer' # <<>> => toServer'[1].age = sent' /\ toServer'[1].kind = "ping"
    BY <1>6, <2>1, <2>6, <2>8, Zenon
  <2>10. ASSUME NEW n \in 1 .. Len(toClient'), toClient'[n].kind = "pong"
         PROVE  sent' <= toClient'[n].age + Delay
    <3>1. sent <= toClient[n].age + Delay /\ toClient'[n].age = toClient[n].age + 1 /\ toClient[n].age \in Nat
      BY <1>4, <1>6, <2>7, <2>10, OrderFacts, Zenon
    <3>2. \A a \in Nat : sent <= a + Delay => sent + 1 <= (a + 1) + Delay
      BY <1>1, <1>5
    <3> QED
      BY <2>1, <3>1, <3>2, Zenon
  <2>11. Awaited' <=> Awaited
    BY <2>7, <2>8, Zenon DEF Awaited
  <2>12. recv' <= IF Awaited' THEN sent' + H + Interval ELSE sent'
    <3>1. CASE Awaited
      <4>1. recv <= sent + H + Interval
        BY <1>6, <3>1, Zenon
      <4>2. recv' <= sent' + H + Interval
        BY <1>1, <1>5, <2>1, <4>1
      <4> QED
        BY <2>11, <3>1, <4>2, Zenon
    <3>2. CASE ~Awaited
      <4>1. recv <= sent
        BY <1>6, <3>2, Zenon
      <4>2. recv' <= sent'
        BY <1>5, <2>1, <4>1
      <4> QED
        BY <2>11, <3>2, <4>2, Zenon
    <3> QED
      BY <3>1, <3>2, Zenon
  <2>13. Exchange'
    BY <1>1, <1>6, <2>6, <2>9, <2>10, <2>12, Zenon DEF Exchange
  <2> QED
    BY <2>5, <2>13, Zenon
<1>10. CASE FixedCheck
  <2>1. PICK ping \in Reached(sent, H), out \in Reached(recv, Timeout(H)) :
          \/ ping /\ Blocks
          \/ /\ keepalive' = IF out THEN "lost" ELSE "running"
             /\ ping => WritesPing
             /\ ~ping => UNCHANGED <<sent, toServer>>
    BY <1>10, Zenon DEF FixedCheck, H
  <2>2. due /\ ~due' /\ due' \in BOOLEAN /\ UNCHANGED <<tick, recv, held, toClient>>
    BY <1>10, Zenon DEF FixedCheck, Serves
  <2>3. ~out
    <3>1. recv # Timeout(H) /\ ~(recv > Timeout(H))
      BY <1>5, <1>7, <1>8
    <3>2. out = (recv > Timeout(H))
      BY <2>1, <3>1, Zenon DEF Reached
    <3> QED
      BY <3>1, <3>2, Zenon
  <2>4. keepalive' = "running" /\ (ping => WritesPing) /\ (~ping => UNCHANGED <<sent, toServer>>)
    BY <1>5, <2>1, <2>3, Zenon DEF Blocks
  <2>5. Elapsed' = tick /\ tick \in Nat
    <3>1. Elapsed' = tick
      BY <2>2, Zenon DEF Elapsed
    <3> QED
      BY <1>1, <1>5, <3>1
  <2>6. CASE ping
    <3>1. sent = H \/ sent > H
      <4>1. CASE sent # H
        <5>1. ping = (sent > H)
          BY <4>1, Zenon DEF Reached
        <5> QED
          BY <2>6, <5>1, Zenon
      <4> QED
        BY <4>1, Zenon
    <3>2. ~(sent < H)
      BY <1>1, <1>5, <3>1
    <3>3. ~Awaited
      BY <1>7, <3>2, Zenon
    <3>4. toServer = <<>> /\ \A n \in 1 .. Len(toClient) : toClient[n].kind # "pong"
      BY <3>3, Zenon DEF Awaited
    <3>5. sent' = 0 /\ toServer' = Append(toServer, Packet("ping"))
      BY <1>2, <2>4, <2>6, Zenon DEF WritesPing, Send
    <3>6. /\ toServer' # <<>> /\ Len(toServer') = Len(toServer) + 1
          /\ toServer'[Len(toServer) + 1].kind = "ping" /\ toServer'[Len(toServer) + 1].age = 0
      BY <1>4, <3>5, OrderSend, Zenon
    <3>7. Len(toServer) + 1 = 1 /\ 1 <= 1
      BY <3>4
    <3>8. recv <= sent
      BY <1>6, <3>3, Zenon
    <3>9. recv' <= sent' + H + Interval /\ sent' <= H + tick /\ sent' \in Nat
      BY <1>1, <1>5, <1>8, <2>2, <2>5, <3>5, <3>8
    <3>10. Awaited'
      BY <3>6, Zenon DEF Awaited
    <3>11. Exchange'
      BY <1>1, <2>2, <3>4, <3>5, <3>6, <3>7, <3>9, <3>10, Zenon DEF Exchange
    <3>12. Running'
      BY <1>1, <1>5, <2>2, <2>4, <2>5, <3>9, Zenon DEF Running
    <3> QED
      BY <3>11, <3>12, Zenon
  <2>7. CASE ~ping
    <3>1. sent = H \/ ~(sent > H)
      <4>1. CASE sent # H
        <5>1. ping = (sent > H)
          BY <4>1, Zenon DEF Reached
        <5> QED
          BY <2>7, <5>1, Zenon
      <4> QED
        BY <4>1, Zenon
    <3>2. UNCHANGED <<sent, toServer, recv, toClient>>
      BY <2>2, <2>4, <2>7, Zenon
    <3>3. Exchange'
      BY <1>1, <1>6, <3>2, Zenon DEF Exchange, Awaited
    <3>4. sent <= H + tick
      BY <1>1, <1>5, <2>5, <3>1
    <3>5. Running'
      BY <1>1, <1>5, <2>2, <2>4, <2>5, <3>2, <3>4, Zenon DEF Running
    <3> QED
      BY <3>3, <3>5, Zenon
  <2> QED
    BY <2>6, <2>7, Zenon
<1>11. ASSUME UNCHANGED <<keepalive, tick, due, sent, held>>, recv' \in Nat
       PROVE  Running'
  <2>1. Elapsed' = Elapsed
    BY <1>1, <1>11, Zenon DEF Elapsed
  <2> QED
    BY <1>1, <1>5, <1>11, <2>1, Zenon DEF Running
<1>12. CASE ServerReads
  <2>1. toServer # <<>> /\ toServer' = Tail(toServer) /\ UNCHANGED <<keepalive, tick, due, sent, recv, held>>
    BY <1>12, Zenon DEF ServerReads, clientVars
  <2>2. toClient' = Append(toClient, Packet("pong"))
    BY <1>2, <1>4, <1>6, <1>12, <2>1, OrderFacts, Zenon DEF ServerReads, Send
  <2>3. Len(toServer') = Len(toServer) - 1 /\ InOrder(toServer')
    BY <1>4, <2>1, OrderReceive, Zenon
  <2>4. Len(toServer') <= 1 /\ ~(1 \in 1 .. Len(toServer'))
    BY <1>6, <1>8, <2>3
  <2>5. toServer' = <<>>
    BY <2>3, <2>4, OrderFacts, Zenon
  <2>6. sent <= Delay /\ recv <= sent + H + Interval
    BY <1>4, <1>6, <2>1, OrderFacts, Zenon DEF Awaited
  <2>7. /\ Len(toClient) + 1 \in 1 .. Len(toClient')
        /\ toClient'[Len(toClient) + 1].kind = "pong" /\ toClient'[Len(toClient) + 1].age = 0
        /\ \A n \in 1 .. Len(toClient) : toClient'[n] = toClient[n]
        /\ \A n \in 1 .. Len(toClient') : n \in 1 .. Len(toClient) \/ n = Len(toClient) + 1
    BY <1>4, <2>2, OrderSend, Zenon
  <2>8. 0 + Delay = Delay
    BY <1>1
  <2>9. \A n \in 1 .. Len(toClient') : toClient'[n].kind = "pong" => sent' <= toClient'[n].age + Delay
    BY <1>6, <2>1, <2>6, <2>7, <2>8, Zenon
  <2>10. Awaited'
    BY <2>7, Zenon DEF Awaited
  <2>11. Exchange'
    BY <1>1, <2>1, <2>4, <2>5, <2>6, <2>9, <2>10, Zenon DEF Exchange
  <2> QED
    BY <1>5, <1>11, <2>1, <2>11, Zenon
<1>13. CASE ServerPushes
  <2>1. toClient' = Append(toClient, Packet("push")) /\ UNCHANGED <<keepalive, tick, due, sent, recv, held, toServer>>
    BY <1>2, <1>13, Zenon DEF ServerPushes, Send, clientVars, serverVars
  <2>2. /\ toClient'[Len(toClient) + 1].kind = "push"
        /\ \A n \in 1 .. Len(toClient) : toClient'[n] = toClient[n] /\ n \in 1 .. Len(toClient')
        /\ \A n \in 1 .. Len(toClient') : n \in 1 .. Len(toClient) \/ n = Len(toClient) + 1
    BY <1>4, <2>1, OrderSend, Zenon
  <2>3. Awaited' <=> Awaited
    BY <2>1, <2>2, Zenon DEF Awaited
  <2>4. \A n \in 1 .. Len(toClient') : toClient'[n].kind = "pong" => sent' <= toClient'[n].age + Delay
    BY <1>6, <2>1, <2>2, Zenon
  <2>5. Exchange'
    BY <1>1, <1>6, <2>1, <2>3, <2>4, Zenon DEF Exchange
  <2> QED
    BY <1>5, <1>11, <2>1, <2>5, Zenon
<1>14. CASE ClientReads
  <2>1. toClient # <<>> /\ toClient' = Tail(toClient) /\ recv' = 0
        /\ UNCHANGED <<keepalive, tick, due, sent, held, toServer>>
    BY <1>14, Zenon DEF ClientReads
  <2>2. \A n \in 1 .. Len(toClient') : toClient'[n] = toClient[n + 1] /\ n + 1 \in 1 .. Len(toClient)
    BY <1>4, <2>1, OrderReceive, Zenon
  <2>3. \A n \in 1 .. Len(toClient') : toClient'[n].kind = "pong" => sent' <= toClient'[n].age + Delay
    BY <1>6, <2>1, <2>2, Zenon
  <2>4. recv' \in Nat /\ recv' <= sent' /\ recv' <= sent' + H + Interval
    BY <1>1, <1>5, <2>1
  <2>5. Exchange'
    BY <1>1, <1>6, <2>1, <2>3, <2>4, Zenon DEF Exchange
  <2> QED
    BY <1>11, <2>1, <2>4, <2>5, Zenon
<1>15. CASE Reap \/ UNCHANGED vars
  <2>1. UNCHANGED <<keepalive, tick, due, sent, recv, held, toServer, toClient>>
    BY <1>15, Zenon DEF Reap, vars, clientVars, wire
  <2>2. Exchange'
    BY <1>1, <1>6, <2>1, Zenon DEF Exchange, Awaited
  <2> QED
    BY <1>5, <1>11, <2>1, <2>2, Zenon
<1>16. ~(Die \/ ClientPushes \/ PushBlocks \/ AdaptiveCheck)
  BY <1>2, <1>3, Zenon DEF Sound, Die, ClientPushes, PushBlocks, AdaptiveCheck, AdaptiveProbes, ShortAnswered,
     ProbeAnswered, Unanswered, StableCheck, AdaptiveServes, Serves
<1> QED
  BY <1>9, <1>10, <1>12, <1>13, <1>14, <1>15, <1>16, Zenon DEF Next

-----------------------------------------------------------------------------
(* The last probe or its answer is under way. *)
UnderWay ==
  \/ \E n \in 1 .. Len(toServer) : toServer[n].kind = "ping" /\ toServer[n].age = probe
  \/ \E n \in 1 .. Len(toClient) : toClient[n].kind = "pong" /\ probe <= toClient[n].age + Delay

Answering ==
  /\ keepalive = "running" /\ held = FALSE /\ probe \in Nat
  /\ probing.awaiting /\ ~answered /\ probing.phase # "stable" => UnderWay

(* As long as the peer is there, and a round trip fits in the window of a   *)
(* probe, each probe is answered.                                           *)
Answerable == Quiet /\ AnswerRoom /\ path = "up"

AnswerInv == AdaptiveInv /\ WireInv /\ (Answerable => Answering)

(* A new connection has sent no probe. *)
LEMMA AnswerInit == Init => AnswerInv
<1> SUFFICES ASSUME Init, Answerable PROVE Answering
  BY AdaptiveInit, WireInit, Zenon DEF AnswerInv
<1>1. keepalive = "running" /\ held = FALSE /\ probe = 0 /\ probing.awaiting = FALSE
  BY Zenon DEF Init, Answerable, Quiet, ShortProbing
<1> QED
  BY <1>1, Zenon DEF Answering

(* While the probe or its answer is under way, its window is not over. *)
LEMMA InWindow ==
  ASSUME WireInv, UnderWay, probe \in Nat
  PROVE  probe <= 2 * Delay
<1>1. Delay \in Nat
  BY KeepaliveAssumption, Zenon
<1>2. CASE \E n \in 1 .. Len(toServer) : toServer[n].age = probe
  <2>1. probe <= Delay
    BY <1>2, OrderFacts, Zenon DEF WireInv
  <2> QED
    BY <1>1, <2>1
<1>3. CASE \E n \in 1 .. Len(toClient) : probe <= toClient[n].age + Delay
  <2>1. PICK n \in 1 .. Len(toClient) : probe <= toClient[n].age + Delay
    BY <1>3, Zenon
  <2>2. toClient[n].age \in Nat /\ toClient[n].age <= Delay
    BY OrderFacts, Zenon DEF WireInv
  <2> QED
    BY <1>1, <2>1, <2>2
<1> QED
  BY <1>2, <1>3, Zenon DEF UnderWay

(* The keepalive goroutine serves a tick: it does not give up. *)
LEMMA AnswerServe ==
  ASSUME AdaptiveInv, WireInv, Answerable, Answering, AdaptiveCheck
  PROVE  Answering'
<1>1. Configured /\ Probing
  BY Zenon DEF AdaptiveInv
<1>2. held = FALSE /\ held' = FALSE /\ toClient' = toClient /\ keepalive = "running" /\ probe \in Nat
  BY Zenon DEF Answering, AdaptiveCheck, AdaptiveProbes, ShortAnswered, ProbeAnswered, Unanswered, StableCheck,
     AdaptiveServes, Serves
<1>3. ASSUME ProbeIfDue PROVE Answering'
  <2>1. PICK over \in Reached(sent, Period) :
          IF ~over THEN UNCHANGED <<keepalive, sent, probing, probe, answered, toServer>>
          ELSE \/ Blocks
               \/ /\ WritesPing
                  /\ probing' = [probing EXCEPT !.awaiting = TRUE]
                  /\ probe' = 0 /\ answered' = FALSE
                  /\ UNCHANGED keepalive
    BY <1>3, Zenon DEF ProbeIfDue
  <2>2. CASE ~over
    BY <1>2, <2>1, <2>2, Zenon DEF Answering, UnderWay
  <2>3. CASE over
    <3>1. toServer' = Append(toServer, Packet("ping")) /\ probe' = 0 /\ UNCHANGED keepalive
      BY <1>2, <2>1, <2>3, Zenon DEF Blocks, WritesPing, Send, Answerable
    <3>2. UnderWay'
      <4>1. /\ Len(toServer) + 1 \in 1 .. Len(toServer')
            /\ toServer'[Len(toServer) + 1].kind = "ping" /\ toServer'[Len(toServer) + 1].age = 0
        BY <3>1, OrderSend, Zenon DEF WireInv
      <4> QED
        BY <3>1, <4>1, Zenon DEF UnderWay
    <3>3. 0 \in Nat
      OBVIOUS
    <3> QED
      BY <1>2, <3>1, <3>2, <3>3, Zenon DEF Answering
  <2> QED
    BY <2>2, <2>3, Zenon
<1>4. CASE AdaptiveProbes
  BY <1>3, <1>4, Zenon DEF AdaptiveProbes
<1>5. ASSUME NextProbing(probing'), ~probing'.awaiting \/ probing'.phase = "stable"
      PROVE  Answering'
  BY <1>2, <1>5, Zenon DEF Answering, NextProbing
<1>6. CASE ShortAnswered
  <2>1. \/ probing' = [probing EXCEPT !.awaiting = FALSE, !.ok = probing.ok + 1, !.phase = "doubling",
                                     !.interval = Short, !.success = Short]
        \/ probing' = [probing EXCEPT !.awaiting = FALSE, !.ok = probing.ok + 1]
    BY <1>6, Zenon DEF ShortAnswered, NextProbing
  <2>2. NextProbing(probing')
    BY <1>6, Zenon DEF ShortAnswered, NextProbing
  <2>3. ~probing'.awaiting
    BY <1>1, <2>1, Zenon DEF Probing
  <2> QED
    BY <1>5, <2>2, <2>3, Zenon
<1>7. CASE ProbeAnswered
  <2> DEFINE won == [probing EXCEPT !.awaiting = FALSE, !.success = probing.interval]
             next == Least(2 * probing.interval, Ceiling)
  <2>1. NextProbing(probing') /\ (probing' = Stable(won) \/ probing' = [won EXCEPT !.interval = next])
    BY <1>7, Zenon DEF ProbeAnswered, NextProbing
  <2>2. ~probing'.awaiting
    BY <1>1, <2>1, Zenon DEF Probing, Stable
  <2> QED
    BY <1>5, <2>1, <2>2, Zenon
<1>8. CASE Unanswered
  <2>1. UnderWay
    BY <1>8, Zenon DEF Unanswered, AdaptiveServes, Answering
  <2>2. probe <= 2 * Delay
    BY <1>2, <2>1, InWindow, Zenon
  <2>3. 2 * Delay < Window /\ Window \in Nat
    BY <1>1, AdaptiveSizes, Zenon DEF Answerable, AnswerRoom, Quiet
  <2>4. PICK over \in Reached(probe, Window) :
          IF over /\ probing.phase = "short"
            THEN keepalive' = "lost" /\ UNCHANGED <<sent, probing, probe, answered, toServer>>
            ELSE NextProbing(IF over THEN Stable(probing) ELSE probing)
    BY <1>8, Zenon DEF Unanswered
  <2>5. over => Window <= probe
    BY <1>2, <2>3, <2>4, Compared, Zenon
  <2>6. ~(Window <= probe)
    BY <1>2, <2>2, <2>3, KeepaliveAssumption
  <2>7. UNCHANGED <<keepalive, probing, probe, answered, toServer>>
    BY <2>4, <2>5, <2>6, Zenon DEF NextProbing
  <2> QED
    BY <1>2, <2>1, <2>7, Zenon DEF Answering, UnderWay
<1>9. CASE StableCheck
  <2>1. ProbeIfDue \/ NextProbing(ShortProbing)
    BY <1>9, Zenon DEF StableCheck
  <2>2. CASE NextProbing(ShortProbing)
    <3>1. NextProbing(probing') /\ probing' = ShortProbing
      BY <2>2, Zenon DEF NextProbing
    <3>2. ~probing'.awaiting
      BY <3>1, Zenon DEF ShortProbing
    <3> QED
      BY <1>5, <3>1, <3>2, Zenon
  <2> QED
    BY <1>3, <2>1, <2>2, Zenon
<1> QED
  BY <1>4, <1>6, <1>7, <1>8, <1>9, Zenon DEF AdaptiveCheck

(* Every step of a healthy connection keeps the probe or its answer on its  *)
(* way.                                                                     *)
LEMMA AnswerStep == AnswerInv /\ [Next]_vars => AnswerInv'
<1> SUFFICES ASSUME AnswerInv, [Next]_vars, Answerable' PROVE Answering'
  BY AdaptiveStep, WireStep, Zenon DEF AnswerInv
<1>1. AdaptiveInv /\ WireInv /\ InOrder(toServer) /\ InOrder(toClient)
  BY Zenon DEF AnswerInv, WireInv
<1>2. path = "up"
  <2>1. path' = "up"
    BY Zenon DEF Answerable
  <2>2. CASE FixedCheck \/ AdaptiveCheck
    BY <2>1, <2>2, ServesWire, Zenon
  <2> QED
    BY <2>1, <2>2, Zenon DEF Next, Tick, Die, ServerReads, ServerPushes, Reap, ClientReads, ClientPushes,
       PushBlocks, vars, wire
<1>3. Answerable
  <2>1. opt' = opt /\ loop' = loop
    BY SameConfig, Zenon DEF config
  <2>2. Window' = Window
    BY <2>1, Zenon DEF Window
  <2>3. Quiet /\ AnswerRoom
    BY <2>1, <2>2, Zenon DEF Answerable, Quiet, AnswerRoom
  <2> QED
    BY <1>2, <2>3, Zenon DEF Answerable
<1>4. Answering
  BY <1>3, Zenon DEF AnswerInv
<1>5. keepalive = "running" /\ held = FALSE /\ probe \in Nat
  BY <1>4, Zenon DEF Answering
<1>6. CASE Tick
  <2>1. /\ UNCHANGED <<keepalive, held, probing, answered>>
        /\ probe' = (IF probing.awaiting /\ probing.phase # "stable" THEN probe + 1 ELSE probe)
        /\ toServer' = Older1(toServer) /\ toClient' = Older1(toClient)
        /\ ~Overdue(toServer) /\ ~Overdue(toClient)
    BY <1>6, Zenon DEF Tick, Older
  <2>2. probe' \in Nat
    BY <1>5, <2>1
  <2>3. ASSUME probing.awaiting, probing.phase # "stable", UnderWay PROVE UnderWay'
    <3>1. probe' = probe + 1
      BY <2>1, <2>3, Zenon
    <3>2. CASE \E n \in 1 .. Len(toServer) : toServer[n].kind = "ping" /\ toServer[n].age = probe
      <4>1. PICK n \in 1 .. Len(toServer) : toServer[n].kind = "ping" /\ toServer[n].age = probe
        BY <3>2, Zenon
      <4>2. n \in 1 .. Len(toServer') /\ toServer'[n].kind = "ping" /\ toServer'[n].age = probe'
        BY <1>1, <2>1, <3>1, <4>1, OrderTick, Zenon
      <4> QED
        BY <4>2, Zenon DEF UnderWay
    <3>3. CASE \E n \in 1 .. Len(toClient) : toClient[n].kind = "pong" /\ probe <= toClient[n].age + Delay
      <4>1. PICK n \in 1 .. Len(toClient) : toClient[n].kind = "pong" /\ probe <= toClient[n].age + Delay
        BY <3>3, Zenon
      <4>2. n \in 1 .. Len(toClient') /\ toClient'[n].kind = "pong" /\ toClient'[n].age = toClient[n].age + 1
        BY <1>1, <2>1, <4>1, OrderTick, Zenon
      <4>3. toClient[n].age \in Nat
        BY <1>1, OrderFacts, Zenon
      <4>4. probe' <= toClient'[n].age + Delay
        BY <1>5, <3>1, <4>1, <4>2, <4>3, KeepaliveAssumption
      <4> QED
        BY <4>2, <4>4, Zenon DEF UnderWay
    <3> QED
      BY <2>3, <3>2, <3>3, Zenon DEF UnderWay
  <2> QED
    BY <1>4, <2>1, <2>2, <2>3, Zenon DEF Answering
<1>7. CASE ServerReads
  <2>1. /\ UNCHANGED <<keepalive, held, probing, answered, probe>>
        /\ toServer # <<>> /\ toServer' = Tail(toServer)
        /\ toClient' = IF Head(toServer).kind = "ping" THEN Append(toClient, Packet("pong")) ELSE toClient
    BY <1>2, <1>7, Zenon DEF ServerReads, Send, clientVars
  <2>2. /\ \A n \in 1 .. Len(toClient) : toClient'[n] = toClient[n] /\ n \in 1 .. Len(toClient')
    BY <1>1, <2>1, OrderSend, Zenon
  <2>3. CASE \E n \in 1 .. Len(toServer) : toServer[n].kind = "ping" /\ toServer[n].age = probe
    <3>1. PICK n \in 1 .. Len(toServer) : toServer[n].kind = "ping" /\ toServer[n].age = probe
      BY <2>3, Zenon
    <3>2. CASE n = 1
      <4>1. toClient' = Append(toClient, Packet("pong"))
        BY <1>1, <2>1, <3>1, <3>2, OrderFacts, Zenon
      <4>2. /\ Len(toClient) + 1 \in 1 .. Len(toClient')
            /\ toClient'[Len(toClient) + 1].kind = "pong" /\ toClient'[Len(toClient) + 1].age = 0
        BY <1>1, <4>1, OrderSend, Zenon
      <4>3. probe <= Delay
        BY <1>1, <3>1, OrderFacts, Zenon
      <4>4. probe' <= 0 + Delay
        BY <1>5, <2>1, <4>3, KeepaliveAssumption
      <4>5. UnderWay'
        BY <4>2, <4>4, Zenon DEF UnderWay
      <4> QED
        BY <1>5, <2>1, <4>5, Zenon DEF Answering
    <3>3. CASE n # 1
      <4>1. n - 1 \in 1 .. Len(toServer') /\ toServer'[n - 1] = toServer[n]
        BY <1>1, <2>1, <3>3, OrderReceive, Zenon
      <4>2. UnderWay'
        BY <2>1, <3>1, <4>1, Zenon DEF UnderWay
      <4> QED
        BY <1>5, <2>1, <4>2, Zenon DEF Answering
    <3> QED
      BY <3>2, <3>3, Zenon
  <2>4. CASE \E n \in 1 .. Len(toClient) : toClient[n].kind = "pong" /\ probe <= toClient[n].age + Delay
    <3>1. UnderWay'
      BY <2>1, <2>2, <2>4, Zenon DEF UnderWay
    <3> QED
      BY <1>5, <2>1, <3>1, Zenon DEF Answering
  <2>5. CASE ~UnderWay
    BY <1>4, <1>5, <2>1, <2>5, Zenon DEF Answering
  <2> QED
    BY <2>3, <2>4, <2>5, Zenon DEF UnderWay
<1>8. CASE ServerPushes
  <2>1. UNCHANGED <<keepalive, held, probing, answered, probe, toServer>> /\ toClient' = Append(toClient, Packet("push"))
    BY <1>2, <1>8, Zenon DEF ServerPushes, Send, clientVars
  <2>2. \A n \in 1 .. Len(toClient) : toClient'[n] = toClient[n] /\ n \in 1 .. Len(toClient')
    BY <1>1, <2>1, OrderSend, Zenon
  <2>3. UnderWay => UnderWay'
    BY <2>1, <2>2, Zenon DEF UnderWay
  <2> QED
    BY <1>4, <2>1, <2>3, Zenon DEF Answering
<1>9. CASE ClientReads
  BY <1>5, <1>9, Zenon DEF ClientReads, Answering
<1>10. CASE Reap \/ UNCHANGED vars
  <2>1. UNCHANGED <<keepalive, held, probing, answered, probe, toServer, toClient>>
    BY <1>10, Zenon DEF Reap, vars, clientVars, wire
  <2> QED
    BY <1>4, <2>1, Zenon DEF Answering, UnderWay
<1>11. CASE AdaptiveCheck
  BY <1>1, <1>3, <1>4, <1>11, AnswerServe, Zenon
<1>12. ~(Die \/ ClientPushes \/ PushBlocks \/ FixedCheck)
  <2>1. ~Die
    BY Zenon DEF Die, Answerable
  <2> QED
    BY <1>3, <2>1, Zenon DEF Answerable, Quiet, ClientPushes, PushBlocks, FixedCheck, Serves
<1> QED
  BY <1>6, <1>7, <1>8, <1>9, <1>10, <1>11, <1>12, Zenon DEF Next

(* HealthyNotLost for every client that does not push, fixed or adaptive:   *)
(* whatever the options, the policy and the delay, the answer to a ping     *)
(* arrives before the client gives up, if there is room for a round trip.   *)
THEOREM HealthyNotLostHolds == Spec => []HealthyNotLost
<1>1. HealthyInv => (loop = "fixed" => HealthyNotLost)
  BY Zenon DEF HealthyInv, HealthyNotLost, Sound, Running
<1>2. AnswerInv => (loop = "adaptive" => HealthyNotLost)
  BY Zenon DEF AnswerInv, HealthyNotLost, Answerable, Answering, Quiet
<1>3. (loop = "none" => keepalive = "none") /\ HealthyInv /\ AnswerInv => HealthyNotLost
  <2>1. loop \in {"none", "fixed", "adaptive"}
    BY Zenon DEF loop
  <2>2. keepalive = "none" => HealthyNotLost
    BY Zenon DEF HealthyNotLost
  <2> QED
    BY <1>1, <1>2, <2>1, <2>2, Zenon
<1> QED
  BY <1>3, HealthyInit, HealthyStep, AnswerInit, AnswerStep, NoKeepalive, PTL DEF Spec

-----------------------------------------------------------------------------
(* The longest an adaptive client waits, for its period or for an answer. *)
Patience == Most(Ceiling, Window + Interval)

(* The age of the last packet of the client when a tick was served. *)
LateBy ==
  IF loop # "adaptive" THEN effectiveHeartbeat
  ELSE IF probing.phase = "short" /\ ~probing.awaiting THEN Patience + Interval ELSE Patience

(* The client keeps sending, and the server's timer is no older than the    *)
(* oldest packet under way and the silence before it.                       *)
Sending ==
  /\ held = FALSE
  /\ sent \in Nat /\ probe \in Nat /\ idle \in Nat
  /\ tick \in 0 .. (Interval - 1)
  /\ due \in BOOLEAN /\ (due => tick = 0)
  /\ loop = "adaptive" /\ probing.phase # "stable" /\ probing.awaiting =>
       sent <= probe /\ probe <= Window + Elapsed
  /\ sent <= LateBy + Elapsed
  /\ idle <= IF toServer = <<>> THEN sent ELSE toServer[1].age + LongestSilence
  /\ decided < Word /\ PingRoom => ~reaped

PingInv ==
  /\ AdaptiveInv /\ WireInv
  /\ keepalive = "none" <=> loop = "none"
  /\ path = "up" /\ keepalive = "running" => Sending

(* The times of the client, whatever its loop. *)
LEMMA SilenceSizes ==
  ASSUME Configured
  PROVE  /\ Interval \in Nat \ {0} /\ Window \in Nat /\ Ceiling \in Nat /\ effectiveHeartbeat \in Nat
         /\ Patience \in Nat /\ Ceiling <= Patience /\ Window + Interval <= Patience
         /\ LateBy \in Nat /\ LongestSilence \in Nat /\ LateBy + Interval <= LongestSilence
<1>1. Interval \in Nat \ {0} /\ Ceiling \in Nat /\ effectiveHeartbeat \in Nat
  BY Sizes, Zenon
<1>2. Window \in Nat
  <2>1. opt.window \in Nat /\ Second \in Nat
    BY KeepaliveAssumption, Zenon DEF Configured
  <2> QED
    BY <2>1 DEF Window
<1>3. Patience \in Nat /\ Ceiling <= Patience /\ Window + Interval <= Patience
  BY <1>1, <1>2 DEF Patience, Most
<1>4. LongestSilence = Interval + IF loop = "adaptive" THEN Patience + Interval ELSE effectiveHeartbeat
  BY Zenon DEF LongestSilence, Patience
<1>5. LongestSilence \in Nat /\ LateBy \in Nat /\ LateBy + Interval <= LongestSilence
  BY <1>1, <1>3, <1>4 DEF LateBy
<1> QED
  BY <1>1, <1>2, <1>3, <1>5, Zenon

(* A new connection has been silent for no time. *)
LEMMA PingInit == Init => PingInv
<1> SUFFICES ASSUME Init PROVE PingInv
  BY Zenon
<1>1. AdaptiveInv /\ WireInv /\ Configured
  BY AdaptiveInit, WireInit, ConfiguredInit, Zenon
<1>2. keepalive = "none" <=> loop = "none"
  BY Zenon DEF Init
<1>3. /\ held = FALSE /\ sent = 0 /\ probe = 0 /\ idle = 0 /\ tick = 0 /\ due = FALSE
      /\ probing.awaiting = FALSE /\ toServer = <<>> /\ reaped = FALSE
  BY Zenon DEF Init, ShortProbing
<1>4. Elapsed = 0
  BY <1>3, Zenon DEF Elapsed
<1>5. 0 \in Nat /\ 0 <= 0 /\ sent <= LateBy + Elapsed /\ tick \in 0 .. (Interval - 1)
  BY <1>1, <1>3, <1>4, SilenceSizes
<1>6. Sending
  BY <1>3, <1>5, Zenon DEF Sending
<1> QED
  BY <1>1, <1>2, <1>6, Zenon DEF PingInv

(* While the client keeps sending, the server's timer does not expire. *)
LEMMA NotExpired ==
  ASSUME Configured, WireInv, Sending, decided < Word, PingRoom, Timed
  PROVE  ~(idle >= ReapAfter)
<1>1. /\ Interval \in Nat \ {0} /\ LateBy \in Nat /\ LongestSilence \in Nat
      /\ LateBy + Interval <= LongestSilence /\ Delay \in Nat
  BY SilenceSizes, KeepaliveAssumption, Zenon
<1>2. /\ sent \in Nat /\ idle \in Nat /\ sent <= LateBy + Elapsed
      /\ idle <= IF toServer = <<>> THEN sent ELSE toServer[1].age + LongestSilence
  BY Zenon DEF Sending
<1>3. Elapsed <= Interval /\ Elapsed \in Nat
  <2>1. tick \in 0 .. (Interval - 1)
    BY Zenon DEF Sending
  <2> QED
    BY <1>1, <2>1 DEF Elapsed
<1>4. idle <= LongestSilence + Delay
  <2>1. CASE toServer = <<>>
    BY <1>1, <1>2, <1>3, <2>1
  <2>2. CASE toServer # <<>>
    <3>1. toServer[1].age \in Nat /\ toServer[1].age <= Delay
      BY <2>2, OrderFacts, Zenon DEF WireInv
    <3> QED
      BY <1>1, <1>2, <2>2, <3>1
  <2> QED
    BY <2>1, <2>2, Zenon
<1>5. ReapAfter = Timeout(effectiveHeartbeat)
  <2>1. serverKp = decided
    BY KeepaliveAssumption DEF serverKp, Configured
  <2> QED
    BY <2>1, Zenon DEF ReapAfter, effectiveHeartbeat, Timed
<1>6. LongestSilence + Delay < Timeout(effectiveHeartbeat) /\ Timeout(effectiveHeartbeat) \in Nat
  BY Sizes, Zenon DEF PingRoom
<1> QED
  BY <1>1, <1>2, <1>4, <1>5, <1>6

(* A packet of the client: the silence ends. *)
LEMMA SilenceEnds ==
  ASSUME Configured, WireInv, Sending, NEW k \in {"ping", "push"}, NEW q, q = Append(toServer, Packet(k))
  PROVE  idle <= IF q = <<>> THEN 0 ELSE q[1].age + LongestSilence
<1>1. /\ Interval \in Nat \ {0} /\ LateBy \in Nat /\ LongestSilence \in Nat
      /\ LateBy + Interval <= LongestSilence
  BY SilenceSizes, Zenon
<1>2. /\ sent \in Nat /\ idle \in Nat /\ sent <= LateBy + Elapsed /\ tick \in 0 .. (Interval - 1)
      /\ idle <= IF toServer = <<>> THEN sent ELSE toServer[1].age + LongestSilence
  BY Zenon DEF Sending
<1>3. /\ q # <<>> /\ Len(toServer) \in Nat
      /\ toServer # <<>> => 1 \in 1 .. Len(toServer)
      /\ q[Len(toServer) + 1].age = 0
      /\ \A n \in 1 .. Len(toServer) : q[n] = toServer[n]
  <2>1. InOrder(toServer) /\ k \in {"ping", "push", "pong"}
    BY Zenon DEF WireInv
  <2>2. /\ q # <<>> /\ q[Len(toServer) + 1].age = 0
        /\ \A n \in 1 .. Len(toServer) : q[n] = toServer[n]
    BY <2>1, OrderSend, Zenon
  <2> QED
    BY <2>1, <2>2, OrderFacts, Zenon
<1>4. CASE toServer = <<>>
  <2>1. Len(toServer) + 1 = 1
    BY <1>4
  <2>2. q[1].age = 0
    BY <1>3, <2>1, Zenon
  <2>3. idle <= 0 + LongestSilence
    BY <1>1, <1>2, <1>4 DEF Elapsed
  <2> QED
    BY <1>3, <2>2, <2>3, Zenon
<1>5. CASE toServer # <<>>
  BY <1>2, <1>3, <1>5, Zenon
<1> QED
  BY <1>4, <1>5, Zenon

(* The keepalive goroutine serves a tick: it sends or has not been silent   *)
(* for long.                                                                *)
LEMMA PingServe ==
  ASSUME AdaptiveInv, WireInv, path = "up", keepalive = "running", Sending, FixedCheck \/ AdaptiveCheck,
         UNCHANGED <<loop, effectiveHeartbeat, Interval, Window, Ceiling, LongestSilence, decided, PingRoom>>,
         keepalive' = "running"
  PROVE  Sending'
<1>0. \A m \in Nat : m + 0 = m /\ 0 <= m
  OBVIOUS
<1>1. Configured /\ Probing /\ AdaptiveBounded
  BY Zenon DEF AdaptiveInv
<1>2. /\ Interval \in Nat \ {0} /\ Window \in Nat /\ Ceiling \in Nat /\ effectiveHeartbeat \in Nat
      /\ Patience \in Nat /\ Ceiling <= Patience /\ Window + Interval <= Patience
  BY <1>1, SilenceSizes, Zenon
<1>3. Patience' = Patience
  BY Zenon DEF Patience
<1>4. /\ due /\ due' = FALSE /\ UNCHANGED <<tick, held, idle, reaped>>
  BY Zenon DEF FixedCheck, AdaptiveCheck, AdaptiveProbes, ShortAnswered, ProbeAnswered, Unanswered, StableCheck,
     AdaptiveServes, Serves, serverVars
<1>5. /\ held = FALSE /\ sent \in Nat /\ probe \in Nat /\ idle \in Nat
      /\ tick = 0 /\ tick \in 0 .. (Interval - 1)
      /\ idle <= IF toServer = <<>> THEN sent ELSE toServer[1].age + LongestSilence
      /\ decided < Word /\ PingRoom => ~reaped
  BY <1>4, Zenon DEF Sending
<1>6. Elapsed = Interval /\ Elapsed' = 0
  BY <1>4, <1>5, Zenon DEF Elapsed
<1>7. /\ sent <= LateBy + Interval
      /\ loop = "adaptive" /\ probing.phase # "stable" /\ probing.awaiting =>
           sent <= probe /\ probe <= Window + Interval
  BY <1>6, Zenon DEF Sending
<1>8. ASSUME UNCHANGED <<sent, toServer>>, probe' \in Nat, sent <= LateBy',
             loop = "adaptive" /\ probing'.phase # "stable" /\ probing'.awaiting => sent <= probe' /\ probe' <= Window
      PROVE  Sending'
  <2>1. Patience + Interval \in Nat
    BY <1>2
  <2>2. LateBy' \in Nat
    BY <1>2, <1>3, <2>1, Zenon DEF LateBy
  <2>3. sent <= LateBy' + 0 /\ (probe' <= Window => probe' <= Window + 0)
    BY <1>0, <1>2, <1>8, <2>2, Zenon
  <2>4. idle' <= IF toServer' = <<>> THEN sent' ELSE toServer'[1].age + LongestSilence'
    BY <1>4, <1>5, <1>8, Zenon
  <2>5. /\ sent' <= LateBy' + Elapsed'
        /\ loop' = "adaptive" /\ probing'.phase # "stable" /\ probing'.awaiting =>
             sent' <= probe' /\ probe' <= Window' + Elapsed'
    BY <1>6, <1>8, <2>3, Zenon
  <2>6. held' = FALSE /\ sent' \in Nat /\ idle' \in Nat /\ tick' \in 0 .. (Interval' - 1)
        /\ due' = FALSE /\ (decided' < Word /\ PingRoom' => ~reaped')
    BY <1>4, <1>5, <1>8, Zenon
  <2> QED
    BY <1>8, <2>4, <2>5, <2>6, Zenon DEF Sending
<1>9. ASSUME WritesPing, probe' \in Nat,
             loop = "adaptive" /\ probing'.phase # "stable" /\ probing'.awaiting => probe' = 0
      PROVE  Sending'
  <2>1. sent' = 0 /\ toServer' = Append(toServer, Packet("ping"))
    BY <1>9, Zenon DEF WritesPing, Send
  <2>2. idle <= IF toServer' = <<>> THEN 0 ELSE toServer'[1].age + LongestSilence
    BY <1>1, <2>1, SilenceEnds, Zenon
  <2>3. Patience + Interval \in Nat
    BY <1>2
  <2>4. LateBy' \in Nat
    BY <1>2, <1>3, <2>3, Zenon DEF LateBy
  <2>5. 0 <= LateBy' + 0 /\ 0 \in Nat /\ 0 <= 0 /\ 0 <= Window + 0
    BY <1>0, <1>2, <2>4, Zenon
  <2>6. idle' <= IF toServer' = <<>> THEN sent' ELSE toServer'[1].age + LongestSilence'
    BY <1>4, <2>1, <2>2, Zenon
  <2>7. /\ sent' <= LateBy' + Elapsed'
        /\ loop' = "adaptive" /\ probing'.phase # "stable" /\ probing'.awaiting =>
             sent' <= probe' /\ probe' <= Window' + Elapsed'
    BY <1>6, <1>9, <2>1, <2>5, Zenon
  <2>8. held' = FALSE /\ sent' \in Nat /\ idle' \in Nat /\ tick' \in 0 .. (Interval' - 1)
        /\ due' = FALSE /\ (decided' < Word /\ PingRoom' => ~reaped')
    BY <1>4, <1>5, <2>1, <2>5, Zenon
  <2> QED
    BY <1>9, <2>6, <2>7, <2>8, Zenon DEF Sending
<1>10. CASE FixedCheck
  <2>1. loop = "fixed" /\ UNCHANGED <<probing, probe>>
    BY <1>10, Zenon DEF FixedCheck, Serves
  <2>2. PICK ping \in Reached(sent, effectiveHeartbeat) :
          \/ Blocks
          \/ (ping => WritesPing) /\ (~ping => UNCHANGED <<sent, toServer>>)
    BY <1>10, Zenon DEF FixedCheck
  <2>3. ~Blocks
    BY <1>5, Zenon DEF Blocks
  <2>4. CASE ping
    BY <1>5, <1>9, <2>1, <2>2, <2>3, <2>4, Zenon
  <2>5. CASE ~ping
    <3>1. sent <= effectiveHeartbeat
      BY <1>2, <1>5, <2>2, <2>5, Compared, Zenon
    <3>2. LateBy' = effectiveHeartbeat
      BY <2>1, Zenon DEF LateBy
    <3> QED
      BY <1>5, <1>8, <2>1, <2>2, <2>3, <2>5, <3>1, <3>2, Zenon
  <2> QED
    BY <2>4, <2>5, Zenon
<1>11. ASSUME AdaptiveCheck PROVE loop = "adaptive" /\ LateBy' \in {Patience, Patience + Interval}
  BY <1>3, <1>11, Zenon DEF AdaptiveCheck, AdaptiveProbes, ShortAnswered, ProbeAnswered, Unanswered, StableCheck,
     AdaptiveServes, Serves, LateBy
<1>12. ASSUME AdaptiveCheck, UNCHANGED <<sent, toServer, probe>>, sent <= Patience,
              probing'.phase = "stable" \/ ~probing'.awaiting \/ (sent <= probe /\ probe <= Window)
       PROVE  Sending'
  <2>1. sent <= LateBy'
    BY <1>2, <1>5, <1>11, <1>12
  <2> QED
    BY <1>5, <1>8, <1>12, <2>1, Zenon
<1>13. ASSUME AdaptiveCheck, ProbeIfDue, Period \in Nat, Period <= Ceiling,
              probing.phase = "stable" \/ ~probing.awaiting
       PROVE  Sending'
  <2>1. PICK over \in Reached(sent, Period) :
          IF ~over THEN UNCHANGED <<keepalive, sent, probing, probe, answered, toServer>>
          ELSE \/ Blocks
               \/ WritesPing /\ probe' = 0
    BY <1>13, Zenon DEF ProbeIfDue
  <2>2. CASE ~over
    <3>1. sent <= Period
      BY <1>5, <1>13, <2>1, <2>2, Compared, Zenon
    <3>2. sent <= Patience
      BY <1>2, <1>5, <1>13, <3>1
    <3> QED
      BY <1>12, <1>13, <2>1, <2>2, <3>2, Zenon
  <2>3. CASE over
    <3>1. WritesPing /\ probe' = 0 /\ 0 \in Nat
      BY <1>5, <2>1, <2>3, Zenon DEF Blocks
    <3> QED
      BY <1>9, <3>1, Zenon
  <2> QED
    BY <2>2, <2>3, Zenon
<1>14. ASSUME AdaptiveCheck
       PROVE  /\ probing.interval \in Nat /\ probing.interval <= Ceiling
              /\ probing.phase = "stable" => probing.heart \in Nat /\ probing.heart <= Ceiling
  BY <1>1, <1>11, <1>14, Zenon DEF Probing, AdaptiveBounded
<1>15. CASE AdaptiveProbes
  <2>1. AdaptiveCheck /\ ProbeIfDue /\ probing.phase # "stable" /\ ~probing.awaiting
    BY <1>15, Zenon DEF AdaptiveCheck, AdaptiveProbes, AdaptiveServes
  <2> QED
    BY <1>13, <1>14, <2>1, Zenon DEF Period
<1>16. ASSUME AdaptiveCheck, probing.phase # "stable", probing.awaiting PROVE sent <= Patience
  BY <1>2, <1>5, <1>7, <1>11, <1>16
<1>17. CASE ShortAnswered \/ ProbeAnswered
  <2>1. AdaptiveCheck /\ probing.phase # "stable" /\ probing.awaiting /\ UNCHANGED <<sent, toServer, probe>>
    BY <1>17, Zenon DEF AdaptiveCheck, ShortAnswered, ProbeAnswered, AdaptiveServes, NextProbing
  <2>2. ~probing'.awaiting
    <3> DEFINE won == [probing EXCEPT !.awaiting = FALSE, !.success = probing.interval]
               next == Least(2 * probing.interval, Ceiling)
    <3>1. CASE ShortAnswered
      <4>1. \/ probing' = [probing EXCEPT !.awaiting = FALSE, !.ok = probing.ok + 1, !.phase = "doubling",
                                         !.interval = Short, !.success = Short]
            \/ probing' = [probing EXCEPT !.awaiting = FALSE, !.ok = probing.ok + 1]
        BY <3>1, Zenon DEF ShortAnswered, NextProbing
      <4> QED
        BY <1>1, <4>1, Zenon DEF Probing
    <3>2. CASE ProbeAnswered
      <4>1. probing' = Stable(won) \/ probing' = [won EXCEPT !.interval = next]
        BY <3>2, Zenon DEF ProbeAnswered, NextProbing
      <4> QED
        BY <1>1, <4>1, Zenon DEF Probing, Stable
    <3> QED
      BY <1>17, <3>1, <3>2, Zenon
  <2> QED
    BY <1>12, <1>16, <2>1, <2>2, Zenon
<1>18. CASE Unanswered
  <2>1. AdaptiveCheck /\ probing.phase # "stable" /\ probing.awaiting
    BY <1>18, Zenon DEF AdaptiveCheck, Unanswered, AdaptiveServes
  <2>2. PICK over \in Reached(probe, Window) :
          IF over /\ probing.phase = "short"
            THEN keepalive' = "lost" /\ UNCHANGED <<sent, probing, probe, answered, toServer>>
            ELSE NextProbing(IF over THEN Stable(probing) ELSE probing)
    BY <1>18, Zenon DEF Unanswered
  <2>3. UNCHANGED <<sent, toServer, probe>>
    BY <2>2, Zenon DEF NextProbing
  <2>4. CASE ~over
    <3>1. probe <= Window
      BY <1>2, <1>5, <2>2, <2>4, Compared, Zenon
    <3> QED
      BY <1>7, <1>11, <1>12, <1>16, <2>1, <2>3, <3>1, Zenon
  <2>5. CASE over
    <3>1. probing' = Stable(probing)
      BY <2>2, <2>5, Zenon DEF NextProbing
    <3>2. probing'.phase = "stable"
      BY <1>1, <3>1, Zenon DEF Probing, Stable
    <3> QED
      BY <1>12, <1>16, <2>1, <2>3, <3>2, Zenon
  <2> QED
    BY <2>4, <2>5, Zenon
<1>19. CASE StableCheck
  <2>1. AdaptiveCheck /\ probing.phase = "stable" /\ (ProbeIfDue \/ NextProbing(ShortProbing))
    BY <1>19, Zenon DEF AdaptiveCheck, StableCheck, AdaptiveServes
  <2>2. CASE ProbeIfDue
    BY <1>13, <1>14, <2>1, <2>2, Zenon DEF Period
  <2>3. CASE NextProbing(ShortProbing)
    <3>1. UNCHANGED <<sent, toServer, probe>> /\ probing' = ShortProbing
      BY <2>3, Zenon DEF NextProbing
    <3>2. probing'.phase = "short" /\ probing'.awaiting = FALSE
      BY <3>1, Zenon DEF ShortProbing
    <3>3. LateBy = Patience /\ LateBy' = Patience + Interval
      BY <1>3, <1>11, <2>1, <3>2, Zenon DEF LateBy
    <3> QED
      BY <1>5, <1>7, <1>8, <3>1, <3>2, <3>3, Zenon
  <2> QED
    BY <2>1, <2>2, <2>3, Zenon
<1> QED
  BY <1>10, <1>15, <1>17, <1>18, <1>19, Zenon DEF AdaptiveCheck

(* Every step keeps the client sending. *)
LEMMA PingStep == PingInv /\ [Next]_vars => PingInv'
<1> SUFFICES ASSUME PingInv, [Next]_vars
             PROVE  /\ keepalive' = "none" <=> loop' = "none"
                    /\ path' = "up" /\ keepalive' = "running" => Sending'
  BY AdaptiveStep, WireStep, Zenon DEF PingInv
<1>1. /\ AdaptiveInv /\ WireInv /\ Configured /\ (keepalive = "none" <=> loop = "none")
      /\ InOrder(toServer)
  BY Zenon DEF PingInv, AdaptiveInv, WireInv
<1>2. opt' = opt /\ UNCHANGED <<decided, loop, effectiveHeartbeat, Interval, Ceiling>>
  BY SameConfig, Zenon DEF config
<1>3. Window' = Window
  BY <1>2, Zenon DEF Window
<1>4. Patience' = Patience /\ LongestSilence' = LongestSilence
  BY <1>2, <1>3, Zenon DEF Patience, LongestSilence
<1>5. PingRoom' = PingRoom
  BY <1>2, <1>4, Zenon DEF PingRoom, Timeout
<1>6. CASE FixedCheck \/ AdaptiveCheck
  <2>1. loop # "none" /\ Up
    BY <1>6, Zenon DEF FixedCheck, AdaptiveCheck, AdaptiveProbes, ShortAnswered, ProbeAnswered, Unanswered,
       StableCheck, AdaptiveServes, Serves
  <2>2. keepalive = "running" /\ path' = path
    BY <1>1, <1>6, <2>1, ServesWire, Zenon DEF Up
  <2>3. keepalive' # "none"
    BY <1>6, <2>2, Zenon DEF FixedCheck, AdaptiveCheck, AdaptiveProbes, ShortAnswered, ProbeAnswered, Unanswered,
       StableCheck, NextProbing, ProbeIfDue, Blocks
  <2>4. ASSUME path' = "up", keepalive' = "running" PROVE Sending'
    <3>1. Sending
      BY <2>2, <2>4, Zenon DEF PingInv
    <3> QED
      BY <1>1, <1>2, <1>3, <1>4, <1>5, <1>6, <2>2, <2>4, <3>1, PingServe, Zenon
  <2> QED
    BY <1>2, <2>1, <2>3, <2>4, Zenon
<1>7. CASE ~(FixedCheck \/ AdaptiveCheck)
  <2>1. UNCHANGED <<keepalive, probing>>
    BY <1>7, Zenon DEF Next, Tick, Die, ServerReads, ServerPushes, Reap, ClientReads, ClientPushes, PushBlocks,
       vars, clientVars
  <2>2. LateBy' = LateBy
    BY <1>2, <1>4, <2>1, Zenon DEF LateBy
  <2> SUFFICES ASSUME path' = "up", keepalive = "running" PROVE Sending'
    BY <1>1, <1>2, <2>1, Zenon
  <2>3. path = "up"
    BY <1>7, Zenon DEF Next, Tick, Die, ServerReads, ServerPushes, Reap, ClientReads, ClientPushes, PushBlocks,
       vars, wire
  <2>4. Sending
    BY <2>3, Zenon DEF PingInv
  <2>5. /\ held = FALSE /\ sent \in Nat /\ probe \in Nat /\ idle \in Nat
        /\ tick \in 0 .. (Interval - 1) /\ due \in BOOLEAN /\ (due => tick = 0)
        /\ loop = "adaptive" /\ probing.phase # "stable" /\ probing.awaiting =>
             sent <= probe /\ probe <= Window + Elapsed
        /\ sent <= LateBy + Elapsed
        /\ idle <= IF toServer = <<>> THEN sent ELSE toServer[1].age + LongestSilence
        /\ decided < Word /\ PingRoom => ~reaped
    BY <2>4, Zenon DEF Sending
  <2>6. /\ Interval \in Nat \ {0} /\ Window \in Nat /\ LateBy \in Nat /\ LongestSilence \in Nat
    BY <1>1, SilenceSizes, Zenon
  <2>7. Elapsed \in Nat
    BY <2>5, <2>6 DEF Elapsed
  <2>8. CASE Tick
    <3>1. /\ sent' = sent + 1 /\ ~due /\ tick' = (tick + 1) % Interval /\ due' = (tick' = 0)
          /\ probe' = (IF probing.awaiting /\ probing.phase # "stable" THEN probe + 1 ELSE probe)
          /\ idle' \in {idle, idle + 1} /\ UNCHANGED <<held, reaped>>
          /\ toServer' = Older1(toServer) /\ ~Overdue(toServer)
      BY <2>8, Zenon DEF Tick, Older
    <3>2. Elapsed' = Elapsed + 1 /\ tick' \in 0 .. (Interval - 1) /\ due' \in BOOLEAN /\ (due' => tick' = 0)
      BY <1>2, <2>5, <2>6, <3>1, ElapsedTick, Zenon
    <3>3. sent' \in Nat /\ probe' \in Nat /\ idle' \in Nat /\ idle' <= idle + 1
      BY <2>5, <3>1
    <3>4. idle' <= IF toServer' = <<>> THEN sent' ELSE toServer'[1].age + LongestSilence
      <4>1. CASE toServer = <<>>
        <5>1. toServer' = <<>>
          BY <3>1, <4>1 DEF Older1
        <5>2. idle <= sent
          BY <2>5, <4>1, Zenon
        <5>3. idle' <= sent'
          BY <2>5, <3>1, <3>3, <5>2
        <5> QED
          BY <5>1, <5>3, Zenon
      <4>2. CASE toServer # <<>>
        <5>1. 1 \in 1 .. Len(toServer) /\ toServer[1].age \in Nat
          BY <1>1, <4>2, OrderFacts, Zenon
        <5>2. toServer'[1].age = toServer[1].age + 1 /\ Len(toServer') = Len(toServer) /\ InOrder(toServer')
          BY <1>1, <3>1, <5>1, OrderTick, Zenon
        <5>3. toServer' # <<>>
          BY <5>1, <5>2, OrderFacts, Zenon
        <5>4. idle <= toServer[1].age + LongestSilence
          BY <2>5, <4>2, Zenon
        <5>5. \A a \in Nat : idle <= a + LongestSilence => idle' <= (a + 1) + LongestSilence
          BY <2>5, <2>6, <3>3
        <5> QED
          BY <5>1, <5>2, <5>3, <5>4, <5>5, Zenon
      <4> QED
        BY <4>1, <4>2, Zenon
    <3>5. sent' <= LateBy + Elapsed'
      BY <2>5, <2>6, <2>7, <3>1, <3>2
    <3>6. ASSUME loop = "adaptive", probing.phase # "stable", probing.awaiting
          PROVE  sent' <= probe' /\ probe' <= Window + Elapsed'
      <4>1. sent <= probe /\ probe <= Window + Elapsed /\ probe' = probe + 1
        BY <2>5, <3>1, <3>6, Zenon
      <4> QED
        BY <2>5, <2>6, <2>7, <3>1, <3>2, <4>1
    <3> QED
      BY <1>2, <1>3, <1>4, <1>5, <2>1, <2>2, <2>5, <3>1, <3>2, <3>3, <3>4, <3>5, <3>6, Zenon DEF Sending
  <2>9. CASE ServerReads
    <3>1. /\ UNCHANGED <<held, sent, probe, tick, due, reaped>> /\ idle' = 0
          /\ toServer # <<>> /\ toServer' = Tail(toServer)
      BY <2>9, Zenon DEF ServerReads, clientVars
    <3>2. Elapsed' = Elapsed /\ InOrder(toServer')
      BY <1>1, <1>2, <3>1, OrderReceive, Zenon DEF Elapsed
    <3>3. toServer' # <<>> => toServer'[1].age \in Nat
      BY <3>2, OrderFacts, Zenon
    <3>4. toServer' # <<>> => 0 <= toServer'[1].age + LongestSilence
      BY <2>6, <3>3
    <3>5. 0 <= sent /\ 0 \in Nat
      BY <2>5
    <3> QED
      BY <1>2, <1>3, <1>4, <1>5, <2>1, <2>2, <2>5, <3>1, <3>2, <3>4, <3>5, Zenon DEF Sending
  <2>10. CASE ClientPushes
    <3>1. /\ UNCHANGED <<held, probe, tick, due, reaped, idle>> /\ sent' = 0
          /\ toServer' = Append(toServer, Packet("push"))
      BY <2>3, <2>10, Zenon DEF ClientPushes, serverVars, Send
    <3>2. Elapsed' = Elapsed
      BY <1>2, <3>1, Zenon DEF Elapsed
    <3>3. idle <= IF toServer' = <<>> THEN 0 ELSE toServer'[1].age + LongestSilence
      BY <1>1, <2>4, <3>1, SilenceEnds, Zenon
    <3>4. 0 \in Nat /\ 0 <= probe /\ 0 <= LateBy + Elapsed
      BY <2>5, <2>6, <2>7
    <3> QED
      BY <1>2, <1>3, <1>4, <1>5, <2>1, <2>2, <2>5, <3>1, <3>2, <3>3, <3>4, Zenon DEF Sending
  <2>11. CASE Reap
    <3>1. /\ UNCHANGED <<held, sent, probe, tick, due, idle, toServer>>
          /\ Timed /\ idle >= ReapAfter
      BY <2>11, Zenon DEF Reap, clientVars, wire
    <3>2. ~(decided < Word /\ PingRoom)
      BY <1>1, <2>4, <3>1, NotExpired, Zenon
    <3>3. Elapsed' = Elapsed
      BY <1>2, <3>1, Zenon DEF Elapsed
    <3> QED
      BY <1>2, <1>3, <1>4, <1>5, <2>1, <2>2, <2>5, <3>1, <3>2, <3>3, Zenon DEF Sending
  <2>12. CASE ServerPushes \/ ClientReads \/ UNCHANGED vars
    <3>1. UNCHANGED <<held, sent, probe, tick, due, idle, reaped, toServer>>
      BY <2>12, Zenon DEF ServerPushes, ClientReads, vars, clientVars, serverVars, wire
    <3>2. Elapsed' = Elapsed
      BY <1>2, <3>1, Zenon DEF Elapsed
    <3> QED
      BY <1>2, <1>3, <1>4, <1>5, <2>1, <2>2, <2>5, <3>1, <3>2, Zenon DEF Sending
  <2>13. ~(Die \/ PushBlocks)
    BY <2>3, Zenon DEF Die, PushBlocks
  <2> QED
    BY <1>7, <2>8, <2>9, <2>10, <2>11, <2>12, <2>13, Zenon DEF Next
<1> QED
  BY <1>6, <1>7, Zenon

(* HealthyNotReaped for every client, fixed or adaptive, that pushes or     *)
(* not: whatever the options, the policy and the delay, its packets reach   *)
(* the server before the timer expires, if the echo fits in its 16 bits and *)
(* the keepalive leaves room for the longest silence.                       *)
THEOREM HealthyNotReapedHolds == Spec => []HealthyNotReaped
<1>1. PingInv => HealthyNotReaped
  BY Zenon DEF PingInv, Sending, HealthyNotReaped
<1> QED
  BY <1>1, PingInit, PingStep, PTL DEF Spec
=============================================================================
