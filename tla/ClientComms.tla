---------------------------- MODULE ClientComms ----------------------------
(***************************************************************************)
(* client/net.go and the goroutines startWorkers launches: the pipeline    *)
(* that moves packets between one established connection, the message      *)
(* handlers and the callers of Push and Disconnect, and how it is torn     *)
(* down.  All channels are unbuffered: a send and its receive are one step *)
(* of two goroutines (Meet).                                               *)
(*                                                                         *)
(*   reader      startIncoming               incoming   startIncomingComms *)
(*   fanIn, errFan  the forwarders of startComms                           *)
(*   comms       startWorkers, reads outPublish and outError               *)
(*   dispatcher  handler.dispatch            redirector startWorkers       *)
(*   outgoing    startOutgoingComms          keepalive  keepalive          *)
(*   disconnect  the goroutine of Disconnect()                             *)
(*                                                                         *)
(* A place named after a packet or "err" means the goroutine is about to   *)
(* send it on.  A channel is closed exactly when the goroutine that closes *)
(* it is "done"; only incomingPubChan is closed by a goroutine that goes   *)
(* on (pubClosed).  The status object is reduced to who gets to stop the   *)
(* workers (Connected); ClientLifecycle has it in full.                    *)
(***************************************************************************)
EXTENDS Naturals

CONSTANTS
  Pushers,        \* callers of Push, one call each
  WriteTimeout,   \* options.WriteTimeout > 0
  MaxPackets      \* bound on the PUSH packets the server sends

ASSUME CommsAssumption ==
  /\ WriteTimeout \in BOOLEAN
  /\ MaxPackets \in Nat
  /\ "disconnect" \notin Pushers

Workers == {"reader", "incoming", "fanIn", "errFan", "comms", "dispatcher",
            "redirector", "outgoing", "keepalive"}

VARIABLES
  at,           \* place of every worker and of the disconnect goroutine
  pubClosed,    \* incomingPubChan is closed
  stop,         \* c.stop is closed; conn was closed with it
  conn,         \* our side of the connection: "open" or "closed"
  deadline,     \* a write deadline is set on the connection
  peer,         \* "ok", "stalled" (does not read, sends nothing), "gone"
  redirecting,  \* what the redirector holds: a Push, or the DISCONNECT
  writing,      \* what outgoing holds
  push,         \* state of each Push and its token
  written,      \* Push packets fully written to the connection
  received, dispatched  \* PUSH packets read; given to the message handlers

netVars == <<stop, conn, deadline, peer>>
inVars == <<received, dispatched, pubClosed>>
outVars == <<redirecting, writing, push, written>>
vars == <<at, netVars, inVars, outVars>>

(* What startIncomingComms tells apart; PINGRESP only refreshes lastReceived *)
(* and is left out.                                                          *)
PacketKind == {"push", "disconnectPkt"}

TypeOK ==
  /\ at \in [Workers \cup {"disconnect"} ->
               {"run", "err", "reject", "lock", "write", "drain", "send", "idle", "offer",
                "await", "stop", "done"} \cup PacketKind]
  /\ pubClosed \in BOOLEAN /\ stop \in BOOLEAN /\ deadline \in BOOLEAN
  /\ conn \in {"open", "closed"}
  /\ peer \in {"ok", "stalled", "gone"}
  /\ redirecting \in Pushers \cup {"disconnect"} /\ writing \in Pushers \cup {"disconnect"}
  /\ push \in [Pushers -> {"idle", "offer", "queued", "ok", "failed"}]
  /\ written \subseteq Pushers
  /\ received \in 0 .. MaxPackets /\ dispatched \in 0 .. MaxPackets

Init ==
  /\ at = [g \in Workers \cup {"disconnect"} |-> IF g = "disconnect" THEN "idle" ELSE "run"]
  /\ pubClosed = FALSE /\ stop = FALSE /\ conn = "open" /\ deadline = FALSE /\ peer = "ok"
  /\ redirecting = "disconnect" /\ writing = "disconnect"
  /\ push = [p \in Pushers |-> "idle"]
  /\ written = {}
  /\ received = 0 /\ dispatched = 0

Go(g, from, to) ==
  /\ at[g] = from
  /\ at' = [at EXCEPT ![g] = to]

(* g sends on an unbuffered channel to h. *)
Meet(g, from, to, h, hfrom, hto) ==
  /\ at[g] = from /\ at[h] = hfrom
  /\ at' = [at EXCEPT ![g] = to, ![h] = hto]

Done(g) == at[g] = "done"

-----------------------------------------------------------------------------
(* Stopping: stopCommsWorkers closes c.stop and the connection *)

(* Mutant: the connection is not closed. *)
stopCommsWorkersLeavesOpen ==
  /\ stop' = TRUE
  /\ UNCHANGED <<conn, deadline, peer>>

stopCommsWorkers ==
  /\ stop' = TRUE
  /\ conn' = "closed"
  /\ UNCHANGED <<deadline, peer>>

(* The status object: connected, neither Disconnecting nor ConnectionLost.  *)
Connected == at["disconnect"] = "idle" /\ ~stop

(* internalConnLost: the first report stops the workers. *)
internalConnLost == IF Connected THEN stopCommsWorkers ELSE UNCHANGED netVars

(* Mutant: commsStopped is not waited for. *)
DrainedWorkersOnly == Done("keepalive") /\ Done("redirector")

(* stopCommsWorkers' doneChan: the WaitGroup, then commsStopped. *)
Drained == Done("keepalive") /\ Done("redirector") /\ Done("comms")

-----------------------------------------------------------------------------
(* startIncoming *)

ReadPacket(kind) ==
  /\ conn = "open" /\ peer = "ok"
  /\ Go("reader", "run", kind)
  /\ received' = received + (IF kind = "push" THEN 1 ELSE 0)
  /\ received' <= MaxPackets
  /\ UNCHANGED <<netVars, dispatched, pubClosed, outVars>>

ReadUnsupported ==
  /\ conn = "open" /\ peer = "ok"
  /\ Go("reader", "run", "reject")
  /\ UNCHANGED <<netVars, inVars, outVars>>

(* dm.Write(conn), without writeLock; its result is ignored. *)
WriteEnds == peer # "stalled" \/ conn = "closed" \/ deadline

WriteReject ==
  /\ WriteEnds
  /\ Go("reader", "reject", "err")
  /\ UNCHANGED <<netVars, inVars, outVars>>

(* The error of a connection closed on our side is not reported. *)
ReadFails ==
  /\ conn = "closed" \/ peer = "gone"
  /\ Go("reader", "run", IF conn = "closed" THEN "done" ELSE "err")
  /\ UNCHANGED <<netVars, inVars, outVars>>

(* startIncomingComms *)
IncomingTakes(what) ==
  /\ Meet("reader", what, IF what = "err" THEN "done" ELSE "run", "incoming", "run", what)
  /\ UNCHANGED <<netVars, inVars, outVars>>

(* CloseConnect(reason), run by the incoming goroutine: c.Disconnect(100),  *)
(* which gives up waiting for its goroutine after 100 ms, or, depending on  *)
(* the reason, internalConnLost.                                            *)
CloseConnectDisconnects ==
  /\ Connected
  /\ Meet("reader", "disconnectPkt", "run", "disconnect", "idle", "offer")
  /\ at["incoming"] = "run"
  /\ UNCHANGED <<netVars, inVars, outVars>>

CloseConnectLost ==
  /\ Meet("reader", "disconnectPkt", "run", "incoming", "run", "run")
  /\ internalConnLost
  /\ UNCHANGED <<inVars, outVars>>

IncomingEnds ==
  /\ Done("reader")
  /\ Go("incoming", "run", "done")
  /\ UNCHANGED <<netVars, inVars, outVars>>

-----------------------------------------------------------------------------
(* startComms *)

FanInTakes(what) ==
  /\ what \in {"push", "err"}
  /\ Meet("incoming", what, "run", "fanIn", "run", what)
  /\ UNCHANGED <<netVars, inVars, outVars>>

FanInEnds ==
  /\ Done("incoming")
  /\ Go("fanIn", "run", "done")
  /\ UNCHANGED <<netVars, inVars, outVars>>

ErrFanTakes ==
  /\ Meet("outgoing", "err", "run", "errFan", "run", "err")
  /\ UNCHANGED <<netVars, inVars, outVars>>

ErrFanEnds ==
  /\ Done("outgoing")
  /\ Go("errFan", "run", "done")
  /\ UNCHANGED <<netVars, inVars, outVars>>

-----------------------------------------------------------------------------
(* startWorkers: the comms goroutine, and handler.dispatch *)

CommsTakesPub ==
  /\ Meet("fanIn", "push", "run", "comms", "run", "push")
  /\ UNCHANGED <<netVars, inVars, outVars>>

(* Mutant: the packet in hand is dropped when an error arrives. *)
CommsTakesErrDropsPub(g) ==
  /\ \E place \in {"run", "push"} : Meet(g, "err", "run", "comms", place, "run")
  /\ internalConnLost
  /\ UNCHANGED <<inVars, outVars>>

(* An error may arrive while comms waits, or while it offers a packet to    *)
(* the dispatcher, which it goes on offering after internalConnLost.        *)
CommsTakesErr(g) ==
  /\ \E place \in {"run", "push"} : Meet(g, "err", "run", "comms", place, place)
  /\ internalConnLost
  /\ UNCHANGED <<inVars, outVars>>

CommsDispatches ==
  /\ Meet("comms", "push", "run", "dispatcher", "run", "run")
  /\ dispatched' = dispatched + 1
  /\ UNCHANGED <<netVars, received, pubClosed, outVars>>

(* outPublish is closed: close(incomingPubChan). *)
CommsClosesPub ==
  /\ at["comms"] = "run" /\ Done("fanIn") /\ ~pubClosed
  /\ pubClosed' = TRUE
  /\ UNCHANGED <<at, netVars, received, dispatched, outVars>>

(* outError is closed too: close(c.commsStopped). *)
CommsEnds ==
  /\ pubClosed /\ Done("fanIn") /\ Done("errFan")
  /\ Go("comms", "run", "done")
  /\ UNCHANGED <<netVars, inVars, outVars>>

(* The range over messages ends: close(ackOutChan). *)
DispatcherEnds ==
  /\ pubClosed
  /\ Go("dispatcher", "run", "done")
  /\ UNCHANGED <<netVars, inVars, outVars>>

-----------------------------------------------------------------------------
(* The redirector: c.obound, c.oboundP, ackOut, c.stop *)

RedirectorTakesPush(p) ==
  /\ push[p] = "offer"
  /\ Go("redirector", "run", "send")
  /\ redirecting' = p
  /\ push' = [push EXCEPT ![p] = "queued"]
  /\ UNCHANGED <<netVars, inVars, writing, written>>

RedirectorTakesDisconnect ==
  /\ Meet("disconnect", "offer", "await", "redirector", "run", "send")
  /\ redirecting' = "disconnect"
  /\ UNCHANGED <<netVars, inVars, writing, push, written>>

(* Mutant: no write deadline. *)
OutgoingTakesNoDeadline ==
  /\ Meet("redirector", "send", "run", "outgoing", "run", "lock")
  /\ writing' = redirecting
  /\ UNCHANGED <<netVars, inVars, redirecting, push, written>>

OutgoingTakes ==
  /\ Meet("redirector", "send", "run", "outgoing", "run", "lock")
  /\ writing' = redirecting
  /\ deadline' = (deadline \/ (redirecting # "disconnect" /\ WriteTimeout))
  /\ UNCHANGED <<stop, conn, peer, inVars, redirecting, push, written>>

RedirectorStops ==
  /\ stop
  /\ Go("redirector", "run", "drain")
  /\ UNCHANGED <<netVars, inVars, outVars>>

(* ackOut is closed: close(commsoboundP), close(commsobound). *)
RedirectorEnds ==
  /\ Done("dispatcher")
  /\ Go("redirector", "drain", "done")
  /\ UNCHANGED <<netVars, inVars, outVars>>

-----------------------------------------------------------------------------
(* startOutgoingComms and writePingReq: packets are written under           *)
(* connWriteMu                                                              *)

writeLock(g) ==
  /\ at["outgoing"] # "write" /\ at["keepalive"] # "write"
  /\ Go(g, "lock", "write")
  /\ UNCHANGED <<netVars, inVars, outVars>>

(* Success: the deadline is cleared, the token completes; a DISCONNECT also *)
(* closes the connection.                                                   *)
PushWritten ==
  /\ conn = "open" /\ peer = "ok" /\ writing # "disconnect"
  /\ Go("outgoing", "write", "run")
  /\ push' = [push EXCEPT ![writing] = "ok"]
  /\ written' = written \cup {writing}
  /\ deadline' = FALSE
  /\ UNCHANGED <<stop, conn, peer, inVars, redirecting, writing>>

DisconnectWritten ==
  /\ conn = "open" /\ peer = "ok" /\ writing = "disconnect"
  /\ Go("outgoing", "write", "run")
  /\ conn' = "closed"
  /\ UNCHANGED <<stop, deadline, peer, inVars, outVars>>

WriteFailed == conn = "closed" \/ peer = "gone" \/ (peer = "stalled" /\ deadline)

(* Mutant: with the connection closed, the token is not told either. *)
OutgoingFailsSilently ==
  /\ WriteFailed
  /\ Go("outgoing", "write", IF writing # "disconnect" /\ conn = "closed" THEN "run" ELSE "err")
  /\ push' = [p \in Pushers |-> IF p = writing /\ conn = "open" THEN "failed" ELSE push[p]]
  /\ UNCHANGED <<netVars, inVars, redirecting, writing, written>>

(* Failure: setError; the error is passed on unless a Push failed because   *)
(* we closed the connection.                                                *)
OutgoingFails ==
  /\ WriteFailed
  /\ Go("outgoing", "write", IF writing # "disconnect" /\ conn = "closed" THEN "run" ELSE "err")
  /\ push' = [p \in Pushers |-> IF p = writing THEN "failed" ELSE push[p]]
  /\ UNCHANGED <<netVars, inVars, redirecting, writing, written>>

OutgoingEnds ==
  /\ Done("redirector") /\ Done("fanIn")
  /\ Go("outgoing", "run", "done")
  /\ UNCHANGED <<netVars, inVars, outVars>>

-----------------------------------------------------------------------------
(* keepalive: on a tick, PINGREQ if nothing was sent for a heartbeat, then  *)
(* the check of lastReceived                                                *)

KeepaliveTicks ==
  /\ Go("keepalive", "run", "lock")
  /\ UNCHANGED <<netVars, inVars, outVars>>

PingEnds ==
  /\ WriteEnds
  /\ Go("keepalive", "write", "run")
  /\ UNCHANGED <<netVars, inVars, outVars>>

(* Nothing received for 1.5 heartbeats. *)
KeepaliveTimesOut ==
  /\ Go("keepalive", "run", "done")
  /\ internalConnLost
  /\ UNCHANGED <<inVars, outVars>>

KeepaliveStops ==
  /\ stop
  /\ Go("keepalive", "run", "done")
  /\ UNCHANGED <<netVars, inVars, outVars>>

-----------------------------------------------------------------------------
(* Callers *)

(* IsConnected() also holds while a lost connection is being replaced. *)
Push(p) ==
  /\ push[p] = "idle" /\ at["disconnect"] = "idle"
  /\ push' = [push EXCEPT ![p] = "offer"]
  /\ UNCHANGED <<at, netVars, inVars, redirecting, writing, written>>

PushTimesOut(p) ==
  /\ push[p] = "offer"
  /\ push' = [push EXCEPT ![p] = "failed"]
  /\ UNCHANGED <<at, netVars, inVars, redirecting, writing, written>>

Disconnect ==
  /\ Connected
  /\ Go("disconnect", "idle", "offer")
  /\ UNCHANGED <<netVars, inVars, outVars>>

(* The DISCONNECT token completes or the quiesce time is over; then         *)
(* c.disconnect().                                                          *)
DisconnectStops ==
  /\ Go("disconnect", "offer", "stop") \/ Go("disconnect", "await", "stop")
  /\ stopCommsWorkers
  /\ UNCHANGED <<inVars, outVars>>

DisconnectEnds ==
  /\ Drained
  /\ Go("disconnect", "stop", "done")
  /\ UNCHANGED <<netVars, inVars, outVars>>

PeerFails ==
  /\ peer' \in {"stalled", "gone"} \ {peer}
  /\ peer # "gone"
  /\ UNCHANGED <<at, stop, conn, deadline, inVars, outVars>>

-----------------------------------------------------------------------------
(* One disjunct per goroutine; a rendezvous counts for the receiver. *)
Reader == WriteReject \/ ReadFails

Incoming ==
  \/ IncomingTakes("push") \/ IncomingTakes("err") \/ CloseConnectDisconnects \/ CloseConnectLost \/ IncomingEnds

FanIn == FanInTakes("push") \/ FanInTakes("err") \/ FanInEnds

ErrFan == ErrFanTakes \/ ErrFanEnds

Comms ==
  \/ CommsTakesPub \/ CommsTakesErr("fanIn") \/ CommsTakesErr("errFan")
  \/ CommsDispatches \/ CommsClosesPub \/ CommsEnds

Redirector ==
  \/ \E p \in Pushers : RedirectorTakesPush(p)
  \/ RedirectorTakesDisconnect \/ RedirectorStops \/ RedirectorEnds

Outgoing ==
  \/ OutgoingTakes \/ writeLock("outgoing") \/ PushWritten \/ DisconnectWritten
  \/ OutgoingFails \/ OutgoingEnds

Keepalive ==
  \/ KeepaliveTicks \/ writeLock("keepalive") \/ PingEnds
  \/ KeepaliveTimesOut \/ KeepaliveStops

Disconnecter == DisconnectStops \/ DisconnectEnds

Environment ==
  \/ \E kind \in PacketKind : ReadPacket(kind)
  \/ ReadUnsupported \/ PeerFails \/ Disconnect
  \/ \E p \in Pushers : Push(p)

Next ==
  \/ Reader \/ Incoming \/ FanIn \/ ErrFan \/ Comms \/ DispatcherEnds
  \/ Redirector \/ Outgoing \/ Keepalive \/ Disconnecter
  \/ \E p \in Pushers : PushTimesOut(p)
  \/ Environment

Spec == Init /\ [][Next]_vars

(* Every goroutine that can run is scheduled and every timer fires.  The    *)
(* keepalive goroutine, whose select picks at random among ready cases,     *)
(* sees c.stop sooner or later, and notices sooner or later that a peer     *)
(* that is not there has sent nothing; connWriteMu is handed to everyone    *)
(* who waits for it.                                                        *)
Fairness ==
  /\ WF_vars(Reader) /\ WF_vars(Incoming) /\ WF_vars(FanIn) /\ WF_vars(ErrFan)
  /\ WF_vars(Comms) /\ WF_vars(DispatcherEnds) /\ WF_vars(Redirector)
  /\ WF_vars(Outgoing) /\ SF_vars(writeLock("outgoing"))
  /\ WF_vars(Keepalive) /\ SF_vars(writeLock("keepalive")) /\ SF_vars(KeepaliveStops)
  /\ SF_vars(KeepaliveTimesOut /\ peer # "ok")
  /\ WF_vars(Disconnecter)
  /\ \A p \in Pushers : WF_vars(PushTimesOut(p))

FairSpec == Spec /\ Fairness

-----------------------------------------------------------------------------
(* Properties *)

InHand(g) == IF at[g] = "push" THEN 1 ELSE 0

(* Every PUSH read from the connection reaches the message handlers, even   *)
(* those still in the pipeline when an error is reported or the connection  *)
(* is torn down: none is dropped between two goroutines, and commsStopped   *)
(* is not closed before the last one has been dispatched.                   *)
NothingReadIsLost ==
  received = dispatched + InHand("reader") + InHand("incoming") + InHand("fanIn") + InHand("comms")

Redirected(p) == redirecting = p /\ at["redirector"] = "send"
BeingWritten(p) == writing = p /\ at["outgoing"] \in {"lock", "write"}

(* PushToken: "completes when the PUSH packet has been written".  Without   *)
(* an error it has been written, and conversely a written packet is never   *)
(* reported as failed; a packet handed over is somewhere in the pipeline    *)
(* until its token completes.                                               *)
TokenTellsTheTruth ==
  \A p \in Pushers :
    /\ push[p] = "ok" <=> p \in written
    /\ push[p] = "queued" =>
         Redirected(p) \/ BeingWritten(p)

(* outError is written by two forwarders and closed by a third goroutine:   *)
(* when doneChan reports that the workers have stopped no goroutine of this *)
(* connection is left that could send on a closed channel, report a loss of *)
(* the next connection or write to it.                                      *)
NoStragglers ==
  Drained => \A g \in Workers : Done(g)

(* Why the three above hold; inductive.  The goroutines end in one order,   *)
(* each because a channel of its predecessor is closed, and a Push is held  *)
(* by at most one of them.                                                  *)
CommsInv ==
  /\ TypeOK
  /\ NothingReadIsLost
  /\ TokenTellsTheTruth
  /\ Done("incoming") => Done("reader")
  /\ Done("fanIn") => Done("incoming")
  /\ pubClosed => Done("fanIn")
  /\ Done("dispatcher") => pubClosed
  /\ Done("redirector") => Done("dispatcher")
  /\ Done("outgoing") => Done("redirector")
  /\ Done("errFan") => Done("outgoing")
  /\ Done("comms") => Done("errFan")
  /\ \A p \in Pushers :
       /\ Redirected(p) \/ BeingWritten(p) => push[p] = "queued"
       /\ ~(Redirected(p) /\ BeingWritten(p))

(* Once Disconnect() has been called or c.stop closed, every worker and the *)
(* Disconnect itself come to their end: they never wait for one another in  *)
(* a circle, however far packets and errors have got.                       *)
TeardownEnds ==
  (stop \/ at["disconnect"] = "offer")
    ~> ((\A g \in Workers : Done(g)) /\ at["disconnect"] \in {"idle", "done"})

(* The token of a Push() completes. *)
PushSettles ==
  \A p \in Pushers : (push[p] = "offer") ~> (push[p] \in {"ok", "failed"})
=============================================================================
