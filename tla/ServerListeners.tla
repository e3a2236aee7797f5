--------------------------- MODULE ServerListeners ---------------------------
(***************************************************************************)
(* server/server.go and server/listener*.go: ListenAndServeContext, its    *)
(* listeners and Close() around the sessions of ServerSessions.            *)
(*                                                                         *)
(* The listeners have the same shape: Serve opens a socket and keeps it in *)
(* l.ln (l.srv), a goroutine closes it when the context is done, and a     *)
(* loop accepts connections until Accept fails.  listener[l] is            *)
(*   idle, starting, accepting, ended                                      *)
(* A WebSocket listener leaves the loop to http.Server, and takes its      *)
(* ErrServerClosed for the error of the context, even if there is none.    *)
(*                                                                         *)
(* ctx is s.ctx: the one of NewServer is "initial" and nobody listens with *)
(* it; ListenAndServeContext replaces it.                                  *)
(***************************************************************************)
EXTENDS ServerSessions, Sequences, FiniteSets

CONSTANTS
  Listeners,
  WebSockets    \* the ones that NewWSListener or NewWSSListener returned

ASSUME ListenersAssumption == IsFiniteSet(Listeners) /\ WebSockets \subseteq Listeners

VARIABLES
  serve, result,    \* place of ListenAndServeContext; what it returned
  parent,           \* the caller has cancelled its own context
  ctx,              \* "initial", "live", "cancelled"
  listener, sock,   \* per listener: its Serve; "nil", "open", "closed"
  errCh,            \* what the Serve calls returned, not yet received
  shut              \* the listeners whose Close the loop of Close() has called

serveVars == <<serve, result, parent>>
sockVars == <<listener, sock, errCh>>
lvars == <<serveVars, ctx, sockVars, shut>>
allVars == <<vars, lvars>>

LInit ==
  /\ Init
  /\ serve = "idle" /\ result = "none"
  /\ parent = FALSE
  /\ ctx = "initial"
  /\ listener = [l \in Listeners |-> "idle"]
  /\ sock = [l \in Listeners |-> "nil"]
  /\ errCh = <<>>
  /\ shut = {}

-----------------------------------------------------------------------------
(* ListenAndServeContext *)

ListenAndServe ==
  /\ serve = "idle"
  /\ serve' = "waiting"
  /\ ctx' = IF parent THEN "cancelled" ELSE "live"
  /\ listener' = [l \in Listeners |-> "starting"]
  /\ UNCHANGED <<vars, result, parent, sock, errCh, shut>>

ParentCancels ==
  /\ ~parent
  /\ parent' = TRUE
  /\ ctx' = IF ctx = "live" THEN "cancelled" ELSE ctx
  /\ UNCHANGED <<vars, serve, result, sockVars, shut>>

(* Mutant: a return leaves the context to the caller. *)
ServeReturnsWithoutCancel ==
  /\ serve = "waiting"
  /\ \/ errCh # <<>> /\ result' = Head(errCh) /\ errCh' = Tail(errCh)
     \/ parent /\ result' = "cancelled" /\ UNCHANGED errCh
  /\ serve' = "returned"
  /\ UNCHANGED <<vars, parent, ctx, listener, sock, shut>>

(* The select, and the deferred s.cancel(). *)
ServeReturns ==
  /\ serve = "waiting"
  /\ \/ errCh # <<>> /\ result' = Head(errCh) /\ errCh' = Tail(errCh)
     \/ parent /\ result' = "cancelled" /\ UNCHANGED errCh
  /\ serve' = "returned"
  /\ ctx' = "cancelled"
  /\ UNCHANGED <<vars, parent, listener, sock, shut>>

-----------------------------------------------------------------------------
(* Serve of a listener *)

(* Serve returns err to its goroutine, which puts it, unless it is nil,     *)
(* into errCh, with a place for each listener.                              *)
ServeEnds(l, err) ==
  /\ listener' = [listener EXCEPT ![l] = "ended"]
  /\ errCh' = IF err # "nil" /\ Len(errCh) < Cardinality(Listeners)
                THEN Append(errCh, err) ELSE errCh

ListenFails(l) ==
  /\ listener[l] = "starting"
  /\ ServeEnds(l, "error")
  /\ UNCHANGED <<vars, serveVars, ctx, sock, shut>>

Listens(l) ==
  /\ listener[l] = "starting"
  /\ listener' = [listener EXCEPT ![l] = "accepting"]
  /\ sock' = [sock EXCEPT ![l] = "open"]
  /\ UNCHANGED <<vars, serveVars, ctx, errCh, shut>>

CloseSocket(l) == sock' = [sock EXCEPT ![l] = IF @ = "open" THEN "closed" ELSE @]

(* The goroutine that waits for ctx.Done(). *)
ContextCloses(l) ==
  /\ ctx = "cancelled" /\ sock[l] = "open"
  /\ CloseSocket(l)
  /\ UNCHANGED <<vars, serveVars, ctx, listener, errCh, shut>>

(* Accept succeeds: go handler(conn). *)
Accepts(l, c) ==
  /\ listener[l] = "accepting" /\ sock[l] = "open"
  /\ Accept(c)
  /\ UNCHANGED lvars

(* Mutant: a failed Accept is reported as a cancellation. *)
AcceptFailsAsCancelled(l) ==
  /\ listener[l] = "accepting"
  /\ ServeEnds(l, "cancelled")
  /\ UNCHANGED <<vars, serveVars, ctx, sock, shut>>

(* ctx.Err(), or the error of Accept *)
AcceptError(l) ==
  IF ctx = "cancelled" THEN "cancelled"
  ELSE IF l \in WebSockets /\ sock[l] = "closed" THEN "nil" ELSE "error"

(* Accept fails, as it must on a closed socket. *)
AcceptFails(l) ==
  /\ listener[l] = "accepting"
  /\ ServeEnds(l, AcceptError(l))
  /\ UNCHANGED <<vars, serveVars, ctx, sock, shut>>

-----------------------------------------------------------------------------
(* Close(): s.cancel(), then l.Close() for each listener, then the sessions *)

CloseCancels ==
  /\ Closers # {} /\ Close
  /\ ctx' = IF ctx = "live" THEN "cancelled" ELSE ctx
  /\ UNCHANGED <<serveVars, sockVars, shut>>

CloseListener(l) ==
  /\ closer = "listeners" /\ l \notin shut
  /\ shut' = shut \cup {l}
  /\ CloseSocket(l)
  /\ UNCHANGED <<vars, serveVars, ctx, listener, errCh>>

(* The sessions go on as in ServerSessions; their part of Close() waits for *)
(* the listeners' part.                                                     *)
SessionsRun ==
  /\ Runs
  /\ (closer = "listeners" /\ closer' # closer) => shut = Listeners
  /\ UNCHANGED lvars

ListenerRuns(l) ==
  \/ ListenFails(l) \/ Listens(l) \/ ContextCloses(l)
  \/ sock[l] = "closed" /\ AcceptFails(l)

LNext ==
  \/ ListenAndServe \/ ParentCancels \/ ServeReturns
  \/ \E l \in Listeners :
       ListenerRuns(l) \/ AcceptFails(l) \/ CloseListener(l) \/ \E c \in Conn : Accepts(l, c)
  \/ CloseCancels
  \/ SessionsRun

LSpec == LInit /\ [][LNext]_allVars

(* Besides the fairness of the sessions: the goroutines of the listeners    *)
(* and of ListenAndServeContext are scheduled.                              *)
LFairSpec ==
  /\ LSpec
  /\ Fairness
  /\ WF_allVars(ServeReturns)
  /\ \A l \in Listeners : WF_allVars(ListenerRuns(l)) /\ WF_allVars(CloseListener(l))

-----------------------------------------------------------------------------
(* Properties *)

(* ListenAndServe says that it was cancelled only if it was, by Close() or  *)
(* by the context: when a listener fails, its error is the one returned     *)
(* and not the error of a listener that was stopped because of it.          *)
FailureReported == result = "cancelled" => parent \/ closer # "idle"

(* Once the context is cancelled, by Close() or by the caller, or           *)
(* ListenAndServe has returned because a listener failed, ListenAndServe    *)
(* has returned and no listener is open, one that was still starting        *)
(* included.                                                                *)
ServingStops ==
  ctx = "cancelled" \/ serve = "returned" ~>
    serve = "returned" /\ \A l \in Listeners : listener[l] = "ended" /\ sock[l] # "open"

(* No listener can bring another connection.                                *)
Quiet ==
  /\ serve # "idle"
  /\ \A l \in Listeners : listener[l] # "starting" /\ sock[l] # "open"
  /\ \A c \in Conn : handler[c] \notin {"spawned", "counted"}

(* Close() returns, whatever the clients do, unless a connection is         *)
(* accepted so late that its handler has not reached s.conns when Close()   *)
(* closes what it finds there.                                              *)
ShutdownEnds == closer = "conns" /\ Quiet ~> closer = "returned"
=============================================================================
