----------------------------- MODULE Transport -----------------------------
(***************************************************************************)
(* The servers that an App runs: transport/grpc, transport/http,           *)
(* transport/ws and transport/socketio, each behind the interface          *)
(* transport.Server.  NewServer listens at once and keeps the error for    *)
(* Start, which serves until Stop.  What Stop does to the listener, to     *)
(* Start and to the requests in progress differs by kind:                  *)
(*   grpc      GracefulStop: waits for the requests, whatever its context; *)
(*             Serve returns with it                                       *)
(*   http, ws  Shutdown: waits for the requests until its context ends;    *)
(*             Serve returns at once, and sessions (hijacked connections)  *)
(*             are not waited for                                          *)
(*   socketio  Close: ends the socket.io server, not the http.Serve that   *)
(*             Start is in                                                 *)
(***************************************************************************)
EXTENDS Integers, FiniteSets

CONSTANTS
  Servers,      \* a.servers
  Deployments   \* which kinds of server they may be: functions from Servers

Kinds == {"grpc", "http", "ws", "socketio"}

ASSUME ServersAssumption ==
  IsFiniteSet(Servers) /\ Deployments \subseteq [Servers -> Kinds]

VARIABLES
  kind,      \* per server: its kind
  listener,  \* per server: "failed" (s.err), "open" or "closed"
  startPc,   \* per server: "created", "called", "serving", "failed" or "ended"
  stopPc,    \* per server: "wait", "stopping", "stopped" or "error"
  requests,  \* per server: whether a request (a handshake) is in progress
  sessions,  \* per server: whether a websocket session is open
  ctxDone    \* whether the errgroup's context is cancelled

serverVars == <<kind, listener, startPc, stopPc, requests, sessions, ctxDone>>

\* What NewServer leaves in s.listener and s.err, by kind: grpc, http and ws
\* listen; socket.io first connects its redis adapter, and listens if it can.
GrpcListen == {"open", "failed"}
HttpListen == {"open", "failed"}
WsListen == {"open", "failed"}
SocketioListen == UNION {IF adapterErr THEN {"failed"} ELSE {"open", "failed"} : adapterErr \in BOOLEAN}

Listen(k) ==
  CASE k = "grpc" -> GrpcListen [] k = "http" -> HttpListen
    [] k = "ws" -> WsListen [] k = "socketio" -> SocketioListen

NewServers ==
  /\ kind \in Deployments
  /\ listener \in [Servers -> {"open", "failed"}]
  /\ \A s \in Servers : listener[s] \in Listen(kind[s])
  /\ startPc = [s \in Servers |-> "created"]
  /\ stopPc = [s \in Servers |-> "wait"]
  /\ requests = [s \in Servers |-> FALSE]
  /\ sessions = [s \in Servers |-> FALSE]
  /\ ctxDone = FALSE

\* The kinds whose Endpoint method makes them transport.Endpoints.
HasEndpoint(s) == kind[s] \in {"grpc", "http"}

\* The goroutine of Start: wg.Done, then the call.
StartRun(s) ==
  /\ startPc[s] = "created"
  /\ startPc' = [startPc EXCEPT ![s] = "called"]
  /\ UNCHANGED <<kind, listener, stopPc, requests, sessions, ctxDone>>

\* Start returns what it ends with; an error cancels the group's context.
Ends(s, end) ==
  /\ startPc' = [startPc EXCEPT ![s] = end]
  /\ ctxDone' = (ctxDone \/ end = "failed")
  /\ UNCHANGED <<kind, stopPc, requests, sessions>>

Closed(s) == listener' = [listener EXCEPT ![s] = "closed"]

\* Start is in s.err # nil, or in Serve.
NoListener(s) == startPc[s] = "called" /\ listener[s] = "failed" /\ Ends(s, "failed") /\ UNCHANGED listener
Serves(s) == startPc[s] = "called" /\ listener[s] = "open" /\ Ends(s, "serving") /\ UNCHANGED listener

\* Stop came before Serve: Serve closes the listener and returns.
TooLate(s, end) ==
  /\ startPc[s] = "called" /\ listener[s] = "open" /\ stopPc[s] # "wait"
  /\ Ends(s, end) /\ Closed(s)

\* Serve returns because Stop closed the listener.
Returned(s, stops) ==
  startPc[s] = "serving" /\ stopPc[s] \in stops /\ Ends(s, "ended") /\ UNCHANGED listener

\* grpc: too late is an error (ErrServerStopped); Serve waits for GracefulStop.
GrpcStart(s) ==
  /\ kind[s] = "grpc"
  /\ \/ NoListener(s) \/ TooLate(s, "failed") \/ Returned(s, {"stopped"})
     \/ stopPc[s] = "wait" /\ Serves(s)

\* http and ws hide ErrServerClosed, which Serve returns as soon as Stop began.
HttpStart(s) ==
  /\ kind[s] = "http"
  /\ \/ NoListener(s) \/ TooLate(s, "ended") \/ Returned(s, {"stopping", "stopped", "error"})
     \/ stopPc[s] = "wait" /\ Serves(s)

WsStart(s) ==
  /\ kind[s] = "ws"
  /\ \/ NoListener(s) \/ TooLate(s, "ended") \/ Returned(s, {"stopping", "stopped", "error"})
     \/ stopPc[s] = "wait" /\ Serves(s)

\* socket.io serves with http.Serve, which has no server that Stop could close.
SocketioStart(s) == kind[s] = "socketio" /\ (NoListener(s) \/ Serves(s))

\* Accept fails for good.
ServeFail(s) ==
  /\ startPc[s] = "serving" /\ listener[s] = "open"
  /\ Ends(s, "failed") /\ Closed(s)

\* Stop is called: the listener that Serve uses is closed, except socket.io's.
StopCalled(s) ==
  /\ stopPc[s] = "wait"
  /\ stopPc' = [stopPc EXCEPT ![s] = "stopping"]
  /\ IF startPc[s] = "serving" /\ kind[s] # "socketio" THEN Closed(s) ELSE UNCHANGED listener
  /\ UNCHANGED <<kind, startPc, requests, sessions, ctxDone>>

StopReturns(s, r) ==
  /\ stopPc[s] = "stopping"
  /\ stopPc' = [stopPc EXCEPT ![s] = r]
  /\ ctxDone' = (ctxDone \/ r = "error")
  /\ UNCHANGED <<kind, listener, startPc, requests, sessions>>

\* Fault: a Stop that does not wait for the requests.
GrpcStopsNow(s) == kind[s] = "grpc" /\ StopReturns(s, "stopped")

\* GracefulStop returns when no request is left, and never before.
GrpcStop(s) == kind[s] = "grpc" /\ ~requests[s] /\ StopReturns(s, "stopped")

\* Shutdown returns when no request is left, or its context ends: it is a child
\* of the group's, with five seconds.
HttpStop(s) == kind[s] = "http" /\ StopReturns(s, IF requests[s] THEN "error" ELSE "stopped")
WsStop(s) == kind[s] = "ws" /\ StopReturns(s, IF requests[s] THEN "error" ELSE "stopped")

\* Close does not look at the requests.
SocketioStop(s) == kind[s] = "socketio" /\ StopReturns(s, "stopped")

\* A request arrives.
RequestBegin(s) ==
  /\ startPc[s] = "serving" /\ listener[s] = "open" /\ ~requests[s]
  /\ requests' = [requests EXCEPT ![s] = TRUE]
  /\ UNCHANGED <<kind, listener, startPc, stopPc, sessions, ctxDone>>

\* It ends; a handshake of ws may have opened a session (Handler).
RequestEnd(s) ==
  /\ requests[s]
  /\ requests' = [requests EXCEPT ![s] = FALSE]
  /\ \/ UNCHANGED sessions
     \/ kind[s] = "ws" /\ sessions' = [sessions EXCEPT ![s] = TRUE]
  /\ UNCHANGED <<kind, listener, startPc, stopPc, ctxDone>>

\* A session ends: s.after closes it.
SessionEnd(s) ==
  /\ sessions[s]
  /\ sessions' = [sessions EXCEPT ![s] = FALSE]
  /\ UNCHANGED <<kind, listener, startPc, stopPc, requests, ctxDone>>

Start(s) == StartRun(s) \/ GrpcStart(s) \/ HttpStart(s) \/ WsStart(s) \/ SocketioStart(s)

Stop(s) == GrpcStop(s) \/ HttpStop(s) \/ WsStop(s) \/ SocketioStop(s)

Request(s) == RequestBegin(s) \/ RequestEnd(s) \/ SessionEnd(s)

=============================================================================
