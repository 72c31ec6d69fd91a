-------------------------------- MODULE App --------------------------------
(***************************************************************************)
(* app.go: App.Run.  Per server one goroutine runs Start and one waits on  *)
(* the signal channel c and then runs Stop; the main goroutine registers   *)
(* the service, subscribes c to the signals, waits on c too, closes it and *)
(* unregisters or waits for the group.  c has one slot and one receiver    *)
(* more than there are servers.                                            *)
(***************************************************************************)
EXTENDS Transport

CONSTANTS
  MaxSignals   \* bound: signals the process receives

ASSUME BoundAssumption == MaxSignals \in Nat

VARIABLES
  hasReg,      \* a.registry # nil
  mpc,         \* pc of Run
  slot,        \* whether c holds a signal
  cClosed,     \* whether c is closed
  notified,    \* whether signal.Notify subscribed c
  registered,  \* whether the registry has the service
  nSignals,    \* signals received
  accepted,    \* history: signals that c took
  result,      \* what Run returned: "none", "ok" or "error"
  crashed      \* a signal was sent to the closed channel: the process panics

sigVars == <<slot, cClosed, notified, nSignals, accepted, crashed>>
runVars == <<hasReg, mpc, sigVars, registered, result>>
vars == <<serverVars, runVars>>

\* Run has spawned the goroutines and waits in wg.Wait for the Start ones.
Init ==
  /\ NewServers
  /\ hasReg \in BOOLEAN
  /\ mpc = "launch"
  /\ slot = FALSE /\ cClosed = FALSE /\ notified = FALSE
  /\ registered = FALSE
  /\ nSignals = 0 /\ accepted = 0
  /\ result = "none"
  /\ crashed = FALSE

-----------------------------------------------------------------------------
\* The goroutine of a server's Stop.

\* <-c: a signal taken from the main goroutine, or the close of c.
StopWake(s) ==
  /\ StopCalled(s)
  /\ slot \/ cClosed
  /\ slot' = FALSE
  /\ UNCHANGED <<hasReg, mpc, cClosed, notified, nSignals, accepted, crashed,
                 registered, result>>

-----------------------------------------------------------------------------
\* The main goroutine.

Returns(r) == mpc' = "returned" /\ result' = r

Launch ==
  /\ mpc = "launch"
  /\ \A s \in Servers : startPc[s] # "created"
  /\ mpc' = "service"
  /\ UNCHANGED <<hasReg, serverVars, sigVars, registered, result>>

\* service(): an endpoint that cannot be determined ends Run, servers running.
Service ==
  /\ mpc = "service"
  /\ \/ Returns("error") /\ \E s \in Servers : HasEndpoint(s)
     \/ mpc' = (IF hasReg THEN "register" ELSE "notify") /\ UNCHANGED result
  /\ UNCHANGED <<hasReg, serverVars, sigVars, registered>>

\* Register with a child of the group's context.  A failed call (a timeout)
\* may have reached the registry nevertheless.
Register ==
  /\ mpc = "register"
  /\ \/ ~ctxDone /\ registered' = TRUE /\ mpc' = "notify" /\ UNCHANGED result
     \/ registered' \in BOOLEAN /\ Returns("error")
  /\ UNCHANGED <<hasReg, serverVars, sigVars>>

Notify ==
  /\ mpc = "notify"
  /\ notified' = TRUE
  /\ mpc' = "wait"
  /\ UNCHANGED <<hasReg, serverVars, slot, cClosed, nSignals, accepted, crashed,
                 registered, result>>

\* <-c, then close(c).
Wake ==
  /\ mpc = "wait"
  /\ slot
  /\ slot' = FALSE
  /\ mpc' = "close"
  /\ UNCHANGED <<hasReg, serverVars, cClosed, notified, nSignals, accepted, crashed,
                 registered, result>>

\* Fault: c is not closed.
CloseCForgotten ==
  /\ mpc = "close"
  /\ mpc' = IF hasReg THEN "unregister" ELSE "egWait"
  /\ UNCHANGED <<hasReg, serverVars, sigVars, registered, result>>

CloseC ==
  /\ mpc = "close"
  /\ cClosed' = TRUE
  /\ mpc' = IF hasReg THEN "unregister" ELSE "egWait"
  /\ UNCHANGED <<hasReg, serverVars, slot, notified, nSignals, accepted, crashed,
                 registered, result>>

\* With a registry Run returns what Unregister returns, and no eg.Wait.
Unregister ==
  /\ mpc = "unregister"
  /\ \/ registered' = FALSE /\ Returns("ok")
     \/ registered' \in {FALSE, registered} /\ Returns("error")
  /\ UNCHANGED <<hasReg, serverVars, sigVars>>

EgWait ==
  /\ mpc = "egWait"
  /\ \A s \in Servers : /\ startPc[s] \in {"failed", "ended"}
                        /\ stopPc[s] \in {"stopped", "error"}
  /\ Returns(IF \E s \in Servers : startPc[s] = "failed" \/ stopPc[s] = "error"
             THEN "error" ELSE "ok")
  /\ UNCHANGED <<hasReg, serverVars, sigVars, registered>>

\* A signal: os/signal sends to c without blocking, and drops it when the slot
\* is taken; Run never calls signal.Stop, so a closed c panics the sender.
SignalArrives ==
  /\ notified
  /\ nSignals < MaxSignals
  /\ nSignals' = nSignals + 1
  /\ IF cClosed
     THEN crashed' = TRUE /\ UNCHANGED <<slot, accepted>>
     ELSE /\ slot' = TRUE
          /\ accepted' = IF slot THEN accepted ELSE accepted + 1
          /\ UNCHANGED crashed
  /\ UNCHANGED <<hasReg, mpc, serverVars, cClosed, notified, registered, result>>

Goroutine(s) ==
  \/ StopWake(s)
  \/ /\ Start(s) \/ ServeFail(s) \/ Stop(s) \/ Request(s)
     /\ UNCHANGED runVars

Main == Launch \/ Service \/ Register \/ Notify \/ Wake \/ CloseC \/ Unregister \/ EgWait

Next ==
  /\ ~crashed
  /\ Main \/ SignalArrives \/ \E s \in Servers : Goroutine(s)

Spec == Init /\ [][Next]_vars

\* Goroutines run, and a Stop with a context ends within five seconds; nothing
\* obliges a request to end.  The main goroutine's receive is strongly fair: Go
\* queues blocked receivers, so stoppers cannot overtake it for ever.
Fairness ==
  /\ WF_vars(~crashed /\ (Launch \/ Service \/ Register \/ Notify \/ CloseC
                                 \/ Unregister \/ EgWait))
  /\ SF_vars(~crashed /\ Wake)
  /\ \A s \in Servers :
       /\ WF_vars(~crashed /\ Start(s) /\ UNCHANGED runVars)
       /\ WF_vars(~crashed /\ StopWake(s))
       /\ WF_vars(~crashed /\ Stop(s) /\ UNCHANGED runVars)

FairSpec == Spec /\ Fairness

-----------------------------------------------------------------------------

\* Without a registry, a Run that got its signal returns only when every
\* server has ended and its Stop has returned; when it returns nil no listener
\* is open and no request is in progress any more (websocket sessions may be).
DrainedAtReturn ==
  (mpc = "returned" /\ cClosed /\ ~hasReg) =>
    \A s \in Servers : /\ startPc[s] \in {"failed", "ended"}
                       /\ stopPc[s] \in {"stopped", "error"}
                       /\ result = "ok" => listener[s] = "closed" /\ ~requests[s]

\* Servers compete with Run for signals and each takes at most one, so one
\* signal more than there are servers reaches Run; and the one that reaches it
\* stops every server and makes Run return, unless a later signal hits the
\* closed channel, a GracefulStop waits for a request that never ends, or Run
\* waits for the Start of a socket.io server, which its Stop does not end.
SignalsSuffice ==
  (mpc = "close" \/ accepted = Cardinality(Servers) + 1) ~>
    \/ mpc = "returned"
    \/ crashed
    \/ \E s \in Servers : \/ kind[s] = "grpc" /\ stopPc[s] = "stopping" /\ requests[s]
                          \/ kind[s] = "socketio" /\ startPc[s] = "serving" /\ mpc = "egWait"

=============================================================================
