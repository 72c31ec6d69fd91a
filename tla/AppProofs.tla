----------------------------- MODULE AppProofs -----------------------------
(***************************************************************************)
(* Proofs about App for any servers, deployments and number of signals:    *)
(* what a Run that returned after its signal has left behind.              *)
(***************************************************************************)
EXTENDS App, TLAPS

TypeOK ==
  /\ kind \in [Servers -> Kinds]
  /\ listener \in [Servers -> {"failed", "open", "closed"}]
  /\ startPc \in [Servers -> {"created", "called", "serving", "failed", "ended"}]
  /\ stopPc \in [Servers -> {"wait", "stopping", "stopped", "error"}]
  /\ requests \in [Servers -> BOOLEAN]

\* A Serve that a Stop has ended, or will end, has a closed listener: none
\* starts once Stop was called, except socket.io's, which never ends.
ListenerClosed ==
  \A s \in Servers :
    /\ startPc[s] = "ended" => kind[s] # "socketio" /\ listener[s] = "closed"
    /\ (startPc[s] = "serving" /\ stopPc[s] # "wait" /\ kind[s] # "socketio")
         => listener[s] = "closed"

\* A Stop that returned nil has waited for the requests, and none came since.
Drained ==
  \A s \in Servers : (stopPc[s] = "stopped" /\ kind[s] # "socketio") => ~requests[s]

TransportInv == TypeOK /\ ListenerClosed /\ Drained

\* Both goroutines of server s have returned.
Over(s) == startPc[s] \in {"failed", "ended"} /\ stopPc[s] \in {"stopped", "error"}

\* Without a registry, Run returns after close(c) only through eg.Wait.
Joined ==
  /\ cClosed => mpc \in {"unregister", "egWait", "returned"}
  /\ mpc = "unregister" => hasReg
  /\ (mpc = "returned" /\ cClosed /\ ~hasReg) =>
       \A s \in Servers : /\ Over(s)
                          /\ result = "ok" => startPc[s] = "ended" /\ stopPc[s] = "stopped"

AppInv == TransportInv /\ Joined

-----------------------------------------------------------------------------

\* A step of server s: the goroutines of its Start and Stop, the call of Stop,
\* a failing listener and its clients.
ServerStep(s) == Start(s) \/ ServeFail(s) \/ StopCalled(s) \/ Stop(s) \/ Request(s)

LEMMA InitApp == Init => AppInv
<1> SUFFICES ASSUME Init
             PROVE  AppInv
  OBVIOUS
<1>1. TypeOK
  BY ServersAssumption DEF Init, NewServers, TypeOK
<1>2. ListenerClosed /\ Drained
  BY DEF Init, NewServers, ListenerClosed, Drained
<1>3. Joined
  BY DEF Init, Joined
<1> QED
  BY <1>1, <1>2, <1>3 DEF AppInv, TransportInv

\* A Start step keeps what is known of the servers, and a server that is over
\* takes none.
LEMMA StartStep ==
  ASSUME NEW s \in Servers, TransportInv, Start(s)
  PROVE  TransportInv' /\ ~Over(s) /\ stopPc' = stopPc
         /\ \A t \in Servers \ {s} : startPc'[t] = startPc[t]
<1> USE DEF TransportInv, TypeOK, ListenerClosed, Drained, Over, Kinds, Ends, Closed,
            NoListener, Serves, TooLate, Returned
<1>1. CASE StartRun(s)
  BY <1>1 DEF StartRun
<1>2. CASE GrpcStart(s)
  BY <1>2 DEF GrpcStart
<1>3. CASE HttpStart(s)
  BY <1>3 DEF HttpStart
<1>4. CASE WsStart(s)
  BY <1>4 DEF WsStart
<1>5. CASE SocketioStart(s)
  BY <1>5 DEF SocketioStart
<1> QED
  BY <1>1, <1>2, <1>3, <1>4, <1>5 DEF Start

\* So does every other step of a server.
LEMMA OtherStep ==
  ASSUME NEW s \in Servers, TransportInv,
         ServeFail(s) \/ StopCalled(s) \/ Stop(s) \/ Request(s)
  PROVE  TransportInv' /\ \A t \in Servers :
           Over(t) => startPc'[t] = startPc[t] /\ stopPc'[t] = stopPc[t]
<1> USE DEF TransportInv, TypeOK, ListenerClosed, Drained, Over, Kinds
<1>1. CASE ServeFail(s)
  BY <1>1 DEF ServeFail, Ends, Closed
<1>2. CASE StopCalled(s)
  BY <1>2 DEF StopCalled, Closed
<1>3. CASE Stop(s)
  BY <1>3 DEF Stop, GrpcStop, HttpStop, WsStop, SocketioStop, StopReturns
<1>4. CASE Request(s)
  BY <1>4 DEF Request, RequestBegin, RequestEnd, SessionEnd
<1> QED
  BY <1>1, <1>2, <1>3, <1>4

LEMMA ServerStepInv ==
  ASSUME NEW s \in Servers, TransportInv, ServerStep(s)
  PROVE  TransportInv' /\ \A t \in Servers :
           Over(t) => startPc'[t] = startPc[t] /\ stopPc'[t] = stopPc[t]
  BY StartStep, OtherStep DEF ServerStep

\* A goroutine's step leaves a joined Run joined.
LEMMA GoroutineApp ==
  ASSUME NEW s \in Servers, AppInv, Goroutine(s)
  PROVE  AppInv'
<1>1. ServerStep(s) /\ UNCHANGED <<hasReg, mpc, cClosed, result>>
  BY DEF Goroutine, StopWake, ServerStep, runVars, sigVars
<1>2. TransportInv' /\ \A t \in Servers :
        Over(t) => startPc'[t] = startPc[t] /\ stopPc'[t] = stopPc[t]
  BY <1>1, ServerStepInv DEF AppInv
<1>3. Joined'
  BY <1>1, <1>2 DEF AppInv, Joined, Over
<1> QED
  BY <1>2, <1>3 DEF AppInv

\* The main goroutine and the signals leave the servers alone.
LEMMA MainApp ==
  ASSUME AppInv, Main \/ SignalArrives
  PROVE  AppInv'
<1>1. UNCHANGED serverVars
  BY DEF Main, Launch, Service, Register, Notify, Wake, CloseC, Unregister, EgWait,
         SignalArrives
<1>2. TransportInv'
  BY <1>1 DEF AppInv, TransportInv, TypeOK, ListenerClosed, Drained, serverVars
<1>3. Joined'
  <2> USE <1>1 DEF AppInv, Joined, Over, serverVars, sigVars, Returns
  <2>1. CASE Launch \/ Service \/ Register \/ Notify \/ Wake
    BY <2>1 DEF Launch, Service, Register, Notify, Wake
  <2>2. CASE CloseC
    BY <2>2 DEF CloseC
  <2>3. CASE Unregister
    BY <2>3 DEF Unregister
  <2>4. CASE EgWait
    BY <2>4 DEF EgWait
  <2>5. CASE SignalArrives
    BY <2>5 DEF SignalArrives
  <2> QED
    BY <2>1, <2>2, <2>3, <2>4, <2>5 DEF Main
<1> QED
  BY <1>2, <1>3 DEF AppInv

LEMMA NextApp == AppInv /\ [Next]_vars => AppInv'
<1> SUFFICES ASSUME AppInv, [Next]_vars
             PROVE  AppInv'
  OBVIOUS
<1>1. CASE Main \/ SignalArrives
  BY <1>1, MainApp
<1>2. ASSUME NEW s \in Servers, Goroutine(s)
      PROVE  AppInv'
  BY <1>2, GoroutineApp
<1>3. CASE UNCHANGED vars
  BY <1>3 DEF vars, serverVars, runVars, sigVars, AppInv, TransportInv, TypeOK,
              ListenerClosed, Drained, Joined, Over
<1> QED
  BY <1>1, <1>2, <1>3 DEF Next

\* For any servers, a Run without registry that got its signal returns only
\* after every Start and Stop has, and a nil result means that no listener is
\* open and no request in progress (App.Run's eg.Wait).
THEOREM RunDrains == Spec => []DrainedAtReturn
<1>1. Spec => []AppInv
  BY InitApp, NextApp, PTL DEF Spec
<1>2. AppInv => DrainedAtReturn
  BY DEF AppInv, TransportInv, TypeOK, ListenerClosed, Drained, Joined, Over, DrainedAtReturn
<1> QED
  BY <1>1, <1>2, PTL

=============================================================================
