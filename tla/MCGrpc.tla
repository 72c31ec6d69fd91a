------------------------------- MODULE MCGrpc -------------------------------
(***************************************************************************)
(* Instances of Balancer, ClientStream, ServerTimeout and Dial for TLC: a  *)
(* behaviour is one of a balancer, of a stream, of a call under a deadline *)
(* or of a client being set up, while the others rest.                     *)
(***************************************************************************)
EXTENDS Balancer, DeadlineState, Dial, TLC

CONSTANTS n1, n2, n3, n4, MaxCalls

VARIABLES part,
  pc, serverStreams, ctxDone, loop, tracer, val, spanEnded, span, event, calls, sawEnd, sawErr

streamVars == <<pc, serverStreams, ctxDone, loop, tracer, val, spanEnded, span, event, calls, sawEnd, sawErr>>
timeoutVars == <<ctx, hpc, cpc, mutex, resp, err, done, ch, res, out>>

MCWeight == (n1 :> 1) @@ (n2 :> 0) @@ (n3 :> 2) @@ (n4 :> 3)

\* Up to two interfaces of two addresses, in either order, and their numbers.
Addr(v4, global, ip) == [v4 |-> v4, global |-> global, ip |-> ip]
Addrs(p) ==
  {<<>>} \union {<<Addr(v4, g, p \o "a")>> : v4, g \in BOOLEAN}
         \union {<<Addr(FALSE, g, p \o "a"), Addr(v4, TRUE, p \o "b")>> : v4, g \in BOOLEAN}
         \union {<<Addr(TRUE, TRUE, p \o "a"), Addr(v4, TRUE, p \o "b")>> : v4 \in BOOLEAN}
Ifs(index, p) == [index : {index}, up : BOOLEAN, addrs : Addrs(p)]
MCInterfaces ==
  {<<i>> : i \in Ifs(1, "e")}
    \union {<<i, j>> : i \in Ifs(1, "e"), j \in Ifs(2, "f")}
    \union {<<j, i>> : i \in Ifs(1, "e"), j \in Ifs(2, "f")}
OneInterface == <<[index |-> 1, up |-> TRUE, addrs |-> <<Addr(TRUE, TRUE, "ea")>>]>>

Serves(k, tls) == [kind |-> k, tls |-> tls, bound |-> TRUE, wellFormed |-> TRUE]
Unbound == [Serves("grpc", FALSE) EXCEPT !.bound = FALSE, !.wellFormed = FALSE]
MCApps ==
  {<<Serves("http", h), Serves("grpc", g)>> : h, g \in BOOLEAN}
    \union {<<Serves("grpc", TRUE), Serves("grpc", FALSE)>>, <<Unbound>>}

With(field, value) == [field |-> field, value |-> value]
MCOptionLists ==
  {<<With("discovery", d), With("tls", t), With("insecure", i)>> : d, t, i \in BOOLEAN}
    \union {<<With("mws", 1)>>, <<With("mws", 1), With("enable", {0}), With("addr", "x")>>}
MCObjects == <<[name |-> "users", addr |-> "u:1"], [name |-> "orders", addr |-> "o:1"]>>

Stream == INSTANCE ClientStream

ASSUME BoundsAssumption == MaxCalls \in Nat

\* The others at rest.
NoStream == Stream!Init /\ ~serverStreams
NoClient ==
  /\ step = "done" /\ ifs = OneInterface /\ servers = <<>> /\ endpoints = <<>>
  /\ opts = <<>> /\ objs = <<>> /\ clients = <<>> /\ open = {}
NoPicks == WrrInit /\ ready = {n1}

\* Interfaces vary with one application, applications with one interface.
SetupInit ==
  /\ DialInit
  /\ \/ ifs = OneInterface
     \/ servers = <<Serves("http", FALSE), Serves("grpc", FALSE)>> /\ opts = <<With("mws", 1)>>

MCInit ==
  \/ part = "balancer" /\ WrrInit /\ NoStream /\ Deadline!Init /\ NoClient
  \/ part = "stream" /\ NoPicks /\ Stream!Init /\ Deadline!Init /\ NoClient
  \/ part = "timeout" /\ NoPicks /\ NoStream /\ Deadline!Init /\ NoClient
  \/ part = "dial" /\ NoPicks /\ NoStream /\ Deadline!Init /\ SetupInit

MCNext ==
  \/ part = "balancer" /\ WrrNext /\ UNCHANGED <<part, streamVars, timeoutVars, dialVars>>
  \/ part = "stream" /\ Stream!Next /\ UNCHANGED <<part, wrrVars, timeoutVars, dialVars>>
  \/ part = "timeout" /\ Deadline!Next /\ UNCHANGED <<part, wrrVars, streamVars, dialVars>>
  \/ part = "dial" /\ DialNext /\ UNCHANGED <<part, wrrVars, streamVars, timeoutVars>>

\* The fairness of each part; the steps of the others are disabled.
all == <<part, wrrVars, streamVars, timeoutVars, dialVars>>
BalancerStep(A) == part = "balancer" /\ A /\ UNCHANGED <<part, streamVars, timeoutVars, dialVars>>
StreamStep(A) == part = "stream" /\ A /\ UNCHANGED <<part, wrrVars, timeoutVars, dialVars>>
TimeoutStep(A) == part = "timeout" /\ A /\ UNCHANGED <<part, wrrVars, streamVars, dialVars>>

MCSpec ==
  /\ MCInit /\ [][MCNext]_all
  /\ WF_all(BalancerStep(Pick) \/ StreamStep(Stream!Loop) \/ TimeoutStep(Deadline!Goroutine))
  /\ WF_all(StreamStep(Stream!ChainReturns) \/ TimeoutStep(Deadline!Caller))
  /\ WF_all(StreamStep(Stream!Record))
  /\ \A u \in Stream!Users : WF_all(StreamStep(Stream!SkipEvent(u)))

\* A stream that ended leaves nothing behind; see ClientStream.
NothingLeaks == Stream!NothingLeaks
\* Handler and caller both end; see ServerTimeout.
BothEnd == Deadline!BothEnd

=============================================================================
