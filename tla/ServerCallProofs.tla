-------------------------- MODULE ServerCallProofs --------------------------
(***************************************************************************)
(* Proofs about ServerCall for any requests, masks, error codes, Contexts  *)
(* and limits.                                                             *)
(***************************************************************************)
EXTENDS ServerCall, FiniteSetTheorems, TLAPS

Frames == Range(Middlewares) \union Others

Phases == {"new", "route", "bind", "down", "create", "back", "up", "panic",
           "encode", "leave", "end", "aborted"}

\* The errors a request may carry: the handler's, the frames' and the codecs'.
Errs == Codes \union {NoErr, Plain, Marshal, Swallowed, 400, 401, 413, 429, 503}

TypeOK ==
  /\ kind \in {"http", "grpc"}
  /\ chain \in Seq(Frames)
  /\ pc \in [Requests -> Phases]
  /\ pos \in [Requests -> Nat]
  /\ \A r \in Requests : pc[r] \in {"down", "create", "back"} => pos[r] > 0
  /\ err \in [Requests -> Errs]
  /\ got \in [Requests -> Int]

\* The steps of a request before and behind the chain ...
FrontEnd(r) ==
  Enter(r) \/ Handlers(r) \/ Bind(r) \/ Timeout(r) \/ Reply(r) \/ Result(r) \/ Encode(r)

\* ... those that take or drop its Context ...
Router(r) == EnterRouter(r) \/ Leave(r) \/ Unrecovered(r)

\* ... those of the frames without a state of their own, and of the handler ...
Plainly(r) ==
  \/ \E o \in Observers : ObserverDown(r, o) \/ ObserverUp(r, o)
  \/ Inner(r) \/ Metadata(r) \/ Handler(r)

\* ... and those of the breaker, the limiter and Sentinel.
Breaks(r) == Fetch(r) \/ FetchCreate(r) \/ BreakerUp(r)
Limits(r) == PassShedding(r) \/ PassUse(r) \/ PassBack(r) \/ LimitUp(r)
Sentinels(r) == SentinelDown(r) \/ SentinelUp(r)

Step(r) ==
  \/ FrontEnd(r) \/ Router(r) \/ Plainly(r) \/ Breaks(r) \/ Limits(r) \/ Sentinels(r) \/ Unwind(r)

LEMMA NextSteps == Next => \E r \in Requests : Step(r)
  BY DEF Next, Step, FrontEnd, Router, Plainly, Breaks, Limits, Sentinels

-----------------------------------------------------------------------------
\* Types.

LEMMA ErrsInt == Errs \subseteq Int /\ \A e \in Errs : Code(e) \in Nat
  BY CallAssumption DEF Errs, NoErr, Plain, Marshal, Swallowed, Code

LEMMA TableFacts ==
  /\ \A t \in Table : t[1] \in Nat /\ t[2] \in Nat /\ t[2] \notin {2, 6, 9, 11, 15}
  /\ \A t, u \in Table : t[1] = u[1] => t = u
  /\ \A t, u \in Table : t[2] = u[2] => t = u
  /\ \A t \in Table : t[1] # 200 => t[2] # 0
  /\ \A t \in Table : t[2] < 300
  BY DEF Table

LEMMA InitType == Init => TypeOK
<1> SUFFICES ASSUME Init
             PROVE  TypeOK
  OBVIOUS
<1>1. chain \in Seq(Frames)
  <2>1. CASE chain \in Customs
    BY <2>1, CallAssumption DEF Frames
  <2>2. ASSUME NEW m \in Masks, chain = Filter(Middlewares, m)
        PROVE  chain \in Seq(Frames)
    <3>1. chain \in Seq(Range(Middlewares))
      BY <2>2, CallAssumption, MaskAssumption
    <3> QED
      BY <3>1 DEF Frames
  <2> QED
    BY <2>1, <2>2 DEF Init
<1> QED
  BY <1>1 DEF Init, TypeOK, Phases, Errs, NoErr, Absent

\* What the clients are given is a number.
LEMMA ClientInt ==
  \A e \in Errs : GrpcClient(e) \in Int /\ HttpClient(Code(e)) \in Int /\ HttpClient(200) = NoErr
<1> SUFFICES ASSUME NEW e \in Errs
             PROVE  GrpcClient(e) \in Int /\ HttpClient(Code(e)) \in Int /\ HttpClient(200) = NoErr
  OBVIOUS
<1>1. HttpClient(Code(e)) \in Int /\ HttpClient(200) = NoErr
  BY ErrsInt DEF HttpClient, Sent, NoErr
<1>2. \A c \in Int : HTTPToGRPCCode(c) \in Int /\ GRPCToHTTPCode(c) \in Int
  BY TableFacts DEF HTTPToGRPCCode, GRPCToHTTPCode
<1>3. Status(e) \in Int
  BY <1>2, ErrsInt DEF Status, Unknown
<1> QED
  BY <1>1, <1>2, <1>3 DEF GrpcClient, NoErr

\* A step of request r changes the components of r only, within their types.
Moved(r) ==
  /\ UNCHANGED <<kind, chain>>
  /\ \E phase \in Phases : pc' = [pc EXCEPT ![r] = phase]
  /\ \E p \in Nat : pos' = [pos EXCEPT ![r] = p]
  /\ \E e \in Errs : err' = [err EXCEPT ![r] = e]
  /\ \E v \in Int : got' = [got EXCEPT ![r] = v]
  /\ pc'[r] \in {"down", "create", "back"} => pos'[r] > 0

LEMMA InErrs == {NoErr, Plain, Marshal, Swallowed, 400, 401, 413, 429, 503} \union Codes = Errs
  BY DEF Errs

LEMMA InPhases ==
  \A x \in {"new", "route", "bind", "down", "create", "back", "up", "panic",
            "encode", "leave", "end", "aborted"} : x \in Phases
  BY DEF Phases

LEMMA StepMoves ==
  ASSUME NEW r \in Requests, TypeOK, Step(r)
  PROVE  Moved(r)
<1>0. /\ pc[r] \in Phases /\ pc \in [Requests -> Phases]
      /\ pos[r] \in Nat /\ pos \in [Requests -> Nat]
      /\ err[r] \in Errs /\ err \in [Requests -> Errs]
      /\ got[r] \in Int /\ got \in [Requests -> Int]
      /\ pc[r] \in {"down", "create", "back"} => pos[r] > 0
      /\ pc = [pc EXCEPT ![r] = pc[r]]
      /\ pos = [pos EXCEPT ![r] = pos[r]]
      /\ err = [err EXCEPT ![r] = err[r]]
      /\ got = [got EXCEPT ![r] = got[r]]
  BY DEF TypeOK
<1> USE DEF Moved, Pass, Return, GoTo, Answer, At, Leaves, netVars
<1>1. CASE FrontEnd(r)
  <2>1. CASE Enter(r) \/ Bind(r)
    BY <2>1, <1>0, InPhases, InErrs DEF Enter, Bind
  <2>2. CASE Handlers(r)
    BY <2>2, <1>0, InPhases, InErrs, ClientInt
       DEF Handlers, MaxBytes, Gunzip, CORS, BuildRequestID, Refuse
  <2>3. CASE Timeout(r)
    <3>1. TimedOut \in Int
      BY DEF TimedOut
    <3> QED
      BY <2>3, <1>0, <3>1 DEF Timeout
  <2>4. CASE Reply(r)
    BY <2>4, <1>0, InPhases, ClientInt DEF Reply
  <2>5. CASE Result(r)
    BY <2>5, <1>0, InPhases, InErrs, ClientInt DEF Result, NoErr, Plain
  <2>6. CASE Encode(r)
    <3>1. HttpClient(Code(err[r])) \in Int
      BY <1>0, ClientInt
    <3>2. \E phase \in {"leave", "panic"} : pc' = [pc EXCEPT ![r] = phase]
      BY <2>6 DEF Encode
    <3>3. \E v \in Int : got' = [got EXCEPT ![r] = v]
      BY <2>6, <1>0, <3>1 DEF Encode
    <3>4. UNCHANGED <<kind, chain, err>> /\ pos' = [pos EXCEPT ![r] = 0]
      BY <2>6 DEF Encode
    <3> QED
      BY <1>0, <3>2, <3>3, <3>4, InPhases
  <2> QED
    BY <1>1, <2>1, <2>2, <2>3, <2>4, <2>5, <2>6 DEF FrontEnd
<1>2. CASE Router(r)
  BY <1>2, <1>0, InPhases DEF Router, EnterRouter, Leave, Unrecovered, Plain
<1>3. CASE Plainly(r)
  <2>1. ASSUME NEW o \in Observers, ObserverDown(r, o) \/ ObserverUp(r, o)
        PROVE  Moved(r)
    BY <2>1, <1>0, InPhases DEF ObserverDown, ObserverUp
  <2>2. CASE Inner(r)
    BY <2>2, <1>0, InPhases, InErrs
       DEF Inner, Validate, Authorize, ServerAuthZ, ServerTraceID, Ray, Stat, Recovery
  <2>3. CASE Metadata(r) \/ Handler(r)
    BY <2>3, <1>0, InPhases, InErrs DEF Metadata, Handler
  <2> QED
    BY <1>3, <2>1, <2>2, <2>3 DEF Plainly
<1>4. CASE Breaks(r)
  BY <1>4, <1>0, InPhases, InErrs DEF Breaks, Fetch, FetchCreate, BreakerUp, Allow
<1>5. CASE Limits(r)
  BY <1>5, <1>0, InPhases, InErrs DEF Limits, PassShedding, PassUse, PassBack, LimitUp
<1>6. CASE Sentinels(r)
  BY <1>6, <1>0, InPhases, InErrs DEF Sentinels, SentinelDown, SentinelUp
<1>7. CASE Unwind(r)
  BY <1>7, <1>0, InPhases, InErrs DEF Unwind
<1> QED
  BY <1>1, <1>2, <1>3, <1>4, <1>5, <1>6, <1>7 DEF Step

LEMMA StepType ==
  ASSUME NEW r \in Requests, TypeOK, Step(r)
  PROVE  TypeOK'
  BY StepMoves DEF Moved, TypeOK

LEMMA NextType == TypeOK /\ [Next]_vars => TypeOK'
<1>1. CASE UNCHANGED vars
  BY <1>1 DEF vars, netVars, TypeOK
<1> QED
  BY <1>1, NextSteps, StepType

\* The chain, the phases and the errors stay within their types.
THEOREM TypeCorrect == Spec => []TypeOK
  BY InitType, NextType, PTL DEF Spec

-----------------------------------------------------------------------------
\* Contexts.

\* Where a request of the http server has its Context.
InRouter == {"bind", "down", "create", "back", "up", "panic", "encode", "leave"}

\* ContextExclusive, and who has a Context at all: the router's Put must not
\* be of a Context that was never taken.
ContextInv ==
  /\ held \in [Requests -> Contexts \union {NoContext}]
  /\ pool \subseteq Contexts
  /\ creq \in [Contexts -> SUBSET Requests]
  /\ ContextExclusive
  /\ \A r \in Requests :
       IF kind = "http" THEN pc[r] \in InRouter => held[r] # NoContext
                        ELSE pc[r] \notin {"route", "bind", "encode", "leave"}

LEMMA InitContext == Init => ContextInv
  BY DEF Init, ContextInv, ContextExclusive, InRouter

\* A step that leaves the pool alone and the request inside or outside the
\* router keeps the invariant.
LEMMA ContextKept ==
  ASSUME NEW r \in Requests, TypeOK, ContextInv, Moved(r), UNCHANGED poolVars,
         pc'[r] \in InRouter => (pc[r] \in InRouter \/ kind = "grpc"),
         kind = "grpc" => pc'[r] \notin {"route", "bind", "encode", "leave"}
  PROVE  ContextInv'
  BY DEF TypeOK, Moved, ContextInv, ContextExclusive, poolVars

LEMMA StepContext ==
  ASSUME NEW r \in Requests, TypeOK, ContextInv, Step(r)
  PROVE  ContextInv'
<1> USE DEF TypeOK, Pass, Return, GoTo, At, Leaves, netVars
<1>1. CASE FrontEnd(r)
  <2>0. /\ pc \in [Requests -> Phases] /\ Moved(r)
    BY StepMoves
  <2>1. UNCHANGED <<kind, poolVars>>
    BY <1>1 DEF FrontEnd, Enter, Handlers, Bind, Timeout, Reply, Result, Encode
  <2>2. \/ pc[r] \in InRouter \/ kind = "grpc" \/ pc'[r] \notin InRouter
    BY <1>1, <2>0 DEF FrontEnd, Enter, Handlers, MaxBytes, Gunzip, CORS, BuildRequestID, Refuse,
                      Bind, Timeout, Reply, Result, Encode, InRouter
  <2>3. kind = "grpc" => pc'[r] \notin {"route", "bind", "encode", "leave"}
    BY <1>1, <2>0 DEF FrontEnd, Enter, Handlers, Bind, Timeout, Reply, Result, Encode, ContextInv
  <2> QED
    BY <2>0, <2>1, <2>2, <2>3, ContextKept
<1>2. CASE Router(r)
  <2>1. CASE EnterRouter(r)
    <3>0. PICK c \in (Contexts \ {held[q] : q \in Requests}) \union pool :
            /\ held' = [held EXCEPT ![r] = c]
            /\ pool' = pool \ {c}
            /\ creq' = [creq EXCEPT ![c] = {r}]
      BY <2>1 DEF EnterRouter
    <3>1. /\ c \in Contexts
          /\ \A q \in Requests : held[q] # c
      BY CallAssumption DEF ContextInv, ContextExclusive
    <3>2. held' \in [Requests -> Contexts \union {NoContext}] /\ creq' \in [Contexts -> SUBSET Requests]
          /\ pool' \subseteq Contexts
      BY <3>0, <3>1 DEF ContextInv
    <3>3. ContextExclusive'
      BY <3>0, <3>1 DEF ContextInv, ContextExclusive
    <3>4. pc' = [pc EXCEPT ![r] = "bind"] /\ pc[r] = "route" /\ kind' = kind
      BY <2>1 DEF EnterRouter
    <3>5. (\A q \in Requests :
             IF kind = "http" THEN pc[q] \in InRouter => held[q] # NoContext
                              ELSE pc[q] \notin {"route", "bind", "encode", "leave"})'
      BY <3>0, <3>1, <3>4, CallAssumption DEF ContextInv
    <3> QED
      BY <3>2, <3>3, <3>5 DEF ContextInv
  <2>2. CASE Leave(r)
    <3>1. held[r] \in Contexts
      BY <2>2 DEF Leave, ContextInv, InRouter
    <3>2. /\ creq' = [creq EXCEPT ![held[r]] = {}]
          /\ pool' = pool \union {held[r]}
          /\ held' = [held EXCEPT ![r] = NoContext]
      BY <2>2 DEF Leave
    <3>3. \A q \in Requests \ {r} : held[q] # NoContext => held[q] # held[r]
      BY <3>1, CallAssumption DEF ContextInv, ContextExclusive
    <3>4. ContextExclusive'
      BY <3>1, <3>2, <3>3, CallAssumption DEF ContextInv, ContextExclusive
    <3> QED
      BY <2>2, <3>1, <3>2, <3>4 DEF Leave, ContextInv, InRouter
  <2>3. CASE Unrecovered(r)
    BY <2>3 DEF Unrecovered, ContextInv, ContextExclusive, InRouter
  <2> QED
    BY <1>2, <2>1, <2>2, <2>3 DEF Router
<1>3. CASE Plainly(r) \/ Breaks(r) \/ Limits(r) \/ Sentinels(r) \/ Unwind(r)
  <2>1. UNCHANGED <<kind, poolVars>>
    BY <1>3 DEF Plainly, ObserverDown, ObserverUp, Inner, Metadata, Handler, Breaks, Fetch,
                FetchCreate, BreakerUp, Limits, PassShedding, PassUse, PassBack, LimitUp,
                Sentinels, SentinelDown, SentinelUp, Unwind
  <2>2. /\ pc[r] \in {"down", "create", "back", "up", "panic"}
        /\ pc'[r] \in {"down", "create", "back", "up", "panic"}
    BY <1>3 DEF Plainly, ObserverDown, ObserverUp, Inner, Validate, Authorize, ServerAuthZ,
                ServerTraceID, Ray, Stat, Recovery, Metadata, Handler, Breaks, Fetch,
                FetchCreate, BreakerUp, Allow, Limits, PassShedding, PassUse, PassBack,
                LimitUp, Sentinels, SentinelDown, SentinelUp, Unwind
  <2> QED
    BY <2>1, <2>2, ContextKept, StepMoves DEF InRouter
<1> QED
  BY <1>1, <1>2, <1>3 DEF Step

LEMMA NextContext == TypeOK /\ ContextInv /\ [Next]_vars => ContextInv'
<1>1. CASE UNCHANGED vars
  BY <1>1 DEF vars, netVars, poolVars, ContextInv, ContextExclusive
<1> QED
  BY <1>1, NextSteps, StepContext

\* For any number of requests and Contexts, and whatever chain: no two requests
\* share a Context of the router's pool, and a pooled one is cleared.
THEOREM ContextsExclusive == Spec => []ContextExclusive
<1>1. Spec => []ContextInv
  BY InitContext, NextContext, TypeCorrect, PTL DEF Spec
<1>2. ContextInv => ContextExclusive
  BY DEF ContextInv
<1> QED
  BY <1>1, <1>2, PTL

-----------------------------------------------------------------------------
\* The breaker.

\* The map's breaker is the last one made; a request that is about to make one
\* found none.  Once there is one, no request that passed the look-up turns
\* back, so a second one is made by another request of early.
BreakerInv ==
  /\ made \in Nat /\ bre = made
  /\ mine \in [Requests -> 0 .. made] /\ told \in [Requests -> 0 .. made]
  /\ early \subseteq Requests
  /\ \A r \in Requests : pc[r] = "create" => r \in early
  /\ made > 0 => \E r \in early : pc[r] # "create"
  /\ made > 1 => \E r, q \in early : r # q

LEMMA InitBreaker == Init => BreakerInv
  BY DEF Init, BreakerInv

\* A step that leaves the breakers alone and does not go to make one.
LEMMA BreakerKept ==
  ASSUME NEW r \in Requests, TypeOK, BreakerInv, Moved(r), UNCHANGED breakerVars,
         pc'[r] = "create" => pc[r] = "create"
  PROVE  BreakerInv'
<1>1. \A q \in Requests : pc'[q] = "create" => pc[q] = "create"
  BY DEF TypeOK, Moved
<1> QED
  BY <1>1 DEF BreakerInv, breakerVars

LEMMA StepBreaker ==
  ASSUME NEW r \in Requests, TypeOK, BreakerInv, Step(r)
  PROVE  BreakerInv'
<1>0. Moved(r)
  BY StepMoves
<1>1. CASE FrontEnd(r) \/ Router(r)
  <2>1. UNCHANGED breakerVars
    BY <1>1 DEF FrontEnd, Enter, Handlers, Bind, Timeout, Reply, Result, Encode, Router,
                EnterRouter, Leave, Unrecovered
  <2>2. pc'[r] = "create" => pc[r] = "create"
    <3> USE DEF TypeOK, GoTo
    <3>1. CASE Handlers(r)
      BY <3>1 DEF Handlers, MaxBytes, Gunzip, CORS, BuildRequestID, Refuse
    <3>2. CASE Result(r) \/ Reply(r) \/ Timeout(r)
      BY <3>2 DEF Result, Reply, Timeout
    <3>3. CASE Encode(r)
      <4>1. \E phase \in {"leave", "panic"} : pc' = [pc EXCEPT ![r] = phase]
        BY <3>3, ZenonT(30) DEF Encode
      <4> QED
        BY <4>1
    <3>4. CASE Enter(r) \/ Bind(r) \/ Router(r)
      BY <3>4 DEF Enter, Bind, Router, EnterRouter, Leave, Unrecovered
    <3> QED
      BY <1>1, <3>1, <3>2, <3>3, <3>4 DEF FrontEnd
  <2> QED
    BY <1>0, <2>1, <2>2, BreakerKept
<1>2. CASE Plainly(r) \/ Limits(r) \/ Sentinels(r) \/ Unwind(r)
  <2>1. UNCHANGED breakerVars
    BY <1>2 DEF Plainly, ObserverDown, ObserverUp, Inner, Metadata, Handler, Limits,
                PassShedding, PassUse, PassBack, LimitUp, Sentinels, SentinelDown,
                SentinelUp, Unwind
  <2>2. pc'[r] = "create" => pc[r] = "create"
    BY <1>2 DEF TypeOK, Plainly, ObserverDown, ObserverUp, Inner, Validate, Authorize,
                ServerAuthZ, ServerTraceID, Ray, Stat, Recovery, Metadata, Handler, Limits,
                PassShedding, PassUse, PassBack, LimitUp, Sentinels, SentinelDown,
                SentinelUp, Unwind, Pass, Return, GoTo
  <2> QED
    BY <1>0, <2>1, <2>2, BreakerKept
<1>3. CASE Fetch(r)
  <2>1. CASE bre # 0
    <3>1. pc'[r] # "create" /\ UNCHANGED <<bre, made, early>> /\ pc'[r] \in {"down", "up"}
      BY <1>3, <2>1 DEF Fetch, Allow, Pass, Return, TypeOK
    <3>2. mine' \in [Requests -> 0 .. made] /\ told' \in [Requests -> 0 .. made]
      BY <1>3, <2>1 DEF Fetch, Allow, BreakerInv
    <3>3. \A q \in Requests : pc'[q] = "create" => pc[q] = "create"
      BY <1>0, <3>1 DEF TypeOK, Moved
    <3> QED
      BY <3>1, <3>2, <3>3 DEF BreakerInv
  <2>2. CASE bre = 0
    <3>1. UNCHANGED <<bre, made, mine, told>> /\ early' = early \union {r}
      BY <1>3, <2>2 DEF Fetch
    <3>2. \A q \in Requests : pc'[q] = "create" => (pc[q] = "create" \/ q = r)
      BY <1>0 DEF TypeOK, Moved
    <3>3. made = 0 /\ made' = 0
      BY <2>2, <3>1 DEF BreakerInv
    <3>4. (\A q \in Requests : pc[q] = "create" => q \in early)'
      BY <3>1, <3>2 DEF BreakerInv
    <3> QED
      BY <3>1, <3>3, <3>4 DEF BreakerInv
  <2> QED
    BY <2>1, <2>2
<1>4. CASE FetchCreate(r)
  <2>1. pc[r] = "create" /\ pc'[r] # "create" /\ early' = early
        /\ made' = made + 1 /\ bre' = made + 1
    BY <1>4 DEF FetchCreate, Allow, Pass, Return, TypeOK
  <2>2. mine' \in [Requests -> 0 .. made + 1] /\ told' \in [Requests -> 0 .. made + 1]
    <3>1. mine \in [Requests -> 0 .. made + 1] /\ told \in [Requests -> 0 .. made + 1]
          /\ made + 1 \in 0 .. made + 1
      BY DEF BreakerInv
    <3> QED
      BY <1>4, <3>1 DEF FetchCreate, Allow
  <2>3. \A q \in Requests : pc'[q] = "create" => pc[q] = "create"
    BY <1>0, <2>1 DEF TypeOK, Moved
  <2>4. made > 0 => \E q \in early : q # r
    BY <2>1 DEF BreakerInv
  <2> QED
    BY <2>1, <2>2, <2>3, <2>4 DEF BreakerInv
<1>5. CASE BreakerUp(r)
  <2>1. pc'[r] # "create" /\ UNCHANGED <<bre, made, mine, early>>
    BY <1>5 DEF BreakerUp, Return, TypeOK
  <2>2. told' \in [Requests -> 0 .. made]
    BY <1>5 DEF BreakerUp, BreakerInv
  <2>3. \A q \in Requests : pc'[q] = "create" => pc[q] = "create"
    BY <1>0, <2>1 DEF TypeOK, Moved
  <2> QED
    BY <2>1, <2>2, <2>3 DEF BreakerInv
<1> QED
  BY <1>1, <1>2, <1>3, <1>4, <1>5 DEF Step, Breaks

LEMMA NextBreaker == TypeOK /\ BreakerInv /\ [Next]_vars => BreakerInv'
<1>1. CASE UNCHANGED vars
  BY <1>1 DEF vars, breakerVars, BreakerInv
<1> QED
  BY <1>1, NextSteps, StepBreaker

\* A set with two elements counts more than one.
LEMMA TwoElements ==
  ASSUME NEW S, IsFiniteSet(S), NEW x \in S, NEW y \in S, x # y
  PROVE  Cardinality(S) > 1
<1>1. Cardinality({x}) = 1 /\ IsFiniteSet({x})
  BY FS_Singleton
<1>2. Cardinality({x} \union {y}) = 2
  BY <1>1, FS_AddElement
<1>3. Cardinality({x} \union {y}) <= Cardinality(S)
  BY FS_Subset
<1> QED
  BY <1>2, <1>3, FS_CardinalityType

\* However many requests call the operation, a failure reported to its breaker
\* is forgotten only if at least two of them found the map empty.
THEOREM BreakerForgets == Spec => []ForgetsOnlyEarly
<1>1. Spec => []BreakerInv
  BY InitBreaker, NextBreaker, TypeCorrect, PTL DEF Spec
<1>2. BreakerInv => ForgetsOnlyEarly
  <2> SUFFICES ASSUME BreakerInv, NEW r \in Requests, told[r] \notin {0, bre}
               PROVE  Cardinality(early) > 1
    BY DEF ForgetsOnlyEarly
  <2>1. made > 1
    BY DEF BreakerInv
  <2>2. IsFiniteSet(early)
    BY CallAssumption, FS_Subset DEF BreakerInv
  <2> QED
    BY <2>1, <2>2, TwoElements DEF BreakerInv
<1> QED
  BY <1>1, <1>2, PTL

-----------------------------------------------------------------------------
\* The limiter's slots and Sentinel's entries.

\* The frames that request r has entered and not left are the first of these.
Entered(r) == IF pc[r] \in {"down", "create", "back"} THEN pos[r] - 1 ELSE pos[r]

\* They are frames of the chain.
DepthOK(r) ==
  /\ pc[r] \in {"down", "up", "panic"} => Entered(r) <= Len(chain)
  /\ pc[r] \in {"create", "back"} => pos[r] <= Len(chain)

\* Request r is inside a frame m.
Inside(r, m) == \E i \in 1 .. Len(chain) : i <= Entered(r) /\ chain[i] = m

\* A panic of r meets Recovery before it reaches the limiter.
WillRecover(r) ==
  \E i, j \in 1 .. Len(chain) :
    i < j /\ j <= pos[r] /\ chain[i] = "limit" /\ chain[j] = "recovery"

\* A request has a slot only inside the limiter, unless a panic that nobody
\* recovers has taken it out.
SlotOK(r) ==
  r \in slots =>
    \/ pc[r] \in {"down", "create", "back", "up"} /\ Inside(r, "limit")
    \/ pc[r] = "panic" /\ WillRecover(r)
    \/ pc[r] \in {"panic", "aborted"} /\ "recovery" \notin Range(chain)

\* A request has an entry only inside Sentinel.
EntryOK(r) ==
  r \in entries =>
    pc[r] \in {"down", "create", "back", "up", "panic"} /\ Inside(r, "sentinel")

DepthInv ==
  /\ slots \subseteq Requests /\ entries \subseteq Requests
  /\ \A r \in Requests : DepthOK(r) /\ (pc[r] = "back" => chain[pos[r]] = "limit")

SlotInv ==
  /\ RecoveryInside(chain)
  /\ DepthInv
  /\ \A r \in Requests : SlotOK(r) /\ EntryOK(r)

\* The user's chains keep the limiter outside Recovery, as Enable's do.
CustomsRecoverInside == \A c \in Customs : RecoveryInside(c)

LEMMA InitDepth == Init => DepthInv
  BY DEF Init, DepthInv, DepthOK

LEMMA InitSlot == CustomsRecoverInside /\ Init => SlotInv
<1> SUFFICES ASSUME CustomsRecoverInside, Init
             PROVE  SlotInv
  OBVIOUS
<1>1. RecoveryInside(chain)
  <2>1. CASE chain \in Customs
    BY <2>1 DEF CustomsRecoverInside
  <2>2. ASSUME NEW m \in Masks, chain = Filter(Middlewares, m)
        PROVE  RecoveryInside(chain)
    BY <2>2, CallAssumption, MaskAssumption
  <2> QED
    BY <2>1, <2>2 DEF Init
<1> QED
  BY <1>1, InitDepth DEF Init, SlotInv, SlotOK, EntryOK

\* What a step of r does to the frames r is inside of: it stays in them, or
\* leaves the innermost one, on its way up or in a panic, or panics itself.
LEMMA FrameMoves ==
  ASSUME NEW r \in Requests, TypeOK,
         Plainly(r) \/ Breaks(r) \/ Limits(r) \/ Sentinels(r)
  PROVE  /\ pc[r] \in {"down", "create", "back", "up"}
         /\ \/ /\ pc'[r] \in {"down", "create", "back", "up"}
               /\ Entered(r)' >= Entered(r)
            \/ /\ pc[r] = "up" /\ pc'[r] = "up"
               /\ pos[r] > 0 /\ pos'[r] = pos[r] - 1
               /\ (chain[pos[r]] = "limit" => LimitUp(r))
               /\ (chain[pos[r]] = "sentinel" => SentinelUp(r))
            \/ /\ pc'[r] = "panic" /\ pos'[r] >= Entered(r)
               /\ (pos'[r] = Len(chain) \/ Metadata(r))
<1>0. pos \in [Requests -> Nat] /\ pc \in [Requests -> Phases] /\ Len(chain) \in Nat
  BY DEF TypeOK
<1> USE <1>0 DEF Entered, Pass, Return, GoTo, At, Leaves
<1>1. CASE Plainly(r)
  <2>1. ASSUME NEW o \in Observers, ObserverDown(r, o)
        PROVE  pc[r] = "down" /\ pc'[r] = "down" /\ pos'[r] = pos[r] + 1
    BY <2>1 DEF ObserverDown
  <2>2. ASSUME NEW o \in Observers, ObserverUp(r, o)
        PROVE  /\ pc[r] = "up" /\ pc'[r] = "up" /\ pos'[r] = pos[r] - 1 /\ pos[r] > 0
               /\ chain[pos[r]] \notin {"limit", "sentinel"}
    BY <2>2 DEF ObserverUp, Observers
  <2>3. ASSUME NEW m \in Passes, Leaves(r, m), Return(r, err[r])
        PROVE  /\ pc[r] = "up" /\ pc'[r] = "up" /\ pos'[r] = pos[r] - 1 /\ pos[r] > 0
               /\ chain[pos[r]] \notin {"limit", "sentinel"}
    BY <2>3 DEF Passes
  <2>4. CASE Inner(r) /\ pc[r] # "up"
    <3>1. /\ pc[r] = "down"
          /\ \/ pc'[r] = "down" /\ pos'[r] = pos[r] + 1
             \/ pc'[r] = "up" /\ pos'[r] = pos[r] - 1
      BY <2>4 DEF Inner, Validate, Authorize, ServerAuthZ, ServerTraceID, Ray, Stat, Recovery
    <3> QED
      BY <3>1
  <2>5. CASE Metadata(r)
    BY <2>5 DEF Metadata
  <2>6. CASE Handler(r)
    <3>1. /\ pc[r] = "down" /\ pos[r] = Len(chain) + 1 /\ pos'[r] = pos[r] - 1
          /\ pc'[r] \in {"up", "panic"}
      BY <2>6 DEF Handler
    <3> QED
      BY <3>1
  <2>7. CASE Inner(r) /\ pc[r] = "up"
    <3>1. \E m \in Passes : Leaves(r, m) /\ Return(r, err[r])
      BY <2>7 DEF Inner, Validate, Authorize, ServerAuthZ, ServerTraceID, Ray, Stat, Recovery
    <3> QED
      BY <3>1, <2>3
  <2> QED
    BY <1>1, <2>1, <2>2, <2>4, <2>5, <2>6, <2>7 DEF Plainly
<1>2. CASE Breaks(r)
  BY <1>2 DEF Breaks, Fetch, FetchCreate, BreakerUp, Allow, TypeOK
<1>3. CASE Limits(r)
  BY <1>3 DEF Limits, PassShedding, PassUse, PassBack, LimitUp, TypeOK
<1>4. CASE Sentinels(r)
  BY <1>4 DEF Sentinels, SentinelDown, SentinelUp, TypeOK
<1> QED
  BY <1>1, <1>2, <1>3, <1>4

\* Slots and entries are given at the frame they belong to, and to r only.
LEMMA SlotMoves ==
  ASSUME NEW r \in Requests, TypeOK, DepthInv, Step(r)
  PROVE  /\ \A q \in Requests \ {r} : (q \in slots' <=> q \in slots) /\ (q \in entries' <=> q \in entries)
         /\ slots' \subseteq Requests /\ entries' \subseteq Requests
         /\ (r \in slots' /\ r \notin slots) =>
              /\ pos[r] \in 1 .. Len(chain) /\ chain[pos[r]] = "limit"
              /\ pc'[r] = "down" /\ pos'[r] = pos[r] + 1
         /\ (r \in entries' /\ r \notin entries) =>
              /\ pos[r] \in 1 .. Len(chain) /\ chain[pos[r]] = "sentinel"
              /\ pc'[r] = "down" /\ pos'[r] = pos[r] + 1
         /\ pc'[r] = "back" => chain[pos'[r]] = "limit"
         /\ DepthOK(r)'
<1>0. /\ pos \in [Requests -> Nat] /\ pc \in [Requests -> Phases] /\ Len(chain) \in Nat
      /\ pc[r] \in {"down", "back"} => pos[r] > 0
      /\ slots \subseteq Requests /\ entries \subseteq Requests
      /\ pc[r] = "back" => chain[pos[r]] = "limit"
      /\ DepthOK(r)
  BY DEF TypeOK, DepthInv
<1> USE <1>0 DEF DepthOK, Entered, Pass, Return, GoTo, At, Leaves, limitVars, netVars
<1>1. CASE FrontEnd(r)
  <2>1. UNCHANGED limitVars
    BY <1>1 DEF FrontEnd, Enter, Handlers, Bind, Timeout, Reply, Result, Encode
  <2>2. CASE Handlers(r)
    BY <2>1, <2>2 DEF Handlers, MaxBytes, Gunzip, CORS, BuildRequestID, Refuse
  <2>3. CASE Encode(r)
    <3>1. \E phase \in {"leave", "panic"} : pc' = [pc EXCEPT ![r] = phase]
      BY <2>3, ZenonT(30) DEF Encode
    <3>2. pos'[r] = 0 /\ chain' = chain
      BY <2>3 DEF Encode
    <3> QED
      BY <2>1, <3>1, <3>2
  <2>4. CASE Enter(r) \/ Bind(r) \/ Timeout(r) \/ Reply(r) \/ Result(r)
    BY <2>1, <2>4 DEF Enter, Bind, Timeout, Reply, Result
  <2> QED
    BY <1>1, <2>2, <2>3, <2>4 DEF FrontEnd
<1>2. CASE Router(r)
  BY <1>2 DEF Router, EnterRouter, Leave, Unrecovered
<1>3. CASE Plainly(r)
  <2>1. UNCHANGED limitVars
    BY <1>3 DEF Plainly, ObserverDown, ObserverUp, Inner, Metadata, Handler
  <2>2. pc'[r] # "back"
    BY <1>3 DEF Plainly, ObserverDown, ObserverUp, Inner, Validate, Authorize, ServerAuthZ,
                ServerTraceID, Ray, Stat, Recovery, Metadata, Handler
  <2>3. DepthOK(r)'
    <3>1. ASSUME NEW o \in Observers, ObserverDown(r, o) \/ ObserverUp(r, o)
          PROVE  DepthOK(r)'
      BY <3>1 DEF ObserverDown, ObserverUp
    <3>2. CASE Inner(r)
      BY <3>2 DEF Inner, Validate, Authorize, ServerAuthZ, ServerTraceID, Ray, Stat, Recovery
    <3>3. CASE Metadata(r) \/ Handler(r)
      BY <3>3 DEF Metadata, Handler
    <3> QED
      BY <1>3, <3>1, <3>2, <3>3 DEF Plainly
  <2> QED
    BY <2>1, <2>2, <2>3
<1>4. CASE Breaks(r)
  BY <1>4 DEF Breaks, Fetch, FetchCreate, BreakerUp, Allow
<1>5. CASE Limits(r)
  BY <1>5 DEF Limits, PassShedding, PassUse, PassBack, LimitUp
<1>6. CASE Sentinels(r)
  BY <1>6 DEF Sentinels, SentinelDown, SentinelUp
<1>7. CASE Unwind(r)
  BY <1>7 DEF Unwind
<1> QED
  BY <1>1, <1>2, <1>3, <1>4, <1>5, <1>6, <1>7 DEF Step

LEMMA NextDepth == TypeOK /\ DepthInv /\ [Next]_vars => DepthInv'
<1> SUFFICES ASSUME TypeOK, DepthInv, [Next]_vars
             PROVE  DepthInv'
  OBVIOUS
<1>1. CASE UNCHANGED vars
  BY <1>1 DEF vars, netVars, limitVars, DepthInv, DepthOK, Entered
<1>2. ASSUME NEW r \in Requests, Step(r)
      PROVE  DepthInv'
  <2>1. chain' = chain /\ \A q \in Requests \ {r} : pc'[q] = pc[q] /\ pos'[q] = pos[q]
    BY <1>2, StepMoves DEF Moved, TypeOK
  <2>2. \A q \in Requests \ {r} : DepthOK(q)' /\ (pc[q] = "back" => chain[pos[q]] = "limit")'
    BY <2>1 DEF DepthInv, DepthOK, Entered
  <2> QED
    BY <1>2, <2>1, <2>2, SlotMoves DEF DepthInv
<1> QED
  BY <1>1, <1>2, NextSteps

\* A request is never deeper than its chain.
THEOREM DepthCorrect == Spec => []DepthInv
  BY InitDepth, NextDepth, TypeCorrect, PTL DEF Spec

\* Before and behind the chain a request has neither a slot nor an entry, and a
\* panic in the encoder finds none.
LEMMA FrontSlots ==
  ASSUME NEW r \in Requests, TypeOK, SlotInv, FrontEnd(r) \/ Router(r)
  PROVE  SlotOK(r)' /\ EntryOK(r)'
<1>1. Moved(r) /\ UNCHANGED <<slots, entries>>
  BY StepMoves DEF Step, FrontEnd, Enter, Handlers, Bind, Timeout, Reply, Result, Encode,
                   Router, EnterRouter, Leave, Unrecovered, limitVars
<1>2. CASE Timeout(r)
  BY <1>1, <1>2 DEF Timeout, SlotInv, SlotOK, EntryOK, Inside, Entered, WillRecover, netVars
<1>3. CASE Unrecovered(r)
  <2>1. pos[r] = 0 /\ pc[r] = "panic"
    BY <1>3 DEF Unrecovered
  <2>2. r \notin entries /\ (r \in slots => "recovery" \notin Range(chain))
    BY <2>1 DEF SlotInv, SlotOK, EntryOK, Inside, Entered, WillRecover
  <2>3. pc'[r] = "aborted"
    BY <1>3 DEF Unrecovered, GoTo, TypeOK
  <2> QED
    BY <1>1, <2>2, <2>3 DEF SlotOK, EntryOK, Moved
<1>4. CASE ~Timeout(r) /\ ~Unrecovered(r)
  <2>1. pc[r] \in {"new", "route", "bind", "encode", "leave"} \/ (pc[r] = "up" /\ pos[r] = 0)
    BY <1>4 DEF FrontEnd, Enter, Handlers, Bind, Reply, Result, Encode, Router, EnterRouter, Leave
  <2>2. r \notin slots /\ r \notin entries
    BY <2>1 DEF SlotInv, SlotOK, EntryOK, Inside, Entered
  <2> QED
    BY <1>1, <2>2 DEF SlotOK, EntryOK
<1> QED
  BY <1>2, <1>3, <1>4

\* A request in a frame, or at the handler, keeps what it has unless it leaves
\* the frame that gave it; a panic that begins inside the limiter begins inside
\* Recovery too.
LEMMA FrameSlots ==
  ASSUME NEW r \in Requests, TypeOK, SlotInv,
         Plainly(r) \/ Breaks(r) \/ Limits(r) \/ Sentinels(r)
  PROVE  SlotOK(r)' /\ EntryOK(r)'
<1>0. /\ pos \in [Requests -> Nat] /\ Len(chain) \in Nat /\ chain' = chain
      /\ pos'[r] \in Nat
  <2>1. Moved(r)
    BY StepMoves DEF Step
  <2> QED
    BY <2>1 DEF TypeOK, Moved
<1>1. /\ r \in slots => Inside(r, "limit")
      /\ r \in entries => Inside(r, "sentinel")
  BY FrameMoves DEF SlotInv, SlotOK, EntryOK
<1>2. ASSUME pos[r] \in 1 .. Len(chain), pc'[r] = "down", pos'[r] = pos[r] + 1
      PROVE  \A m \in {"limit", "sentinel"} :
               Inside(r, m) \/ chain[pos[r]] = m => Inside(r, m)'
  <2>1. Entered(r)' = pos[r] /\ Entered(r) <= pos[r] /\ Entered(r) \in Int
    BY <1>0, <1>2 DEF Entered
  <2> QED
    BY <1>0, <1>2, <2>1 DEF Inside
<1>3. DepthInv /\ Step(r)
  BY DEF SlotInv, Step
<1>4. CASE r \in slots' /\ r \notin slots
  <2>1. /\ pos[r] \in 1 .. Len(chain) /\ chain[pos[r]] = "limit"
        /\ pc'[r] = "down" /\ pos'[r] = pos[r] + 1
        /\ r \in entries' => r \in entries
    BY <1>3, <1>4, SlotMoves
  <2> QED
    BY <1>1, <1>2, <2>1 DEF SlotOK, EntryOK
<1>5. CASE r \in entries' /\ r \notin entries
  <2>1. /\ pos[r] \in 1 .. Len(chain) /\ chain[pos[r]] = "sentinel"
        /\ pc'[r] = "down" /\ pos'[r] = pos[r] + 1
        /\ r \in slots' => r \in slots
    BY <1>3, <1>5, SlotMoves
  <2> QED
    BY <1>1, <1>2, <2>1 DEF SlotOK, EntryOK
<1>6. CASE (r \in slots' => r \in slots) /\ (r \in entries' => r \in entries)
  <2>1. CASE pc'[r] \in {"down", "create", "back", "up"} /\ Entered(r)' >= Entered(r)
    <3>1. Entered(r) \in Int /\ Entered(r)' \in Int
      BY <1>0 DEF Entered
    <3>2. \A m \in {"limit", "sentinel"} : Inside(r, m) => Inside(r, m)'
      BY <1>0, <2>1, <3>1 DEF Inside
    <3> QED
      BY <1>1, <1>6, <2>1, <3>2 DEF SlotOK, EntryOK
  <2>2. CASE /\ pc[r] = "up" /\ pc'[r] = "up" /\ pos[r] > 0 /\ pos'[r] = pos[r] - 1
             /\ (chain[pos[r]] = "limit" => LimitUp(r))
             /\ (chain[pos[r]] = "sentinel" => SentinelUp(r))
    <3>1. chain[pos[r]] = "limit" => r \notin slots'
      BY <2>2 DEF LimitUp
    <3>2. chain[pos[r]] = "sentinel" => r \notin entries'
      BY <2>2 DEF SentinelUp
    <3>3. \A m \in {"limit", "sentinel"} :
            Inside(r, m) /\ chain[pos[r]] # m => Inside(r, m)'
      BY <1>0, <2>2 DEF Inside, Entered
    <3> QED
      BY <1>1, <1>6, <2>2, <3>1, <3>2, <3>3 DEF SlotOK, EntryOK
  <2>3. CASE pc'[r] = "panic" /\ pos'[r] >= Entered(r) /\ (pos'[r] = Len(chain) \/ Metadata(r))
    <3>1. Inside(r, "sentinel") => Inside(r, "sentinel")'
      BY <1>0, <2>3 DEF Inside, Entered
    <3>2. ASSUME r \in slots, "recovery" \in Range(chain)
          PROVE  WillRecover(r)'
      <4>1. PICK i \in 1 .. Len(chain) : i <= Entered(r) /\ chain[i] = "limit"
        BY <3>2, <1>1 DEF Inside
      <4>2. PICK j \in i + 1 .. Len(chain) : /\ chain[j] = "recovery"
                                            /\ \A k \in i .. j : chain[k] # "metadata"
        BY <3>2, <4>1 DEF SlotInv, RecoveryInside
      <4>3. j <= pos'[r]
        <5>1. CASE pos'[r] = Len(chain)
          BY <5>1, <1>0
        <5>2. CASE Metadata(r)
          <6>1. chain[pos[r]] = "metadata" /\ pos'[r] = pos[r] /\ pc[r] = "down"
            BY <5>2 DEF Metadata, At
          <6>2. i < pos[r]
            BY <6>1, <4>1, <1>0 DEF Entered
          <6> QED
            BY <6>1, <6>2, <4>2, <1>0
        <5> QED
          BY <5>1, <5>2, <2>3
      <4> QED
        BY <4>1, <4>2, <4>3, <1>0 DEF WillRecover
    <3> QED
      BY <1>0, <1>1, <1>6, <2>3, <3>1, <3>2 DEF SlotOK, EntryOK
  <2> QED
    BY <2>1, <2>2, <2>3, FrameMoves
<1> QED
  BY <1>4, <1>5, <1>6

\* A panic leaves a frame: Sentinel takes its entry back, Recovery ends the
\* panic while the request is still inside the limiter.
LEMMA UnwindSlots ==
  ASSUME NEW r \in Requests, TypeOK, SlotInv, Unwind(r)
  PROVE  SlotOK(r)' /\ EntryOK(r)'
<1>0. /\ pos \in [Requests -> Nat] /\ Len(chain) \in Nat /\ chain' = chain /\ slots' = slots
      /\ pc[r] = "panic" /\ pos[r] > 0 /\ pos'[r] = pos[r] - 1
      /\ pc'[r] = (IF chain[pos[r]] = "recovery" THEN "up" ELSE "panic")
      /\ entries' = IF chain[pos[r]] = "sentinel" THEN entries \ {r} ELSE entries
  BY DEF TypeOK, Unwind, Return, netVars
<1>1. EntryOK(r)'
  BY <1>0 DEF SlotInv, EntryOK, Inside, Entered
<1>2. CASE chain[pos[r]] = "recovery" /\ r \in slots
  <2>1. pos[r] <= Len(chain)
    BY <1>0 DEF SlotInv, DepthInv, DepthOK, Entered
  <2>2. "recovery" \in Range(chain)
    BY <1>0, <1>2, <2>1 DEF Range, TypeOK
  <2>3. WillRecover(r)
    BY <1>0, <1>2, <2>2 DEF SlotInv, SlotOK
  <2> QED
    BY <1>0, <1>1, <1>2, <2>3 DEF SlotOK, WillRecover, Inside, Entered
<1>3. CASE chain[pos[r]] # "recovery" /\ r \in slots
  <2>1. WillRecover(r) => WillRecover(r)'
    BY <1>0, <1>3 DEF WillRecover
  <2> QED
    BY <1>0, <1>1, <1>3, <2>1 DEF SlotInv, SlotOK
<1> QED
  BY <1>0, <1>1, <1>2, <1>3 DEF SlotOK

LEMMA StepSlot ==
  ASSUME NEW r \in Requests, TypeOK, SlotInv, Step(r), DepthInv'
  PROVE  SlotInv'
<1>1. chain' = chain /\ \A q \in Requests \ {r} : pc'[q] = pc[q] /\ pos'[q] = pos[q]
  BY StepMoves DEF Moved, TypeOK
<1>2. SlotOK(r)' /\ EntryOK(r)'
  BY FrontSlots, FrameSlots, UnwindSlots DEF Step
<1>3. ASSUME NEW q \in Requests \ {r}
      PROVE  SlotOK(q)' /\ EntryOK(q)'
  <2>1. (q \in slots' <=> q \in slots) /\ (q \in entries' <=> q \in entries)
    BY SlotMoves DEF SlotInv
  <2> QED
    BY <1>1, <2>1 DEF SlotInv, SlotOK, EntryOK, Inside, Entered, WillRecover
<1>4. RecoveryInside(chain)'
  BY <1>1 DEF SlotInv, RecoveryInside
<1> QED
  BY <1>2, <1>3, <1>4 DEF SlotInv

LEMMA NextSlot == TypeOK /\ SlotInv /\ [Next]_vars => SlotInv'
<1> SUFFICES ASSUME TypeOK, SlotInv, [Next]_vars
             PROVE  SlotInv'
  OBVIOUS
<1>1. DepthInv'
  BY NextDepth DEF SlotInv
<1>2. CASE UNCHANGED vars
  BY <1>1, <1>2 DEF vars, netVars, limitVars, SlotInv, SlotOK, EntryOK, Inside, Entered,
                    WillRecover, RecoveryInside
<1> QED
  BY <1>1, <1>2, NextSteps, StepSlot

\* For any mask of Enable, any chains of the user's that recover inside the
\* limiter, and any number of requests: the limiter and Sentinel learn the end
\* of every request they let pass; only a panic without Recovery keeps a slot.
THEOREM SlotsComeBack == CustomsRecoverInside => (Spec => []SlotsReturned)
<1> SUFFICES ASSUME CustomsRecoverInside
             PROVE  Spec => []SlotsReturned
  OBVIOUS
<1>1. Init => SlotInv
  BY InitSlot
<1>2. Spec => []SlotInv
  BY <1>1, NextSlot, TypeCorrect, PTL DEF Spec
<1>3. SlotInv => SlotsReturned
  BY DEF SlotInv, DepthInv, SlotOK, EntryOK, SlotsReturned
<1> QED
  BY <1>2, <1>3, PTL

-----------------------------------------------------------------------------
\* Error codes.

\* The tables of both directions are inverse on what is no success, and no
\* error becomes a success on a grpc connection.
LEMMA GrpcRoundTrip ==
  ASSUME NEW e \in Errs
  PROVE  /\ e \in 300 .. 999 => GrpcClient(e) = e
         /\ GrpcClient(e) = NoErr => e \in {NoErr, Swallowed}
<1>1. e \in Int /\ (e \in Nat \/ e \in {NoErr, Plain, Marshal, Swallowed})
  BY CallAssumption DEF Errs, NoErr, Plain, Marshal, Swallowed
<1>2. ASSUME e \in 300 .. 999
      PROVE  GrpcClient(e) = e
  <2>1. CASE \E t \in Table : t[1] = e
    <3>1. PICK t \in Table : t[1] = e
      BY <2>1
    <3>2. HTTPToGRPCCode(e) = t[2]
      BY <3>1, TableFacts DEF HTTPToGRPCCode
    <3>3. t[2] # OK /\ t[2] \notin {2, 6, 9, 11, 15}
      BY <3>1, <1>2, TableFacts DEF OK
    <3>4. GRPCToHTTPCode(t[2]) = e
      <4>1. (CHOOSE u \in Table : u[2] = t[2]) = t
        BY TableFacts
      <4> QED
        BY <4>1, <3>1, <3>3 DEF GRPCToHTTPCode
    <3> QED
      BY <1>2, <3>2, <3>3, <3>4 DEF GrpcClient, Status, NoErr, Swallowed, Plain, Marshal
  <2>2. CASE ~ \E t \in Table : t[1] = e
    <3>1. HTTPToGRPCCode(e) = e
      BY <2>2 DEF HTTPToGRPCCode
    <3>2. ~ \E t \in Table : t[2] = e
      BY <1>2, TableFacts
    <3>3. GRPCToHTTPCode(e) = e
      BY <1>2, <3>2 DEF GRPCToHTTPCode
    <3> QED
      BY <1>2, <3>1, <3>3 DEF GrpcClient, Status, OK, NoErr, Swallowed, Plain, Marshal
  <2> QED
    BY <2>1, <2>2
<1>3. ASSUME e \notin {NoErr, Swallowed}
      PROVE  GrpcClient(e) # NoErr
  <2>1. \A c \in Nat : HTTPToGRPCCode(c) \in Nat /\ GRPCToHTTPCode(c) \in Nat
    BY TableFacts DEF HTTPToGRPCCode, GRPCToHTTPCode
  <2>2. Status(e) \in Nat
    BY <1>1, <1>3, <2>1 DEF Status, Unknown
  <2> QED
    BY <1>3, <2>1, <2>2 DEF GrpcClient, NoErr
<1> QED
  BY <1>2, <1>3

\* The codes that http sends with a status of success.
Successes == {0, 100} \union (102 .. 299)

\* The same of an http answer, where these codes are successes.
LEMMA HttpRoundTrip ==
  ASSUME NEW e \in Errs
  PROVE  /\ e \in 300 .. 999 => HttpClient(Code(e)) = e
         /\ HttpClient(Code(e)) = NoErr => e \in {NoErr, Swallowed} \/ e \in Successes
<1>1. e \in Int /\ (e \in Nat \/ e \in {NoErr, Plain, Marshal, Swallowed})
  BY CallAssumption DEF Errs, NoErr, Plain, Marshal, Swallowed
<1> QED
  BY <1>1 DEF HttpClient, Sent, Successes, Code, NoErr, Plain, Marshal, Swallowed

\* What the client of r has, if anything, fits the error that r carries.
Fits(r) ==
  \/ got[r] \in {TimedOut, Plain}
     /\ (got[r] = Plain => err[r] \in {NoErr, Swallowed})
  \/ /\ err[r] \in 300 .. 999 => got[r] = err[r]
     /\ got[r] = NoErr => \/ err[r] = NoErr
                          \/ err[r] = Swallowed /\ (kind = "grpc" \/ r \in replied)
                          \/ kind = "http" /\ err[r] \in Successes

\* The answer is what the last step before "end" made of the error, and the
\* only frame that swallows one is Sentinel.
CodeOK(r) ==
  /\ pc[r] \in {"leave", "end"} => Fits(r)
  /\ err[r] = Swallowed => "sentinel" \in Range(chain)
  /\ pc[r] \in {"route", "bind", "encode", "leave"} => kind = "http"
  /\ pc[r] = "encode" => err[r] \notin {NoErr, Swallowed}

CodeInv == \A r \in Requests : CodeOK(r)

LEMMA InitCode == Init => CodeInv
  BY DEF Init, CodeInv, CodeOK, NoErr, Swallowed

\* The steps that answer the client.
LEMMA AnswerCode ==
  ASSUME NEW r \in Requests, TypeOK, CodeOK(r), Step(r), FrontEnd(r)
  PROVE  CodeOK(r)'
<1>0. /\ pc \in [Requests -> Phases] /\ got \in [Requests -> Int] /\ err \in [Requests -> Errs]
      /\ err[r] \in Errs /\ kind' = kind /\ chain' = chain
  BY StepMoves DEF TypeOK, Moved
<1>c. /\ NoErr = -1 /\ Plain = -2 /\ Marshal = -3 /\ Swallowed = -7 /\ TimedOut = -8 /\ Absent = -4
  BY DEF NoErr, Plain, Marshal, Swallowed, TimedOut, Absent
<1> USE <1>0 DEF GoTo
<1>1. CASE Enter(r)
  BY <1>1 DEF Enter, CodeOK
<1>2. CASE Handlers(r)
  <2>1. kind = "http" /\ pc[r] = "new"
    BY <1>2 DEF Handlers
  <2>2. CASE BuildRequestID(r)
    BY <2>1, <2>2 DEF BuildRequestID, CodeOK
  <2>3. ASSUME NEW e \in {413, 400, NoErr}, Refuse(r, e)
        PROVE  CodeOK(r)'
    <3>1. e \in Errs
      BY DEF Errs
    <3>2. err'[r] = e /\ pc'[r] = "end" /\ got'[r] \in {TimedOut, HttpClient(Code(e))}
      BY <2>3 DEF Refuse, Answer
    <3> QED
      BY <3>1, <3>2, <2>1, <1>c, HttpRoundTrip DEF CodeOK, Fits
  <2> QED
    BY <1>2, <2>2, <2>3 DEF Handlers, MaxBytes, Gunzip, CORS
<1>3. CASE Bind(r)
  BY <1>3, <1>c DEF Bind, CodeOK
<1>4. CASE Timeout(r)
  <2>1. got'[r] = TimedOut /\ UNCHANGED <<pc, err>>
    BY <1>4 DEF Timeout
  <2> QED
    BY <2>1, <1>c DEF CodeOK, Fits
<1>5. CASE Reply(r)
  <2>1. /\ got'[r] \in {TimedOut, GrpcClient(err[r])} /\ UNCHANGED err /\ pc'[r] = "end"
    BY <1>5 DEF Reply, Answer
  <2> QED
    BY <1>5, <2>1, <1>c, GrpcRoundTrip DEF CodeOK, Fits, Reply
<1>6. CASE Result(r)
  <2>1. kind = "http"
    BY <1>6 DEF Result
  <2>2. CASE pc'[r] = "leave"
    <3>1. err[r] \in {NoErr, Swallowed} /\ r \in replied /\ UNCHANGED <<err, replied>>
      BY <1>6, <2>2 DEF Result
    <3>2. got'[r] \in {TimedOut, NoErr, Plain}
      BY <1>6, <2>2, ClientInt DEF Result, Answer
    <3> QED
      BY <2>1, <2>2, <3>1, <3>2, <1>c DEF CodeOK, Fits
  <2>3. CASE pc'[r] # "leave"
    <3>1. \/ pc'[r] = "panic" /\ err'[r] = err[r]
          \/ pc'[r] = "encode" /\ err[r] \notin {NoErr, Swallowed} /\ err'[r] = err[r]
          \/ pc'[r] = "encode" /\ err'[r] = Marshal
      BY <1>6, <2>3 DEF Result
    <3> QED
      BY <2>1, <3>1, <1>c DEF CodeOK
  <2> QED
    BY <2>2, <2>3
<1>7. CASE Encode(r)
  <2>1. /\ UNCHANGED err /\ pc[r] = "encode"
        /\ \/ pc'[r] = "leave" /\ got'[r] \in {TimedOut, HttpClient(Code(err[r]))}
           \/ pc'[r] = "panic"
    BY <1>7 DEF Encode, Answer
  <2> QED
    BY <2>1, <1>c, HttpRoundTrip DEF CodeOK, Fits
<1> QED
  BY <1>1, <1>2, <1>3, <1>4, <1>5, <1>6, <1>7 DEF FrontEnd

LEMMA OwnCode ==
  ASSUME NEW r \in Requests, TypeOK, DepthInv, CodeOK(r), Step(r)
  PROVE  CodeOK(r)'
<1>0. /\ pc \in [Requests -> Phases] /\ got \in [Requests -> Int] /\ err \in [Requests -> Errs]
      /\ kind' = kind /\ chain' = chain
  BY StepMoves DEF TypeOK, Moved
<1>c. /\ NoErr = -1 /\ Plain = -2 /\ Marshal = -3 /\ Swallowed = -7 /\ Codes \subseteq Nat
  BY CallAssumption DEF NoErr, Plain, Marshal, Swallowed
<1>1. CASE FrontEnd(r)
  BY <1>0, <1>1, AnswerCode
<1>2. CASE Router(r)
  <2>1. /\ UNCHANGED err
        /\ \/ pc[r] = "route" /\ pc'[r] = "bind"
           \/ pc[r] = "leave" /\ pc'[r] = "end" /\ UNCHANGED <<got, replied>>
           \/ pc'[r] = "aborted"
    BY <1>0, <1>2 DEF Router, EnterRouter, Leave, Unrecovered, GoTo
  <2> QED
    BY <1>0, <2>1 DEF CodeOK, Fits
<1>3. CASE Plainly(r) \/ Breaks(r) \/ Limits(r) \/ SentinelDown(r) \/ Unwind(r)
  <2>1. pc'[r] \in {"down", "create", "back", "up", "panic"}
    BY <1>3, <1>0, FrameMoves DEF Sentinels, Unwind, Return
  <2>2. err'[r] \in {err[r], NoErr, Plain, 400, 401, 429, 503} \union Codes
    <3> USE <1>0 DEF Pass, Return
    <3>1. CASE Plainly(r)
      BY <3>1 DEF Plainly, ObserverDown, ObserverUp, Inner, Validate, Authorize, ServerAuthZ,
                  ServerTraceID, Ray, Stat, Recovery, Metadata, Handler
    <3>2. CASE Breaks(r)
      BY <3>2 DEF Breaks, Fetch, FetchCreate, BreakerUp, Allow
    <3>3. CASE Limits(r)
      BY <3>3 DEF Limits, PassShedding, PassUse, PassBack, LimitUp
    <3>4. CASE SentinelDown(r) \/ Unwind(r)
      BY <3>4 DEF SentinelDown, Unwind
    <3> QED
      BY <1>3, <3>1, <3>2, <3>3, <3>4
  <2> QED
    BY <1>0, <1>c, <2>1, <2>2 DEF CodeOK
<1>4. CASE SentinelUp(r)
  <2>1. pc'[r] = "up" /\ chain[pos[r]] = "sentinel" /\ pos[r] > 0 /\ pc[r] = "up"
    BY <1>0, <1>4 DEF SentinelUp, Leaves, Return
  <2>2. pos[r] \in 1 .. Len(chain)
    BY <2>1 DEF DepthInv, DepthOK, Entered, TypeOK
  <2>3. "sentinel" \in Range(chain)
    BY <2>1, <2>2 DEF Range, TypeOK
  <2> QED
    BY <1>0, <2>1, <2>3 DEF CodeOK
<1> QED
  BY <1>1, <1>2, <1>3, <1>4 DEF Step, Sentinels

\* What the handler returned is not taken back.
LEMMA RepliedGrows == ASSUME NEW r \in Requests, Step(r) PROVE replied \subseteq replied'
<1>1. CASE Handler(r)
  BY <1>1 DEF Handler
<1>2. CASE ~Handler(r)
  <2>1. CASE FrontEnd(r) \/ Router(r) \/ Unwind(r)
    BY <2>1 DEF FrontEnd, Enter, Handlers, Bind, Timeout, Reply, Result, Encode, Router,
                EnterRouter, Leave, Unrecovered, Unwind
  <2>2. CASE Plainly(r)
    BY <1>2, <2>2 DEF Plainly, ObserverDown, ObserverUp, Inner, Metadata
  <2>3. CASE Breaks(r) \/ Limits(r) \/ Sentinels(r)
    BY <2>3 DEF Breaks, Fetch, FetchCreate, BreakerUp, Limits, PassShedding, PassUse, PassBack,
                LimitUp, Sentinels, SentinelDown, SentinelUp
  <2> QED
    BY <2>1, <2>2, <2>3 DEF Step
<1> QED
  BY <1>1, <1>2

LEMMA StepCode ==
  ASSUME NEW r \in Requests, TypeOK, DepthInv, CodeInv, Step(r)
  PROVE  CodeInv'
<1>1. CodeOK(r)'
  BY OwnCode DEF CodeInv
<1>2. ASSUME NEW q \in Requests \ {r}
      PROVE  CodeOK(q)'
  <2>1. /\ pc'[q] = pc[q] /\ err'[q] = err[q] /\ got'[q] = got[q]
        /\ UNCHANGED <<kind, chain>>
    BY StepMoves, ZenonT(30) DEF Moved, TypeOK
  <2>2. replied \subseteq replied'
    BY RepliedGrows
  <2> QED
    BY <2>1, <2>2 DEF CodeInv, CodeOK, Fits
<1> QED
  BY <1>1, <1>2 DEF CodeInv

LEMMA NextCode == TypeOK /\ DepthInv /\ CodeInv /\ [Next]_vars => CodeInv'
<1>1. CASE UNCHANGED vars
  BY <1>1 DEF vars, netVars, CodeInv, CodeOK, Fits
<1> QED
  BY <1>1, NextSteps, StepCode

\* For any error codes and any chain, on both transports: an error with an http
\* status that is no success reaches the client with its code; only the codes
\* that http sends with a 2xx (0, informational ones and 2xx) and what Sentinel
\* swallows, over http of the handler's errors, look like a success.
THEOREM CodesCarried == Spec => []CodeCarried
<1>1. Spec => []CodeInv
  BY InitCode, NextCode, TypeCorrect, DepthCorrect, PTL DEF Spec
<1>2. TypeOK /\ CodeInv => CodeCarried
  <2> SUFFICES ASSUME TypeOK, CodeInv, NEW r \in Requests, pc[r] = "end"
               PROVE  /\ err[r] \in 300 .. 999 => got[r] \in {err[r], TimedOut}
                      /\ got[r] = NoErr =>
                           \/ err[r] = NoErr
                           \/ kind = "http" /\ err[r] \in {0, 100} \union (102 .. 299)
                           \/ /\ err[r] = Swallowed /\ "sentinel" \in Range(chain)
                              /\ kind = "grpc" \/ r \in replied
    BY DEF CodeCarried
  <2>1. Fits(r) /\ (err[r] = Swallowed => "sentinel" \in Range(chain))
    BY DEF CodeInv, CodeOK
  <2>2. NoErr = -1 /\ Plain = -2 /\ Swallowed = -7 /\ TimedOut = -8
    BY DEF NoErr, Plain, Swallowed, TimedOut
  <2>3. err[r] \in 300 .. 999 => got[r] \in {err[r], TimedOut}
    BY <2>1, <2>2 DEF Fits
  <2>4. ASSUME got[r] = NoErr
        PROVE  \/ err[r] = NoErr
               \/ kind = "http" /\ err[r] \in {0, 100} \union (102 .. 299)
               \/ /\ err[r] = Swallowed /\ "sentinel" \in Range(chain)
                  /\ kind = "grpc" \/ r \in replied
    BY <2>1, <2>2, <2>4 DEF Fits, Successes
  <2> QED
    BY <2>3, <2>4
<1> QED
  BY <1>1, <1>2, TypeCorrect, PTL

=============================================================================
