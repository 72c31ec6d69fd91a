----------------------------- MODULE ServerCall -----------------------------
(***************************************************************************)
(* One operation of a server, http or grpc, called by several requests at  *)
(* once: the http handlers, the router's pool of contexts, binding, the    *)
(* middleware chain that Enable selects or the user gives, the handler,    *)
(* and the way its error takes to a client that may have given up.  A      *)
(* middleware is a frame: a request goes down through the frames of the    *)
(* chain, and comes up again with a result or unwinds with a panic.        *)
(***************************************************************************)
EXTENDS Integers, Sequences, FiniteSets, Functions, SequencesExt

CONSTANTS
  Requests,   \* calls of one operation
  Masks,      \* values of Enable, as sets of bit numbers
  Customs,    \* chains given with the option Middlewares
  Codes,      \* codes of the errors that handlers return
  Contexts,   \* Context objects, those the pool may make included
  NoContext,
  Conn        \* mc.conn

\* The middlewares in the order of NewServer.
Middlewares == <<"trace", "log", "metrics", "breaker", "limit", "recovery", "validate">>
Observers == {"trace", "log", "metrics"}
\* Others that a user may put into a chain.
Others == {"sentinel", "auth", "authz", "traceid", "ray", "stat", "metadata"}

ASSUME CallAssumption ==
  /\ \A m \in Masks : m \subseteq 0 .. Len(Middlewares) - 1
  /\ Customs \subseteq Seq(Range(Middlewares) \union Others)
  /\ Codes \subseteq Nat /\ Conn \in Nat \ {0} /\ NoContext \notin Contexts
  /\ IsFiniteSet(Requests) /\ Cardinality(Contexts) >= Cardinality(Requests)

\* Errors are their codes, or one of these.
NoErr == -1    \* nil
Plain == -2    \* an error that is not an errors.Error
Marshal == -3  \* the same, from the response encoder
\* What an observer may have instead of a code.
Absent == -4
Open == -5
Ended == -6    \* a span that a panic ended; a duration for the histogram
Swallowed == -7  \* nil, in the place of an error
TimedOut == -8   \* the client gave up

VARIABLES
  kind,      \* transport: "http" or "grpc"
  limiter,   \* what limit was given: "shedding" or "maxconn"
  chain,     \* s.mws
  pc, pos,   \* per request: phase, and the frame it is in
  err,       \* per request: the error it carries
  got,       \* per request: what its client makes of the answer
  seen,      \* per request and observer: the code it recorded
  held,      \* per request: its Context
  pool,      \* Contexts in the pool
  creq,      \* per Context: its c.req, as the set of that request
  slots,     \* requests that passed the limiter and have not told it the end
  used,      \* length of MaxConn's pool.worker
  bre,       \* the breaker in the map, 0 for none
  made,      \* breakers made so far
  mine,      \* per request: the breaker it fetched
  told,      \* per request: the breaker it reported a failure to, or 0
  early,     \* history: requests that found no breaker
  entries,   \* requests with an open sentinel entry
  crashed,   \* a panic left a grpc handler
  replied    \* requests whose response is a *Reply, nil or not: the handler's

netVars == <<kind, limiter, chain>>
poolVars == <<held, pool, creq>>
limitVars == <<slots, used, entries>>
breakerVars == <<bre, made, mine, told, early>>
vars == <<netVars, pc, pos, err, got, seen, poolVars, limitVars, breakerVars, crashed, replied>>

\* utils.Filter: the elements whose bits are set, low to high.
Filter(ss, bits) ==
  LET ix == SetToSortSeq(bits, <) IN [i \in 1 .. Len(ix) |-> ss[ix[i] + 1]]

\* A panic inside a limiter is recovered inside it, where Recovery is used.
RecoveryInside(c) ==
  \A i \in 1 .. Len(c) : c[i] = "limit" =>
    \/ "recovery" \notin Range(c)
    \/ \E j \in i + 1 .. Len(c) : /\ c[j] = "recovery"
                                 /\ \A k \in i .. j : c[k] # "metadata"

\* What Filter makes of any mask whatsoever (no constant of the model occurs).
ASSUME MaskAssumption ==
  \A bits \in SUBSET (0 .. Len(Middlewares) - 1) :
    /\ Filter(Middlewares, bits) \in Seq(Range(Middlewares))
    /\ RecoveryInside(Filter(Middlewares, bits))

Init ==
  /\ kind \in {"http", "grpc"}
  /\ limiter \in {"shedding", "maxconn"}
  /\ chain \in {Filter(Middlewares, m) : m \in Masks} \union Customs
  /\ pc = [r \in Requests |-> "new"] /\ pos = [r \in Requests |-> 0]
  /\ err = [r \in Requests |-> NoErr] /\ got = [r \in Requests |-> Absent]
  /\ seen = [r \in Requests |-> [o \in Observers |-> Absent]]
  /\ held = [r \in Requests |-> NoContext]
  /\ pool = {} /\ creq = [c \in Contexts |-> {}]
  /\ slots = {} /\ used = 0 /\ entries = {}
  /\ bre = 0 /\ made = 0 /\ early = {} /\ crashed = FALSE /\ replied = {}
  /\ mine = [r \in Requests |-> 0] /\ told = [r \in Requests |-> 0]

-----------------------------------------------------------------------------
\* Error codes.

OK == 0
Unknown == 2

\* errors.FromError: the code of any error, and 200 for none.
Code(e) == IF e \in {NoErr, Swallowed} THEN 200 ELSE IF e \in {Plain, Marshal} THEN 600 ELSE e

Table == \* http and grpc codes that stand for each other
  {<<200, 0>>, <<499, 1>>, <<400, 3>>, <<504, 4>>, <<404, 5>>, <<403, 7>>, <<429, 8>>,
   <<409, 10>>, <<501, 12>>, <<500, 13>>, <<503, 14>>, <<401, 16>>}

\* Fault: unavailable is sent as internal.
UnavailableAsInternal(c) ==
  IF c = 503 THEN 13 ELSE IF \E t \in Table : t[1] = c THEN (CHOOSE t \in Table : t[1] = c)[2] ELSE c

HTTPToGRPCCode(c) ==
  IF \E t \in Table : t[1] = c THEN (CHOOSE t \in Table : t[1] = c)[2] ELSE c

GRPCToHTTPCode(g) ==
  CASE g = 2 -> 500      \* Unknown
    [] g = 6 -> 409      \* AlreadyExists
    [] g = 9 -> 400      \* FailedPrecondition
    [] g = 11 -> 400     \* OutOfRange
    [] g = 15 -> 500     \* DataLoss
    [] OTHER -> IF \E t \in Table : t[2] = g THEN (CHOOSE t \in Table : t[2] = g)[1] ELSE g

\* The status grpc sends for an error: that of GRPCStatus, which is nil for an
\* OK code, or Unknown where there is none.
Status(e) ==
  IF e \in {Plain, Marshal} THEN Unknown
  ELSE IF HTTPToGRPCCode(e) = OK THEN Unknown ELSE HTTPToGRPCCode(e)

\* The status http sends for a code: gin's writer ignores 0, and net/http sends
\* those from 100 to 199, but 101, ahead of a 200 of its own.
Sent(code) == IF code \in {0, 100} \union (102 .. 199) THEN 200 ELSE code

\* What the clients make of it: FromError of the status, where a nil response
\* arrives as an empty message; and errDecoder.
GrpcClient(e) == IF e \in {NoErr, Swallowed} THEN NoErr ELSE GRPCToHTTPCode(Status(e))
HttpClient(code) == IF Sent(code) \in 200 .. 299 THEN NoErr ELSE Sent(code)

-----------------------------------------------------------------------------
\* Moving a request through its frames.

At(r, m) == pc[r] = "down" /\ pos[r] <= Len(chain) /\ chain[pos[r]] = m
Leaves(r, m) == pc[r] = "up" /\ pos[r] > 0 /\ chain[pos[r]] = m
Pass(r) ==
  /\ pos' = [pos EXCEPT ![r] = @ + 1] /\ pc' = [pc EXCEPT ![r] = "down"]
  /\ UNCHANGED err
Return(r, e) ==
  /\ pos' = [pos EXCEPT ![r] = @ - 1] /\ pc' = [pc EXCEPT ![r] = "up"]
  /\ err' = [err EXCEPT ![r] = e]
GoTo(r, phase) == pc' = [pc EXCEPT ![r] = phase]
Observe(r, o, v) == seen' = [seen EXCEPT ![r][o] = v]
\* An answer that comes after the client gave up is dropped.
Answer(r, v) == got' = [got EXCEPT ![r] = IF @ = TimedOut THEN @ ELSE v]

\* The client's timeout; the server goes on with the request.
Timeout(r) ==
  /\ pc[r] \notin {"new", "end", "aborted"} /\ got[r] = Absent
  /\ got' = [got EXCEPT ![r] = TimedOut]
  /\ UNCHANGED <<netVars, pc, pos, err, seen, poolVars, limitVars, breakerVars, crashed, replied>>

\* A grpc call enters the chain at once.
Enter(r) ==
  /\ pc[r] = "new" /\ kind = "grpc"
  /\ pos' = [pos EXCEPT ![r] = 1] /\ GoTo(r, "down")
  /\ UNCHANGED <<netVars, err, got, seen, poolVars, limitVars, breakerVars, crashed, replied>>

\* The http handlers come before the router, in an order the user chooses.  One
\* may answer itself ...
Refuse(r, e) == err' = [err EXCEPT ![r] = e] /\ Answer(r, HttpClient(Code(e))) /\ GoTo(r, "end")

MaxBytes(r) == Refuse(r, 413)       \* the body is too long
Gunzip(r) == Refuse(r, 400)         \* the body is not compressed
CORS(r) == Refuse(r, NoErr)         \* a preflight request (external)
BuildRequestID(r) == GoTo(r, "route") /\ UNCHANGED <<err, got>>

\* ... or all go on.
Handlers(r) ==
  /\ pc[r] = "new" /\ kind = "http"
  /\ MaxBytes(r) \/ Gunzip(r) \/ CORS(r) \/ BuildRequestID(r)
  /\ UNCHANGED <<netVars, pos, seen, poolVars, limitVars, breakerVars, crashed, replied>>

\* Fault: the Context goes back to the pool before it is used.
EnterRouterEarlyPut(r) ==
  /\ pc[r] = "route"
  /\ \E c \in (Contexts \ {held[q] : q \in Requests}) \union pool :
       /\ held' = [held EXCEPT ![r] = c]
       /\ pool' = pool \union {c}
       /\ creq' = [creq EXCEPT ![c] = {r}]
  /\ GoTo(r, "bind")
  /\ UNCHANGED <<netVars, pos, err, got, seen, limitVars, breakerVars, crashed, replied>>

\* Router.Handle: a Context of the pool, or a new one, is set to the request.
EnterRouter(r) ==
  /\ pc[r] = "route"
  /\ \E c \in (Contexts \ {held[q] : q \in Requests}) \union pool :
       /\ held' = [held EXCEPT ![r] = c]
       /\ pool' = pool \ {c}
       /\ creq' = [creq EXCEPT ![c] = {r}]
  /\ GoTo(r, "bind")
  /\ UNCHANGED <<netVars, pos, err, got, seen, limitVars, breakerVars, crashed, replied>>

\* The generated handler binds the request before it calls the chain.
Bind(r) ==
  /\ pc[r] = "bind"
  /\ \/ pos' = [pos EXCEPT ![r] = 1] /\ GoTo(r, "down") /\ UNCHANGED err
     \/ err' = [err EXCEPT ![r] = 400] /\ GoTo(r, "encode") /\ UNCHANGED pos
  /\ UNCHANGED <<netVars, got, seen, poolVars, limitVars, breakerVars, crashed, replied>>

\* Trace, Log and Metrics on the way down: a span begins, the request is logged.
ObserverDown(r, o) ==
  /\ At(r, o) /\ Pass(r)
  /\ IF o = "metrics" THEN UNCHANGED seen ELSE Observe(r, o, Open)
  /\ UNCHANGED <<netVars, got, poolVars, limitVars, breakerVars, crashed, replied>>

\* What they record on the way up; the server's Metrics has a histogram only.
Recorded(o, e) == IF o = "metrics" THEN Ended ELSE Code(e)

ObserverUp(r, o) ==
  /\ Leaves(r, o) /\ Return(r, err[r])
  /\ Observe(r, o, Recorded(o, err[r]))
  /\ UNCHANGED <<netVars, got, poolVars, limitVars, breakerVars, crashed, replied>>

\* Breaker.Allow of b (external: it rejects none before it was told of a
\* failure).  A rejected call is reported as one more failure.
Allow(r, b) ==
  /\ mine' = [mine EXCEPT ![r] = b]
  /\ \/ Pass(r) /\ UNCHANGED told
     \/ /\ \E q \in Requests : told[q] = b
        /\ told' = [told EXCEPT ![r] = b]
        /\ Return(r, 503)

\* Fault: the entry is not looked up.
FetchMisses(r) ==
  /\ At(r, "breaker")
  /\ GoTo(r, "create")
  /\ early' = IF bre = 0 THEN early \union {r} ELSE early
  /\ UNCHANGED <<pos, err, bre, made, mine, told>>
  /\ UNCHANGED <<netVars, got, seen, poolVars, limitVars, crashed, replied>>

\* Breakers.Fetch under the read lock.
Fetch(r) ==
  /\ At(r, "breaker")
  /\ IF bre # 0
     THEN Allow(r, bre) /\ UNCHANGED <<bre, made, early>>
     ELSE /\ GoTo(r, "create")
          /\ early' = early \union {r}
          /\ UNCHANGED <<pos, err, bre, made, mine, told>>
  /\ UNCHANGED <<netVars, got, seen, poolVars, limitVars, crashed, replied>>

\* ... and under the write lock, where nobody looks again.
FetchCreate(r) ==
  /\ pc[r] = "create"
  /\ made' = made + 1 /\ bre' = made + 1
  /\ Allow(r, made + 1)
  /\ UNCHANGED <<early, netVars, got, seen, poolVars, limitVars, crashed, replied>>

\* Unavailable, internal and timeout count as failures of the service.
BreakerUp(r) ==
  /\ Leaves(r, "breaker") /\ Return(r, err[r])
  /\ told' = IF Code(err[r]) \in {500, 503, 504} THEN [told EXCEPT ![r] = mine[r]] ELSE told
  /\ UNCHANGED <<netVars, got, seen, poolVars, limitVars, bre, made, mine, early, crashed, replied>>

\* Shedding.Pass (external: the load decides) and RateLimit.Pass.
PassShedding(r) ==
  /\ At(r, "limit") /\ limiter = "shedding"
  /\ \/ Pass(r) /\ slots' = slots \union {r}
     \/ Return(r, 429) /\ UNCHANGED slots
  /\ UNCHANGED <<netVars, got, seen, poolVars, used, entries, breakerVars, crashed, replied>>

\* MaxConn.Pass takes a place in the pool ...
PassUse(r) ==
  /\ At(r, "limit") /\ limiter = "maxconn"
  /\ IF used < Conn
     THEN used' = used + 1 /\ GoTo(r, "back") /\ UNCHANGED <<pos, err>>
     ELSE Return(r, 429) /\ UNCHANGED used
  /\ UNCHANGED <<netVars, got, seen, poolVars, slots, entries, breakerVars, crashed, replied>>

\* ... and gives it back before it returns.
PassBack(r) ==
  /\ pc[r] = "back"
  /\ used' = used - 1
  /\ slots' = slots \union {r}
  /\ Pass(r)
  /\ UNCHANGED <<entries, netVars, got, seen, poolVars, breakerVars, crashed, replied>>

\* The function that Pass returned is called with the outcome.
LimitUp(r) ==
  /\ Leaves(r, "limit") /\ Return(r, err[r])
  /\ slots' = slots \ {r}
  /\ UNCHANGED <<netVars, got, seen, poolVars, used, entries, breakerVars, crashed, replied>>

\* Sentinel: an operation without rules passes; one with rules gets an entry,
\* or is blocked.
SentinelDown(r) ==
  /\ At(r, "sentinel")
  /\ \/ Pass(r) /\ UNCHANGED entries
     \/ Pass(r) /\ entries' = entries \union {r}
     \/ Return(r, Plain) /\ UNCHANGED entries
  /\ UNCHANGED <<netVars, got, seen, poolVars, slots, used, breakerVars, crashed, replied>>

\* The error is told to the entry, and nil is returned in its place.
SentinelUp(r) ==
  /\ Leaves(r, "sentinel")
  /\ Return(r, IF r \in entries /\ err[r] # NoErr THEN Swallowed ELSE err[r])
  /\ entries' = entries \ {r}
  /\ UNCHANGED <<netVars, got, seen, poolVars, slots, used, breakerVars, crashed, replied>>

\* Frames without a state of their own: they reject a request or pass it on, and
\* leave its result alone.
Passes == {"recovery", "validate", "auth", "authz", "traceid", "ray", "stat"}

Validate(r) == At(r, "validate") /\ (Pass(r) \/ Return(r, 400))
Authorize(r) == At(r, "auth") /\ (Pass(r) \/ Return(r, 401))
\* The token of a grpc call must be quoted.
ServerAuthZ(r) == At(r, "authz") /\ (Pass(r) \/ (kind = "grpc" /\ Return(r, Plain)))
ServerTraceID(r) == At(r, "traceid") /\ Pass(r)
\* ray.BuildRequestID, whose new context nobody takes.
Ray(r) == At(r, "ray") /\ Pass(r)
Stat(r) == At(r, "stat") /\ Pass(r)
Recovery(r) == At(r, "recovery") /\ Pass(r)

Inner(r) ==
  /\ \/ Validate(r) \/ Authorize(r) \/ ServerAuthZ(r) \/ ServerTraceID(r)
     \/ Ray(r) \/ Stat(r) \/ Recovery(r)
     \/ \E m \in Passes : Leaves(r, m) /\ Return(r, err[r])
  /\ UNCHANGED <<netVars, got, seen, poolVars, limitVars, breakerVars, crashed, replied>>

\* Metadata asks its nil Transporter for the carrier before it looks it up.
Metadata(r) ==
  /\ At(r, "metadata")
  /\ GoTo(r, "panic")
  /\ UNCHANGED <<netVars, pos, err, got, seen, poolVars, limitVars, breakerVars, crashed, replied>>

\* The user's handler returns a response or an error, or panics.
Handler(r) ==
  /\ pc[r] = "down" /\ pos[r] = Len(chain) + 1
  /\ \/ (\E e \in Codes \union {NoErr, Plain} : Return(r, e)) /\ replied' = replied \union {r}
     \/ GoTo(r, "panic") /\ pos' = [pos EXCEPT ![r] = @ - 1] /\ UNCHANGED <<err, replied>>
  /\ UNCHANGED <<netVars, got, seen, poolVars, limitVars, breakerVars, crashed>>

\* Fault: Sentinel's Exit is not deferred, so a panic passes it by.
UnwindKeepsEntry(r) ==
  /\ pc[r] = "panic" /\ pos[r] > 0
  /\ IF chain[pos[r]] = "recovery" THEN Return(r, 503)
     ELSE pos' = [pos EXCEPT ![r] = @ - 1] /\ UNCHANGED <<pc, err>>
  /\ IF chain[pos[r]] = "trace" THEN Observe(r, "trace", Ended) ELSE UNCHANGED seen
  /\ UNCHANGED <<netVars, got, poolVars, limitVars, breakerVars, crashed, replied>>

\* A panic leaves a frame: Recovery turns it into 503, Trace ends its span,
\* Sentinel exits its entry.
Unwind(r) ==
  /\ pc[r] = "panic" /\ pos[r] > 0
  /\ IF chain[pos[r]] = "recovery" THEN Return(r, 503)
     ELSE pos' = [pos EXCEPT ![r] = @ - 1] /\ UNCHANGED <<pc, err>>
  /\ IF chain[pos[r]] = "trace" THEN Observe(r, "trace", Ended) ELSE UNCHANGED seen
  /\ entries' = IF chain[pos[r]] = "sentinel" THEN entries \ {r} ELSE entries
  /\ UNCHANGED <<netVars, got, poolVars, slots, used, breakerVars, crashed, replied>>

\* A panic that nobody recovered: net/http drops the connection, and the
\* Context does not come back; grpc lets the process die.
Unrecovered(r) ==
  /\ pc[r] = "panic" /\ pos[r] = 0
  /\ IF kind = "http"
     THEN /\ Answer(r, Plain)
          /\ held' = [held EXCEPT ![r] = NoContext]
          /\ UNCHANGED crashed
     ELSE crashed' = TRUE /\ UNCHANGED <<got, held>>
  /\ GoTo(r, "aborted")
  /\ UNCHANGED <<netVars, pos, err, seen, pool, creq, limitVars, breakerVars, replied>>

\* The chain has returned to the grpc server.
Reply(r) ==
  /\ pc[r] = "up" /\ pos[r] = 0 /\ kind = "grpc"
  /\ Answer(r, GrpcClient(err[r]))
  /\ GoTo(r, "end")
  /\ UNCHANGED <<netVars, pos, err, seen, poolVars, limitVars, breakerVars, crashed, replied>>

\* The chain has returned to the generated handler, which takes the response for
\* a *Reply: the nil that a frame inside Sentinel gave with its error is none.
\* Context.Result encodes it, unless the codec fails.
Result(r) ==
  /\ pc[r] = "up" /\ pos[r] = 0 /\ kind = "http"
  /\ LET nil == err[r] \in {NoErr, Swallowed} IN
     \/ ~nil /\ GoTo(r, "encode") /\ UNCHANGED <<err, got>>
     \/ nil /\ r \notin replied /\ GoTo(r, "panic") /\ UNCHANGED <<err, got>>
     \/ nil /\ r \in replied /\ GoTo(r, "encode") /\ err' = [err EXCEPT ![r] = Marshal] /\ UNCHANGED got
     \/ \* ... and the client's decoder may fail
        /\ nil /\ r \in replied /\ GoTo(r, "leave") /\ UNCHANGED err
        /\ \E v \in {HttpClient(200), Plain} : Answer(r, v)
  /\ UNCHANGED <<netVars, pos, seen, poolVars, limitVars, breakerVars, crashed, replied>>

\* ErrorEncoder; net/http panics at a status that is not three digits long.
Encode(r) ==
  /\ pc[r] = "encode"
  /\ IF Sent(Code(err[r])) \in 100 .. 999
     THEN GoTo(r, "leave") /\ Answer(r, HttpClient(Code(err[r])))
     ELSE GoTo(r, "panic") /\ UNCHANGED got
  /\ pos' = [pos EXCEPT ![r] = 0]
  /\ UNCHANGED <<netVars, err, seen, poolVars, limitVars, breakerVars, crashed, replied>>

\* The Context is cleared and put back.
Leave(r) ==
  /\ pc[r] = "leave"
  /\ creq' = [creq EXCEPT ![held[r]] = {}]
  /\ pool' = pool \union {held[r]}
  /\ held' = [held EXCEPT ![r] = NoContext]
  /\ GoTo(r, "end")
  /\ UNCHANGED <<netVars, pos, err, got, seen, limitVars, breakerVars, crashed, replied>>

Next ==
  /\ ~crashed
  /\ \E r \in Requests :
       \/ Enter(r) \/ Handlers(r) \/ EnterRouter(r) \/ Bind(r) \/ Timeout(r)
       \/ \E o \in Observers : ObserverDown(r, o) \/ ObserverUp(r, o)
       \/ Fetch(r) \/ FetchCreate(r) \/ BreakerUp(r)
       \/ PassShedding(r) \/ PassUse(r) \/ PassBack(r) \/ LimitUp(r)
       \/ SentinelDown(r) \/ SentinelUp(r) \/ Inner(r) \/ Metadata(r) \/ Handler(r) \/ Unwind(r) \/ Unrecovered(r)
       \/ Reply(r) \/ Result(r) \/ Encode(r) \/ Leave(r)

Spec == Init /\ [][Next]_vars

-----------------------------------------------------------------------------

\* The limiter learns the end of every request it let pass, also of one that
\* panicked, as Recovery is inside it; without Recovery a panic keeps its slot.
\* Sentinel, which defers its exit, learns it in every case.
SlotsReturned ==
  /\ \A r \in slots :
       /\ pc[r] \notin {"end", "leave", "encode"}
       /\ pc[r] = "aborted" => "recovery" \notin Range(chain)
  /\ \A r \in entries : pc[r] \notin {"end", "leave", "encode", "aborted"}

\* An error arrives with its code at the client of either transport if it is
\* an http status that is not a success.  It never arrives as a success, except
\* for the codes that http sends with a 2xx (0, the informational ones and 2xx
\* itself) and for the errors that Sentinel swallows, over http the handler's
\* only.
CodeCarried ==
  \A r \in Requests : pc[r] = "end" =>
    /\ err[r] \in 300 .. 999 => got[r] \in {err[r], TimedOut}
    /\ got[r] = NoErr => \/ err[r] = NoErr
                         \/ kind = "http" /\ err[r] \in {0, 100} \union (102 .. 299)
                         \/ /\ err[r] = Swallowed /\ "sentinel" \in Range(chain)
                            /\ kind = "grpc" \/ r \in replied

\* A Context in use belongs to one request and is set to it, and one in the
\* pool is set to none: codecs read and write c.req without a lock.
ContextExclusive ==
  /\ \A c \in pool : creq[c] = {}
  /\ \A r \in Requests : held[r] # NoContext =>
       creq[held[r]] = {r} /\ held[r] \notin pool

\* The breaker of an operation forgets failures only if first calls overlapped:
\* Fetch replaces an entry that another call made since it looked.
ForgetsOnlyEarly ==
  (\E r \in Requests : told[r] \notin {0, bre}) => Cardinality(early) > 1

=============================================================================
