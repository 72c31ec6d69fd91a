# A TLA+ model of slark

slark is a Go toolkit for micro-services: an application object that runs
transports (http, grpc, websocket, socket.io) and registers the service, a
client side with discovery and load balancing, and the packages around them
(configuration, kafka, batching, limiting, caching, middlewares). This directory
models the parts with concurrency, failure, time or a tricky algorithm in them,
checks them with TLC and proves with TLAPS what matters most about most of them.

`PROJECT.json` maps every definition to the lines it models and lists runs,
mutants, findings, hazards and theorems.

## 1. Inventory

| component | state | operations | hard behaviour | what makes it correct |
|---|---|---|---|---|
| `app.go` | signal channel `c`, errgroup, servers, registry | Run: start, register, wait, stop, unregister | n+1 receivers of one channel; start failures; signals during shutdown | enough signals end Run; Run returns when everything is drained |
| the four `transport.Server`s | listener, server, requests in progress | NewServer, Start, Stop | listening fails early and is told late; Stops differ in what they wait for | as above, with each kind's Start and Stop |
| `pkg/future/batch.go` | channels, per-worker batches, WaitGroup | Run, Add, worker loop, Stop | Adds, ticks and several Stops interleave | per-key order, exactly once; Stop flushes; Stop returns |
| `transport/ws` sessions | four channels, `closed`, mutex, connection | read, write, ping/pong, Receive, Send, Close | four goroutines, each may close | one writer at a time; teardown; the handler is told |
| `registry/etcd` (Registry) | leases and a key in etcd | Register, keepAlive, put, Unregister | timeouts, late effects, lost leases, retries | the kept lease holds the key; renewal; orphans vanish |
| `transport/grpc/resolver`, watchers of etcd and k8s | the watch or informer, the addresses shown | Build, Discover, List, update, Close | a late Discover, broken watches, failed reads, List without a context | no change lost; convergence; a closed resolver ends |
| `transport/grpc/balancer` | current weights, node set | Build, Save, Pick | weights outlive pickers; filtered picks | balance, proportion, no starvation |
| grpc client set-up, `pkg/endpoint` | options, connections, endpoints | NewClient, Dial, Endpoint, ParseAddr | options pile up over the objects; interfaces in any order | the right server, the right credentials, the right address |
| grpc client streams | events, `finished`, `done`, the span | RecvMsg, SendMsg, event loop, tracer | two users and the context end a stream at once | no goroutine leaks |
| grpc `ServerTimeout` | shared result variables, mutex, channels | ServerTimeout | deadline against handler and panic | no success is made up; both goroutines end |
| http and grpc servers, `middleware`, handlers | Context pool, chain, error on its way | Handle, bind, the middlewares, Result, interceptors | overlapping requests; panics; clients that give up | a Context has one user; codes survive |
| `pkg/limit`, `pkg/flexible/flow` | a pool channel, requests in flight | Use, Back, Pass | slot returned before the request runs; panics | every request let in is reported back |
| `pkg/flexible/breaker` | map of breakers | Fetch, Allow, Fail, Succeed | two first callers | failures are forgotten only by overlapping first calls |
| `infra/kafka` consumer group | per member marks and worker channels; the committed offset, who has the partition | Consume, ConsumeClaim, consume, Stop | marks before handling; rebalances to another member; crashes; redelivery; panics | per-key order; bounded loss; progress |
| `infra/kafka` producers | input, successes and errors; the chunk | SyncSend, AsyncSend, Produce, monitors, Close | Close against sends and a chunk in hand; writes nobody acknowledges | what was taken is written or its failure known |
| `config` + `config/source/file` | tree, cache, file events | Load, merge, apply, find, watch | lossy event channel, readers during loads, searches that write into the tree | cache agrees with tree; last write loaded |
| `pkg/cache` | redis over a database, rockscache's lock fields | Fetch, FetchIndex, Exec, Deletes | write-back of an old row; locks that time out | a row is stale only for the two known reasons |
| `pkg/lock` | a redis key with a lease | Lock, Unlock | expiry under the holder, lost replies | one holder within its lease |
| `pkg/hash` | sorted virtual nodes, ring | Add, Delete, Fetch | Add in two critical sections; collisions | the owner serves |
| `pkg/retry` | attempt number, cached back-off | Retry, BackOff, Fixed, Random, Group | overflow of delays, functions in any order | waits never shrink while sums fit |
| `errors` | error objects, clone marks, causes, stacks | New, With…, Wrap, Is, GRPCStatus, FromError | clones of a shared error | a shared error stays what it is; no cycle |
| `encoding/form` | the message being decoded | parse, populate | keys in the order of a map; nested paths, lists, maps, oneofs | the order does not matter |
| infra/es, mongo, mysql, redis; logger; trace; profiling; cmd | none of their own | calls to libraries, output, code generation | | not modelled |

Interactions. `App.Run` calls Start and Stop of every transport (`App` extends
`Transport`) and Register and Unregister of a registry; `EtcdRegistry` is what
such a Register does, `Discovery` is the reader on the other side of etcd,
`Dial` the endpoint it chooses from what App advertised, `Balancer` picks among
the connections that discovery produced. `ServerCall` is what a request meets
inside a transport that `App` started, with the client's end of a unary call,
and `ClientStream` the client's end of a streaming one. `Batch`, the kafka
modules, `Config` and the utilities are used by services directly. Beyond
these calls the parts share no memory, only etcd, redis and interfaces, so each
is a module of its own and its environment (etcd, the broker, the peer, the
operating system's signals) is part of that module.

## 2. Modules

Faulty variants (comment "Fault:") stand before the definition they distort.
They are what a plausible bug in that code would look like, are used to show
that each property can be violated, and are used by no specification.

### Batch, KeyedFifo, BatchProofs — `pkg/future/batch.go`
`chs` are the worker channels, `msg`/`num`/`stop` the locals of each `do`
goroutine, `wg` the workers that owe a Done. `Add`/`AddFull` are the two branches
of Add's select; `Receive`, `Tick` those of the worker's; `Flush` is the tail of
the loop (exec, reset, stop check). `Stop` is a call, one blocking send per
channel and the wait. Any number of goroutines may call Stop; Run may come after
Adds and after Stop. A value is its serial number among the accepted values of
its key. `KeyedFifo` is the abstract promise: per key, deliveries are the
accepted values in order, none twice.

### WsSession, WsSessionProofs — `transport/ws/ws.go`
One session: `rpc`, `wpc`, `hpc`, `mpc` are the program counters of reader,
writer, user handler and http handler; `cpc[g]` that of a `Session.Close` run by
goroutine g. Every channel operation, lock acquisition, and write is a step of
its own, so that Close's check and store of `closed` can be torn apart. The
gorilla connection is external: a write fails after a local close or an
earlier failure and may fail any time.

### Transport, App, AppProofs — the servers and `app.go`
`Transport` has the servers behind `transport.Server`: `NewServers` listens by
kind and keeps the error for Start; Stop waits for the requests whatever its
context (grpc), until its context ends (http, ws), or not at all (socket.io,
whose Start it does not end either). In `App` the main goroutine is `mpc`; per
server there is a Start and a Stop goroutine. `c` is the one-slot signal channel
and `os/signal` drops what does not fit.

### EtcdRegistry, EtcdRegistryProofs — `registry/etcd/etcd.go`, Registry
One registration. A call of `put` grants at most one lease, so leases are numbered
like calls. etcd is the environment: a call may fail after it took effect, and
the request of a caller that gave up may still arrive (`limbo`, `LateArrival`).
`KaSelect` keeps the race of Go's select between the lease id and the
context that the put goroutine's deferred cancel ends.

### Discovery — `transport/grpc/resolver`, etcd and k8s watchers
`BuildSelect`/`BuildReturn` against the Discover goroutine, whose two assignments
are unsynchronised with Build after a timeout and are therefore two stores in
either order; `ListEvent`, `ListRewatch`, `Get`, `Update` are one turn of
`parser.watch`. `registry` says which watcher it is: the one of k8s has an
informer whose handlers block on `notify`, and a List that looks at no context;
a service is seen once Register's patch has annotated the ports. A Subset is any
choice of the right size.

### Balancer — `transport/grpc/balancer`
`Hit` is `wrr.Pick` on a non-empty list; ties are any maximal node because
the list's order comes from a map. `PickFiltered` stands for filtered calls and
for pickers of earlier connections. `weight` has no bound of its own. Each pick
runs under the mutex, so it is one step. `WrrInit`, `WrrNext` and `WrrSpec` are the
specification; `hits`, `Round` and `pure` are history that `Proportional` speaks of.

### Dial — `pkg/endpoint`, `transport/grpc` client set-up
From the interfaces of the machine to the endpoint a server advertises
(`ParseAddr`, `Endpoint`), and from the options of a client to its connections:
`DialOne` is a turn of NewClient's loop over the objects, with one list of
options that grows (`Added`) and is applied in order (a fold of `ApplyOption`), and
`resolved` is what the resolver would take of the advertised endpoints.

### ServerTimeout — `transport/grpc/server_interceptor.go`
Handler goroutine and caller, the mutex that only one of the caller's branches
takes, and the two-word interface `err`, which a racing store may tear.

### ClientStream — `transport/grpc/client_interceptor.go`
The interceptor (`pc`), the event loop of `wrapClientStream` (`loop`), the tracer
goroutine (`tracer`) and two user goroutines, one that receives and one that
sends. A send on the unbuffered `finished` is one joint step (`Finish`); an event
is handed over (`LoopEvent`) or given up (`SkipEvent`).

### ServerCall, ServerCallProofs — servers, http handlers, middlewares, limiters, breakers, codes
Requests of one operation move through frames: `chain` is what `utils.Filter`
selects of the middlewares by the bits of Enable, or a chain the user gave with
`Middlewares`; `pos` is the frame, `pc` says whether the request goes down,
comes up or unwinds from a panic. http requests first pass the handlers
(MaxBytes, Gunzip, CORS, request id), take a Context from the router's pool,
bind, encode and put it back. `err` is the error on its way, `got` what the
client reconstructs from it (`HTTPToGRPCCode`, `GRPCToHTTPCode`, `Status`), or
that it gave up. An http status is what the server can send of a code (`Sent`):
gin ignores a 0 and net/http takes a 1xx, but 101, for informational, so that both
arrive as 200, and it panics on what has not three digits. `replied` are the requests whose
response is the handler's own `*Reply`: where an http frame made it nil instead,
the generated handler's type assertion panics (`Result`), while grpc encodes nil as an
empty message. `Fetch`/`FetchCreate` are the two locks of `Breakers.Fetch`;
`PassUse`/`PassBack` the two halves of `MaxConn.Pass`. When a shedder, a breaker
or a sentinel rejects is external.

### KafkaConsumer, KafkaConsumerProofs — `infra/kafka/sarama.go`
The members of a group on one partition; `owner` is who has it as the broker sees
it. Each member has its claim loop (`RangeMessages`, `Send`, `Mark`) and its workers
(pairs of member and number) behind bounded channels. `Commit` takes the marks to the
broker, if the member still is the owner. `EndSession` is a rebalance, a Stop or the end of an evicted
member's session, `Evict` the broker that gives up on a member whose claim loop
goes on. Any member may be the next owner (`Join`), from the committed offset; `Cleanup` drains nothing, so the workers of
the last one go on with what they hold. A member may crash and restart; a
handler that panics takes its worker with it (`routine.GoSafe` recovers but does not
restart). Messages are offsets; `MaxEvents` bounds rebalances, evictions, Stops,
crashes and panics together.

### KafkaProducer — `infra/kafka/sarama.go`, `kafka-go.go`
Both producers: sarama's with every configuration of what it returns and of acks,
its monitors and a Close that only asks; and the chunked one, where a chunk is
written by the executor's goroutine or by the Flush of Close. Its writer leaves
`RequiredAcks` at the zero value, so that a write may be reported as done of
messages no broker has. Goroutines go on to send while the producer closes and
after it: sarama refuses (`SyncRefused`, `AsyncRefused`) or its closed Input panics, a closed
kafka-go writer makes the write fail.

### Config — `config`, `config/source/file`
A flat picture of the nested maps, of any depth: each path has `<<type, value>>`, a
section has type "map". `Merge` keeps an old value of another type. `spread` and
`deepSearch` ask `cast.ToStringMapE` what a section is, which parses strings as
JSON: a string with an object in it, or "null", counts as a section (`JsonStrings`, `Seen`,
`Stored`). `Store` puts one value after the other in the cache while readers go on;
`Find`/`FindMiss` are the two halves of `find`. The search of a path below the second level
leaves an empty section wherever it finds none (`Planted`), under the read lock
only, so that two searches may race (`FindRace`). The watcher forwards events with the file's
own name; a change of the real path by a link (`Swap`) has another name. A file
being written does not parse, or parses as some of its values (`Begun`).

### Cache — `pkg/cache/cache.go`
One row under its primary key and a unique index, in redis and in a database.
rockscache is external, modelled from the calls in the source: a load is granted
to one owner, deletion marks a key and keeps its value for readers, a load's
result is stored only by the owner. `Fills` says whether the caller's `fn` also
stores the row, as the code needs, or only the key, as the comment says.

### RedisLock — `pkg/lock/lock.go`
SetNX with a lease and a compare-and-delete; a reply may be lost and a Lock
object may be shared.

### ConsistentHash — `pkg/hash/consistent.go`
`vnl` and `ring` are the code's; `Delete` is one critical section, Add is two
(`AddDelete`, `AddInsert`), so that two goroutines can interleave between them.
The hash function is a constant with chosen collisions; `Rehash` is the second
hash that picks among nodes at one point. A node's virtual points are removed one
after the other (folds of `Without`), and `Ascending` is `sort.Slice`, whose result
is the same whatever the algorithm, as equal entries cannot be told apart. `Search`,
`Place` and `Fetch` are the binary search and the lookup. Fetch changes nothing and
is an operator that the property evaluates in every state.

### Retry — `pkg/retry/retry.go`
The loop and its delay functions in two's complement of `Width` bits, so that
the shifts and sums wrap as an int64 does (`Signed`). The function of an option is one
of the package or a Group of any of them in any order; as the terms are added, what
matters of it is how many Fixed come before the first BackOff, how many BackOffs,
Fixed after it and Randoms it calls (`Funcs`). `Cached` is what the first
BackOff leaves in the option; its logarithm is one of float64, so that just below
a power of two it may be that of the power (`RoundsUp`), and for delays near the
largest the shift is then negative and the code panics (`Panic`), as it does when
Random has no positive jitter. `timer` is the wait
that a duration is: none if it is not positive. `wrapped` is history: a sum did not fit.

### Errors — `errors/errors.go`
A heap of error objects derived from one that a package keeps. `clone` marks the
object it copies, as the code does. Causes make a graph; `Is`, `Cyclic` and the
printed stack follow it. A stack is a list of lines and `removeExtraStackLines`
says which of its places are left: a line goes that an inner error has, and one
that the same error has further up.

### Form — `encoding/form/parser.go`
The decoder over descriptors: names and JSON names, brackets, lists, maps,
nested messages, oneofs, well-known types. A value is a token and `Accepts` is
the set of tokens that the parser of each kind takes, the keys of a map included
(`MapKey`).

### RedisState, DeadlineState
Cache and RedisLock, and ServerTimeout, as instances with their variables and the
properties checked of them: what MC modules of several parts and
`SharedStateProofs` have in common.

### DiscoveryProofs, SharedStateProofs
The proofs of several components each. `DiscoveryProofs` has what leads a client to
its server: `Discovery`, `Dial` and `ConsistentHash`. `SharedStateProofs` has
`Config`, `Balancer`, `Retry` and `Errors`, and, by way of `RedisState` and
`DeadlineState`, `Cache`, `RedisLock` and `ServerTimeout`.

### MC modules
They give constants their values. `MCGrpc`, `MCUtilities` and `MCKafka` hold
several small modules in one instance: `part` is chosen at the start and only
that part moves, so such a run is the union of the parts' own runs. They extend the
modules that theorems are about (`MCGrpc`: Balancer, Dial, DeadlineState; `MCUtilities`:
ConsistentHash, Errors, Retry, RedisState), so that TLC evaluates the assumptions
of the proofs, and instantiate the others. `MCBalancer`
and `MCCacheIndex` are the instances of the two findings.

## 3. Runs

| run | question | bounds, and why they are enough | states |
|---|---|---|---|
| `batch` | what Stop leaves and flushes, refinement; progress, end of Stop | 2 keys that share one of 2 workers, channels and batches of 2, 2 Adds per key, 2 Stops: full channels, full and partial batches, nils of two Stops in one channel all occur; the proofs cover all other sizes | 41 k |
| `ws` | exclusive writes; teardown, the handler is told | one-slot channels, 3 inbound messages, 1 outbound: every blocking send can block, and a lost message is followed by another | 254 k |
| `app` | draining, end of Run | 2 servers, all four kinds over the deployments, 4 signals: one per receiver and one more | 151 k |
| `etcd` | kept lease, orphans, renewal | 2 attempts per loss, 2 losses, 3 puts, 1 failed call besides timeouts: an attempt can time out, land late and race its successor | 263 k |
| `discovery` | lost changes, convergence, end | either watcher; 2 changes, 2 breaks, 1 failed call: a change before, between and after breaks | 297 k |
| `kafka` | order, loss, progress; accounting of producers | 2 members of 2 and 1 workers, capacity 1, 4 messages, 2 rebalances, evictions, Stops, crashes or panics: a member's channels full and its workers busy while the other takes over with another sharding; 2 sends, which fill a chunk | 452 k |
| `config` | cache, last write | 2 changes, by writing or by a link, of 4 documents of three levels, 2 readers: a section that becomes a value, a string that holds JSON and one that is "null", a planted section that meets a value | 1.21 M |
| `utilities` | hash ring, forms, errors, retries, cache, lock | ring: 3 nodes of 2 points on a ring of 6, two collide, one with itself, 2 callers. Forms: every pair of 23 keys, 4 lists of values, maps with string and int keys. Errors: 4 objects, 2 With… each; a stack that has a line twice, and two that share one. Retry: 8 bits, delays around powers of two, zero and negative ones, more attempts than shifts; eight functions, the tests' Group(Fixed, BackOff) among them, with and without jitter. Cache: 2 callers, 1 change, 1 timeout or expiry. Lock: 3 users | 1.46 M |
| `call` | limiter, breaker, client, Contexts | 2 requests in every overlap; three Enable masks and two user chains; http and grpc; both kinds of limiter, a pool of 1; 7 codes, one per way a code can travel, 0 and an informational one included | 1.35 M |
| `grpc` | weights; streams; deadlines; set-up | 4 nodes of weights 1, 0, 2, 3 and any sequence of node sets and filters, finite because the weights stay bounded; 3 calls per user of a stream; one call under a deadline, which has no bound; 2 interfaces of 2 addresses, 2 objects | 54 k |
| `balancer_wrapped` | the first finding of section 6 | the nodes of `grpc` | |
| `cache_index` | the second | one caller | |

Deadlock checking is off where the system may stop (after Stop, Close, a returned
Run, or when the bounds on the environment are used up), which is every passing run.
`call` uses the symmetry of its requests and Contexts; it checks no liveness.

### Fairness
Weak fairness of a goroutine's steps is Go's scheduler. Strong fairness is used where the
code relies on more: `select` chooses at random among ready cases (`Receive` in
Batch), channels queue blocked senders and receivers (`StopSend`; `Wake` in App), a mutex is handed to
a starving waiter (WsSession). Nothing obliges users, peers, signals, etcd
changes, crashes or failures to happen; in ClientStream that leaves the calls of
the users and the end of the context unfair, and only the interceptor's own
goroutines and a blocked hand-over fair. In ServerTimeout handler steps after its
return are fair, the handler itself and the deadline are not. A GracefulStop
waits for requests that need not end. Leases nobody keeps run out;
a write of the configuration file that began ends; calls with a context answer or fail.

### What the properties say
- Batch: `LeftBehindIsLate`, `FlushedAtReturn`, `ImplementsFifo`;
  `EventuallyExecuted`, `StopTerminates` (except for a second Stop that sends
  to a full channel whose worker quit at the nil of the first).
- WsSession: `WriteExclusive`; `CloseCompletes` (with the reader stuck on a full `in` as the
  one exception the code has), `HandlerTold` (except when the reader ended on a
  message it dropped).
- App and Transport: `DrainedAtReturn` (only without a registry: with one,
  Run returns while Stops drain), `SignalsSuffice` (n+1 signals for n servers;
  a later one may hit the closed channel and crash the process, a GracefulStop
  may wait for ever, a socket.io Start does not end).
- EtcdRegistry: `KeepsTheKey` (except after a late arrival),
  `OrphanDisappears`, `RegisteredAgain`.
- Discovery: `NoChangeLost` and `Converges` (except after a read that failed
  once its event was consumed), `CloseEnds` (except in the List of k8s).
- Balancer: `SumZero`, `Proportional`, `NotStarved`.
- Dial: `AdvertisedIsBest`, `ReachesItsServer` (except with TLS asked for and
  insecure left on).
- ServerTimeout: `AnswerJustified`, `BothEnd`.
- ClientStream: `NothingLeaks`.
- ServerCall: `SlotsReturned` (without Recovery a panic keeps its slot),
  `CodeCarried` (a code in 300..999 arrives; a success is one, but for http's 0, 100
  and 102..299, and for what Sentinel swallowed), `ContextExclusive`, `ForgetsOnlyEarly`.
- KafkaConsumer: `KeyInOrder` (except that an earlier message, committed, may still
  wait in a member that had the partition before), `LossBound` (per member, its workers
  * (capacity + 1) messages), `EventuallyHandled` (except behind a dead worker, and when
  all that could go on with the partition is blocked by one). KafkaProducer: `Accounted`
  (except without acks, which is always for kafka-go, with configurations that return
  no errors, and for an exit right after Close).
- Config: `CacheFresh` (of what spread lists: not of sections nor of strings it takes
  for sections), `LastWriteLoaded` (except for a change that no event of the file
  told, a Load that failed, a race of two searches, and values that merge refused or a
  search replaced).
- Cache: `StaleOnlyByIndex`. RedisLock: `LeaseExclusive` (with a Lock object
  of one's own). ConsistentHash: `FetchIsOwner` (except after two overlapping
  Adds of one node). Retry: `WaitsGrow` (`maxDelay` always bounds; once a sum
  did not fit nothing else is said; Random may shrink a wait, and a Fixed before BackOff
  takes a negative delay off the first). Errors: `SoundUntilReused`. Form: `OrderIndependent` (of keys
  that do not name the same field).

The exceptions written into a property are behaviours of the code, each listed
as a hazard; the property says that there are no others.

## 4. Proofs

Eight modules hold the proofs. Each theorem holds for every value of the
constants that satisfies the named assumptions of the component's module, which
TLC evaluates on every run; the bounds of the model (`MaxAdds`, `MaxFails`, ...)
are any natural numbers there, so they do not limit what is proved.

| theorem | module | statement | for every |
|---|---|---|---|
| `OrderPreserved` | BatchProofs | `Spec => []InOrder` | keys, sharding, workers, channel and batch sizes, stoppers |
| `NothingOldAbandoned` | BatchProofs | `Spec => []LeftBehindIsLate` | as above |
| `StopFlushes` | BatchProofs | `Spec => FlushedAtReturn` | as above |
| `Refinement` | BatchProofs | `Spec => ImplementsFifo` | as above |
| `WritesExclusive` | WsSessionProofs | `Spec => []WriteExclusive` | channel capacities, messages |
| `MutexReleased` | WsSessionProofs | `Spec => []HeldToWrite` | as above |
| `RunDrains` | AppProofs | `Spec => []DrainedAtReturn` | set of servers, their kinds |
| `KeeperHasKey` | EtcdRegistryProofs | `Spec => []KeepsTheKey` | retries, losses, failures |
| `NoChangeIsLost` | DiscoveryProofs | `Spec => []NoChangeLost` | services, addresses, subset size |
| `KeysInOrder` | KafkaConsumerProofs | `Spec => []KeyInOrder` | members, their workers, capacity, partition, keys, rebalances, crashes |
| `LossesBounded` | KafkaConsumerProofs | `Spec => []LossBound` | as above |
| `CacheStaysFresh` | SharedStateProofs | `Spec => []CacheFresh` of Config | tree of paths of any depth, documents, JSON strings and what they hold, readers |
| `MergeIdempotent` | SharedStateProofs | `Merge(Merge(d, s), s) = Merge(d, s)` | trees |
| `ContextsExclusive` | ServerCallProofs | `Spec => []ContextExclusive` | requests, Contexts, chains, codes |
| `BreakerForgets` | ServerCallProofs | `Spec => []ForgetsOnlyEarly` | as above |
| `SlotsComeBack` | ServerCallProofs | `CustomsRecoverInside => (Spec => []SlotsReturned)` | as above |
| `CodesCarried` | ServerCallProofs | `Spec => []CodeCarried` | as above |
| `AdvertisesBest` | DiscoveryProofs | `DialSpec => []AdvertisedIsBest` | interfaces, addresses, servers |
| `ClientReachesItsServer` | DiscoveryProofs | `DialSpec => []ReachesItsServer` | option lists, objects with names of their own, servers |
| `OwnerServes` | DiscoveryProofs | `RingSpec => []FetchIsOwner` | nodes, virtual nodes, hash functions, callers |
| `WeightsSumToZero` | SharedStateProofs | `WrrSpec => []SumZero` | nodes, weights |
| `PicksProportional` | SharedStateProofs | `WrrSpec => []Proportional` | as above |
| `RetryWaitsGrow` | SharedStateProofs | `RetrySpec => WaitsGrow` | width, delays, jitters, Groups in any order, roundings, attempts |
| `ErrorsStaySound` | SharedStateProofs | `ErrorsSpec => []SoundUntilReused` | objects, With…, texts, stacks |
| `OnlyIndexMakesStale` | SharedStateProofs | `Spec => []StaleOnlyByIndex` of Cache | callers |
| `LeaseIsExclusive` | SharedStateProofs | `Spec => []LeaseExclusive` of RedisLock | users, Lock objects |
| `AnswersJustified` | SharedStateProofs | `Spec => []AnswerJustified` of ServerTimeout | (no constants) |

`TypeCorrect` of BatchProofs and ServerCallProofs and `DepthCorrect` of the latter
support these. Every theorem of an invariant is proved the same way: an inductive
invariant, one lemma that Init gives it, one lemma per group of actions that a
step keeps it, and the property as a consequence.

The provers cannot use the library's induction theorems, which have an operator as
a parameter. Where a proof needs induction it takes a least counterexample
(`LeastNatural`, and `SmallestSet` for finite sets, from `NatLessThanWellFounded` and
`WFMin`, which have none). A fold or a recursive function is first shown to exist
by such an argument (`FoldExists`, `SumExists`, `Pow2Exists`, `CausesExist`), which gives
the equation that the other lemmas use.

Assumptions of these modules beyond types: weights are not negative
(`NodesAssumption`); delays fit the width and those whose logarithm is rounded up are
any set of them (`RetryAssumption`), and a function calls each of the three any number of
times (`FuncsAssumption`); a value of a document is in sections all the way up
(`DocsAssumption`); objects have names of their own and no
interface has the largest int as its index (`DialAssumption`); a hash is any function
of node and number, collisions included (`HashAssumption`); stacks are lists of strings
(`ErrorsAssumption`).

What the invariants add to the properties, and why that is needed:

- **Batch**, `Inv == TypeOK /\ Collected /\ Queued /\ NilLast /\ Quit`. `InOrder` says
  nothing about values still on their way. `Collected`: what a worker has collected
  of a key continues what was executed, and only the key's own worker collects.
  `Queued`: the key's channel holds exactly the accepted values that were not
  taken, in increasing order. `NilLast`: behind a nil there are only values accepted
  after the first Stop. `Quit`: a worker that has quit had its nil and an empty
  batch, and the WaitGroup counts all others. The lemmas about what a channel
  `Contains` after an append or a tail carry the step lemmas; `StopFlushes` and
  `Refinement` follow from `Inv` and one step.
- **WsSession**, `MutexInv`. That two goroutines are not both writing follows from
  who has the mutex: `HeldToWrite` says that a goroutine has it exactly while it
  is inside a WriteMessage, for the pcs of read, write and every closer, and
  `ClosesLast` that read and write are past their loops once they close.
- **App**, `AppInv`. `Joined` traces the return of Run to eg.Wait; `ListenerClosed`
  and `Drained` say of each of the four kinds of server what its Start and Stop
  leave behind, which `DrainedAtReturn` needs at a state long after the Stop.
- **EtcdRegistry**, `KeyInv`. Only the latest call of put can still write the key
  (`OnlyLatest`), so a call that succeeded and is the latest has it
  (`LatestHasKey`), and what keepAlive keeps is that call's lease (`KeepsLatest`).
- **Discovery**, `WatchInv`. With no response left to take and no event lost, what
  was read is current until it is handed over, and what was handed over is current
  until the next response; Build starts the parser with a response on its way. No
  assumption on the constants is used.
- **KafkaConsumer**, `ConsumerInv`. Every committed message is settled (handled or lost) or
  some member holds it (`Safe`). What a member's claim loop has gone past is committed, settled or
  with its own worker, but for the message it is about to send, and the mark is behind
  that one (`Given`, `Claim`): marks precede handling, but they follow the hand-over. For
  each message in a channel or in hand the earlier ones of its key are settled, ahead of
  it, or committed messages that this member does not have and will not receive again
  (`WorkerOrder`, `Queued`, `Follows`, `Passed`); with `Safe`, another member holds those. For
  `LossBound` the unsettled committed messages that only one member holds are mapped
  one-to-one into its workers `\X 0 .. Cap`: a message to its worker and its place.
- **Config**, `CacheInv`. While apply stores, the cache may be wrong on the keys
  it has still to store, and only there (`FreshButTodo`). A reader that missed
  stores late, but reads the tree and stores under the lock that apply takes. What a
  search plants changes the tree, but every value that is seen after it was seen
  before (`PlantedHides`), in trees of any depth.
- **ServerCall**. `ContextInv` adds who has a Context at all, so that the router's
  Put is of one that was taken. `BreakerInv` bounds the breakers by the requests that
  found none. `DepthInv` and `SlotInv` say at which depth of the chain a
  request with a slot or an entry is, so that the way up (or a panic's) passes
  the frame that gives it back. `CodeInv` carries what the code looks like at
  each phase, and that a success over http is a response of the handler; `GrpcRoundTrip` and `HttpRoundTrip` are the conversion tables,
  proved for every code. `MaskAssumption` is a closed fact about `Filter` and the
  seven middlewares, all 128 masks, that TLC evaluates: Filter sorts, which is
  beyond the provers. `CustomsRecoverInside` is a hypothesis about chains a
  service makes itself: if Recovery stood outside the limiter a panic would
  be recovered without the slot being returned. The default chain, every
  mask of Enable and the chains of the run satisfy it.
- **Cache**, `RowInv`. If no change waits to mark the keys, a loader that still has
  the row's lock has read the current row (`LoadsCurrent`), because marking takes
  the lock away; and a caller loads a row only once it got to its key
  (`NoLoadBefore`), so a lock it gets is followed by a new read.
- **RedisLock**, `LeaseInv`. The key has at most one value and whoever is within
  its lease has its value there: so a late Unlock deletes nothing of another's.
  It is inductive only if no two users share a Lock object, the property's own
  hypothesis.
- **ServerTimeout**, `AnswerInv`. What resp and err hold at each pc of the two
  goroutines, for both the locked and the unlocked way out.
- **Balancer**, `WeightInv` and `ShareInv`. `SumZero` is inductive once sums over finite
  sets are: a pick adds each weight and takes the total from one node (`HitSum`).
  `Proportional` speaks of the end of a round only. `Share` says at every pick
  that a node's current weight is its gains less its payments, and that no node is
  a whole total in debt: the one hit had at least the average of the sum, which
  needs `SumZero`. At the end of a round these leave each node only its weight.
- **Retry**, `RetryInv`. `WaitsGrow` compares a wait with the one before, which the state
  has only as a number. `Waiting` bounds it by the capped sum for the attempt before,
  as long as no sum has wrapped, with the option as BackOff left it. What remains is
  arithmetic of powers of two: the cached shift never reaches the sign bit, whichever way
  the logarithm was rounded, and a sum of terms that do not shrink does not shrink
  (`SummedGrows`), the first one, with the delay before BackOff, included.
- **Dial**, `AdvertiseInv` and `DialInv`. Every endpoint is one of a server under its
  scheme, whose host is what `ParseAddr` computes; that the loop over interfaces finds
  the least index, and the loop over addresses one of version 4 if there is one, are
  lemmas on the two operators. For the connections: the last option of the pile
  decides the address, the other fields come from the user's options alone.
- **ConsistentHash**, `RingInv`. `FetchIsOwner` needs the list to be sorted and to have
  exactly the points of the nodes. Exactly is the difficulty: Delete removes one
  entry per virtual node, so the invariant says that there is a one-to-one map
  between the places of the list and the virtual nodes of the nodes (`Lists`), which
  removal by binary search, insertion and sorting change as they should. It holds
  until two overlapping Adds insert a node twice, the property's own exception.
- **Errors**, `ErrorInv`. As long as no object had a second With…, a cause is older than
  its error (so chains end, by induction on age), a mark says that there was a
  With…, and an error derived from the sentinel has its reason or a cause that is
  derived from it. That stacks list a line once is a fact about
  `removeExtraStackLines` and any chain (`PrintedOnce`).

Every safety property and action property of the passing runs is a theorem, but
for one. Only model-checked are that one, Form's `OrderIndependent`, because the decoder
descends into nested messages by a RECURSIVE operator, in whose modules the provers
cannot be used, and because `Collide` knows the oneofs of the outermost message only,
which is enough for the schema of the run and not for every schema; and all that depends on fairness or ENABLED: `EventuallyExecuted`,
`StopTerminates`, `CloseCompletes`, `HandlerTold`, `SignalsSuffice`, `OrphanDisappears`,
`RegisteredAgain`, `Converges`, `CloseEnds`, `EventuallyHandled`, `Accounted`,
`LastWriteLoaded`, `NotStarved`, `NothingLeaks` and `BothEnd`.

## 5. Hazards
`PROJECT.json` lists them at their lines with the properties that cover them.

## 6. Findings
`balancer_wrapped`: `picker.Pick` asserts `*node.WrappedNode` of a node that
`Set.Save` wrapped in `*PlainWeight`: the first successful pick panics.

`cache_index`: the comment on `FetchIndex` says that `fn` queries the primary key
by the index and `f` the row by the primary key. When the index is not cached,
`f` is not called: with such an `fn` the caller gets a blank row and no error,
and the blank row is cached.

The models also contain behaviours that a reader of the code may not expect.
They are the exceptions written into properties, or reached without a property
that forbids them:
- config (`Merge`): the comment on `merge` says the order of reading decides; a
  value of another type does not replace the old one.
- hash (`AddDelete`, `AddInsert`): two overlapping Adds of one node insert its
  points twice, and after one Delete keys that fall on the rest find no node.
- flow (`PassUse`, `PassBack`): `MaxConn.Pass` gives its place back before the
  request runs, so the number of running requests is not bounded by `conn`.
- sentinel (`Result`): the middleware tells the entry of an error and returns nil in
  its place. The client sees a success, on grpc with an empty message; on http the
  generated handler panics when the response is a frame's nil and not the handler's
  `*Reply`.
- http codes (`Encode`, `Sent`): an error with code 0, 100 or 102..299 reaches an http
  client as a success, although the generator of errors accepts codes from 100; codes
  1..99 and above 999 panic in net/http.
- streams (`ChainReturns`, `Record`): the tracer sets the span's status after the
  deferred End of the Trace middleware, so a failed stream is recorded as a
  success; when a stream cannot be opened the interceptor converts a nil
  response to a ClientStream and panics (`StreamerFails`).
- batch (`StopSend`): a second Stop may never return, see `StopTerminates`.
- errors (`With`): the second With… on a shared error changes that error for
  all who hold it, and WithError can then make it its own cause.
- cache (`RawSet`): a row read before an update can be stored after the
  update deleted it, and stays until it expires.
- kafka (`Close`): closing the async producer does not wait, so an exit right
  after it can lose what was taken.
- kafka (`EndSession`, `Join`): messages are marked before they are handled
  (`sarama.go:257`) and Cleanup waits for nothing (`sarama.go:252`), so after a
  rebalance to another member that one may handle a message of a key while an earlier
  one still waits here.
- kafka (`Panic`): a handler's panic ends its worker for good; once the worker's channel
  is full it blocks the claim loop, and with it all keys of the partition.
- kafka-go (`Write`): with no acks asked for, Produce and the log report nothing of a
  message that no broker took.
- config (`Stored`, `CacheFresh`): the cached entry of a string that holds a JSON object or
  is "null" is never refreshed by a reload.
- config (`Planted`, `FindRace`): a Get below the second level that finds no section writes
  one into the tree: it replaces a value, makes merge refuse the file's later value
  as one of another type, and two such Gets write to one Go map at once under the read lock,
  which ends the process. A Get of two levels or more below "null" panics.
- config (`Swap`): the comment at `config/source/file/file.go:53-55` says that a changed real
  path is cared for; no event of a swapped link has the file's name, so nothing is
  reloaded.
- config (`Begun`): a reload may meet a half-written file that parses, and load its
  beginning; the next event repairs that.
- retry (`Panic`): for a delay just below the largest duration the logarithm of
  BackOff is rounded up, and the shift is by a negative number. Random panics without a
  positive jitter.
- retry (`Summed`): in the tests' Group(Fixed, BackOff) a negative delay is added once
  before BackOff makes it 1, so that the first wait is none; a Group of several can
  exceed the largest duration and turn negative, which its own cap does not notice.
- socket.io (`Transport`): Stop does not end Start, so a Run without a registry
  does not return.

## 7. Not modelled
Real time (tickers, deadlines and delays fire at any moment), the contents of
messages, services and requests, memory races whose only effect is a crash of the
Go runtime, and these parts:
- database clients, logging, tracing providers, profiling: constructors, query
  builders and output over libraries;
- code generators (`cmd`): text at build time;
- the configuration sources env (read once) and apollo (a callback that sends
  to a channel);
- the wrapper of grpc server streams, the gin adapters of `engine.go`,
  `redirect.go`: stateless forwarding;
- hystrix, the rules of sentinel and of the google breaker, `RateLimit`,
  `mr.go`: the decision is a library's;
- the spin lock, `routine.Group`, the bloom filter (its redis client cannot be
  set): no caller in the repository; the random balancer: no state but its generator;
- codecs other than forms into protobuf messages: calls of libraries;
- `pkg/cache/stat.go`: nothing calls it;
- details of modelled parts: a value that is cut off in the middle in a half-written
  configuration file (it is there or not); delay functions that a caller of `pkg/retry` writes itself; the
  k8s watcher keeps the port of its first read (`k8s.go:208-210`), an address is one
  value in `Discovery`; the primary key of `FetchIndex` goes through JSON, so that a number
  comes back as a float64 and may be formatted differently in the row's key
  (`cache.go:69`, `81`), while the key of `Cache` is a string.

## 8. Plan
Composition: `App` with `EtcdRegistry` and `Discovery`, so that what clients see
during a shutdown can be stated (drained servers are no longer listed).

Proofs: `OrderIndependent`, with the decoder's descent as a recursive function on
the length of a path and `Collide` on every level of a message; step properties that the invariants of section 4 already carry,
such as a slot that changes hands only through the limiter. `NoChangeLost` and `KeepsTheKey` can be combined once
registration and discovery are composed.
