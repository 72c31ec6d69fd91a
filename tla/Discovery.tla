------------------------------ MODULE Discovery ------------------------------
(***************************************************************************)
(* Service discovery of a grpc client: resolver.builder.Build starts the   *)
(* watch within a time limit, parser.watch calls watcher.List in a loop    *)
(* and hands the addresses to the connection.  The watcher is that of      *)
(* registry/etcd, whose List waits for an event of the etcd watch, replaces *)
(* a broken one and then reads all services; or that of registry/k8s,      *)
(* where an informer's handlers notify and the Endpoints object is read,   *)
(* without regard to the resolver's context.  Services come and go.        *)
(***************************************************************************)
EXTENDS Integers, FiniteSets, FiniteSetsExt

CONSTANTS
  Services,    \* service instances whose key has the watched prefix
  Name,        \* the instances that really have the watched name
  Addr,        \* their address with the grpc scheme, or NoAddr
  NoAddr,
  Size,        \* b.size with a Subset, 0 for none
  MaxChanges,  \* bound: services that come or go
  MaxBreaks,   \* bound: breaks of the etcd watch
  MaxFails     \* bound: reads or watch requests that fail

ASSUME ServicesAssumption ==
  /\ IsFiniteSet(Services) /\ Name \subseteq Services
  /\ Size \in Nat /\ MaxChanges \in Nat /\ MaxBreaks \in Nat /\ MaxFails \in Nat

VARIABLES
  registry,  \* "etcd" or "k8s"
  live,      \* the services there
  annotated, \* k8s: the Endpoints object has the schemes of the ports
  watch,     \* the etcd watch behind w.wc, or the informer: "none", "ok" or "broken"
  pending,   \* responses waiting in w.wc; notifications that wait for notify
  dpc,       \* pc of Build's Discover goroutine
  watcher,   \* whether Build's variable watcher is assigned
  err,       \* Build's variable err: "nil", "timeout" or "discover"
  bpc,       \* pc of Build
  pc,        \* pc of parser.watch
  got,       \* the services List read
  shown,     \* the addresses of the last UpdateState
  missed,    \* history: an event was taken but its read failed, and no later read succeeded
  ctxDone,   \* whether the resolver's context is cancelled
  closed,    \* whether parser.Close was called
  changes, breaks, fails

buildVars == <<dpc, watcher, err, bpc>>
envVars == <<registry, live, annotated, changes, breaks, closed>>
vars == <<envVars, watch, pending, buildVars, pc, got, shown, missed, ctxDone, fails>>

\* Build has started the Discover goroutine and waits in its select.
Init ==
  /\ registry \in {"etcd", "k8s"} /\ live \in SUBSET Services
  /\ annotated \in BOOLEAN /\ (registry = "etcd" => annotated)
  /\ watch = "none" /\ pending = 0
  /\ dpc = "discover" /\ watcher = FALSE /\ err = "nil" /\ bpc = "select"
  /\ pc = "off" /\ got = {} /\ shown = {} /\ missed = FALSE
  /\ ctxDone = FALSE /\ closed = FALSE
  /\ changes = 0 /\ breaks = 0 /\ fails = 0

Fail == fails < MaxFails /\ fails' = fails + 1

-----------------------------------------------------------------------------
\* builder.Build

\* The resolver's context, which the k8s watcher does not have.
Cancelled == ctxDone /\ registry = "etcd"

\* Discover: the watch is there, and RequestProgress makes it respond once.
DiscoverOk ==
  /\ dpc = "discover" /\ registry = "etcd" /\ ~ctxDone
  /\ watch' = "ok" /\ pending' = 1
  /\ dpc' = "assign"
  /\ UNCHANGED <<envVars, watcher, err, bpc, pc, got, shown, missed, ctxDone, fails>>

\* The k8s Discover: the informer starts, and the first object it lists is
\* notified as an addition.
DiscoverK8s ==
  /\ dpc = "discover" /\ registry = "k8s"
  /\ watch' = "ok" /\ pending' = 1
  /\ dpc' = "assign"
  /\ UNCHANGED <<envVars, watcher, err, bpc, pc, got, shown, missed, ctxDone, fails>>

\* Discover fails (a target without port or namespace is one of the ways), at
\* the latest when Build has given up.
DiscoverErr ==
  /\ dpc = "discover"
  /\ IF Cancelled THEN UNCHANGED fails ELSE Fail
  /\ err' = "discover"
  /\ dpc' = "sent"
  /\ UNCHANGED <<envVars, watch, pending, watcher, bpc, pc, got, shown, missed, ctxDone>>

\* watcher, err = ... : two unsynchronised stores, in either order for a
\* reader that did not wait for ch.
Assign ==
  /\ dpc = "assign"
  /\ \/ watcher' = TRUE /\ dpc' = "assignErr" /\ UNCHANGED err
     \/ err' = "nil" /\ dpc' = "assignWatcher" /\ UNCHANGED watcher
  /\ UNCHANGED <<envVars, watch, pending, bpc, pc, got, shown, missed, ctxDone, fails>>

\* The other store, then ch <- struct{}{}.
AssignSend ==
  /\ \/ dpc = "assignErr" /\ err' = "nil" /\ UNCHANGED watcher
     \/ dpc = "assignWatcher" /\ watcher' = TRUE /\ UNCHANGED err
  /\ dpc' = "sent"
  /\ UNCHANGED <<envVars, watch, pending, bpc, pc, got, shown, missed, ctxDone, fails>>

\* The select of Build.
BuildSelect ==
  /\ bpc = "select"
  /\ \/ dpc = "sent" /\ UNCHANGED err
     \/ err' = "timeout"
  /\ bpc' = "check"
  /\ UNCHANGED <<envVars, watch, pending, dpc, watcher, pc, got, shown, missed, ctxDone, fails>>

\* The end of the context ends an etcd watch; the informer has none.
Broken == watch' = IF registry = "etcd" THEN "broken" ELSE watch

\* if err != nil: cancel and give up; otherwise parser.watch runs, with a nil
\* watcher if the store to watcher is not visible yet.
BuildReturn ==
  /\ bpc = "check"
  /\ IF err # "nil"
     THEN bpc' = "error" /\ ctxDone' = TRUE /\ Broken /\ UNCHANGED pc
     ELSE /\ bpc' = "built"
          /\ pc' = IF watcher THEN "loop" ELSE "panic"
          /\ UNCHANGED <<ctxDone, watch>>
  /\ UNCHANGED <<envVars, pending, dpc, watcher, err, got, shown, missed, fails>>

-----------------------------------------------------------------------------
\* The registry

\* A service comes or goes; a working watch reports it.  The informer's handlers
\* notify each version of the object and no repetition.
Change(s) ==
  /\ changes < MaxChanges
  /\ changes' = changes + 1
  /\ live' = IF s \in live THEN live \ {s} ELSE live \union {s}
  /\ pending' = IF watch = "ok" THEN pending + 1 ELSE pending
  /\ UNCHANGED <<registry, annotated, breaks, closed, watch, buildVars, pc, got, shown, missed, ctxDone, fails>>

\* registry/k8s: Register patches the schemes into the object.
Annotate ==
  /\ registry = "k8s" /\ ~annotated
  /\ annotated' = TRUE
  /\ pending' = IF watch = "ok" THEN pending + 1 ELSE pending
  /\ UNCHANGED <<registry, live, changes, breaks, closed, watch, buildVars, pc, got, shown,
                 missed, ctxDone, fails>>

\* The watch is compacted, its stream ends, or its channel closes.
Break ==
  /\ watch = "ok" /\ registry = "etcd"
  /\ breaks < MaxBreaks
  /\ breaks' = breaks + 1
  /\ watch' = "broken"
  /\ UNCHANGED <<registry, live, annotated, changes, closed, pending, buildVars, pc, got, shown, missed, ctxDone, fails>>

-----------------------------------------------------------------------------
\* parser.watch, watcher.List and getService

\* The parser's own check of its context, then List.
Loop ==
  /\ pc = "loop"
  /\ pc' = IF ctxDone THEN "ended" ELSE "list"
  /\ UNCHANGED <<envVars, watch, pending, buildVars, got, shown, missed, ctxDone, fails>>

\* etcd's List returns context.Canceled and the parser ends.
ListDone ==
  /\ pc = "list" /\ Cancelled
  /\ pc' = "ended"
  /\ UNCHANGED <<envVars, watch, pending, buildVars, got, shown, missed, ctxDone, fails>>

\* A response of the watch.
ListEvent ==
  /\ pc = "list" /\ pending > 0
  /\ pending' = pending - 1
  /\ pc' = "get"
  /\ UNCHANGED <<envVars, watch, buildVars, got, shown, missed, ctxDone, fails>>

\* Fault: waits for the new watch to respond, which nothing makes it do.
ListRewatchNoGet ==
  /\ pc = "list" /\ pending = 0 /\ watch = "broken"
  /\ watch' = IF ctxDone THEN "broken" ELSE "ok"
  /\ pc' = "loop"
  /\ UNCHANGED <<envVars, pending, buildVars, got, shown, missed, ctxDone, fails>>

\* The closed watch: a new one, which RequestProgress makes respond, and then
\* a read; under a cancelled context, or when RequestProgress fails, List
\* fails and the parser ends or comes back after a pause.
ListRewatch ==
  /\ pc = "list" /\ pending = 0 /\ watch = "broken"
  /\ \/ ctxDone /\ pc' = "ended" /\ UNCHANGED <<watch, pending, missed, fails>>
     \/ ~ctxDone /\ watch' = "ok" /\ pending' = 1 /\ pc' = "get" /\ UNCHANGED <<missed, fails>>
     \/ ~ctxDone /\ Fail /\ watch' = "ok" /\ missed' = TRUE /\ pc' = "loop" /\ UNCHANGED pending
  /\ UNCHANGED <<envVars, buildVars, got, shown, ctxDone>>

\* The services of the watched name; k8s selects it itself.
Named == IF registry = "etcd" THEN live \intersect Name ELSE live

\* The annotation of a k8s object that has none is not json.
Decodes == annotated

\* getService, and the rest of the k8s List: a failed read (the call, or a value
\* that is not json) loses the event that led to it.
Get ==
  /\ pc = "get"
  /\ \/ Cancelled /\ pc' = "ended" /\ UNCHANGED <<got, missed, fails>>
     \/ /\ ~Cancelled /\ Decodes
        /\ got' = Named /\ missed' = FALSE /\ pc' = "update" /\ UNCHANGED fails
     \/ /\ ~Cancelled /\ (IF Decodes THEN Fail ELSE UNCHANGED fails)
        /\ missed' = TRUE /\ pc' = "loop" /\ UNCHANGED got
  /\ UNCHANGED <<envVars, watch, pending, buildVars, shown, ctxDone>>

\* The addresses of a list of services, without duplicates and without the
\* services that have no grpc endpoint.
Addresses(svc) == {Addr[s] : s \in svc} \ {NoAddr}

\* What Subset may choose.
Subsets(A) ==
  IF Size = 0 \/ Cardinality(A) <= Size THEN {A} ELSE kSubset(Size, A)

\* Fault: a list as long as the current one is taken for unchanged.
UpdateSameLength ==
  /\ pc = "update"
  /\ IF Cardinality(Addresses(got)) \in {0, Cardinality(shown)}
     THEN UNCHANGED shown ELSE shown' \in Subsets(Addresses(got))
  /\ pc' = "loop"
  /\ UNCHANGED <<envVars, watch, pending, buildVars, got, missed, ctxDone, fails>>

\* update: an empty list leaves the connection as it is.
Update ==
  /\ pc = "update"
  /\ IF Addresses(got) = {} THEN UNCHANGED shown ELSE shown' \in Subsets(Addresses(got))
  /\ pc' = "loop"
  /\ UNCHANGED <<envVars, watch, pending, buildVars, got, missed, ctxDone, fails>>

\* Fault: Close stops the watcher and does not cancel the context.
CloseStops ==
  /\ bpc = "built" /\ ~closed
  /\ closed' = TRUE
  /\ Broken
  /\ UNCHANGED <<registry, live, annotated, changes, breaks, pending, buildVars, pc, got, shown,
                 missed, ctxDone, fails>>

\* parser.Close cancels the context and stops the watcher, which for k8s does
\* nothing.
Close ==
  /\ bpc = "built" /\ ~closed
  /\ closed' = TRUE
  /\ ctxDone' = TRUE
  /\ Broken
  /\ UNCHANGED <<registry, live, annotated, changes, breaks, pending, buildVars, pc, got, shown, missed, fails>>

Discover == DiscoverOk \/ DiscoverK8s \/ DiscoverErr \/ Assign \/ AssignSend
Build == BuildSelect \/ BuildReturn
List == ListDone \/ ListEvent \/ ListRewatch \/ Get
Watch == Loop \/ List \/ Update

Next ==
  \/ Discover \/ Build \/ Watch \/ Close \/ Break \/ Annotate
  \/ \E s \in Services : Change(s)

Spec == Init /\ [][Next]_vars

\* The goroutines run, and etcd and k8s answer or fail.  Close is the user's.
FairSpec == Spec /\ WF_vars(Discover) /\ WF_vars(Build) /\ WF_vars(Watch)

-----------------------------------------------------------------------------

\* The connection has what the registry has (a subset of it of the right size),
\* or that has no usable service and the connection keeps its old addresses.
UpToDate == LET A == Addresses(Named) IN A = {} \/ shown \in Subsets(A)

\* A parser that waits for a working watch without a response on its way has
\* handed over what the registry has, unless it lost an event to a failed read:
\* no change falls between the read and the watch, not even when a broken watch
\* is replaced.
NoChangeLost ==
  (pc = "list" /\ watch = "ok" /\ pending = 0 /\ ~missed) => UpToDate

\* When services stop changing, the connection comes to what the registry has
\* for good, unless the last event was lost, Build failed or the resolver was
\* closed.
Converges == <>[](UpToDate \/ missed \/ ctxDone \/ pc = "panic")

\* A closed resolver's parser ends; only the k8s List, which waits for the next
\* notification and nothing else, may hold it.  And the parser has a watcher,
\* unless Build's timer fired just as Discover was storing it.
CloseEnds ==
  closed ~> (pc \in {"ended", "panic"} \/ (registry = "k8s" /\ pc = "list" /\ pending = 0))

=============================================================================
