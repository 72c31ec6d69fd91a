---------------------------- MODULE EtcdRegistry ----------------------------
(***************************************************************************)
(* registry/etcd/etcd.go: one service instance kept in etcd under a lease. *)
(* Register grants a lease, puts the key under it and starts keepAlive;    *)
(* when the keep-alive channel closes, keepAlive grants and puts anew, each *)
(* attempt in a goroutine of its own with a 3 second context; Unregister   *)
(* deletes the key.  etcd is the environment: leases run out unless kept,  *)
(* a call may fail after it took effect, and a call whose caller gave up    *)
(* may still take effect later.                                             *)
(***************************************************************************)
EXTENDS Integers

CONSTANTS
  Retry,      \* opt.retry
  MaxPuts,    \* bound: calls of put after the one of Register
  MaxLosses,  \* bound: breaks of a keep-alive stream or lease under its keeper
  MaxFails    \* bound: calls of etcd that fail

ASSUME BoundsAssumption ==
  /\ Retry \in Nat \ {0} /\ MaxPuts \in Nat
  /\ MaxLosses \in Nat /\ MaxFails \in Nat

\* A call of put: Register's is the first one.  A call grants at most one
\* lease, so a lease bears the number of its call.
Puts == 0 .. MaxPuts
None == -1

VARIABLES
  put,       \* per call: "idle", "grant", "put", "done", "failed"
  over,      \* the calls whose context is cancelled or expired
  lease,     \* per call: its lease in etcd: "none", "live", "gone"
  key,       \* the lease of the service's key in etcd, or None
  limbo,     \* put requests given up by their caller but still on their way
  late,      \* history: whether such a request took effect
  reg,       \* Register: "put", "ok" or "failed"
  unreg,     \* Unregister: "idle", "delete", "ok" or "failed"
  ka,        \* pc of keepAlive
  n,         \* the attempt of Option.Retry
  cur,       \* leaseID of keepAlive, or None for 0
  last,      \* number of the latest call of put
  chLost,    \* whether the keep-alive channel closed
  ctxDone,   \* whether opt.ctx is cancelled
  losses, fails

etcdVars == <<lease, key, limbo, late>>
kaVars == <<ka, n, cur, last, chLost>>
envVars == <<losses, fails>>
vars == <<put, over, etcdVars, reg, unreg, kaVars, ctxDone, envVars>>

\* Register has replaced r.lease and is about to call put.
Init ==
  /\ put = [p \in Puts |-> IF p = 0 THEN "grant" ELSE "idle"]
  /\ over = {}
  /\ lease = [p \in Puts |-> "none"]
  /\ key = None /\ limbo = {} /\ late = FALSE
  /\ reg = "put" /\ unreg = "idle"
  /\ ka = "off" /\ n = 0 /\ cur = None /\ last = 0 /\ chLost = FALSE
  /\ ctxDone = FALSE
  /\ losses = 0 /\ fails = 0

-----------------------------------------------------------------------------
\* put

Fail == fails < MaxFails /\ fails' = fails + 1

\* Grant answers.
Grant(p) ==
  /\ put[p] = "grant" /\ p \notin over
  /\ lease' = [lease EXCEPT ![p] = "live"]
  /\ put' = [put EXCEPT ![p] = "put"]
  /\ UNCHANGED <<over, key, limbo, late, reg, unreg, kaVars, ctxDone, envVars>>

\* Grant fails, because its context is over or otherwise; etcd may have
\* granted the lease.
GrantFail(p) ==
  /\ put[p] = "grant"
  /\ IF p \in over THEN UNCHANGED fails ELSE Fail
  /\ lease' \in {lease, [lease EXCEPT ![p] = "live"]}
  /\ put' = [put EXCEPT ![p] = "failed"]
  /\ UNCHANGED <<over, key, limbo, late, reg, unreg, kaVars, ctxDone, losses>>

\* Fault: the attempt's request runs under ctx and so outlives its 3 seconds.
PutDoneNoDeadline(p) ==
  /\ put[p] = "put"
  /\ lease[p] = "live"
  /\ key' = p
  /\ put' = [put EXCEPT ![p] = "done"]
  /\ over' = IF p = 0 THEN over ELSE over \union {p}
  /\ UNCHANGED <<lease, limbo, late, reg, unreg, kaVars, ctxDone, envVars>>

\* Fault: no WithLease.
PutDoneNoLease(p) ==
  /\ put[p] = "put" /\ p \notin over
  /\ key' = p
  /\ put' = [put EXCEPT ![p] = "done"]
  /\ over' = IF p = 0 THEN over ELSE over \union {p}
  /\ UNCHANGED <<lease, limbo, late, reg, unreg, kaVars, ctxDone, envVars>>

\* Put answers; etcd accepts it only under a live lease.  In keepAlive the
\* goroutine sends the id and its deferred cancel ends the context.
PutDone(p) ==
  /\ put[p] = "put" /\ p \notin over
  /\ lease[p] = "live"
  /\ key' = p
  /\ put' = [put EXCEPT ![p] = "done"]
  /\ over' = IF p = 0 THEN over ELSE over \union {p}
  /\ UNCHANGED <<lease, limbo, late, reg, unreg, kaVars, ctxDone, envVars>>

\* Put fails: the lease ran out, the context is over, or the call was lost.
\* The request may have taken effect or still be on its way.
PutFail(p) ==
  /\ put[p] = "put"
  /\ IF p \in over \/ lease[p] = "gone" THEN UNCHANGED fails ELSE Fail
  /\ put' = [put EXCEPT ![p] = "failed"]
  /\ limbo' \in {limbo, limbo \union {p}}
  /\ UNCHANGED <<over, lease, key, late, reg, unreg, kaVars, ctxDone, losses>>

\* A request in limbo reaches etcd.
LateArrival(p) ==
  /\ p \in limbo
  /\ limbo' = limbo \ {p}
  /\ key' = IF lease[p] = "live" THEN p ELSE key
  /\ late' = (late \/ lease[p] = "live")
  /\ UNCHANGED <<put, over, lease, reg, unreg, kaVars, ctxDone, envVars>>

-----------------------------------------------------------------------------
\* etcd and time

Kept(p) == p = cur /\ ~chLost /\ ka \in {"first", "loop"}

\* A lease runs out and takes its key along; a kept one only when the keeper
\* cannot reach etcd.
Expire(p) ==
  /\ lease[p] = "live"
  /\ IF Kept(p) THEN losses < MaxLosses /\ losses' = losses + 1 ELSE UNCHANGED losses
  /\ lease' = [lease EXCEPT ![p] = "gone"]
  /\ key' = IF key = p THEN None ELSE key
  /\ UNCHANGED <<put, over, limbo, late, reg, unreg, kaVars, ctxDone, fails>>

\* The client gives up the keep-alive stream while the lease still runs.
StreamLost ==
  /\ Kept(cur)
  /\ losses < MaxLosses
  /\ losses' = losses + 1
  /\ chLost' = TRUE
  /\ UNCHANGED <<put, over, etcdVars, reg, unreg, ka, n, cur, last, ctxDone, fails>>

\* The 3 seconds of an attempt are over.
Timeout(p) ==
  /\ p > 0
  /\ put[p] \in {"grant", "put"}
  /\ over' = over \union {p}
  /\ UNCHANGED <<put, etcdVars, reg, unreg, kaVars, ctxDone, envVars>>

\* The application cancels opt.ctx, and with it the running attempts and the
\* keep-alive stream.
CancelCtx ==
  /\ ~ctxDone
  /\ ctxDone' = TRUE
  /\ over' = over \union (Puts \ {0})
  /\ chLost' = TRUE
  /\ UNCHANGED <<put, etcdVars, reg, unreg, ka, n, cur, last, envVars>>

-----------------------------------------------------------------------------
\* Register and Unregister

\* Register returns put's error, or starts keepAlive.
RegisterReturn ==
  /\ reg = "put"
  /\ \/ put[0] = "done" /\ reg' = "ok" /\ ka' = "start" /\ cur' = 0
     \/ put[0] = "failed" /\ reg' = "failed" /\ UNCHANGED <<ka, cur>>
  /\ UNCHANGED <<put, over, etcdVars, unreg, n, last, chLost, ctxDone, envVars>>

UnregisterCall ==
  /\ reg = "ok" /\ unreg = "idle"
  /\ unreg' = "delete"
  /\ UNCHANGED <<put, over, etcdVars, reg, kaVars, ctxDone, envVars>>

\* Delete; its failure may follow its effect.  r.lease.Close ends neither the
\* lease nor keepAlive, which uses the client's own lease object.
UnregisterDelete ==
  /\ unreg = "delete"
  /\ \/ key' = None /\ unreg' = "ok" /\ UNCHANGED fails
     \/ key' \in {key, None} /\ unreg' = "failed" /\ Fail
  /\ UNCHANGED <<put, over, lease, limbo, late, reg, kaVars, ctxDone, losses>>

-----------------------------------------------------------------------------
\* keepAlive

\* The first KeepAlive call; under a cancelled ctx it succeeds and the channel
\* closes at once.
KaStart ==
  /\ ka = "start"
  /\ \/ ka' = "loop" /\ UNCHANGED <<n, cur, fails>>
     \/ Fail /\ ka' = "attempt" /\ n' = 1 /\ cur' = None
  /\ UNCHANGED <<put, over, etcdVars, reg, unreg, last, chLost, ctxDone, losses>>

\* An attempt of Option.Retry failed: the next one, or keepAlive returns.
NextAttempt ==
  IF n < Retry THEN ka' = "attempt" /\ n' = n + 1 ELSE ka' = "ended" /\ UNCHANGED n

\* An attempt: ctx.Err, or a goroutine that calls put.
KaAttempt ==
  /\ ka = "attempt"
  /\ IF ctxDone
     THEN NextAttempt /\ UNCHANGED <<put, last>>
     ELSE /\ last < MaxPuts
          /\ last' = last + 1
          /\ put' = [put EXCEPT ![last + 1] = "grant"]
          /\ ka' = "select" /\ UNCHANGED n
  /\ UNCHANGED <<over, etcdVars, reg, unreg, cur, chLost, ctxDone, envVars>>

\* Fault: waits for the id only.
KaSelectIdOnly ==
  /\ ka = "select"
  /\ put[last] = "done"
  /\ cur' = last
  /\ ka' = "keep"
  /\ UNCHANGED <<n, put, over, etcdVars, reg, unreg, last, chLost, ctxDone, envVars>>

\* The select takes any ready case: a put that succeeded has also ended its
\* context, so it may be taken for a timeout.
KaSelect ==
  /\ ka = "select"
  /\ \/ /\ last \in over \/ put[last] = "failed"
        /\ NextAttempt
        /\ UNCHANGED cur
     \/ /\ put[last] = "done"
        /\ cur' = last
        /\ ka' = "keep" /\ UNCHANGED n
  /\ UNCHANGED <<put, over, etcdVars, reg, unreg, last, chLost, ctxDone, envVars>>

\* KeepAlive for the new lease.
KaKeep ==
  /\ ka = "keep"
  /\ \/ ka' = "first" /\ chLost' = ctxDone /\ UNCHANGED <<n, fails>>
     \/ Fail /\ NextAttempt /\ UNCHANGED chLost
  /\ UNCHANGED <<put, over, etcdVars, reg, unreg, cur, last, ctxDone, losses>>

Closed == chLost \/ lease[cur] = "gone"

\* The first answer, without a retry: a closed channel ends keepAlive.
KaFirst ==
  /\ ka = "first"
  /\ \/ Closed /\ ka' = "ended"
     \/ ka' = "loop"
  /\ UNCHANGED <<put, over, etcdVars, reg, unreg, n, cur, last, chLost, ctxDone, envVars>>

\* The channel closed: start over, unless ctx is done.
KaClosed ==
  /\ ka = "loop"
  /\ Closed
  /\ IF ctxDone
     THEN ka' = "ended" /\ UNCHANGED <<n, cur>>
     ELSE ka' = "attempt" /\ n' = 1 /\ cur' = None
  /\ UNCHANGED <<put, over, etcdVars, reg, unreg, last, chLost, ctxDone, envVars>>

KaDone ==
  /\ ka = "loop"
  /\ ctxDone
  /\ ka' = "ended"
  /\ UNCHANGED <<put, over, etcdVars, reg, unreg, n, cur, last, chLost, ctxDone, envVars>>

KeepAlive == KaStart \/ KaAttempt \/ KaSelect \/ KaKeep \/ KaFirst \/ KaClosed \/ KaDone
Put(p) == Grant(p) \/ GrantFail(p) \/ PutDone(p) \/ PutFail(p)

Next ==
  \/ KeepAlive
  \/ RegisterReturn \/ UnregisterCall \/ UnregisterDelete
  \/ CancelCtx \/ StreamLost
  \/ \E p \in Puts : Put(p) \/ Timeout(p) \/ LateArrival(p) \/ Expire(p)

Spec == Init /\ [][Next]_vars

\* Goroutines run, calls answer or fail in bounded time (they have contexts),
\* and a lease that nobody keeps runs out.
Fairness ==
  /\ WF_vars(KeepAlive) /\ WF_vars(RegisterReturn) /\ WF_vars(UnregisterDelete)
  /\ \A p \in Puts : /\ WF_vars(Put(p))
                     /\ WF_vars(~Kept(p) /\ Expire(p))

FairSpec == Spec /\ Fairness

-----------------------------------------------------------------------------

\* While keepAlive waits on the channel of a live lease, that lease holds the
\* service's key: it never keeps a lease that the key does not depend on.
\* Broken only by a put request that takes effect after its caller gave up.
KeepsTheKey ==
  (ka \in {"first", "loop"} /\ lease[cur] = "live" /\ unreg = "idle" /\ ~late) => key = cur

\* Once nobody keeps the registration (Register failed, keepAlive ended or its
\* ctx was cancelled) the key disappears for good, whatever calls of put were
\* still under way.
OrphanDisappears ==
  (reg = "failed" \/ ka = "ended" \/ ctxDone) ~> [](key = None)

\* A keepAlive that lost its lease comes to keep a live one again, or gives up
\* after its attempts (the last disjunct is the model's bound on calls).
RegisteredAgain ==
  ka = "attempt" ~>
    \/ ka \in {"first", "loop"} /\ lease[cur] = "live"
    \/ ka = "ended"
    \/ ka = "attempt" /\ last = MaxPuts

=============================================================================
