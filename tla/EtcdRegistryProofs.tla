------------------------- MODULE EtcdRegistryProofs -------------------------
(***************************************************************************)
(* Proofs about EtcdRegistry for any bounds on calls, losses and failures: *)
(* keepAlive never keeps a lease that the service's key does not depend on *)
(* unless a request took effect after its caller gave up.                  *)
(***************************************************************************)
EXTENDS EtcdRegistry, TLAPS

TypeOK ==
  /\ put \in [Puts -> {"idle", "grant", "put", "done", "failed"}]
  /\ lease \in [Puts -> {"none", "live", "gone"}]
  /\ last \in Puts

\* Call p of put may still write the key.
Active(p) == put[p] \in {"grant", "put"} /\ p \notin over

\* Only the latest call may: Register's until Register returns, an attempt's
\* while keepAlive waits for it.  An attempt that keepAlive gave up is over.
OnlyLatest ==
  /\ \A p \in Puts : p > last => put[p] = "idle"
  /\ \A p \in Puts : Active(p) => p = last /\ (IF p = 0 THEN reg = "put" ELSE ka = "select")
  /\ reg = "put" => ka = "off" /\ last = 0
  /\ ka = "select" => last > 0

\* What keepAlive keeps is the lease of the latest call, which succeeded.
KeepsLatest == ka \in {"start", "keep", "first", "loop"} => cur = last /\ put[last] = "done"

\* A latest call that succeeded has the key, as long as its lease runs.
LatestHasKey ==
  (put[last] = "done" /\ lease[last] = "live" /\ unreg = "idle" /\ ~late) => key = last

KeyInv == TypeOK /\ OnlyLatest /\ KeepsLatest /\ LatestHasKey

-----------------------------------------------------------------------------

LEMMA InitKey == Init => KeyInv
  BY BoundsAssumption
     DEF Init, KeyInv, TypeOK, OnlyLatest, Active, KeepsLatest, LatestHasKey, Puts

\* The calls of put, and what etcd and time do to them.
LEMMA PutKey ==
  ASSUME NEW p \in Puts, KeyInv, Put(p)
  PROVE  KeyInv'
<1> USE DEF KeyInv, TypeOK, OnlyLatest, Active, KeepsLatest, LatestHasKey, kaVars, Fail
<1>1. CASE Grant(p)
  BY <1>1 DEF Grant
<1>2. CASE GrantFail(p)
  BY <1>2 DEF GrantFail
<1>3. CASE PutDone(p)
  BY <1>3 DEF PutDone
<1>4. CASE PutFail(p)
  BY <1>4 DEF PutFail
<1> QED
  BY <1>1, <1>2, <1>3, <1>4 DEF Put

LEMMA EnvironmentKey ==
  ASSUME KeyInv,
         CancelCtx \/ StreamLost \/ \E p \in Puts : Timeout(p) \/ LateArrival(p) \/ Expire(p)
  PROVE  KeyInv'
<1> USE DEF KeyInv, TypeOK, OnlyLatest, Active, KeepsLatest, LatestHasKey, kaVars, etcdVars
<1>1. CASE CancelCtx
  BY <1>1 DEF CancelCtx
<1>2. CASE StreamLost
  BY <1>2 DEF StreamLost
<1>3. ASSUME NEW p \in Puts, Timeout(p)
      PROVE  KeyInv'
  BY <1>3 DEF Timeout
<1>4. ASSUME NEW p \in Puts, LateArrival(p)
      PROVE  KeyInv'
  BY <1>4 DEF LateArrival
<1>5. ASSUME NEW p \in Puts, Expire(p)
      PROVE  KeyInv'
  BY <1>5 DEF Expire
<1> QED
  BY <1>1, <1>2, <1>3, <1>4, <1>5

LEMMA RegisterKey ==
  ASSUME KeyInv, RegisterReturn \/ UnregisterCall \/ UnregisterDelete
  PROVE  KeyInv'
<1> USE DEF KeyInv, TypeOK, OnlyLatest, Active, KeepsLatest, LatestHasKey, kaVars, etcdVars
<1>1. CASE RegisterReturn
  BY <1>1 DEF RegisterReturn, Puts
<1>2. CASE UnregisterCall
  BY <1>2 DEF UnregisterCall
<1>3. CASE UnregisterDelete
  BY <1>3 DEF UnregisterDelete
<1> QED
  BY <1>1, <1>2, <1>3

LEMMA KeepAliveKey ==
  ASSUME KeyInv, KeepAlive
  PROVE  KeyInv'
<1> USE DEF KeyInv, TypeOK, OnlyLatest, Active, KeepsLatest, LatestHasKey, etcdVars, NextAttempt
<1>1. CASE KaStart
  BY <1>1 DEF KaStart
<1>2. CASE KaAttempt
  BY <1>2, BoundsAssumption DEF KaAttempt, Puts
<1>3. CASE KaSelect
  BY <1>3 DEF KaSelect
<1>4. CASE KaKeep
  BY <1>4 DEF KaKeep
<1>5. CASE KaFirst
  BY <1>5 DEF KaFirst
<1>6. CASE KaClosed
  BY <1>6 DEF KaClosed
<1>7. CASE KaDone
  BY <1>7 DEF KaDone
<1> QED
  BY <1>1, <1>2, <1>3, <1>4, <1>5, <1>6, <1>7 DEF KeepAlive

LEMMA NextKey == KeyInv /\ [Next]_vars => KeyInv'
<1> SUFFICES ASSUME KeyInv, [Next]_vars
             PROVE  KeyInv'
  OBVIOUS
<1>1. CASE KeepAlive
  BY <1>1, KeepAliveKey
<1>2. CASE RegisterReturn \/ UnregisterCall \/ UnregisterDelete
  BY <1>2, RegisterKey
<1>3. CASE CancelCtx \/ StreamLost \/ \E p \in Puts : Timeout(p) \/ LateArrival(p) \/ Expire(p)
  BY <1>3, EnvironmentKey
<1>4. ASSUME NEW p \in Puts, Put(p)
      PROVE  KeyInv'
  BY <1>4, PutKey
<1>5. CASE UNCHANGED vars
  BY <1>5 DEF vars, etcdVars, kaVars, KeyInv, TypeOK, OnlyLatest, Active, KeepsLatest,
              LatestHasKey
<1> QED
  BY <1>1, <1>2, <1>3, <1>4, <1>5 DEF Next

\* However often attempts fail, time out and are repeated, the lease whose
\* channel keepAlive waits on is the one the service's key is under.
THEOREM KeeperHasKey == Spec => []KeepsTheKey
<1>1. Spec => []KeyInv
  BY InitKey, NextKey, PTL DEF Spec
<1>2. KeyInv => KeepsTheKey
  BY DEF KeyInv, KeepsLatest, LatestHasKey, KeepsTheKey
<1> QED
  BY <1>1, <1>2, PTL

=============================================================================
