-------------------------- MODULE SharedStateProofs --------------------------
(***************************************************************************)
(* Proofs about seven small components whose state is a few variables: the *)
(* cache of the configuration (Config), the lock in redis (RedisLock), a   *)
(* row cached in redis (Cache), the result of a grpc call under a deadline *)
(* (ServerTimeout), the weights of the round robin picker (Balancer), the  *)
(* waits of a retry (Retry) and error objects derived from a shared one    *)
(* (Errors); for any keys, documents, readers, users, clients, nodes,      *)
(* weights, delays, texts and stacks and any number of changes, lapses,    *)
(* picks, attempts and objects.                                            *)
(***************************************************************************)
EXTENDS Balancer, Config, Retry, Errors, RedisState, DeadlineState,
        FiniteSetTheorems, NaturalsInduction, TLAPS

-----------------------------------------------------------------------------
(* The configuration. *)

\* The cache agrees with the tree on every value it has, except on those that
\* the apply in progress has still to store.
FreshButTodo ==
  \A p \in Paths :
    (p \notin todo /\ Stored(Seen(changed, p)) /\ cached[p] # NoEntry) => cached[p] = Seen(changed, p)

CacheInv ==
  /\ cached = [p \in Paths |-> cached[p]]
  /\ want \in [Readers -> Paths \union {<<>>}]
  /\ lpc # "store" => todo = {}
  /\ FreshButTodo

LEMMA InitCache == Init => CacheInv
  BY DEF Init, CacheInv, FreshButTodo

\* A load: everything apply may have changed is in todo until it is stored.
LEMMA LoaderCache ==
  ASSUME CacheInv, Loader
  PROVE  CacheInv'
<1>1. CASE Wait \/ Read
  BY <1>1 DEF Wait, Read, CacheInv, FreshButTodo
<1>2. CASE Apply
  BY <1>2 DEF Apply, CacheInv, FreshButTodo
<1>3. CASE Store /\ todo = {}
  BY <1>3 DEF Store, CacheInv, FreshButTodo
<1>4. CASE Store /\ todo # {}
  <2>1. PICK p \in todo : /\ cached' = [cached EXCEPT ![p] = Seen(changed, p)]
                          /\ todo' = todo \ {p}
                          /\ UNCHANGED <<lpc, changed, want>>
    BY <1>4 DEF Store
  <2>2. lpc = "store"
    BY <1>4 DEF Store
  <2> QED
    BY <2>1, <2>2 DEF CacheInv, FreshButTodo
<1> QED
  BY <1>1, <1>2, <1>3, <1>4 DEF Loader

\* What deepSearch plants is no value, and hides none behind it.
LEMMA PlantedHides ==
  ASSUME NEW tree, NEW tree2, NEW w, NEW p \in Paths,
         tree2 = [q \in Paths |-> IF q \in Planted(tree, w) THEN Section ELSE tree[q]],
         Stored(Seen(tree2, p))
  PROVE  Seen(tree2, p) = Seen(tree, p)
<1>1. Above(p) \subseteq Paths
  BY DocsAssumption
<1>2. Section \notin JsonStrings /\ ~Stored(Section)
  BY DocsAssumption DEF Section, Stored, Type
<1>3. \A q \in Planted(tree, w) : tree[q] \notin JsonStrings
  BY DEF Planted
<1>4. \A q \in Above(p) : tree2[q] \in JsonStrings <=> tree[q] \in JsonStrings
  BY <1>1, <1>2, <1>3
<1>5. Through(tree2, p) = Through(tree, p)
  BY <1>4 DEF Through
<1>6. CASE Through(tree, p) = {}
  <2>1. Seen(tree2, p) = tree2[p] /\ Seen(tree, p) = tree[p]
    BY <1>5, <1>6 DEF Seen
  <2> QED
    BY <2>1, <1>2
<1>7. CASE Through(tree, p) # {}
  <2>1. PICK q : q = CHOOSE x \in Through(tree, p) : TRUE
    OBVIOUS
  <2>2. q \in Above(p) /\ tree[q] \in JsonStrings
    BY <1>7, <2>1 DEF Through
  <2>3. q \in Paths /\ q \notin Planted(tree, w)
    BY <2>2, <1>1, <1>3
  <2>4. tree2[q] = tree[q]
    BY <2>3
  <2> QED
    BY <1>5, <1>7, <2>1, <2>4 DEF Seen
<1> QED
  BY <1>6, <1>7

\* A miss stores what the tree has now, and not while apply has the lock.
LEMMA FindCache ==
  ASSUME NEW r \in Readers, CacheInv, FindMiss(r) \/ \E p \in Paths : Find(r, p)
  PROVE  CacheInv'
<1>1. CASE FindMiss(r)
  <2>1. want[r] \in Paths /\ todo = {} /\ lpc # "store"
    BY <1>1 DEF FindMiss, CacheInv
  <2>2. want' = [want EXCEPT ![r] = <<>>] /\ UNCHANGED <<lpc, todo>>
    BY <1>1 DEF FindMiss
  <2>3. CASE UNCHANGED <<changed, cached>>
    BY <2>1, <2>2, <2>3 DEF CacheInv, FreshButTodo
  <2>4. CASE /\ changed' = [q \in Paths |-> IF q \in Planted(changed, want[r]) THEN Section ELSE changed[q]]
             /\ cached' = [cached EXCEPT ![want[r]] = Seen(changed, want[r])]
    <3>1. \A p \in Paths : Stored(Seen(changed', p)) => Seen(changed', p) = Seen(changed, p)
      BY <2>4, PlantedHides
    <3>2. cached' = [p \in Paths |-> cached'[p]]
      BY <2>4 DEF CacheInv
    <3>3. ASSUME NEW p \in Paths, Stored(Seen(changed', p)), cached'[p] # NoEntry
          PROVE  cached'[p] = Seen(changed', p)
      <4>1. Seen(changed', p) = Seen(changed, p)
        BY <3>1, <3>3
      <4>2. CASE p = want[r]
        BY <4>1, <4>2, <2>1, <2>4 DEF CacheInv
      <4>3. CASE p # want[r]
        <5>1. cached'[p] = cached[p]
          BY <4>3, <2>4 DEF CacheInv
        <5> QED
          BY <4>1, <5>1, <2>1, <3>3 DEF CacheInv, FreshButTodo
      <4> QED
        BY <4>2, <4>3
    <3>4. FreshButTodo'
      BY <3>3 DEF FreshButTodo
    <3> QED
      BY <2>1, <2>2, <3>2, <3>4 DEF CacheInv
  <2> QED
    BY <1>1, <2>3, <2>4 DEF FindMiss
<1>2. ASSUME NEW p \in Paths, Find(r, p)
      PROVE  CacheInv'
  BY <1>2 DEF Find, CacheInv, FreshButTodo
<1> QED
  BY <1>1, <1>2

LEMMA NextCache == CacheInv /\ [Next]_vars => CacheInv'
<1> SUFFICES ASSUME CacheInv, [Next]_vars
             PROVE  CacheInv'
  OBVIOUS
<1>1. CASE (\E d \in Docs : WriteBegin(d) \/ Swap(d)) \/ WriteEnd \/ WatchStart
  BY <1>1 DEF WriteBegin, Swap, WriteEnd, WatchStart, CacheInv, FreshButTodo
<1>2. ASSUME NEW e \in events, Forward(e)
      PROVE  CacheInv'
  BY <1>2 DEF Forward, CacheInv, FreshButTodo
<1>3. CASE Loader
  BY <1>3, LoaderCache
<1>4. ASSUME NEW r \in Readers, FindMiss(r) \/ \E p \in Paths : Find(r, p)
      PROVE  CacheInv'
  BY <1>4, FindCache
<1>5. CASE FindRace
  BY <1>5 DEF FindRace, CacheInv, FreshButTodo
<1>6. CASE UNCHANGED vars
  BY <1>6 DEF vars, CacheInv, FreshButTodo
<1> QED
  BY <1>1, <1>2, <1>3, <1>4, <1>5, <1>6 DEF Next

\* Between loads the cache has no stale value, however many readers missed a
\* key while a load was under way (Config.find against Config.apply), for paths
\* of any depth and whatever the searches plant in the tree.
THEOREM CacheStaysFresh == Spec => []CacheFresh
<1>1. CacheInv => CacheFresh
  BY DEF CacheInv, FreshButTodo, CacheFresh
<1> QED
  BY <1>1, InitCache, NextCache, PTL DEF Spec

\* Events are merged and repeated on their way to the loader; to load the same
\* document twice is to load it once, for trees of any depth and whatever
\* sections and types clash.
THEOREM MergeIdempotent ==
  ASSUME NEW dest, NEW src
  PROVE  Merge(Merge(dest, src), src) = Merge(dest, src)
<1> DEFINE m == Merge(dest, src)
<1>1. \A q \in Paths : Stands(dest, src, q) => m[q] = dest[q]
  BY DEF Merge
<1>2. \A q \in Paths : Stands(dest, src, q) => Stands(m, src, q)
  BY <1>1 DEF Stands
<1>3. ASSUME NEW p \in Paths
      PROVE  Merge(m, src)[p] = m[p]
  <2>1. Above(p) \union {p} \subseteq Paths
    BY DocsAssumption
  <2>2. Merge(m, src)[p] = IF \E q \in Above(p) \union {p} : Stands(m, src, q) THEN m[p] ELSE src[p]
    BY DEF Merge
  <2>3. CASE \E q \in Above(p) \union {p} : Stands(m, src, q)
    BY <2>2, <2>3
  <2>4. CASE ~ \E q \in Above(p) \union {p} : Stands(m, src, q)
    <3>1. ~ \E q \in Above(p) \union {p} : Stands(dest, src, q)
      BY <2>1, <2>4, <1>2
    <3>2. m[p] = src[p]
      BY <3>1 DEF Merge
    <3> QED
      BY <2>2, <2>4, <3>2
  <2> QED
    BY <2>3, <2>4
<1> QED
  BY <1>3 DEF Merge

-----------------------------------------------------------------------------
(* The lock. *)

\* The hypothesis of LeaseExclusive: every user has a Lock object of its own.
OwnObjects == \A u, w \in Users : object[u] = object[w] => u = w

\* The key has one value at most, and whoever is within its lease has it there:
\* an Unlock that comes late finds another's value and leaves it alone.
LeaseInv ==
  /\ within \subseteq Users
  /\ \A x, y \in key : x = y
  /\ \A u \in within : object[u] \in key

LEMMA NextLease == OwnObjects /\ LeaseInv /\ [Lease!Next]_(Lease!lockVars) => LeaseInv'
<1> SUFFICES ASSUME OwnObjects, LeaseInv, [Lease!Next]_(Lease!lockVars)
             PROVE  LeaseInv'
  OBVIOUS
<1> USE DEF LeaseInv
<1>1. CASE Lease!Expire
  BY <1>1 DEF Lease!Expire
<1>2. ASSUME NEW u \in Users, Lease!Lock(u)
      PROVE  LeaseInv'
  BY <1>2 DEF Lease!Lock
<1>3. ASSUME NEW u \in Users, Lease!Unlock(u)
      PROVE  LeaseInv'
  BY <1>3 DEF Lease!Unlock, OwnObjects
<1>4. CASE UNCHANGED Lease!lockVars
  BY <1>4 DEF Lease!lockVars
<1> QED
  BY <1>1, <1>2, <1>3, <1>4 DEF Lease!Next

LEMMA ObjectsKept == [Lease!Next]_(Lease!lockVars) => UNCHANGED object
  BY DEF Lease!Next, Lease!lockVars, Lease!Lock, Lease!Unlock, Lease!Expire

\* However many users there are, replies that are lost and leases that end
\* before the work does, at most one user is within its lease, if none shares
\* its Lock object.
THEOREM LeaseIsExclusive == Lease!Spec => []LeaseExclusive
<1> DEFINE Inv == OwnObjects => LeaseInv
<1>1. Lease!Init => Inv
  BY DEF Lease!Init, LeaseInv
<1>2. Inv /\ [Lease!Next]_(Lease!lockVars) => Inv'
  BY NextLease, ObjectsKept DEF OwnObjects
<1>3. Inv => LeaseExclusive
  BY DEF LeaseExclusive, Lease!LeaseExclusive, OwnObjects, LeaseInv
<1> QED
  BY <1>1, <1>2, <1>3, PTL DEF Lease!Spec

-----------------------------------------------------------------------------
(* The cached row. *)

Phases == {"idle", "pk", "wait_pk", "got_pk", "index", "wait_index", "got_index", "raw",
           "delete", "executed", "done", "error"}

TypeOK ==
  /\ DOMAIN value = Row!Keys /\ DOMAIN until = Row!Keys /\ DOMAIN owner = Row!Keys
  /\ \A k \in Row!Keys : \A x, y \in owner[k] : x = y
  /\ pc \in [Clients -> Phases]
  /\ loader \in [Clients -> [Row!Keys -> {"off", "load", "set"}]]
  /\ DOMAIN loaded = Clients /\ \A c \in Clients : DOMAIN loaded[c] = Row!Keys

\* A caller loads the row only after it got to the row's key.
NoLoadBefore ==
  \A c \in Clients :
    pc[c] \in {"idle", "index", "wait_index", "got_index", "pk"} => loader[c]["pk"] = "off"

\* Every change of the row is in redis: nobody has changed it and not yet marked
\* the keys, or failed to.
Marked == ~failed /\ \A c \in Clients : pc[c] # "delete"

\* Then a loader that still has the row's lock has read the row as it is: a
\* change since then would have taken the lock away.
LoadsCurrent ==
  \A c \in Clients :
    (Marked /\ loader[c]["pk"] = "set" /\ owner["pk"] = {c}) => loaded[c]["pk"] = db

RowInv == TypeOK /\ NoLoadBefore /\ LoadsCurrent /\ Row!StaleOnlyByIndex

LEMMA InitRow == Row!Init => RowInv
  BY DEF Row!Init, RowInv, TypeOK, Phases, NoLoadBefore, LoadsCurrent, Marked, Row!StaleOnlyByIndex,
         Row!Keys, Row!None, Row!Blank

\* The steps of rockscache for one key.
LEMMA FetchRow ==
  ASSUME RowInv, NEW c \in Clients, NEW k \in Row!Keys,
         Row!Lock(c, k) \/ Row!Hit(c, k) \/ Row!Load(c, k) \/ Row!Set(c, k)
  PROVE  RowInv'
<1> USE DEF RowInv, TypeOK, Phases, NoLoadBefore, LoadsCurrent, Marked, Row!StaleOnlyByIndex,
            Row!Keys, Row!None, Row!NoRow, Row!GoTo, Row!Waiting, Row!Got, Row!redis
<1>1. CASE Row!Lock(c, k)
  <2>1. TypeOK'
    BY <1>1 DEF Row!Lock
  <2>2. NoLoadBefore'
    BY <1>1 DEF Row!Lock
  <2>3. LoadsCurrent'
    <3> SUFFICES ASSUME NEW d \in Clients, Marked', loader'[d]["pk"] = "set", owner'["pk"] = {d}
                 PROVE  loaded'[d]["pk"] = db'
      OBVIOUS
    <3>1. k = "index"
      <4>1. k = "pk" => owner'["pk"] = {c} /\ loader'[c]["pk"] = "load"
        BY <1>1 DEF Row!Lock
      <4> QED
        BY <4>1
    <3>2. /\ Marked /\ loader[d]["pk"] = "set" /\ owner["pk"] = {d}
          /\ loaded'[d]["pk"] = loaded[d]["pk"] /\ db' = db
      BY <1>1, <3>1 DEF Row!Lock
    <3> QED
      BY <3>2
  <2>4. Row!StaleOnlyByIndex'
    BY <1>1 DEF Row!Lock
  <2> QED
    BY <2>1, <2>2, <2>3, <2>4
<1>2. CASE Row!Hit(c, k)
  BY <1>2 DEF Row!Hit
<1>3. CASE Row!Load(c, k)
  <2>1. TypeOK'
    <3>1. pc' \in [Clients -> Phases] /\ loader' \in [Clients -> [Row!Keys -> {"off", "load", "set"}]]
      BY <1>3 DEF Row!Load
    <3>2. DOMAIN value' = Row!Keys /\ DOMAIN until' = Row!Keys /\ DOMAIN owner' = Row!Keys
      BY <1>3 DEF Row!Load
    <3>4. \A j \in Row!Keys : \A x, y \in owner'[j] : x = y
      BY <1>3 DEF Row!Load
    <3>3. DOMAIN loaded' = Clients /\ \A d \in Clients : DOMAIN loaded'[d] = Row!Keys
      BY <1>3 DEF Row!Load
    <3> QED
      BY <3>1, <3>2, <3>3, <3>4
  <2>2. NoLoadBefore'
    BY <1>3 DEF Row!Load
  <2>3. LoadsCurrent'
    <3> SUFFICES ASSUME NEW d \in Clients, Marked', loader'[d]["pk"] = "set", owner'["pk"] = {d}
                 PROVE  loaded'[d]["pk"] = db'
      OBVIOUS
    <3>1. Marked
      BY <1>3 DEF Row!Load
    <3>4. owner["pk"] = {d}
      <4>1. \A x \in owner'["pk"] : x \in owner["pk"]
        BY <1>3 DEF Row!Load
      <4>2. \A x, y \in owner["pk"] : x = y
        OBVIOUS
      <4>3. d \in owner["pk"]
        BY <4>1
      <4> QED
        BY <4>2, <4>3
    <3>2. CASE d = c /\ k = "pk"
      BY <1>3, <3>2 DEF Row!Load
    <3>3. CASE d # c \/ k # "pk"
      <4>1. loader[d]["pk"] = "set" /\ loaded'[d]["pk"] = loaded[d]["pk"]
        BY <1>3, <3>3 DEF Row!Load
      <4> QED
        BY <1>3, <3>1, <3>4, <4>1 DEF Row!Load
    <3> QED
      BY <3>2, <3>3
  <2>4. Row!StaleOnlyByIndex'
    BY <1>3 DEF Row!Load
  <2> QED
    BY <2>1, <2>2, <2>3, <2>4
<1>4. CASE Row!Set(c, k)
  <2>1. TypeOK'
    BY <1>4 DEF Row!Set
  <2>2. NoLoadBefore'
    BY <1>4 DEF Row!Set
  <2>3. LoadsCurrent'
    <3> SUFFICES ASSUME NEW d \in Clients, Marked', loader'[d]["pk"] = "set", owner'["pk"] = {d}
                 PROVE  loaded'[d]["pk"] = db'
      OBVIOUS
    <3>1. Marked
      BY <1>4 DEF Row!Set
    <3>2. loader[d]["pk"] = "set" /\ owner["pk"] = {d}
      BY <1>4, ZenonT(30) DEF Row!Set
    <3> QED
      BY <1>4, <3>1, <3>2 DEF Row!Set
  <2>4. Row!StaleOnlyByIndex'
    BY <1>4 DEF Row!Set
  <2> QED
    BY <2>1, <2>2, <2>3, <2>4
<1> QED
  BY <1>1, <1>2, <1>3, <1>4

LEMMA OperationRow ==
  ASSUME RowInv, NEW c \in Clients,
         \/ Row!Begin(c) \/ Row!GotRow(c) \/ Row!GotIndex(c) \/ Row!RawSet(c)
         \/ Row!Exec(c) \/ Row!Deletes(c) \/ Row!Again(c)
  PROVE  RowInv'
<1> USE DEF RowInv, TypeOK, Phases, NoLoadBefore, LoadsCurrent, Marked, Row!StaleOnlyByIndex,
            Row!Keys, Row!None, Row!NoRow, Row!Blank, Row!GoTo, Row!redis
<1>1. CASE Row!Begin(c)
  BY <1>1 DEF Row!Begin
<1>2. CASE Row!GotRow(c)
  BY <1>2 DEF Row!GotRow
<1>3. CASE Row!GotIndex(c)
  BY <1>3 DEF Row!GotIndex
<1>4. CASE Row!RawSet(c)
  BY <1>4 DEF Row!RawSet
<1>5. CASE Row!Exec(c)
  <2>1. TypeOK'
    BY <1>5 DEF Row!Exec, Row!Change
  <2>2. NoLoadBefore'
    BY <1>5 DEF Row!Exec, Row!Change
  <2>3. LoadsCurrent'
    BY <1>5 DEF Row!Exec, Row!Change
  <2>4. Row!StaleOnlyByIndex'
    BY <1>5 DEF Row!Exec, Row!Change
  <2> QED
    BY <2>1, <2>2, <2>3, <2>4
<1>6. CASE Row!Deletes(c)
  <2>1. TypeOK'
    BY <1>6 DEF Row!Deletes, Row!Tagged
  <2>2. NoLoadBefore'
    BY <1>6 DEF Row!Deletes, Row!Tagged
  <2>3. LoadsCurrent'
    BY <1>6 DEF Row!Deletes, Row!Tagged
  <2>4. Row!StaleOnlyByIndex'
    BY <1>6 DEF Row!Deletes, Row!Tagged
  <2> QED
    BY <2>1, <2>2, <2>3, <2>4
<1>7. CASE Row!Again(c)
  BY <1>7 DEF Row!Again
<1> QED
  BY <1>1, <1>2, <1>3, <1>4, <1>5, <1>6, <1>7

\* Time gives no lock to anybody and stores nothing.
LEMMA LapseRow ==
  ASSUME RowInv, NEW k \in Row!Keys, Row!Lapse(k)
  PROVE  RowInv'
<1> USE DEF RowInv, TypeOK, Row!Keys
<1>1. UNCHANGED <<db, pc, loader, loaded, late, failed>>
  BY DEF Row!Lapse, Row!local
<1>2. /\ DOMAIN value' = Row!Keys /\ DOMAIN until' = Row!Keys /\ DOMAIN owner' = Row!Keys
      /\ \A j \in Row!Keys : owner'[j] \in {owner[j], {}}
  BY DEF Row!Lapse, Row!local
<1>3. (value'["pk"] # Row!None /\ until'["pk"] = "none") =>
        value'["pk"] = value["pk"] /\ until["pk"] = "none"
  BY DEF Row!Lapse
<1>4. TypeOK' /\ NoLoadBefore'
  BY <1>1, <1>2 DEF NoLoadBefore
<1>5. LoadsCurrent'
  BY <1>1, <1>2 DEF LoadsCurrent, Marked
<1>6. Row!StaleOnlyByIndex'
  BY <1>1, <1>3 DEF Row!StaleOnlyByIndex
<1> QED
  BY <1>4, <1>5, <1>6

LEMMA NextRow == RowInv /\ [Row!Next]_(Row!vars) => RowInv'
<1> SUFFICES ASSUME RowInv, [Row!Next]_(Row!vars)
             PROVE  RowInv'
  OBVIOUS
<1>1. ASSUME NEW c \in Clients, NEW k \in Row!Keys,
             Row!Lock(c, k) \/ Row!Hit(c, k) \/ Row!Load(c, k) \/ Row!Set(c, k)
      PROVE  RowInv'
  BY <1>1, FetchRow
<1>2. ASSUME NEW c \in Clients,
             \/ Row!Begin(c) \/ Row!GotRow(c) \/ Row!GotIndex(c) \/ Row!RawSet(c)
             \/ Row!Exec(c) \/ Row!Deletes(c) \/ Row!Again(c)
      PROVE  RowInv'
  BY <1>2, OperationRow
<1>3. ASSUME NEW k \in Row!Keys, Row!Lapse(k)
      PROVE  RowInv'
  BY <1>3, LapseRow
<1>4. CASE UNCHANGED Row!vars
  BY <1>4 DEF RowInv, TypeOK, Phases, NoLoadBefore, LoadsCurrent, Marked, Row!StaleOnlyByIndex,
              Row!vars, Row!redis, Row!local
<1> QED
  BY <1>1, <1>2, <1>3, <1>4 DEF Row!Next

\* With any number of callers, changes, locks that time out and keys that expire,
\* a row that redis serves and nobody will load anew is the database's, unless a
\* change is about to mark it, failed to, or FetchIndex stored an older one.
THEOREM OnlyIndexMakesStale == Row!Spec => []StaleOnlyByIndex
<1>1. Row!Spec => []RowInv
  BY InitRow, NextRow, PTL DEF Row!Spec
<1> QED
  BY <1>1, PTL DEF RowInv, StaleOnlyByIndex

-----------------------------------------------------------------------------
(* The call under a deadline. *)

\* What the handler's goroutine has done: the handler's result is there once it
\* has returned, resp and, as long as the caller does not store to it, err have
\* it when done is closed.
HandlerOK ==
  /\ ctx \in {"live", "deadline", "canceled"}
  /\ hpc \in {"start", "handler", "store", "store2", "store3", "close", "recovered", "ended"}
  /\ hpc \in {"start", "handler"} => res = "none"
  /\ hpc \in {"store", "store2", "store3", "close"} \/ done
       => res \in {"ok", "error", "deadline", "canceled"}
  /\ hpc \in {"store2", "store3", "close"} \/ done => resp = IF res = "ok" THEN "rsp" ELSE "nil"
  /\ (hpc = "close" \/ done) /\ cpc \in {"select", "lock"} => err = Deadline!Stored
  /\ done => hpc = "ended"

\* What the caller has seen: it takes the result only from done, and once it
\* has stored its context's error only the handler's success removes that.
CallerOK ==
  /\ cpc \in {"select", "lock", "ctx", "convert", "read", "panicked", "returned"}
  /\ cpc = "lock" => done
  /\ cpc \in {"ctx", "convert", "read"} => ctx # "live"
  /\ cpc \in {"convert", "read"} /\ err = "nil" => res = "ok"
  /\ cpc # "returned" => out = Deadline!Nothing

AnswerInv == HandlerOK /\ CallerOK /\ Deadline!AnswerJustified

LEMMA InitAnswer == Deadline!Init => AnswerInv
  BY DEF Deadline!Init, Deadline!Nothing, Deadline!AnswerJustified, AnswerInv, HandlerOK, CallerOK

LEMMA HandlerAnswer ==
  ASSUME AnswerInv, Deadline!Goroutine \/ Deadline!HandlerReturns \/ Deadline!HandlerPanics
  PROVE  AnswerInv'
<1> USE DEF AnswerInv, HandlerOK, CallerOK, Deadline!AnswerJustified, Deadline!Nothing,
            Deadline!Stored
<1>1. CASE Deadline!Start
  BY <1>1 DEF Deadline!Start
<1>2. CASE Deadline!Store
  BY <1>2 DEF Deadline!Store
<1>3. CASE Deadline!CloseDone
  BY <1>3 DEF Deadline!CloseDone
<1>4. CASE Deadline!Report
  BY <1>4 DEF Deadline!Report
<1>5. CASE Deadline!HandlerReturns
  BY <1>5 DEF Deadline!HandlerReturns
<1>6. CASE Deadline!HandlerPanics
  BY <1>6 DEF Deadline!HandlerPanics
<1> QED
  BY <1>1, <1>2, <1>3, <1>4, <1>5, <1>6 DEF Deadline!Goroutine

LEMMA CallerAnswer ==
  ASSUME AnswerInv, Deadline!Caller \/ Deadline!CtxEnds
  PROVE  AnswerInv'
<1> USE DEF AnswerInv, HandlerOK, CallerOK, Deadline!AnswerJustified, Deadline!Nothing,
            Deadline!Stored
<1>1. CASE Deadline!Select
  BY <1>1 DEF Deadline!Select
<1>2. CASE Deadline!ReturnResult
  BY <1>2 DEF Deadline!ReturnResult
<1>3. CASE Deadline!StoreCtxErr
  BY <1>3 DEF Deadline!StoreCtxErr
<1>4. CASE Deadline!Convert
  BY <1>4 DEF Deadline!Convert
<1>5. CASE Deadline!ReturnCtxErr
  BY <1>5 DEF Deadline!ReturnCtxErr
<1>6. CASE Deadline!CtxEnds
  BY <1>6 DEF Deadline!CtxEnds
<1> QED
  BY <1>1, <1>2, <1>3, <1>4, <1>5, <1>6 DEF Deadline!Caller

\* However the deadline, the handler and the two unlocked stores to err race, a
\* call that returns without an error had a handler that returned without one,
\* and a response comes with the error it was returned with.
THEOREM AnswersJustified == Deadline!Spec => []AnswerJustified
<1>1. AnswerInv /\ UNCHANGED Deadline!vars => AnswerInv'
  BY DEF Deadline!vars, AnswerInv, HandlerOK, CallerOK, Deadline!AnswerJustified,
         Deadline!Nothing, Deadline!Stored
<1>2. AnswerInv /\ [Deadline!Next]_(Deadline!vars) => AnswerInv'
  BY <1>1, HandlerAnswer, CallerAnswer DEF Deadline!Next
<1> QED
  BY InitAnswer, <1>2, PTL DEF Deadline!Spec, AnswerInv, AnswerJustified

-----------------------------------------------------------------------------
(* Induction, and sums over finite sets. *)

\* A set of naturals that is not empty has a least member; every induction
\* below is on a least counterexample.
LEMMA LeastNatural ==
  ASSUME NEW T \in SUBSET Nat, T # {}
  PROVE  \E n \in T : \A m \in T : n <= m
<1>1. PICK n \in T : \A m \in T : ~(<<m, n>> \in OpToRel(<, Nat))
  BY NatLessThanWellFounded, WFMin
<1>2. \A m \in T : ~(m < n)
  BY <1>1 DEF OpToRel
<1>3. \A m \in T : n <= m
  BY <1>2
<1> QED
  BY <1>3

\* Among finite sets there is one of least size: induction over finite sets.
LEMMA SmallestSet ==
  ASSUME NEW B, B # {}, \A T \in B : IsFiniteSet(T)
  PROVE  \E T \in B : \A U \in B : Cardinality(T) <= Cardinality(U)
<1> DEFINE sizes == {Cardinality(T) : T \in B}
<1>1. sizes \in SUBSET Nat /\ sizes # {}
  BY FS_CardinalityType
<1>2. PICK n \in sizes : \A m \in sizes : n <= m
  BY <1>1, LeastNatural
<1> QED
  BY <1>2

\* A finite set loses one in size with an element.
LEMMA Smaller ==
  ASSUME NEW T, IsFiniteSet(T), NEW x \in T
  PROVE  /\ IsFiniteSet(T \ {x})
         /\ Cardinality(T \ {x}) \in Nat /\ Cardinality(T) = Cardinality(T \ {x}) + 1
<1>1. Cardinality(T) \in Nat /\ Cardinality(T \ {x}) \in Nat
  BY FS_RemoveElement, FS_CardinalityType
<1>2. Cardinality(T \ {x}) = Cardinality(T) - 1
  BY FS_RemoveElement
<1> QED
  BY <1>1, <1>2, FS_RemoveElement

\* The element that a fold over a set takes out first.
One(s) == CHOOSE x \in s : TRUE
\* One step of the sum of f over s, when g has the sums over smaller sets.
Added(g, f, s) == IF s = {} THEN 0 ELSE f[One(s)] + g[s \ {One(s)}]
\* g has the sum of f over every subset of S.
IsSum(g, f, S) == g = [s \in SUBSET S |-> Added(g, f, s)]
\* The function that the fold of the community modules chooses.
Iter(f, S) == CHOOSE g : IsSum(g, f, S)

\* The sum over a set is the value of that function at the whole set.
LEMMA SumDef ==
  ASSUME NEW f, NEW S
  PROVE  SumFunctionOnSet(f, S) = Iter(f, S)[S]
BY DEF SumFunctionOnSet, FoldFunctionOnSet, MapThenFoldSet, Iter, IsSum, Added, One

\* The element taken out is in the set.
LEMMA OneIn == ASSUME NEW s, s # {} PROVE One(s) \in s
BY DEF One

\* The recursion has a solution over a finite set: one that reaches to sets
\* of size n - 1 extends to sets of size n.
LEMMA SumExists ==
  ASSUME NEW f, NEW S, IsFiniteSet(S)
  PROVE  IsSum(Iter(f, S), f, S)
<1> DEFINE upto(n) == {s \in SUBSET S : Cardinality(s) <= n}
           partial(g, n) == g = [s \in upto(n) |-> Added(g, f, s)]
           bad == {n \in Nat : ~\E g : partial(g, n)}
<1>0. \A s \in SUBSET S : IsFiniteSet(s) /\ Cardinality(s) \in Nat
  BY FS_Subset, FS_CardinalityType
<1>1. bad = {}
  <2> SUFFICES ASSUME bad # {}
               PROVE  FALSE
    OBVIOUS
  <2>1. PICK n \in bad : \A m \in bad : n <= m
    <3>1. bad \in SUBSET Nat
      OBVIOUS
    <3> HIDE DEF bad
    <3> QED
      BY <3>1, LeastNatural
  <2>2. n \in Nat /\ ~\E g : partial(g, n)
    OBVIOUS
  <2>3. CASE n = 0
    <3> DEFINE g == [s \in upto(0) |-> 0]
    <3>1. \A s \in upto(0) : s = {}
      BY <1>0, FS_EmptySet
    <3>2. \A s \in upto(0) : Added(g, f, s) = 0
      BY <3>1 DEF Added
    <3>3. partial(g, 0)
      BY <3>2
    <3> QED
      BY <3>3, <2>2, <2>3
  <2>4. CASE n > 0
    <3>1. n - 1 \in Nat /\ n - 1 \notin bad
      <4> HIDE DEF bad
      <4> QED
        BY <2>1, <2>2, <2>4
    <3>2. PICK g : partial(g, n - 1)
      BY <3>1
    <3> DEFINE h == [s \in upto(n) |-> Added(g, f, s)]
    <3>3. ASSUME NEW s \in upto(n), s # {}
          PROVE  s \ {One(s)} \in upto(n - 1)
      BY <1>0, <2>2, <3>3, OneIn, Smaller
    <3>4. ASSUME NEW t \in upto(n - 1)
          PROVE  h[t] = g[t]
      <4>1. t \in upto(n)
        BY <1>0, <2>2, <3>4
      <4>2. g[t] = Added(g, f, t)
        BY <3>2
      <4> QED
        BY <4>1, <4>2
    <3>5. ASSUME NEW s \in upto(n)
          PROVE  Added(g, f, s) = Added(h, f, s)
      <4>1. CASE s = {}
        BY <4>1 DEF Added
      <4>2. CASE s # {}
        <5>1. h[s \ {One(s)}] = g[s \ {One(s)}]
          BY <4>2, <3>3, <3>4
        <5> HIDE DEF h
        <5> QED
          BY <5>1 DEF Added
      <4> QED
        BY <4>1, <4>2
    <3>6. partial(h, n)
      BY <3>5
    <3> QED
      BY <3>6, <2>2
  <2> QED
    BY <2>2, <2>3, <2>4
<1>2. Cardinality(S) \in Nat
  BY FS_CardinalityType
<1>3. PICK g : partial(g, Cardinality(S))
  BY <1>1, <1>2
<1>4. upto(Cardinality(S)) = SUBSET S
  BY FS_Subset
<1>5. IsSum(g, f, S)
  BY <1>3, <1>4 DEF IsSum
<1> QED
  BY <1>5 DEF Iter

\* Two solutions of the recursion agree on every set they both reach.
LEMMA SumUnique ==
  ASSUME NEW f, NEW S, NEW R, NEW g, NEW h, IsSum(g, f, S), IsSum(h, f, R),
         NEW T \in SUBSET S, T \subseteq R, IsFiniteSet(T)
  PROVE  g[T] = h[T]
<1> DEFINE bad == {U \in SUBSET T : g[U] # h[U]}
<1> SUFFICES ASSUME bad # {}
             PROVE  FALSE
  OBVIOUS
<1>1. \A U \in bad : IsFiniteSet(U)
  BY FS_Subset
<1>2. PICK U \in bad : \A V \in bad : Cardinality(U) <= Cardinality(V)
  <2> HIDE DEF bad
  <2> QED
    BY <1>1, SmallestSet
<1>3. g[U] = Added(g, f, U) /\ h[U] = Added(h, f, U)
  <2>1. U \in SUBSET S /\ U \in SUBSET R
    OBVIOUS
  <2> QED
    BY <2>1 DEF IsSum
<1>4. U # {}
  BY <1>3 DEF Added
<1>5. U \ {One(U)} \notin bad
  BY <1>1, <1>2, <1>4, OneIn, Smaller
<1> QED
  BY <1>3, <1>4, <1>5 DEF Added

\* The sum over nothing is 0.
LEMMA SumEmpty == ASSUME NEW f PROVE SumFunctionOnSet(f, {}) = 0
<1>1. IsSum(Iter(f, {}), f, {})
  BY SumExists, FS_EmptySet
<1> QED
  BY <1>1, SumDef DEF IsSum, Added

\* The sum over a set is the chosen element's term and the sum over the rest.
LEMMA SumStep ==
  ASSUME NEW f, NEW S, IsFiniteSet(S), S # {}
  PROVE  SumFunctionOnSet(f, S) = f[One(S)] + SumFunctionOnSet(f, S \ {One(S)})
<1> DEFINE rest == S \ {One(S)}
<1>1. IsFiniteSet(rest)
  BY OneIn, Smaller
<1>2. IsSum(Iter(f, S), f, S) /\ IsSum(Iter(f, rest), f, rest)
  BY <1>1, SumExists
<1>3. Iter(f, S)[rest] = Iter(f, rest)[rest]
  BY <1>1, <1>2, SumUnique
<1>4. Iter(f, S)[S] = Added(Iter(f, S), f, S)
  BY <1>2 DEF IsSum
<1> HIDE DEF rest
<1> QED
  BY <1>3, <1>4, SumDef DEF Added, rest

\* A sum of integers is an integer.
LEMMA SumType ==
  ASSUME NEW S, IsFiniteSet(S), NEW f, \A x \in S : f[x] \in Int
  PROVE  SumFunctionOnSet(f, S) \in Int
<1> DEFINE bad == {T \in SUBSET S : SumFunctionOnSet(f, T) \notin Int}
<1> SUFFICES ASSUME bad # {}
             PROVE  FALSE
  OBVIOUS
<1>1. \A T \in bad : IsFiniteSet(T)
  BY FS_Subset
<1>2. PICK T \in bad : \A U \in bad : Cardinality(T) <= Cardinality(U)
  <2> HIDE DEF bad
  <2> QED
    BY <1>1, SmallestSet
<1>3. T # {}
  BY SumEmpty
<1>4. T \ {One(T)} \notin bad /\ One(T) \in T
  BY <1>1, <1>2, <1>3, OneIn, Smaller
<1> QED
  BY <1>1, <1>3, <1>4, SumStep

\* The sum does not depend on the element that is taken out first.
LEMMA SumAny ==
  ASSUME NEW S, IsFiniteSet(S), NEW f, \A x \in S : f[x] \in Int, NEW y \in S
  PROVE  SumFunctionOnSet(f, S) = f[y] + SumFunctionOnSet(f, S \ {y})
<1> DEFINE bad == {T \in SUBSET S :
                     \E x \in T : SumFunctionOnSet(f, T) # f[x] + SumFunctionOnSet(f, T \ {x})}
<1> SUFFICES ASSUME bad # {}
             PROVE  FALSE
  OBVIOUS
<1>1. \A T \in bad : IsFiniteSet(T)
  BY FS_Subset
<1>2. PICK T \in bad : \A U \in bad : Cardinality(T) <= Cardinality(U)
  <2> HIDE DEF bad
  <2> QED
    BY <1>1, SmallestSet
<1>3. PICK x \in T : SumFunctionOnSet(f, T) # f[x] + SumFunctionOnSet(f, T \ {x})
  OBVIOUS
<1> DEFINE o == One(T)
<1>4. o \in T /\ IsFiniteSet(T) /\ T \subseteq S
  BY <1>1, OneIn
<1>5. SumFunctionOnSet(f, T) = f[o] + SumFunctionOnSet(f, T \ {o})
  BY <1>3, <1>4, SumStep
<1>6. o # x
  BY <1>3, <1>5
<1>7. T \ {o} \notin bad /\ T \ {x} \notin bad
  <2>1. \A z \in T : T \ {z} \notin bad
    <3> HIDE DEF bad
    <3> QED
      BY <1>1, <1>2, <1>4, Smaller
  <2> QED
    BY <2>1, <1>4
<1> DEFINE rest == SumFunctionOnSet(f, (T \ {x}) \ {o})
<1>8. /\ SumFunctionOnSet(f, T \ {o}) = f[x] + rest
      /\ SumFunctionOnSet(f, T \ {x}) = f[o] + rest
  <2>1. (T \ {o}) \ {x} = (T \ {x}) \ {o}
    OBVIOUS
  <2>2. x \in T \ {o} /\ o \in T \ {x} /\ T \ {o} \in SUBSET S /\ T \ {x} \in SUBSET S
    BY <1>3, <1>4, <1>6
  <2> QED
    BY <1>7, <2>1, <2>2
<1>10. rest \in Int
  <2>1. IsFiniteSet((T \ {x}) \ {o}) /\ \A z \in (T \ {x}) \ {o} : f[z] \in Int
    BY <1>4, FS_Subset
  <2> QED
    BY <2>1, SumType
<1>11. f[x] \in Int /\ f[o] \in Int
  BY <1>3, <1>4
<1> HIDE DEF bad, o, rest
<1> QED
  BY <1>3, <1>5, <1>8, <1>10, <1>11

\* g is f with w added on S.
Gains(g, f, w, N, S) ==
  \A x \in N : /\ f[x] \in Int /\ w[x] \in Int
               /\ g[x] = IF x \in S THEN f[x] + w[x] ELSE f[x]

\* What is added to the terms is added to the sum.
LEMMA SumGain ==
  ASSUME NEW N, IsFiniteSet(N), NEW S, NEW f, NEW g, NEW w, Gains(g, f, w, N, S)
  PROVE  SumFunctionOnSet(g, N) = SumFunctionOnSet(f, N) + SumFunctionOnSet(w, N \cap S)
<1> USE DEF Gains
<1> DEFINE bad == {T \in SUBSET N : SumFunctionOnSet(g, T)
                                      # SumFunctionOnSet(f, T) + SumFunctionOnSet(w, T \cap S)}
<1> SUFFICES ASSUME bad # {}
             PROVE  FALSE
  OBVIOUS
<1>1. \A T \in bad : IsFiniteSet(T)
  BY FS_Subset
<1>2. PICK T \in bad : \A U \in bad : Cardinality(T) <= Cardinality(U)
  <2> HIDE DEF bad
  <2> QED
    BY <1>1, SmallestSet
<1>3. T # {}
  <2>1. {} \cap S = {}
    OBVIOUS
  <2>2. SumFunctionOnSet(g, {}) = 0 /\ SumFunctionOnSet(f, {}) = 0 /\ SumFunctionOnSet(w, {}) = 0
    BY SumEmpty
  <2>3. {} \notin bad
    BY <2>1, <2>2
  <2> HIDE DEF bad
  <2> QED
    BY <2>3
<1>4. PICK x \in T : TRUE
  BY <1>3
<1> DEFINE R == T \ {x}
<1>5. R \notin bad /\ R \subseteq N /\ IsFiniteSet(R) /\ IsFiniteSet(T) /\ T \subseteq N
  BY <1>1, <1>2, Smaller
<1>6. SumFunctionOnSet(g, R) = SumFunctionOnSet(f, R) + SumFunctionOnSet(w, R \cap S)
  BY <1>5
<1>7. IsFiniteSet(R \cap S) /\ IsFiniteSet(T \cap S)
  BY <1>5, FS_Intersection
<1>8. \A y \in N : g[y] \in Int
  OBVIOUS
<1>9. /\ SumFunctionOnSet(g, T) = g[x] + SumFunctionOnSet(g, R)
      /\ SumFunctionOnSet(f, T) = f[x] + SumFunctionOnSet(f, R)
  BY <1>5, <1>8, SumAny
<1>10. /\ SumFunctionOnSet(f, R) \in Int
       /\ SumFunctionOnSet(w, R \cap S) \in Int
  BY <1>5, <1>7, SumType
<1>13. SumFunctionOnSet(g, T) # SumFunctionOnSet(f, T) + SumFunctionOnSet(w, T \cap S)
  OBVIOUS
<1>11. CASE x \in S
  <2>1. (T \cap S) \ {x} = R \cap S
    OBVIOUS
  <2>2. SumFunctionOnSet(w, T \cap S) = w[x] + SumFunctionOnSet(w, R \cap S)
    BY <1>11, <1>5, <1>7, <2>1, SumAny
  <2>3. g[x] = f[x] + w[x] /\ f[x] \in Int /\ w[x] \in Int
    BY <1>11, <1>5
  <2> HIDE DEF R, bad
  <2> QED
    BY <2>2, <2>3, <1>6, <1>9, <1>10, <1>13
<1>12. CASE x \notin S
  <2>1. SumFunctionOnSet(w, T \cap S) = SumFunctionOnSet(w, R \cap S)
    <3>1. T \cap S = R \cap S
      BY <1>12
    <3> QED
      BY <3>1
  <2>3. g[x] = f[x] /\ f[x] \in Int
    BY <1>12, <1>5
  <2> HIDE DEF R, bad
  <2> QED
    BY <2>1, <2>3, <1>6, <1>9, <1>10, <1>13
<1> QED
  BY <1>11, <1>12

\* Smaller terms have the smaller sum.
LEMMA SumOrdered ==
  ASSUME NEW S, IsFiniteSet(S), NEW f, NEW g,
         \A x \in S : f[x] \in Int /\ g[x] \in Int /\ f[x] <= g[x]
  PROVE  SumFunctionOnSet(f, S) <= SumFunctionOnSet(g, S)
<1> DEFINE bad == {T \in SUBSET S : ~(SumFunctionOnSet(f, T) <= SumFunctionOnSet(g, T))}
<1> SUFFICES ASSUME bad # {}
             PROVE  FALSE
  OBVIOUS
<1>1. \A T \in bad : IsFiniteSet(T)
  BY FS_Subset
<1>2. PICK T \in bad : \A U \in bad : Cardinality(T) <= Cardinality(U)
  <2> HIDE DEF bad
  <2> QED
    BY <1>1, SmallestSet
<1>3. T # {}
  BY SumEmpty
<1>4. PICK x \in T : TRUE
  BY <1>3
<1> DEFINE R == T \ {x}
<1>5. R \notin bad /\ R \subseteq S /\ IsFiniteSet(R) /\ IsFiniteSet(T) /\ T \subseteq S
  BY <1>1, <1>2, Smaller
<1>6. SumFunctionOnSet(f, R) <= SumFunctionOnSet(g, R)
  BY <1>5
<1>7. /\ SumFunctionOnSet(f, T) = f[x] + SumFunctionOnSet(f, R)
      /\ SumFunctionOnSet(g, T) = g[x] + SumFunctionOnSet(g, R)
  BY <1>5, SumAny
<1>8. SumFunctionOnSet(f, R) \in Int /\ SumFunctionOnSet(g, R) \in Int
  BY <1>5, SumType
<1>9. f[x] \in Int /\ g[x] \in Int /\ f[x] <= g[x]
  BY <1>5
<1> HIDE DEF R
<1> QED
  BY <1>6, <1>7, <1>8, <1>9

\* Smaller terms with the same sum are the same terms.
LEMMA SumTight ==
  ASSUME NEW S, IsFiniteSet(S), NEW f, NEW g,
         \A x \in S : f[x] \in Int /\ g[x] \in Int /\ f[x] <= g[x],
         SumFunctionOnSet(f, S) = SumFunctionOnSet(g, S)
  PROVE  \A x \in S : f[x] = g[x]
<1> TAKE x \in S
<1>1. IsFiniteSet(S \ {x})
  BY Smaller
<1>2. SumFunctionOnSet(f, S \ {x}) <= SumFunctionOnSet(g, S \ {x})
  BY <1>1, SumOrdered
<1>3. /\ SumFunctionOnSet(f, S) = f[x] + SumFunctionOnSet(f, S \ {x})
      /\ SumFunctionOnSet(g, S) = g[x] + SumFunctionOnSet(g, S \ {x})
  BY SumAny
<1>4. SumFunctionOnSet(f, S \ {x}) \in Int /\ SumFunctionOnSet(g, S \ {x}) \in Int
  BY <1>1, SumType
<1>5. f[x] \in Int /\ g[x] \in Int /\ f[x] <= g[x]
  OBVIOUS
<1>6. \A i, j, k, l \in Int : (i <= j /\ k <= l /\ i + k = j + l) => i = j
  OBVIOUS
<1>7. f[x] + SumFunctionOnSet(f, S \ {x}) = g[x] + SumFunctionOnSet(g, S \ {x})
  BY <1>3
<1> QED
  BY <1>2, <1>4, <1>5, <1>6, <1>7

\* A sum of zeros is 0.
LEMMA SumNothing ==
  ASSUME NEW S, IsFiniteSet(S), NEW f, \A x \in S : f[x] = 0
  PROVE  SumFunctionOnSet(f, S) = 0
<1>1. SumFunctionOnSet(f, S) \in Int
  BY SumType
<1>2. Gains(f, f, f, S, S)
  BY DEF Gains
<1>3. SumFunctionOnSet(f, S) = SumFunctionOnSet(f, S) + SumFunctionOnSet(f, S \cap S)
  BY <1>2, SumGain
<1>4. SumFunctionOnSet(f, S \cap S) = SumFunctionOnSet(f, S)
  <2>1. S \cap S = S
    OBVIOUS
  <2> QED
    BY <2>1
<1>5. \A i, j \in Int : (i = i + j /\ j = i) => i = 0
  OBVIOUS
<1> QED
  BY <1>1, <1>3, <1>4, <1>5

\* The terms that are 0 can be left out of a sum.
LEMMA SumWithin ==
  ASSUME NEW N, IsFiniteSet(N), NEW S \in SUBSET N, NEW f,
         \A x \in N : f[x] \in Int, \A x \in N \ S : f[x] = 0
  PROVE  SumFunctionOnSet(f, N) = SumFunctionOnSet(f, S)
<1>0. PICK none : \A x \in N : none[x] = 0
  <2>1. \A x \in N : [y \in N |-> 0][x] = 0
    OBVIOUS
  <2> QED
    BY <2>1
<1>1. SumFunctionOnSet(f, N) = SumFunctionOnSet(none, N) + SumFunctionOnSet(f, N \cap S)
  <2>1. Gains(f, none, f, N, S)
    BY <1>0 DEF Gains
  <2> QED
    BY <2>1, SumGain
<1>2. SumFunctionOnSet(none, N) = 0
  BY <1>0, SumNothing
<1>3. N \cap S = S /\ IsFiniteSet(S)
  BY FS_Subset
<1>4. SumFunctionOnSet(f, S) \in Int
  BY <1>3, SumType
<1>5. SumFunctionOnSet(f, N \cap S) = SumFunctionOnSet(f, S)
  BY <1>3
<1> QED
  BY <1>1, <1>2, <1>4, <1>5

\* g is f but for the entry of h.
Differ(g, f, N, h) ==
  \A x \in N : f[x] \in Int /\ g[x] \in Int /\ (x # h => g[x] = f[x])

\* A sum moves by as much as its only term that changes.
LEMMA SumChange ==
  ASSUME NEW N, IsFiniteSet(N), NEW f, NEW g, NEW h \in N, Differ(g, f, N, h)
  PROVE  SumFunctionOnSet(g, N) = SumFunctionOnSet(f, N) + (g[h] - f[h])
<1>1. PICK w : w = [x \in N |-> g[h] - f[h]]
  OBVIOUS
<1>2. SumFunctionOnSet(g, N) = SumFunctionOnSet(f, N) + SumFunctionOnSet(w, N \cap {h})
  <2>1. Gains(g, f, w, N, {h})
    BY <1>1 DEF Gains, Differ
  <2> QED
    BY <2>1, SumGain
<1>3. N \cap {h} = {h} /\ IsFiniteSet({h}) /\ {h} \ {h} = {}
  BY FS_Singleton
<1>4. SumFunctionOnSet(w, {h}) = w[h] + SumFunctionOnSet(w, {})
  BY <1>1, <1>3, SumAny DEF Differ
<1>5. SumFunctionOnSet(w, {h}) = g[h] - f[h]
  BY <1>1, <1>4, SumEmpty DEF Differ
<1> QED
  BY <1>2, <1>3, <1>5

-----------------------------------------------------------------------------
(* The weighted round robin of the grpc balancer. *)

\* The weights of some nodes add up to a natural, to 0 only when all are 0.
LEMMA TotalType ==
  ASSUME NEW S \in SUBSET Nodes
  PROVE  Total(S) \in Nat /\ IsFiniteSet(S) /\ (Total(S) = 0 => \A n \in S : Weight[n] = 0)
<1> DEFINE none == [x \in S |-> 0]
<1>1. IsFiniteSet(S) /\ \A n \in S : Weight[n] \in Nat
  BY NodesAssumption, FS_Subset
<1>2. SumFunctionOnSet(none, S) = 0
  BY <1>1, SumNothing
<1>3. SumFunctionOnSet(none, S) <= SumFunctionOnSet(Weight, S)
  BY <1>1, SumOrdered
<1>4. SumFunctionOnSet(Weight, S) \in Int
  BY <1>1, SumType
<1>5. SumFunctionOnSet(Weight, S) = 0 => \A n \in S : none[n] = Weight[n]
  BY <1>1, <1>2, SumTight
<1>6. SumFunctionOnSet(Weight, S) \in Nat
  BY <1>2, <1>3, <1>4
<1> QED
  BY <1>1, <1>5, <1>6 DEF Total

\* A pick adds the total of the effective weights and takes it back from the
\* node that is hit.
LEMMA HitSum ==
  ASSUME weight \in [Nodes -> Int], NEW S \in SUBSET Nodes, NEW h \in S, Hit(S, h)
  PROVE  /\ weight' \in [Nodes -> Int]
         /\ SumFunctionOnSet(Gained(S), Nodes) = SumFunctionOnSet(weight, Nodes) + Total(S)
         /\ SumFunctionOnSet(weight', Nodes) = SumFunctionOnSet(weight, Nodes)
<1>1. Total(S) \in Nat /\ IsFiniteSet(Nodes) /\ Weight \in [Nodes -> Nat]
  BY TotalType, NodesAssumption
<1>2. Gained(S) \in [Nodes -> Int]
  BY <1>1 DEF Gained
<1>3. SumFunctionOnSet(Gained(S), Nodes) = SumFunctionOnSet(weight, Nodes) + Total(S)
  <2>1. Nodes \cap S = S
    OBVIOUS
  <2>2. Gains(Gained(S), weight, Weight, Nodes, S)
    BY <1>1 DEF Gained, Gains
  <2>4. SumFunctionOnSet(Gained(S), Nodes)
          = SumFunctionOnSet(weight, Nodes) + SumFunctionOnSet(Weight, Nodes \cap S)
    BY <1>1, <2>2, SumGain
  <2> QED
    BY <2>1, <2>4 DEF Total
<1>4. weight' = [Gained(S) EXCEPT ![h] = Gained(S)[h] - Total(S)]
  BY DEF Hit
<1>5. SumFunctionOnSet(weight', Nodes) = SumFunctionOnSet(Gained(S), Nodes) - Total(S)
  <2>1. Differ(weight', Gained(S), Nodes, h) /\ weight'[h] = Gained(S)[h] - Total(S)
    BY <1>1, <1>2, <1>4 DEF Differ
  <2>2. SumFunctionOnSet(weight', Nodes)
          = SumFunctionOnSet(Gained(S), Nodes) + (weight'[h] - Gained(S)[h])
    BY <1>1, <2>1, SumChange
  <2>3. SumFunctionOnSet(Gained(S), Nodes) \in Int
    BY <1>1, <1>2, SumType
  <2> QED
    BY <1>1, <1>2, <2>1, <2>2, <2>3
<1>6. SumFunctionOnSet(weight, Nodes) \in Int
  BY <1>1, SumType
<1>7. weight' \in [Nodes -> Int]
  BY <1>1, <1>2, <1>4
<1> QED
  BY <1>1, <1>3, <1>5, <1>6, <1>7

\* The current weights are integers that sum to 0, whatever node was picked
\* from whatever subset of the ready ones.
WeightInv ==
  /\ ready \in SUBSET Nodes
  /\ weight \in [Nodes -> Int]
  /\ SumFunctionOnSet(weight, Nodes) = 0

\* Every pick, rebuild and settlement keeps the sum.
LEMMA NextWeight == WeightInv /\ [WrrNext]_wrrVars => WeightInv'
<1> SUFFICES ASSUME WeightInv, [WrrNext]_wrrVars
             PROVE  WeightInv'
  OBVIOUS
<1>1. ASSUME NEW S \in SUBSET Nodes, NEW h \in S, Hit(S, h)
      PROVE  weight' \in [Nodes -> Int] /\ SumFunctionOnSet(weight', Nodes) = 0
  BY <1>1, HitSum DEF WeightInv
<1>2. CASE Pick
  BY <1>1, <1>2 DEF Pick, WeightInv
<1>3. ASSUME NEW S \in SUBSET Nodes, Build(S) \/ PickFiltered(S)
      PROVE  WeightInv'
  BY <1>1, <1>3 DEF Build, PickFiltered, WeightInv
<1>4. CASE Settle \/ UNCHANGED wrrVars
  BY <1>4 DEF Settle, wrrVars, WeightInv
<1> QED
  BY <1>2, <1>3, <1>4 DEF WrrNext

\* The current weights of the nodes sum to zero after every wrr.Pick, for any
\* set of nodes with any weights, any rebuild of the picker and any filter: what
\* all gain, the node that is hit pays.
THEOREM WeightsSumToZero == WrrSpec => []SumZero
<1>1. WrrInit => WeightInv
  BY NodesAssumption, SumNothing DEF WrrInit, WeightInv
<1>2. WeightInv => SumZero
  BY DEF WeightInv, SumZero, SumFunction
<1> QED
  BY <1>1, <1>2, NextWeight, PTL DEF WrrSpec

\* With one picker and no filters since the start, a node has gained its weight
\* with every pick of the round and has paid the total with every hit, and none
\* is a whole total in debt.
Share ==
  LET t == Total(ready)
  IN /\ \A n \in Nodes \ ready : weight[n] = 0 /\ hits[n] = 0
     /\ \A n \in ready : weight[n] = Round * Weight[n] - hits[n] * t
     /\ t > 0 => /\ \A n \in ready : weight[n] > 0 - t
                 /\ Round <= t

\* What is known of a round: Share needs the zero sum (some node is ahead after
\* the gains), and Proportional needs Share at the end of a round.
ShareInv ==
  /\ WeightInv
  /\ pure \in BOOLEAN
  /\ hits \in [Nodes -> Nat]
  /\ pure => Share

\* The picks of a round are the hits of all nodes.
LEMMA RoundIsSum ==
  ASSUME hits \in [Nodes -> Nat]
  PROVE  Round = SumFunctionOnSet(hits, Nodes) /\ Round \in Nat
<1>1. Round = SumFunctionOnSet(hits, Nodes)
  BY DEF Round, SumFunction
<1>2. IsFiniteSet(Nodes)
  BY NodesAssumption
<1>3. PICK none : \A x \in Nodes : none[x] = 0
  <2>1. \A x \in Nodes : [y \in Nodes |-> 0][x] = 0
    OBVIOUS
  <2> QED
    BY <2>1
<1>4. SumFunctionOnSet(none, Nodes) = 0 /\ SumFunctionOnSet(hits, Nodes) \in Int
  BY <1>2, <1>3, SumNothing, SumType
<1>5. SumFunctionOnSet(none, Nodes) <= SumFunctionOnSet(hits, Nodes)
  BY <1>2, <1>3, SumOrdered
<1> QED
  BY <1>1, <1>4, <1>5

\* More than -t in multiples of t is at least 0.
LEMMA MulGE ==
  ASSUME NEW i \in Int, NEW t \in Nat, t > 0, t * i > 0 - t
  PROVE  i >= 0
<1>1. i < 0 => t * i <= 0 - t
  <2> SUFFICES ASSUME i < 0 PROVE t * i <= 0 - t
    OBVIOUS
  <2>1. PICK j \in Nat : i = 0 - (j + 1)
    <3>1. 0 - i - 1 \in Nat /\ i = 0 - ((0 - i - 1) + 1)
      OBVIOUS
    <3> QED
      BY <3>1
  <2>2. t * i = 0 - (t * j + t)
    BY <2>1, SMT
  <2>3. t * j >= 0
    BY SMT
  <2>4. t * j \in Int
    BY SMT
  <2> QED
    BY <2>2, <2>3, <2>4
<1> QED
  BY <1>1

\* At the end of a round no node has more hits than its weight, and as many
\* hits as weights were given out: each has exactly its weight.
LEMMA RoundFull ==
  ASSUME ShareInv, pure, Round = Total(ready)
  PROVE  \A n \in ready : hits[n] = Weight[n]
<1> DEFINE t == Total(ready)
<1>1. t \in Nat /\ IsFiniteSet(ready) /\ ready \in SUBSET Nodes /\ IsFiniteSet(Nodes)
  BY TotalType, NodesAssumption DEF ShareInv, WeightInv
<1>2. \A n \in Nodes : hits[n] \in Nat /\ Weight[n] \in Nat
  BY NodesAssumption DEF ShareInv
<1>3. SumFunctionOnSet(hits, ready) = t
  <2>1. SumFunctionOnSet(hits, Nodes) = SumFunctionOnSet(hits, ready)
    <3>1. \A n \in Nodes : hits[n] \in Int
      BY <1>2
    <3>2. \A n \in Nodes \ ready : hits[n] = 0
      BY DEF ShareInv, Share
    <3> QED
      BY <1>1, <3>1, <3>2, SumWithin
  <2> QED
    BY <2>1, RoundIsSum DEF ShareInv
<1>4. SumFunctionOnSet(Weight, ready) = t
  BY DEF Total
<1>5. CASE t > 0
  <2>1. ASSUME NEW n \in ready
        PROVE  hits[n] <= Weight[n]
    <3>1. weight[n] = t * Weight[n] - hits[n] * t /\ weight[n] > 0 - t
      BY <1>5 DEF ShareInv, Share
    <3>2. hits[n] \in Int /\ Weight[n] \in Int
      BY <1>1, <1>2
    <3>3. t * (Weight[n] - hits[n]) = t * Weight[n] - hits[n] * t
      BY <1>1, <3>2, SMT
    <3>4. t * (Weight[n] - hits[n]) > 0 - t
      BY <3>1, <3>3
    <3>5. Weight[n] - hits[n] >= 0
      BY <3>4, <3>2, <1>1, <1>5, MulGE
    <3> QED
      BY <3>5, <3>2
  <2>2. \A n \in ready : hits[n] \in Int /\ Weight[n] \in Int /\ hits[n] <= Weight[n]
    BY <1>1, <1>2, <2>1
  <2> QED
    BY <1>1, <1>3, <1>4, <2>2, SumTight
<1>6. CASE t = 0
  <2>1. PICK none : \A x \in ready : none[x] = 0
    <3>1. \A x \in ready : [y \in ready |-> 0][x] = 0
      OBVIOUS
    <3> QED
      BY <3>1
  <2>2. SumFunctionOnSet(none, ready) = 0
    BY <1>1, <2>1, SumNothing
  <2>3. \A n \in ready : none[n] \in Int /\ hits[n] \in Int /\ none[n] <= hits[n]
    BY <1>1, <1>2, <2>1
  <2>4. \A n \in ready : none[n] = hits[n]
    BY <1>1, <1>3, <1>6, <2>2, <2>3, SumTight
  <2> QED
    BY <1>1, <1>6, <2>1, <2>4, TotalType
<1> QED
  BY <1>1, <1>5, <1>6

\* The node that is hit has a positive weight before it pays: it has the
\* largest weight, and after the gains they sum to a positive total.
LEMMA HitPays ==
  ASSUME WeightInv, NEW h \in ready, Hit(ready, h), Total(ready) > 0,
         \A n \in Nodes \ ready : weight[n] = 0
  PROVE  Gained(ready)[h] > 0
<1> SUFFICES ASSUME ~(Gained(ready)[h] > 0)
             PROVE  FALSE
  OBVIOUS
<1>1. /\ ready \in SUBSET Nodes /\ IsFiniteSet(Nodes) /\ Total(ready) \in Nat
      /\ Weight \in [Nodes -> Nat] /\ weight \in [Nodes -> Int]
  BY NodesAssumption, TotalType DEF WeightInv
<1>2. Gained(ready) \in [Nodes -> Int]
  BY <1>1 DEF Gained
<1>3. ASSUME NEW n \in Nodes
      PROVE  Gained(ready)[n] <= 0
  <2>1. CASE n \in ready
    BY <1>1, <1>2, <2>1 DEF Hit
  <2>2. CASE n \notin ready
    BY <1>1, <2>2 DEF Gained
  <2> QED
    BY <2>1, <2>2
<1>4. PICK none : \A x \in Nodes : none[x] = 0
  <2>1. \A x \in Nodes : [y \in Nodes |-> 0][x] = 0
    OBVIOUS
  <2> QED
    BY <2>1
<1>5. SumFunctionOnSet(none, Nodes) = 0
  BY <1>1, <1>4, SumNothing
<1>6. \A x \in Nodes : Gained(ready)[x] \in Int /\ none[x] \in Int /\ Gained(ready)[x] <= none[x]
  BY <1>2, <1>3, <1>4
<1>7. SumFunctionOnSet(Gained(ready), Nodes) <= SumFunctionOnSet(none, Nodes)
  BY <1>1, <1>6, SumOrdered
<1>8. SumFunctionOnSet(Gained(ready), Nodes) = 0 + Total(ready)
  BY <1>1, HitSum DEF WeightInv
<1> QED
  BY <1>1, <1>5, <1>7, <1>8

\* A pick is one more of the round, or the first of the next one.
LEMMA RoundCounts ==
  ASSUME hits \in [Nodes -> Nat], NEW h \in Nodes, hits' = Count(h)
  PROVE  /\ hits' \in [Nodes -> Nat]
         /\ Round' = IF Round >= Total(ready) THEN 1 ELSE Round + 1
<1>1. IsFiniteSet(Nodes)
  BY NodesAssumption
<1>2. hits' \in [Nodes -> Nat]
  BY DEF Count
<1>3. Round' = SumFunctionOnSet(hits', Nodes)
  BY <1>2 DEF Round, SumFunction
<1>4. CASE Round >= Total(ready)
  <2>1. PICK none : none = NoHits
    OBVIOUS
  <2>2. Differ(hits', none, Nodes, h) /\ none[h] = 0 /\ hits'[h] = 1
    BY <1>4, <2>1 DEF Count, NoHits, Differ
  <2>3. SumFunctionOnSet(none, Nodes) = 0
    BY <1>1, <2>1, SumNothing DEF NoHits
  <2>4. SumFunctionOnSet(hits', Nodes) = SumFunctionOnSet(none, Nodes) + (hits'[h] - none[h])
    BY <1>1, <2>2, SumChange
  <2> QED
    BY <1>2, <1>3, <1>4, <2>2, <2>3, <2>4
<1>5. CASE ~(Round >= Total(ready))
  <2>1. Differ(hits', hits, Nodes, h) /\ hits'[h] = hits[h] + 1
    BY <1>5 DEF Count, Differ
  <2>2. SumFunctionOnSet(hits', Nodes) = SumFunctionOnSet(hits, Nodes) + (hits'[h] - hits[h])
    BY <1>1, <2>1, SumChange
  <2>3. Round \in Nat /\ Round = SumFunctionOnSet(hits, Nodes)
    BY RoundIsSum
  <2> QED
    BY <1>2, <1>3, <1>5, <2>1, <2>2, <2>3
<1> QED
  BY <1>4, <1>5

\* An unfiltered pick keeps the accounts of the round; the first pick of a new
\* round starts from weights that are all 0 again.
LEMMA PurePick ==
  ASSUME ShareInv, pure, NEW h \in ready, Hit(ready, h), hits' = Count(h), ready' = ready
  PROVE  hits' \in [Nodes -> Nat] /\ Share'
<1> DEFINE t == Total(ready)
           w == Weight[h]
<1>1. /\ ready \in SUBSET Nodes /\ t \in Nat /\ weight \in [Nodes -> Int]
      /\ Weight \in [Nodes -> Nat] /\ hits \in [Nodes -> Nat] /\ Share /\ WeightInv
  BY NodesAssumption, TotalType DEF ShareInv, WeightInv
<1>2. h \in Nodes
  BY <1>1
<1>3. Round \in Nat
  BY <1>1, RoundIsSum
<1>4. hits' \in [Nodes -> Nat] /\ Round' = IF Round >= t THEN 1 ELSE Round + 1
  BY <1>1, <1>2, RoundCounts
<1>5. Total(ready)' = t
  BY DEF Total
<1>6. ASSUME NEW n \in Nodes \ ready
      PROVE  weight'[n] = 0 /\ hits'[n] = 0
  <2>1. n # h /\ weight[n] = 0 /\ hits[n] = 0
    BY <1>1 DEF Share
  <2>2. weight'[n] = weight[n]
    BY <1>1, <2>1 DEF Hit, Gained
  <2>3. hits'[n] = 0
    BY <1>1, <2>1 DEF Count
  <2> QED
    BY <2>1, <2>2, <2>3
<1>7. ASSUME NEW n \in ready
      PROVE  weight'[n] = weight[n] + Weight[n] - (IF n = h THEN t ELSE 0)
  BY <1>1, <1>2 DEF Hit, Gained
<1>8. ASSUME NEW n \in ready
      PROVE  weight'[n] = Round' * Weight[n] - hits'[n] * t
  <2>0. weight[n] \in Int /\ Weight[n] \in Nat /\ hits[n] \in Nat
    BY <1>1
  <2>1. weight[n] = Round * Weight[n] - hits[n] * t
    BY <1>1 DEF Share
  <2>2. CASE Round >= t
    <3>1. hits'[n] = (IF n = h THEN 1 ELSE 0) /\ Round' = 1
      BY <1>1, <1>4, <2>2 DEF Count
    <3>2. weight[n] = 0
      <4>1. CASE t = 0
        <5>1. Weight[n] = 0
          BY <1>1, <4>1, TotalType
        <5> QED
          BY <5>1, <4>1, <2>0, <2>1, <1>3
      <4>2. CASE t > 0
        <5>1. Round = t
          <6>1. Round <= t
            BY <1>1, <4>2 DEF Share
          <6> HIDE DEF t
          <6> QED
            BY <1>1, <1>3, <2>2, <6>1
        <5>2. hits[n] = Weight[n]
          BY <5>1, RoundFull
        <5>3. t * Weight[n] - Weight[n] * t = 0
          BY <1>1, <2>0, SMT
        <5> QED
          BY <5>1, <5>2, <5>3, <2>1
      <4> QED
        BY <1>1, <4>1, <4>2
    <3>3. 1 * Weight[n] = Weight[n] /\ 1 * t = t /\ 0 * t = 0
      BY <1>1, <2>0
    <3> QED
      BY <1>1, <1>7, <2>0, <3>1, <3>2, <3>3
  <2>3. CASE ~(Round >= t)
    <3>1. hits'[n] = (IF n = h THEN hits[n] + 1 ELSE hits[n]) /\ Round' = Round + 1
      BY <1>1, <1>4, <2>3 DEF Count
    <3>2. /\ (Round + 1) * Weight[n] = Round * Weight[n] + Weight[n]
          /\ (hits[n] + 1) * t = hits[n] * t + t
          /\ Round * Weight[n] \in Int /\ hits[n] * t \in Int
      BY <1>1, <1>3, <2>0, SMT
    <3> HIDE DEF t
    <3> QED
      BY <1>1, <1>7, <2>0, <2>1, <3>1, <3>2
  <2> QED
    BY <2>2, <2>3
<1>9. ASSUME t > 0
      PROVE  (\A n \in ready : weight'[n] > 0 - t) /\ Round' <= t
  <2>1. Round <= t /\ \A n \in ready : weight[n] > 0 - t
    BY <1>1, <1>9 DEF Share
  <2>2. Round' <= t
    BY <1>1, <1>3, <1>4, <1>9, <2>1
  <2>3. Gained(ready)[h] > 0
    BY <1>1, <1>9, HitPays DEF Share
  <2>4. Gained(ready)[h] = weight[h] + Weight[h]
    BY <1>1, <1>2 DEF Gained
  <2>5. ASSUME NEW n \in ready
        PROVE  weight'[n] > 0 - t
    <3>1. weight[n] \in Int /\ Weight[n] \in Nat /\ weight[n] > 0 - t
      BY <1>1, <2>1
    <3>2. weight'[n] = weight[n] + Weight[n] - (IF n = h THEN t ELSE 0)
      BY <1>7
    <3> HIDE DEF t
    <3> QED
      BY <1>1, <2>3, <2>4, <3>1, <3>2
  <2> QED
    BY <2>2, <2>5
<1> HIDE DEF t
<1> QED
  BY <1>4, <1>5, <1>6, <1>8, <1>9 DEF Share

\* While one picker serves calls without filters, every round of it (as many
\* calls of wrr.Pick as the weights add up to) hits each ready node exactly as
\* often as its weight, for any nodes, any weights and any choice among equals.
THEOREM PicksProportional == WrrSpec => []Proportional
<1>1. WrrInit => ShareInv
  <2> SUFFICES ASSUME WrrInit
               PROVE  ShareInv
    OBVIOUS
  <2>1. WeightInv /\ hits = NoHits /\ hits \in [Nodes -> Nat]
    BY NodesAssumption, SumNothing DEF WrrInit, WeightInv, NoHits
  <2>2. Round = 0
    BY <2>1, NodesAssumption, SumNothing DEF Round, SumFunction, NoHits
  <2>3. Total(ready) \in Nat /\ Weight \in [Nodes -> Nat]
    BY <2>1, TotalType, NodesAssumption DEF WeightInv
  <2>4. ASSUME NEW n \in ready
        PROVE  0 = 0 * Weight[n] - 0 * Total(ready)
    BY <2>1, <2>3 DEF WeightInv
  <2>5. \A n \in Nodes : weight[n] = 0 /\ hits[n] = 0
    BY <2>1 DEF WrrInit, NoHits
  <2>6. Share
    BY <2>1, <2>2, <2>3, <2>4, <2>5 DEF Share, WeightInv
  <2> QED
    BY <2>1, <2>6 DEF ShareInv, WrrInit
<1>2. ShareInv /\ [WrrNext]_wrrVars => ShareInv'
  <2> SUFFICES ASSUME ShareInv, [WrrNext]_wrrVars
               PROVE  ShareInv'
    OBVIOUS
  <2>0. WeightInv'
    BY NextWeight DEF ShareInv
  <2>1. CASE Pick /\ ready # {} /\ pure
    <3>1. PICK h \in ready : Hit(ready, h) /\ hits' = Count(h)
      BY <2>1 DEF Pick
    <3>2. ready' = ready /\ pure' = pure
      BY <2>1 DEF Pick
    <3>3. hits' \in [Nodes -> Nat] /\ Share'
      BY <2>1, <3>1, <3>2, PurePick
    <3> QED
      BY <2>0, <3>2, <3>3 DEF ShareInv
  <2>2. CASE Pick /\ ready # {} /\ ~pure
    BY <2>0, <2>2 DEF Pick, ShareInv
  <2>3. CASE (Pick /\ ready = {}) \/ Settle \/ UNCHANGED wrrVars
    <3>1. UNCHANGED <<ready, weight, pure, hits>>
      BY <2>3 DEF Pick, Settle, wrrVars
    <3>2. Share => Share'
      BY <3>1 DEF Share, Round, Total
    <3> QED
      BY <2>0, <3>1, <3>2 DEF ShareInv
  <2>4. ASSUME NEW S \in SUBSET Nodes, Build(S) \/ PickFiltered(S)
        PROVE  ShareInv'
    <3>1. pure' = FALSE /\ hits' = NoHits
      BY <2>4 DEF Build, PickFiltered
    <3>2. hits' \in [Nodes -> Nat]
      BY <3>1 DEF NoHits
    <3> QED
      BY <2>0, <3>1, <3>2 DEF ShareInv
  <2> QED
    BY <2>1, <2>2, <2>3, <2>4 DEF WrrNext
<1>3. ShareInv => Proportional
  BY RoundFull DEF Proportional
<1> QED
  BY <1>1, <1>2, <1>3, PTL DEF WrrSpec

-----------------------------------------------------------------------------
(* The waits of a retry. *)

\* One step of the recursion of Pow2.
Doubled(p, k) == IF k = 0 THEN 1 ELSE 2 * p[k - 1]

\* The recursion of Pow2 has a solution up to any width.
LEMMA Pow2Exists == Pow2 = [k \in 0 .. Width |-> Doubled(Pow2, k)]
<1> DEFINE upto(p, n) == p = [k \in 0 .. n |-> Doubled(p, k)]
           bad == {n \in Nat : ~\E p : upto(p, n)}
<1>1. bad = {}
  <2> SUFFICES ASSUME bad # {}
               PROVE  FALSE
    OBVIOUS
  <2>1. PICK n \in bad : \A m \in bad : n <= m
    <3>1. bad \in SUBSET Nat
      OBVIOUS
    <3> HIDE DEF bad
    <3> QED
      BY <3>1, LeastNatural
  <2>2. n \in Nat /\ ~\E p : upto(p, n)
    OBVIOUS
  <2>3. CASE n = 0
    <3> DEFINE p == [k \in 0 .. 0 |-> 1]
    <3>1. \A k \in 0 .. 0 : Doubled(p, k) = 1
      BY DEF Doubled
    <3>2. upto(p, 0)
      BY <3>1
    <3> QED
      BY <2>2, <2>3, <3>2
  <2>4. CASE n > 0
    <3>1. n - 1 \in Nat /\ n - 1 \notin bad
      <4> HIDE DEF bad
      <4> QED
        BY <2>1, <2>2, <2>4
    <3>2. PICK p : upto(p, n - 1)
      BY <3>1
    <3> DEFINE q == [k \in 0 .. n |-> Doubled(p, k)]
    <3>3. ASSUME NEW k \in 0 .. n
          PROVE  Doubled(p, k) = Doubled(q, k)
      <4>1. CASE k = 0
        BY <4>1 DEF Doubled
      <4>2. CASE k # 0
        <5>1. k - 1 \in 0 .. n /\ k - 1 \in 0 .. n - 1
          BY <2>2, <4>2
        <5>2. p[k - 1] = Doubled(p, k - 1) /\ q[k - 1] = Doubled(p, k - 1)
          BY <3>2, <5>1
        <5> HIDE DEF q
        <5> QED
          BY <5>2 DEF Doubled
      <4> QED
        BY <4>1, <4>2
    <3>4. upto(q, n)
      BY <3>3
    <3> QED
      BY <2>2, <3>4
  <2> QED
    BY <2>2, <2>3, <2>4
<1>2. Width \in Nat
  BY RetryAssumption
<1>3. \E p : upto(p, Width)
  BY <1>1, <1>2
<1>4. Pow2 = CHOOSE p : upto(p, Width)
  BY DEF Pow2, Doubled
<1> HIDE DEF upto
<1>5. upto(Pow2, Width)
  BY <1>3, <1>4
<1> QED
  BY <1>5 DEF upto

\* A power of two is twice the one before it.
LEMMA Pow2Step ==
  /\ Pow2[0] = 1
  /\ \A k \in 0 .. Width : k > 0 => Pow2[k] = 2 * Pow2[k - 1]
<1>1. Width \in Nat
  BY RetryAssumption
<1>2. \A k \in 0 .. Width : Pow2[k] = Doubled(Pow2, k)
  BY Pow2Exists
<1>3. 0 \in 0 .. Width
  BY <1>1
<1> QED
  BY <1>2, <1>3 DEF Doubled

\* Powers of two are positive naturals.
LEMMA Pow2Type == \A k \in 0 .. Width : Pow2[k] \in Nat /\ Pow2[k] > 0
<1> DEFINE bad == {k \in 0 .. Width : ~(Pow2[k] \in Nat /\ Pow2[k] > 0)}
<1> SUFFICES ASSUME bad # {}
             PROVE  FALSE
  OBVIOUS
<1>1. Width \in Nat
  BY RetryAssumption
<1>2. PICK k \in bad : \A m \in bad : k <= m
  <2>1. bad \in SUBSET Nat
    BY <1>1
  <2> HIDE DEF bad
  <2> QED
    BY <2>1, LeastNatural
<1>3. k \in 0 .. Width /\ k # 0
  BY Pow2Step
<1>4. k - 1 \in 0 .. Width /\ k - 1 \notin bad
  <2>1. k - 1 \in 0 .. Width /\ ~(k <= k - 1)
    BY <1>1, <1>3
  <2> HIDE DEF bad
  <2> QED
    BY <1>2, <2>1
<1>5. Pow2[k] = 2 * Pow2[k - 1]
  BY <1>1, <1>3, Pow2Step
<1>6. Pow2[k - 1] \in Nat /\ Pow2[k - 1] > 0
  BY <1>4
<1> QED
  BY <1>5, <1>6

\* They grow with the exponent.
LEMMA Pow2Grows ==
  ASSUME NEW i \in 0 .. Width, NEW j \in 0 .. Width, i <= j
  PROVE  Pow2[i] <= Pow2[j]
<1> DEFINE bad == {k \in 0 .. Width : k >= i /\ ~(Pow2[i] <= Pow2[k])}
<1> SUFFICES ASSUME bad # {}
             PROVE  FALSE
  OBVIOUS
<1>1. Width \in Nat
  BY RetryAssumption
<1>2. PICK k \in bad : \A m \in bad : k <= m
  <2>1. bad \in SUBSET Nat
    BY <1>1
  <2> HIDE DEF bad
  <2> QED
    BY <2>1, LeastNatural
<1>3. k \in 0 .. Width /\ k > i
  BY <1>1, Pow2Type
<1>4. k - 1 \in 0 .. Width /\ k - 1 \notin bad /\ k - 1 >= i
  <2>1. k - 1 \in 0 .. Width /\ ~(k <= k - 1) /\ k - 1 >= i
    BY <1>1, <1>3
  <2> HIDE DEF bad
  <2> QED
    BY <1>2, <2>1
<1>5. Pow2[k] = 2 * Pow2[k - 1] /\ Pow2[k - 1] \in Nat /\ Pow2[i] \in Nat
  BY <1>1, <1>3, <1>4, Pow2Step, Pow2Type
<1>6. Pow2[i] <= Pow2[k - 1]
  BY <1>4
<1>7. Pow2[i] <= Pow2[k]
  BY <1>5, <1>6
<1> QED
  BY <1>7

\* Exponents add.
LEMMA Pow2Adds ==
  ASSUME NEW i \in 0 .. Width, NEW j \in 0 .. Width, i + j <= Width
  PROVE  Pow2[i] * Pow2[j] = Pow2[i + j]
<1> DEFINE bad == {k \in 0 .. Width : i + k <= Width /\ Pow2[i] * Pow2[k] # Pow2[i + k]}
<1> SUFFICES ASSUME bad # {}
             PROVE  FALSE
  OBVIOUS
<1>1. Width \in Nat
  BY RetryAssumption
<1>2. PICK k \in bad : \A m \in bad : k <= m
  <2>1. bad \in SUBSET Nat
    BY <1>1
  <2> HIDE DEF bad
  <2> QED
    BY <2>1, LeastNatural
<1>3. k \in 0 .. Width /\ i + k <= Width /\ Pow2[i] * Pow2[k] # Pow2[i + k] /\ Pow2[i] \in Nat
  BY Pow2Type
<1>4. k # 0
  <2>1. i + 0 = i /\ Pow2[0] = 1 /\ Pow2[i] * 1 = Pow2[i]
    BY <1>3, Pow2Step
  <2> HIDE DEF bad
  <2> QED
    BY <1>3, <2>1
<1>5. k - 1 \in 0 .. Width /\ k - 1 \notin bad /\ i + (k - 1) <= Width
  <2>1. k - 1 \in 0 .. Width /\ ~(k <= k - 1) /\ i + (k - 1) <= Width
    BY <1>1, <1>3, <1>4
  <2> HIDE DEF bad
  <2> QED
    BY <1>2, <2>1
<1>6. Pow2[i] * Pow2[k - 1] = Pow2[i + (k - 1)]
  BY <1>5
<1>7. Pow2[k] = 2 * Pow2[k - 1] /\ Pow2[k - 1] \in Nat
  BY <1>3, <1>4, <1>5, Pow2Step, Pow2Type
<1>8. Pow2[i + k] = 2 * Pow2[i + (k - 1)]
  <2>1. i + k \in 0 .. Width /\ i + k > 0 /\ (i + k) - 1 = i + (k - 1)
    BY <1>1, <1>3, <1>4
  <2> QED
    BY <2>1, Pow2Step
<1>9. \A a, b, c \in Nat : a * (2 * b) = 2 * (a * b)
  BY SMT
<1>10. Pow2[i] * Pow2[k] = 2 * (Pow2[i] * Pow2[k - 1])
  BY <1>3, <1>7, <1>9
<1> HIDE DEF bad
<1> QED
  BY <1>3, <1>6, <1>8, <1>10

\* A remainder of a number below the modulus is the number.
LEMMA ModSmall ==
  ASSUME NEW m \in Nat, m > 0, NEW x \in Nat, x < m
  PROVE  x % m = x
<1>1. x % m \in Nat /\ x % m < m /\ x = m * (x \div m) + (x % m) /\ x \div m \in Int
  BY SMT
<1>2. PICK q \in Int : q = x \div m
  BY <1>1
<1>3. PICK r \in Nat : r = x % m
  BY <1>1
<1>4. x = m * q + r /\ r < m
  BY <1>1, <1>2, <1>3
<1>5. q < 0 => m * q <= 0 - m
  BY SMT
<1>6. q > 0 => m * q >= m
  BY SMT
<1>7. m * q \in Int
  BY SMT
<1>8. q = 0
  BY <1>4, <1>5, <1>6, <1>7
<1>9. m * 0 = 0
  OBVIOUS
<1> QED
  BY <1>3, <1>4, <1>8, <1>9

\* A number that fits in the signed width is not wrapped.
LEMMA SignedFits ==
  ASSUME NEW x \in -MaxInt - 1 .. MaxInt
  PROVE  Signed(x) = x
<1>1. Width \in Nat /\ Width - 1 \in 0 .. Width /\ Width \in 0 .. Width /\ Width > 0
  BY RetryAssumption
<1>2. PICK h \in Nat : h = Pow2[Width - 1]
  BY <1>1, Pow2Type
<1>3. Pow2[Width] = 2 * h
  BY <1>1, <1>2, Pow2Step
<1>4. x \in Int /\ x < h /\ x >= 0 - h
  BY <1>2 DEF MaxInt
<1>5. (x + h) % (2 * h) = x + h
  <2>1. PICK m \in Nat : m = 2 * h
    OBVIOUS
  <2>2. x + h \in Nat /\ m > 0 /\ x + h < m
    BY <1>4, <2>1
  <2> QED
    BY <2>1, <2>2, ModSmall
<1> QED
  BY <1>2, <1>3, <1>5 DEF Signed

\* Log2 is the position of the highest bit of a positive signed number, or the
\* next when float64 rounds up.
LEMMA Log2Spec ==
  ASSUME NEW d \in 1 .. MaxInt
  PROVE  Log2(d) \in 0 .. Width - 1 /\ d < Pow2[Log2(d) + 1]
<1>1. Width \in Nat /\ Width - 1 \in 0 .. Width /\ Width > 1
  BY RetryAssumption
<1>2. d \in Nat /\ d > 0 /\ d < Pow2[Width - 1] /\ Pow2[Width - 1] \in Nat
  BY <1>1, Pow2Type DEF MaxInt
<1> DEFINE above == {k \in 0 .. Width : d < Pow2[k]}
<1>3. above \in SUBSET Nat /\ Width - 1 \in above
  BY <1>1, <1>2
<1>4. PICK k \in above : \A m \in above : k <= m
  <2> HIDE DEF above
  <2> QED
    BY <1>3, LeastNatural
<1>5. k \in 0 .. Width /\ d < Pow2[k] /\ k <= Width - 1
  BY <1>3, <1>4
<1>6. k # 0
  BY <1>2, <1>5, Pow2Step
<1>7. k - 1 \notin above
  <2>1. k - 1 \in Int /\ ~(k <= k - 1)
    BY <1>5
  <2> HIDE DEF above
  <2> QED
    BY <1>4, <2>1
<1>8. k - 1 \in 0 .. Width - 1 /\ (k - 1) + 1 = k
  BY <1>1, <1>5, <1>6
<1>9. Pow2[k - 1] <= d
  <2>1. k - 1 \in 0 .. Width
    BY <1>1, <1>8
  <2>2. Pow2[k - 1] \in Nat /\ ~(d < Pow2[k - 1])
    BY <1>7, <2>1, Pow2Type
  <2> QED
    BY <1>2, <2>2
<1>10. PICK l : /\ l = CHOOSE j \in 0 .. Width - 1 : Pow2[j] <= d /\ d < Pow2[j + 1]
                /\ l \in 0 .. Width - 1 /\ Pow2[l] <= d /\ d < Pow2[l + 1]
  <2>1. \E j \in 0 .. Width - 1 : Pow2[j] <= d /\ d < Pow2[j + 1]
    BY <1>5, <1>8, <1>9
  <2> QED
    BY <2>1
<1>11. l # Width - 1
  BY <1>2, <1>10
<1>12. CASE Log2(d) = l
  BY <1>10, <1>12
<1>13. CASE Log2(d) = l + 1
  <2>1. l + 1 \in 0 .. Width - 1 /\ l + 1 \in 0 .. Width /\ l + 1 + 1 \in 0 .. Width
    BY <1>1, <1>10, <1>11
  <2>2. Pow2[l + 1] <= Pow2[l + 1 + 1] /\ Pow2[l + 1] \in Nat /\ Pow2[l + 1 + 1] \in Nat
    BY <2>1, Pow2Grows, Pow2Type
  <2> QED
    BY <1>2, <1>10, <1>13, <2>1, <2>2
<1>14. Log2(d) = l \/ Log2(d) = l + 1
  BY <1>10 DEF Log2
<1> QED
  BY <1>12, <1>13, <1>14

\* What BackOff leaves in the option: a positive delay, and the largest shift
\* of it that keeps the sign.
Ready(o) ==
  o.delay \in 1 .. MaxInt /\ o.backoff = Width - 2 - Log2(o.delay) /\ o.backoff >= 0

\* The shift that the n-th retry makes.
Shift(n, o) == IF n > o.backoff THEN o.backoff ELSE n

\* The largest signed number is one less than the power with the sign bit.
LEMMA MaxIntType == MaxInt \in Nat /\ MaxInt >= 1 /\ MaxInt + 1 = Pow2[Width - 1]
<1>1. Width - 1 \in 0 .. Width /\ Width - 1 > 0 /\ Width - 2 \in 0 .. Width /\ (Width - 1) - 1 = Width - 2
  BY RetryAssumption
<1>2. Pow2[Width - 1] = 2 * Pow2[Width - 2] /\ Pow2[Width - 2] \in Nat /\ Pow2[Width - 2] > 0
  BY <1>1, Pow2Step, Pow2Type
<1> QED
  BY <1>2 DEF MaxInt

\* Within that shift nothing overflows: the highest bit of the delay stays
\* below the sign bit.
LEMMA BackOffValue ==
  ASSUME NEW o, Ready(o), NEW n \in Nat
  PROVE  /\ Shift(n, o) \in 0 .. Width - 2
         /\ BackOff(n, o) = o.delay * Pow2[Shift(n, o)]
         /\ BackOff(n, o) \in 1 .. MaxInt
<1>1. PICK d \in 1 .. MaxInt : d = o.delay
  BY DEF Ready
<1>2. PICK l \in 0 .. Width - 2 : l = Log2(d) /\ d < Pow2[l + 1]
  BY <1>1, Log2Spec, RetryAssumption DEF Ready
<1>3. o.backoff = Width - 2 - l /\ Width \in Nat
  BY <1>1, <1>2, RetryAssumption DEF Ready
<1>4. PICK s \in 0 .. Width - 2 : s = Shift(n, o) /\ s <= o.backoff
  BY <1>2, <1>3 DEF Shift
<1>5. l + 1 \in 0 .. Width /\ s \in 0 .. Width /\ (l + 1) + s <= Width - 1 /\ (l + 1) + s \in 0 .. Width
  BY <1>2, <1>3, <1>4
<1>6. Pow2[l + 1] * Pow2[s] = Pow2[(l + 1) + s]
  BY <1>3, <1>5, Pow2Adds
<1>7. Pow2[(l + 1) + s] <= MaxInt + 1
  <2>1. Width - 1 \in 0 .. Width
    BY RetryAssumption
  <2> QED
    BY <1>5, <2>1, Pow2Grows, MaxIntType
<1>8. PICK p \in Nat : p = Pow2[s] /\ p > 0
  BY <1>5, Pow2Type
<1>9. PICK u \in Nat : u = Pow2[l + 1]
  BY <1>5, Pow2Type
<1>10. d \in Nat /\ d < u /\ d >= 1
  BY <1>1, <1>2, <1>9, MaxIntType
<1>11. d * p < u * p /\ d * p >= 1 /\ d * p \in Nat /\ u * p \in Nat
  BY <1>8, <1>9, <1>10, SMT
<1>12. d * p \in 1 .. MaxInt
  BY <1>6, <1>7, <1>8, <1>9, <1>11, MaxIntType
<1>13. Signed(d * p) = d * p
  <2>1. d * p \in -MaxInt - 1 .. MaxInt
    BY <1>12, MaxIntType
  <2> QED
    BY <2>1, SignedFits
<1> QED
  BY <1>1, <1>4, <1>8, <1>12, <1>13 DEF BackOff, Shift

\* A later retry shifts no less.
LEMMA BackOffGrows ==
  ASSUME NEW o, Ready(o), NEW n \in Nat, n >= 1
  PROVE  BackOff(n - 1, o) <= BackOff(n, o)
<1>1. PICK i \in 0 .. Width - 2 : i = Shift(n - 1, o) /\ BackOff(n - 1, o) = o.delay * Pow2[i]
  BY BackOffValue
<1>2. PICK j \in 0 .. Width - 2 : j = Shift(n, o) /\ BackOff(n, o) = o.delay * Pow2[j]
  BY BackOffValue
<1>3. o.backoff \in Int
  BY Log2Spec, RetryAssumption DEF Ready
<1>4. i <= j
  BY <1>1, <1>2, <1>3 DEF Shift
<1>5. i \in 0 .. Width /\ j \in 0 .. Width
  BY RetryAssumption
<1>6. PICK p, q \in Nat : p = Pow2[i] /\ q = Pow2[j] /\ p <= q
  BY <1>4, <1>5, Pow2Grows, Pow2Type
<1>7. PICK d \in Nat : d = o.delay
  BY MaxIntType DEF Ready
<1>8. d * p <= d * q
  BY <1>6, SMT
<1> QED
  BY <1>1, <1>2, <1>6, <1>7, <1>8

\* The options a caller can build.
Options ==
  [f : [before : Nat, backoffs : Nat, after : Nat, randoms : Nat], delay : -MaxInt - 1 .. MaxInt,
   maxDelay : Int, maxJitter : Int, retry : Nat, backoff : Int]

\* A shift that is cached is the one BackOff computes.
Kept(o) == o \in Options /\ (o.backoff # 0 => Ready(o))

\* An option after o.f: BackOff, if it was called, has cached the shift.
Usable(o) == Kept(o) /\ (o.f.backoffs > 0 => Ready(o))

\* A later use of BackOff leaves the option as it is.
LEMMA CachedSame ==
  ASSUME NEW o \in Options, Ready(o)
  PROVE  Cached(o) = o
<1>1. CASE o.backoff # 0
  BY <1>1 DEF Cached
<1>2. CASE o.backoff = 0
  <2>1. o.delay > 0 /\ o.delay \in Int /\ o.backoff = Width - 2 - Log2(o.delay)
    BY MaxIntType DEF Ready
  <2>2. (IF o.delay <= 0 THEN 1 ELSE o.delay) = o.delay
    BY <2>1
  <2>3. Cached(o) = [o EXCEPT !.delay = o.delay, !.backoff = o.backoff]
    BY <1>2, <2>1, <2>2 DEF Cached
  <2> QED
    BY <2>3 DEF Options
<1> QED
  BY <1>1, <1>2

\* The first use of BackOff makes an option ready.
LEMMA CachedReady ==
  ASSUME NEW o, Kept(o), Cached(o).backoff >= 0
  PROVE  /\ Cached(o) \in Options /\ Ready(Cached(o))
         /\ Cached(o).f = o.f /\ Cached(o).maxDelay = o.maxDelay
         /\ Cached(o).delay >= o.delay
<1> o \in Options
  BY DEF Kept
<1>1. CASE o.backoff # 0
  BY <1>1 DEF Cached, Kept, Options
<1>2. CASE o.backoff = 0
  <2>1. PICK d \in 1 .. MaxInt : d = (IF o.delay <= 0 THEN 1 ELSE o.delay) /\ d >= o.delay
    BY MaxIntType DEF Options
  <2>2. PICK b \in Int : b = Width - 2 - Log2(d)
    BY Log2Spec, RetryAssumption
  <2>3. Cached(o) = [o EXCEPT !.delay = d, !.backoff = b]
    BY <1>2, <2>1, <2>2 DEF Cached
  <2>4. d \in -MaxInt - 1 .. MaxInt
    BY MaxIntType
  <2>5. Cached(o) \in Options
    BY <2>3, <2>4 DEF Options
  <2>6. Cached(o).delay = d /\ Cached(o).backoff = b
        /\ Cached(o).f = o.f /\ Cached(o).maxDelay = o.maxDelay
    BY <2>3 DEF Options
  <2>7. Ready(Cached(o))
    BY <2>1, <2>2, <2>6 DEF Ready
  <2> QED
    BY <2>1, <2>5, <2>6, <2>7
<1> QED
  BY <1>1, <1>2

\* What o.f leaves in the option is usable, and stays.
LEMMA PreparedUsable ==
  ASSUME NEW o, Kept(o), Prepared(o).backoff >= 0
  PROVE  /\ Usable(Prepared(o))
         /\ Prepared(o).f = o.f /\ Prepared(o).maxDelay = o.maxDelay
         /\ Prepared(o).delay >= o.delay
         /\ Usable(o) => Prepared(o) = o
<1>1. CASE o.f.backoffs = 0
  <2>1. Prepared(o) = o /\ o.delay \in Int
    BY <1>1, MaxIntType DEF Prepared, Kept, Options
  <2> QED
    BY <1>1, <2>1 DEF Usable
<1>2. CASE o.f.backoffs # 0
  <2>1. Prepared(o) = Cached(o) /\ o.f.backoffs \in Nat
    BY <1>2 DEF Prepared, Kept, Options
  <2>2. /\ Cached(o) \in Options /\ Ready(Cached(o))
        /\ Cached(o).f = o.f /\ Cached(o).maxDelay = o.maxDelay
        /\ Cached(o).delay >= o.delay
        /\ Ready(o) => Cached(o) = o
    BY <2>1, CachedReady, CachedSame DEF Kept
  <2> QED
    BY <1>2, <2>1, <2>2 DEF Usable, Kept
<1> QED
  BY <1>1, <1>2

\* A remainder is a number, so that what is left in the width is one.
LEMMA SignedType == ASSUME NEW x \in Int PROVE Signed(x) \in Int
<1>1. Width - 1 \in 0 .. Width /\ Width \in 0 .. Width
  BY RetryAssumption
<1>2. PICK h, m \in Nat : h = Pow2[Width - 1] /\ m = Pow2[Width] /\ m > 0
  BY <1>1, Pow2Type
<1>3. (x + h) % m \in Int
  BY <1>2, SMT
<1> QED
  BY <1>2, <1>3 DEF Signed

\* What BackOff computes is a number, positive when it has been called before.
LEMMA BackOffType ==
  ASSUME NEW o, Usable(o), NEW n \in Nat, n >= 1
  PROVE  BackOff(n, o) \in Int /\ (o.f.backoffs > 0 => BackOff(n, o) > 0 /\ o.delay > 0)
<1>1. CASE Ready(o)
  BY <1>1, BackOffValue, MaxIntType DEF Ready
<1>2. CASE ~Ready(o)
  <2>1. o.backoff = 0 /\ ~(o.f.backoffs > 0) /\ o.delay \in Int
    BY <1>2, MaxIntType DEF Usable, Kept, Options
  <2>2. BackOff(n, o) = Signed(o.delay * Pow2[0])
    BY <2>1 DEF BackOff
  <2>3. o.delay * Pow2[0] \in Int
    BY <2>1, Pow2Step
  <2> QED
    BY <2>1, <2>2, <2>3, SignedType
<1> QED
  BY <1>1, <1>2

\* A later retry adds up no less; the first, which may take a negative delay
\* before BackOff sets it, no more than it would with the one that BackOff sets.
LEMMA SummedGrows ==
  ASSUME NEW o, Kept(o), Prepared(o).backoff >= 0, NEW n \in Nat, n >= 1, NEW r \in Nat
  PROVE  /\ Summed(n, o, r) \in Int /\ Summed(n, Prepared(o), r) \in Int
         /\ Summed(n, o, r) <= Summed(n, Prepared(o), r)
         /\ Usable(o) /\ n > 1 => Summed(n - 1, o, r) \in Int /\ Summed(n - 1, o, r) <= Summed(n, o, r)
         /\ \/ o.delay > 0 /\ o.f.before + o.f.backoffs + o.f.after > 0
            \/ o.f.before = 0 /\ o.f.backoffs > 0
            => Summed(n, o, r) > 0
<1>1. PICK p : /\ p = Prepared(o) /\ Usable(p) /\ p.f = o.f /\ p.delay >= o.delay
               /\ Prepared(p) = p /\ (Usable(o) => p = o)
  <2>1. PICK p : /\ p = Prepared(o) /\ Usable(p) /\ p.f = o.f /\ p.delay >= o.delay
                 /\ (Usable(o) => p = o)
    BY PreparedUsable
  <2>2. CASE p.f.backoffs = 0
    BY <2>1, <2>2 DEF Prepared
  <2>3. CASE p.f.backoffs # 0
    <3>1. p.f.backoffs > 0
      BY <2>1, <2>3 DEF Usable, Kept, Options
    <3>2. p \in Options /\ Ready(p)
      BY <2>1, <3>1 DEF Usable, Kept
    <3>3. Cached(p) = p
      BY <3>2, CachedSame
    <3> QED
      BY <2>1, <2>3, <3>3 DEF Prepared
  <2> QED
    BY <2>1, <2>2, <2>3
<1>2. PICK x, y, z \in Nat : x = o.f.before /\ y = o.f.backoffs /\ z = o.f.after
  BY DEF Kept, Options
<1>3. PICK d, e \in Int : d = o.delay /\ e = p.delay /\ d <= e
  BY <1>1, MaxIntType DEF Usable, Kept, Options
<1>4. PICK b \in Int : b = BackOff(n, p) /\ (y > 0 => b > 0 /\ e > 0)
  BY <1>1, <1>2, <1>3, BackOffType
<1>5. Summed(n, o, r) = x * d + y * b + z * e + r /\ Summed(n, p, r) = x * e + y * b + z * e + r
  BY <1>1, <1>2, <1>3, <1>4 DEF Summed, Fixed
<1>6. x * d \in Int /\ x * e \in Int /\ y * b \in Int /\ z * e \in Int /\ x * d <= x * e
  BY <1>2, <1>3, <1>4, SMT
<1>7. Summed(n, o, r) \in Int /\ Summed(n, p, r) \in Int /\ Summed(n, o, r) <= Summed(n, p, r)
  BY <1>5, <1>6
<1>8. ASSUME Usable(o), n > 1
      PROVE  Summed(n - 1, o, r) \in Int /\ Summed(n - 1, o, r) <= Summed(n, o, r)
  <2>1. p = o /\ n - 1 \in Nat /\ n - 1 >= 1
    BY <1>1, <1>8
  <2>2. PICK a \in Int : a = BackOff(n - 1, p) /\ (y > 0 => a <= b)
    <3>1. BackOff(n - 1, p) \in Int
      BY <1>1, <2>1, BackOffType
    <3>2. y > 0 => BackOff(n - 1, p) <= b
      BY <1>1, <1>2, <1>4, BackOffGrows DEF Usable
    <3> QED
      BY <3>1, <3>2
  <2>3. Summed(n - 1, o, r) = x * d + y * a + z * e + r
    BY <1>1, <1>2, <1>3, <2>1, <2>2 DEF Summed, Fixed
  <2>4. y * a \in Int /\ y * a <= y * b
    BY <1>4, <2>2, SMT
  <2> QED
    BY <1>5, <1>6, <2>3, <2>4
<1>9. ASSUME \/ d > 0 /\ x + y + z > 0
             \/ x = 0 /\ y > 0
      PROVE  Summed(n, o, r) > 0
  <2>1. e > 0
    BY <1>3, <1>4, <1>9
  <2>2. x * d >= 0 /\ (x > 0 /\ d > 0 => x * d > 0)
    BY <1>9, SMT
  <2>3. y * b >= 0 /\ (y > 0 => y * b > 0)
    BY <1>4, SMT
  <2>4. z * e >= 0 /\ (z > 0 => z * e > 0)
    BY <2>1, SMT
  <2> QED
    BY <1>5, <1>6, <1>9, <2>2, <2>3, <2>4
<1> QED
  BY <1>1, <1>2, <1>3, <1>7, <1>8, <1>9

\* A wait of x, cut off at maxDelay.
Cut(o, x) == timer(IF o.maxDelay > 0 /\ x > o.maxDelay THEN o.maxDelay ELSE x)

\* The cut respects the order, and leaves a wait a wait.
LEMMA CutGrows ==
  ASSUME NEW o, o.maxDelay \in Int, NEW x \in Int, NEW y \in Int, x <= y
  PROVE  /\ Cut(o, x) <= Cut(o, y) /\ Cut(o, x) \in Nat /\ Cut(o, y) \in Nat
         /\ o.maxDelay > 0 => Cut(o, x) <= o.maxDelay
         /\ x > 0 => Cut(o, x) > 0
BY DEF Cut, timer

\* Once an attempt has failed the option is usable and does not change again,
\* and as long as nothing wrapped around, the last wait is at most what the
\* option gives for the attempt before.
Waiting ==
  /\ Kept(opt) /\ attempt \in Nat /\ wrapped \in BOOLEAN
  /\ \/ attempt = 1 /\ waited = 0
     \/ /\ attempt > 1 /\ Usable(opt) /\ waited \in Nat
        /\ ~wrapped /\ opt.f.randoms = 0 => waited <= Cut(opt, Summed(attempt - 1, opt, 0))

\* That is so until a function panics.
RetryInv == outcome = "panic" \/ Waiting

\* What a retry waits: the sum, as far as it fits, cut off.
LEMMA AgainWaits ==
  ASSUME Waiting, Again
  PROVE  \E r \in Nat, x \in Int :
           /\ opt.f.randoms = 0 => r = 0
           /\ waited' = Cut(opt, x)
           /\ wrapped' \in BOOLEAN /\ (~wrapped' => ~wrapped /\ x = Summed(attempt, opt, r))
<1>1. PICK r \in Random(opt) :
        /\ waited' = timer(delay(opt, attempt, r))
        /\ wrapped' = (wrapped \/ Summed(attempt, opt, r) \notin -MaxInt - 1 .. MaxInt)
  BY DEF Again
<1>2. opt.f.randoms \in Nat /\ opt.maxJitter \in Int
  BY DEF Waiting, Kept, Options
<1>3. r \in Nat /\ (opt.f.randoms = 0 => r = 0)
  BY <1>2 DEF Random
<1>4. Kept(opt) /\ Prepared(opt).backoff >= 0 /\ attempt \in Nat /\ attempt >= 1 /\ wrapped \in BOOLEAN
  BY DEF Waiting, Again
<1>5. PICK s \in Int : s = Summed(attempt, opt, r)
  BY <1>3, <1>4, SummedGrows
<1>6. waited' = Cut(opt, Signed(s)) /\ Signed(s) \in Int
  BY <1>1, <1>5, SignedType DEF delay, Group, Cut
<1>7. wrapped' \in BOOLEAN /\ (~wrapped' => ~wrapped /\ s \in -MaxInt - 1 .. MaxInt)
  BY <1>1, <1>4, <1>5
<1>8. ~wrapped' => Signed(s) = s
  BY <1>7, SignedFits
<1> QED
  BY <1>3, <1>5, <1>6, <1>7, <1>8

\* A retry keeps what is known, waits at most maxDelay and, unless a sum wraps
\* around or Random takes part, at least as long as the one before.
LEMMA AgainRetry ==
  ASSUME Waiting, Again
  PROVE  /\ Waiting'
         /\ opt.maxDelay > 0 => waited' <= opt.maxDelay
         /\ ~wrapped' =>
              /\ opt.f.randoms = 0 => waited' >= waited
              /\ \/ opt.delay > 0 /\ opt.f.before + opt.f.backoffs + opt.f.after > 0
                 \/ opt.f.before = 0 /\ opt.f.backoffs > 0
                 => waited' > 0
<1>1. PICK r \in Nat, x \in Int :
        /\ opt.f.randoms = 0 => r = 0
        /\ waited' = Cut(opt, x)
        /\ wrapped' \in BOOLEAN /\ (~wrapped' => ~wrapped /\ x = Summed(attempt, opt, r))
  BY AgainWaits
<1>2. Kept(opt) /\ Prepared(opt).backoff >= 0 /\ opt' = Prepared(opt) /\ attempt' = attempt + 1
  BY DEF Waiting, Again
<1>3. PICK n \in Nat : n = attempt /\ n >= 1
  BY DEF Waiting
<1>4. opt.maxDelay \in Int
  BY <1>2 DEF Kept, Options
<1>5. /\ Summed(n, opt, r) \in Int /\ Summed(n, opt', r) \in Int
      /\ Summed(n, opt, r) <= Summed(n, opt', r)
      /\ Usable(opt) /\ n > 1 => Summed(n - 1, opt, r) \in Int /\ Summed(n - 1, opt, r) <= Summed(n, opt, r)
      /\ \/ opt.delay > 0 /\ opt.f.before + opt.f.backoffs + opt.f.after > 0
         \/ opt.f.before = 0 /\ opt.f.backoffs > 0
         => Summed(n, opt, r) > 0
  BY <1>2, <1>3, SummedGrows
<1>6. Usable(opt') /\ opt'.f = opt.f /\ opt'.maxDelay = opt.maxDelay
  BY <1>2, PreparedUsable
<1>7. waited' \in Nat /\ (opt.maxDelay > 0 => waited' <= opt.maxDelay) /\ (x > 0 => waited' > 0)
  BY <1>1, <1>4, CutGrows
<1>8. Waiting'
  <2>1. ASSUME ~wrapped', opt'.f.randoms = 0
        PROVE  waited' <= Cut(opt', Summed(attempt' - 1, opt', 0))
    <3>1. attempt' - 1 = n /\ x = Summed(n, opt, 0) /\ r = 0
      BY <1>1, <1>2, <1>3, <1>6, <2>1
    <3>2. Cut(opt, x) <= Cut(opt, Summed(n, opt', 0))
      BY <1>4, <1>5, <3>1, CutGrows
    <3>3. Cut(opt', Summed(n, opt', 0)) = Cut(opt, Summed(n, opt', 0))
      BY <1>6 DEF Cut
    <3> QED
      BY <1>1, <3>1, <3>2, <3>3
  <2>2. attempt' \in Nat /\ attempt' > 1
    BY <1>2, <1>3
  <2> QED
    BY <1>1, <1>6, <1>7, <2>1, <2>2 DEF Waiting, Usable
<1>9. ASSUME ~wrapped', opt.f.randoms = 0
      PROVE  waited' >= waited
  <2>1. CASE n = 1
    BY <1>3, <1>7, <2>1 DEF Waiting
  <2>2. CASE n > 1
    <3>1. Usable(opt) /\ waited \in Nat /\ waited <= Cut(opt, Summed(n - 1, opt, 0)) /\ r = 0 /\ x = Summed(n, opt, 0)
      BY <1>1, <1>3, <1>9, <2>2 DEF Waiting
    <3>2. /\ Cut(opt, Summed(n - 1, opt, 0)) <= Cut(opt, x)
          /\ Cut(opt, Summed(n - 1, opt, 0)) \in Nat
      BY <1>4, <1>5, <2>2, <3>1, CutGrows
    <3> QED
      BY <1>1, <1>7, <3>1, <3>2
  <2> QED
    BY <1>3, <2>1, <2>2
<1> QED
  BY <1>1, <1>3, <1>5, <1>7, <1>8, <1>9

\* Every step keeps what is known.
LEMMA NextRetry == RetryInv /\ [RetryNext]_rVars => RetryInv'
<1> SUFFICES ASSUME RetryInv, [RetryNext]_rVars
             PROVE  RetryInv'
  OBVIOUS
<1>1. CASE Again
  BY <1>1, AgainRetry DEF Again, RetryInv
<1>2. CASE Return \/ UNCHANGED rVars
  <2>1. UNCHANGED <<opt, attempt, waited, wrapped>> /\ (outcome = "panic" => outcome' = "panic")
    BY <1>2 DEF Return, rVars
  <2> QED
    BY <2>1 DEF RetryInv, Waiting
<1>3. CASE Panic
  BY <1>3 DEF Panic, RetryInv
<1> QED
  BY <1>1, <1>2, <1>3 DEF RetryNext

\* The waits of a retry never exceed the maximal delay; without Random they
\* never get shorter, and with a positive delay or BackOff first each is a wait,
\* as long as the sum fits in time.Duration; for any Group of BackOff, Fixed and
\* Random in any order (pkg/retry), any width, delays and number of attempts.
THEOREM RetryWaitsGrow == RetrySpec => WaitsGrow
<1>1. RetryInit => RetryInv
  <2> SUFFICES ASSUME RetryInit
               PROVE  RetryInv
    OBVIOUS
  <2>1. /\ Delays \subseteq -MaxInt - 1 .. MaxInt /\ MaxDelays \subseteq Int /\ 1 .. MaxRetry \subseteq Nat
        /\ Jitters \subseteq Int
    BY MaxIntType, RetryAssumption
  <2>2. opt \in Options /\ opt.backoff = 0
    <3>1. PICK D : D = -MaxInt - 1 .. MaxInt
      OBVIOUS
    <3>2. PICK F : F = [before : Nat, backoffs : Nat, after : Nat, randoms : Nat] /\ Funcs \subseteq F
      BY FuncsAssumption
    <3>3. /\ opt.delay \in D /\ opt.maxDelay \in Int /\ opt.maxJitter \in Int /\ opt.retry \in Nat
          /\ opt.backoff = 0 /\ opt.f \in F
          /\ opt = [f |-> opt.f, delay |-> opt.delay, maxDelay |-> opt.maxDelay, maxJitter |-> opt.maxJitter,
                    retry |-> opt.retry, backoff |-> opt.backoff]
      BY <2>1, <3>1, <3>2 DEF RetryInit
    <3>4. opt \in [f : F, delay : D, maxDelay : Int, maxJitter : Int, retry : Nat, backoff : Int]
      BY <3>3
    <3> QED
      BY <3>1, <3>2, <3>3, <3>4 DEF Options
  <2> QED
    BY <2>2 DEF RetryInit, RetryInv, Waiting, Kept
<1>2. RetryInv => [Again =>
       /\ opt.maxDelay > 0 => waited' <= opt.maxDelay
       /\ ~wrapped' =>
            /\ opt.f.randoms = 0 => waited' >= waited
            /\ \/ opt.delay > 0 /\ opt.f.before + opt.f.backoffs + opt.f.after > 0
               \/ opt.f.before = 0 /\ opt.f.backoffs > 0
               => waited' > 0]_rVars
  BY AgainRetry DEF Again, RetryInv
<1> QED
  BY <1>1, <1>2, NextRetry, PTL DEF RetrySpec, WaitsGrow

-----------------------------------------------------------------------------
(* Error objects. *)

\* What may be in an error: no code but the one New gave it.
ErrorType ==
  [code : {404}, reason : Texts \union {"NOT_FOUND"}, msg : Texts \union {"none"},
   meta : Texts \union {"none"}, cause : Nat, stack : Seq(STRING), clone : BOOLEAN]

\* No object has got a second With...
NotReused == \A e \in Objects : withs[e] <= 1

HeapType ==
  /\ errors \in Seq(ErrorType)
  /\ Len(errors) \in 1 .. MaxErrors
  /\ withs \in Seq(Nat)
  /\ Len(withs) = Len(errors)
  /\ kin \in SUBSET Objects

\* Until one has, a cause is older than the error, a mark says that there was a
\* With..., and what is derived from the sentinel has its reason or a cause that is.
Derived ==
  /\ \A e \in Objects : errors[e].cause < e /\ (errors[e].clone <=> withs[e] > 0)
  /\ [errors[Sentinel] EXCEPT !.clone = FALSE] = First
  /\ \A e \in kin : errors[e].reason = First.reason \/ errors[e].cause \in kin

ErrorInv == HeapType /\ (NotReused => Derived)

\* The stacks are those of the calls.
LEMMA FramesType ==
  Frames["New"] \in Seq(STRING) /\ Frames["Wrap"] \in Seq(STRING) /\ Frames["FromError"] \in Seq(STRING)
  BY ErrorsAssumption

\* A list with another entry behind it.
LEMMA Longer ==
  ASSUME NEW S, NEW s \in Seq(S), NEW z \in S, NEW t, t = Append(s, z)
  PROVE  /\ t \in Seq(S) /\ Len(t) = Len(s) + 1 /\ DOMAIN t = 1 .. Len(s) + 1
         /\ t[Len(s) + 1] = z /\ \A x \in 1 .. Len(s) : t[x] = s[x]
  OBVIOUS

\* Changing an entry of a list leaves the others alone.
LEMMA Changed ==
  ASSUME NEW S, NEW s \in Seq(S), NEW i \in 1 .. Len(s), NEW z \in S, NEW t, t = [s EXCEPT ![i] = z]
  PROVE  /\ t \in Seq(S) /\ Len(t) = Len(s) /\ DOMAIN t = 1 .. Len(s)
         /\ t[i] = z /\ \A x \in 1 .. Len(s) : x # i => t[x] = s[x]
  OBVIOUS

\* Marking an error, or taking its mark, changes nothing else.
LEMMA ChangedMark ==
  ASSUME NEW o \in ErrorType, NEW b \in BOOLEAN, NEW p, p = [o EXCEPT !.clone = b]
  PROVE  /\ p \in ErrorType /\ p.clone = b /\ p.cause = o.cause /\ p.reason = o.reason
         /\ [p EXCEPT !.clone = FALSE] = [o EXCEPT !.clone = FALSE]
<1>1. p = [code |-> o.code, reason |-> o.reason, msg |-> o.msg, meta |-> o.meta, cause |-> o.cause,
           stack |-> o.stack, clone |-> b]
  BY DEF ErrorType
<1>2. p \in ErrorType
  BY <1>1 DEF ErrorType
<1>3. p.clone = b /\ p.cause = o.cause /\ p.reason = o.reason
  BY <1>1
<1>4. PICK q : q = [p EXCEPT !.clone = FALSE]
  OBVIOUS
<1>5. PICK r : r = [o EXCEPT !.clone = FALSE]
  OBVIOUS
<1>6. r = [code |-> o.code, reason |-> o.reason, msg |-> o.msg, meta |-> o.meta, cause |-> o.cause,
           stack |-> o.stack, clone |-> FALSE]
  BY <1>5 DEF ErrorType
<1>7. q = [code |-> p.code, reason |-> p.reason, msg |-> p.msg, meta |-> p.meta, cause |-> p.cause,
           stack |-> p.stack, clone |-> FALSE]
  BY <1>2, <1>4 DEF ErrorType
<1>8. q = r
  BY <1>1, <1>6, <1>7
<1> QED
  BY <1>2, <1>3, <1>4, <1>5, <1>8

\* The sentinel alone is sound.
LEMMA InitErrors == ErrorsInit => ErrorInv
<1> SUFFICES ASSUME ErrorsInit PROVE ErrorInv
  OBVIOUS
<1>1. First \in ErrorType /\ First.cause = 0 /\ First.clone = FALSE
  BY FramesType DEF First, Fresh, ErrorType, Nil
<1>2. MaxErrors \in Nat /\ 1 \in 1 .. MaxErrors
  BY ErrorsAssumption
<1>3. /\ errors \in Seq(ErrorType) /\ Len(errors) = 1 /\ errors[1] = First /\ Objects = {1}
      /\ withs \in Seq(Nat) /\ Len(withs) = 1 /\ withs[1] = 0 /\ kin = {1}
  BY <1>1 DEF ErrorsInit, Objects, Sentinel
<1>4. HeapType
  BY <1>2, <1>3 DEF HeapType
<1>5. [First EXCEPT !.clone = FALSE] = First
  BY <1>1 DEF ErrorType
<1>6. Derived
  BY <1>1, <1>3, <1>5 DEF Derived, Sentinel
<1> QED
  BY <1>4, <1>6 DEF ErrorInv

\* Another object on the heap: its cause is on the heap already.
LEMMA AllocateErrors ==
  ASSUME ErrorInv, Room, NEW o \in ErrorType, ~o.clone, o.cause \in 0 .. Len(errors),
         NEW isKin, Allocate(o, isKin),
         isKin => o.reason = First.reason \/ o.cause \in kin
  PROVE  ErrorInv'
<1>1. PICK n \in Nat : n = Len(errors) /\ n >= 1 /\ n < MaxErrors /\ MaxErrors \in Nat
  BY ErrorsAssumption DEF ErrorInv, HeapType, Room
<1>2. /\ errors \in Seq(ErrorType) /\ Objects = 1 .. n /\ withs \in Seq(Nat) /\ Len(withs) = n
      /\ kin \in SUBSET (1 .. n)
  BY <1>1 DEF ErrorInv, HeapType, Objects
<1>3. /\ errors' \in Seq(ErrorType) /\ Len(errors') = n + 1 /\ Objects' = 1 .. n + 1
      /\ errors'[n + 1] = o /\ \A e \in 1 .. n : errors'[e] = errors[e]
  BY <1>1, <1>2 DEF Allocate, Objects
<1>4. /\ withs' \in Seq(Nat) /\ Len(withs') = n + 1
      /\ withs'[n + 1] = 0 /\ \A e \in 1 .. n : withs'[e] = withs[e]
  BY <1>1, <1>2 DEF Allocate
<1>5. kin' = IF isKin THEN kin \union {n + 1} ELSE kin
  BY <1>1 DEF Allocate
<1>6. HeapType'
  <2>1. kin' \in SUBSET (1 .. n + 1) /\ n + 1 \in 1 .. MaxErrors
    <3>1. 1 .. n \subseteq 1 .. n + 1 /\ n + 1 \in 1 .. n + 1 /\ n + 1 \in 1 .. MaxErrors
      BY <1>1
    <3> QED
      BY <1>2, <1>5, <3>1
  <2> QED
    BY <1>3, <1>4, <2>1 DEF HeapType
<1>7. ASSUME NotReused'
      PROVE  Derived'
  <2>1. NotReused
    BY <1>2, <1>3, <1>4, <1>7 DEF NotReused
  <2>2. Derived
    BY <2>1 DEF ErrorInv
  <2>3. ASSUME NEW e \in 1 .. n + 1
        PROVE  errors'[e].cause < e /\ (errors'[e].clone <=> withs'[e] > 0)
    <3>1. CASE e \in 1 .. n
      BY <1>2, <1>3, <1>4, <2>2, <3>1 DEF Derived
    <3>2. CASE e = n + 1
      BY <1>1, <1>3, <1>4, <3>2
    <3> QED
      BY <1>1, <3>1, <3>2
  <2>4. errors'[1] = errors[1]
    BY <1>1, <1>3
  <2>5. ASSUME NEW e \in kin'
        PROVE  errors'[e].reason = First.reason \/ errors'[e].cause \in kin'
    <3>1. CASE e \in kin
      BY <1>2, <1>3, <1>5, <2>2, <3>1 DEF Derived
    <3>2. CASE isKin /\ e = n + 1
      BY <1>3, <1>5, <3>2
    <3> QED
      BY <1>5, <3>1, <3>2
  <2> QED
    BY <1>3, <2>2, <2>3, <2>4, <2>5 DEF Derived, Sentinel
<1> QED
  BY <1>6, <1>7 DEF ErrorInv

\* With... on an object without a mark derives another from it; on a marked
\* one it changes that one, which then is reused.
LEMMA WithErrors ==
  ASSUME ErrorInv, NEW e \in Objects, NEW change \in ErrorType, NEW isKin, With(e, change, isKin),
         NotReused => change.cause \in 0 .. Len(errors),
         NotReused /\ isKin => change.reason = First.reason \/ change.cause \in kin
  PROVE  ErrorInv'
<1>1. PICK n \in Nat : n = Len(errors) /\ n >= 1 /\ n <= MaxErrors /\ MaxErrors \in Nat
  BY ErrorsAssumption DEF ErrorInv, HeapType
<1>2. /\ errors \in Seq(ErrorType) /\ Objects = 1 .. n /\ withs \in Seq(Nat) /\ Len(withs) = n
      /\ kin \in SUBSET (1 .. n) /\ e \in 1 .. n /\ \A x \in 1 .. n : withs[x] \in Nat
  BY <1>1 DEF ErrorInv, HeapType, Objects
<1>3. CASE errors[e].clone
  <2>1. /\ errors' = [errors EXCEPT ![e] = change] /\ withs' = [withs EXCEPT ![e] = @ + 1]
        /\ kin' = IF isKin THEN kin ELSE kin \ {e}
    BY <1>3 DEF With
  <2>2. errors' \in Seq(ErrorType) /\ Len(errors') = n /\ Objects' = 1 .. n
    BY <1>1, <1>2, <2>1 DEF Objects
  <2>3. /\ withs' \in Seq(Nat) /\ Len(withs') = n /\ withs'[e] = withs[e] + 1
        /\ \A x \in 1 .. n : withs'[x] \in Nat /\ withs[x] <= withs'[x]
    BY <1>1, <1>2, <2>1
  <2>4. HeapType'
    <3>1. kin' \in SUBSET (1 .. n)
      <4>1. kin' \subseteq kin
        BY <2>1
      <4> QED
        BY <1>2, <4>1
    <3>2. n \in 1 .. MaxErrors
      BY <1>1
    <3> QED
      BY <2>2, <2>3, <3>1, <3>2 DEF HeapType
  <2>5. ~NotReused'
    <3> SUFFICES ASSUME NotReused'
                 PROVE  FALSE
      OBVIOUS
    <3>1. \A x \in 1 .. n : withs'[x] <= 1
      BY <2>2 DEF NotReused
    <3>2. NotReused
      <4> SUFFICES ASSUME NEW x \in 1 .. n
                   PROVE  withs[x] <= 1
        BY <1>2 DEF NotReused
      <4>1. withs[x] \in Nat /\ withs'[x] \in Nat /\ withs[x] <= withs'[x] /\ withs'[x] <= 1
        BY <1>2, <2>3, <3>1
      <4> QED
        BY <4>1
    <3>3. withs[e] > 0
      BY <1>2, <1>3, <3>2 DEF ErrorInv, Derived
    <3> QED
      BY <1>2, <2>3, <3>1, <3>3
  <2> QED
    BY <2>4, <2>5 DEF ErrorInv
<1>4. CASE ~errors[e].clone
  <2>1. PICK o : o = [change EXCEPT !.clone = FALSE]
    OBVIOUS
  <2>2. /\ o \in ErrorType /\ o.clone = FALSE
        /\ o.cause = change.cause /\ o.reason = change.reason
    BY <2>1, ChangedMark
  <2>3. PICK old : old = [errors EXCEPT ![e].clone = TRUE]
    OBVIOUS
  <2>4. PICK m : m = [errors[e] EXCEPT !.clone = TRUE]
    OBVIOUS
  <2>5. m \in ErrorType /\ m.clone = TRUE /\ m.cause = errors[e].cause /\ m.reason = errors[e].reason
    <3>1. PICK d \in ErrorType : d = errors[e]
      BY <1>1, <1>2
    <3>2. m = [d EXCEPT !.clone = TRUE]
      BY <2>4, <3>1
    <3>3. m \in ErrorType /\ m.clone = TRUE /\ m.cause = d.cause /\ m.reason = d.reason
      BY <3>2, ChangedMark
    <3> QED
      BY <3>1, <3>3
  <2>6. /\ old \in Seq(ErrorType) /\ Len(old) = n /\ old[e] = m
        /\ \A x \in 1 .. n : x # e => old[x] = errors[x]
    <3>1. old = [errors EXCEPT ![e] = m]
      BY <2>3, <2>4
    <3> QED
      BY <1>1, <1>2, <2>5, <3>1, Changed
  <2>7. /\ Room /\ errors' = Append(old, o) /\ withs' = Append([withs EXCEPT ![e] = @ + 1], 0)
        /\ kin' = IF isKin THEN kin \union {n + 1} ELSE kin
    BY <1>1, <1>4, <2>1, <2>3 DEF With
  <2>8. /\ errors' \in Seq(ErrorType) /\ Len(errors') = n + 1 /\ Objects' = 1 .. n + 1
        /\ errors'[n + 1] = o /\ errors'[e] = m
        /\ \A x \in 1 .. n : x # e => errors'[x] = errors[x]
    <3>1. /\ errors' \in Seq(ErrorType) /\ Len(errors') = n + 1 /\ DOMAIN errors' = 1 .. n + 1
          /\ errors'[n + 1] = o /\ \A x \in 1 .. n : errors'[x] = old[x]
      BY <2>2, <2>6, <2>7, Longer
    <3> QED
      BY <1>2, <2>6, <3>1 DEF Objects
  <2>9. PICK w \in Seq(Nat) : /\ w = [withs EXCEPT ![e] = @ + 1] /\ Len(w) = n /\ w[e] = withs[e] + 1
                              /\ \A x \in 1 .. n : x # e => w[x] = withs[x]
    <3>1. withs[e] + 1 \in Nat
      BY <1>2
    <3>2. PICK w : w = [withs EXCEPT ![e] = withs[e] + 1]
      OBVIOUS
    <3>3. /\ w \in Seq(Nat) /\ Len(w) = n /\ w[e] = withs[e] + 1
          /\ \A x \in 1 .. n : x # e => w[x] = withs[x]
      BY <1>2, <3>1, <3>2, Changed
    <3> QED
      BY <3>2, <3>3
  <2>10. /\ withs' \in Seq(Nat) /\ Len(withs') = n + 1 /\ withs'[n + 1] = 0
         /\ withs'[e] = withs[e] + 1 /\ \A x \in 1 .. n : x # e => withs'[x] = withs[x]
    <3>1. /\ withs' \in Seq(Nat) /\ Len(withs') = n + 1 /\ withs'[n + 1] = 0
          /\ \A x \in 1 .. n : withs'[x] = w[x]
      <4>1. PICK t : t = Append(w, 0)
        OBVIOUS
      <4>2. t \in Seq(Nat) /\ Len(t) = n + 1 /\ t[n + 1] = 0 /\ \A x \in 1 .. n : t[x] = w[x]
        <5>1. 0 \in Nat
          OBVIOUS
        <5> QED
          BY <2>9, <4>1, <5>1, Longer
      <4>3. withs' = t
        BY <2>7, <2>9, <4>1
      <4> QED
        BY <4>2, <4>3
    <3> QED
      BY <1>2, <2>9, <3>1
  <2>11. HeapType'
    <3>1. n + 1 \in 1 .. MaxErrors
      BY <1>1, <2>7 DEF Room
    <3>2. kin' \in SUBSET (1 .. n + 1)
      <4>1. 1 .. n \subseteq 1 .. n + 1 /\ n + 1 \in 1 .. n + 1
        OBVIOUS
      <4> QED
        BY <1>2, <2>7, <4>1
    <3> QED
      BY <2>8, <2>10, <3>1, <3>2 DEF HeapType
  <2>12. ASSUME NotReused'
         PROVE  Derived'
    <3>1. \A x \in 1 .. n : withs'[x] <= 1
      BY <1>1, <2>8, <2>12 DEF NotReused
    <3>2. NotReused
      <4>1. ASSUME NEW x \in 1 .. n
            PROVE  withs[x] <= 1
        <5>1. CASE x = e
          BY <1>2, <2>10, <3>1, <5>1
        <5>2. CASE x # e
          BY <2>10, <3>1, <5>2
        <5> QED
          BY <5>1, <5>2
      <4> QED
        BY <1>2, <4>1 DEF NotReused
    <3>3. Derived
      BY <3>2 DEF ErrorInv
    <3>4. ASSUME NEW x \in 1 .. n + 1
          PROVE  errors'[x].cause < x /\ (errors'[x].clone <=> withs'[x] > 0)
      <4>1. CASE x = n + 1
        BY <1>1, <2>2, <2>8, <2>10, <3>2, <4>1
      <4>2. CASE x = e
        <5>1. errors'[e].clone /\ errors'[e].cause = errors[e].cause
          BY <2>5, <2>8
        <5>2. withs'[e] > 0
          BY <1>2, <2>10
        <5>3. errors[e].cause < e
          BY <1>2, <3>3 DEF Derived
        <5> QED
          BY <4>2, <5>1, <5>2, <5>3
      <4>3. CASE x \in 1 .. n /\ x # e
        BY <1>2, <2>8, <2>10, <3>3, <4>3 DEF Derived
      <4> QED
        BY <1>1, <4>1, <4>2, <4>3
    <3>5. [errors'[1] EXCEPT !.clone = FALSE] = First
      <4>1. CASE e = 1
        <5>1. errors[1] \in ErrorType
          BY <1>1, <1>2
        <5>2. [m EXCEPT !.clone = FALSE] = [errors[1] EXCEPT !.clone = FALSE]
          BY <2>4, <4>1, <5>1, ChangedMark
        <5>3. errors'[1] = m
          BY <2>8, <4>1
        <5> QED
          BY <3>3, <5>2, <5>3 DEF Derived, Sentinel
      <4>2. CASE e # 1
        <5>1. errors'[1] = errors[1]
          BY <1>1, <2>8, <4>2
        <5> QED
          BY <3>3, <5>1 DEF Derived, Sentinel
      <4> QED
        BY <4>1, <4>2
    <3>6. ASSUME NEW x \in kin'
          PROVE  errors'[x].reason = First.reason \/ errors'[x].cause \in kin'
      <4>1. CASE x \in kin
        <5>1. errors'[x].reason = errors[x].reason /\ errors'[x].cause = errors[x].cause
          BY <1>2, <2>5, <2>8, <4>1
        <5> QED
          BY <2>7, <3>3, <4>1, <5>1 DEF Derived
      <4>2. CASE isKin /\ x = n + 1
        BY <2>2, <2>7, <2>8, <3>2, <4>2
      <4> QED
        BY <2>7, <4>1, <4>2
    <3> QED
      BY <2>8, <3>4, <3>5, <3>6 DEF Derived, Sentinel
  <2> QED
    BY <2>11, <2>12 DEF ErrorInv
<1> QED
  BY <1>3, <1>4

\* Every operation on errors keeps them sound.
LEMMA NextErrors == ErrorInv /\ [ErrorsNext]_eVars => ErrorInv'
<1> SUFFICES ASSUME ErrorInv, [ErrorsNext]_eVars
             PROVE  ErrorInv'
  OBVIOUS
<1>1. CASE UNCHANGED eVars
  BY <1>1 DEF eVars, ErrorInv, HeapType, NotReused, Derived, Objects
<1>2. CASE ErrorsNext
  <2>1. PICK e \in Objects :
          \/ \E t \in Texts : WithMessage(e, t) \/ WithMetadata(e, t) \/ WithReason(e, t) \/ Wrap(e, t)
          \/ \E c \in Objects : WithError(e, c)
          \/ OverTheWire(e)
    BY <1>2 DEF ErrorsNext
  <2>2. PICK n \in Nat : /\ n = Len(errors) /\ Objects = 1 .. n /\ \A x \in Objects : errors[x] \in ErrorType
                         /\ kin \in SUBSET Objects
    BY DEF ErrorInv, HeapType, Objects
  <2>3. NotReused => /\ \A x \in Objects : errors[x].cause < x
                     /\ \A x \in kin : errors[x].reason = First.reason \/ errors[x].cause \in kin
    BY DEF ErrorInv, Derived
  <2>4. NotReused => errors[e].cause \in 0 .. n
    <3>1. errors[e].cause \in Nat
      BY <2>2 DEF ErrorType
    <3> QED
      BY <2>2, <2>3, <3>1
  <2>5. ASSUME NEW t \in Texts, WithMessage(e, t)
        PROVE  ErrorInv'
    <3>1. PICK o : o = [errors[e] EXCEPT !.msg = t]
      OBVIOUS
    <3>2. o \in ErrorType /\ o.cause = errors[e].cause /\ o.reason = errors[e].reason
      <4>1. PICK d \in ErrorType : d = errors[e]
        BY <2>2
      <4>2. o = [code |-> d.code, reason |-> d.reason, msg |-> t, meta |-> d.meta, cause |-> d.cause,
                 stack |-> d.stack, clone |-> d.clone]
        BY <3>1, <4>1 DEF ErrorType
      <4>3. o \in ErrorType
        BY <4>2 DEF ErrorType
      <4> QED
        BY <4>1, <4>2, <4>3
    <3>3. With(e, o, e \in kin)
      BY <2>5, <3>1 DEF WithMessage
    <3> QED
      BY <2>2, <2>3, <2>4, <3>2, <3>3, WithErrors
  <2>6. ASSUME NEW t \in Texts, WithMetadata(e, t)
        PROVE  ErrorInv'
    <3>1. PICK o : o = [errors[e] EXCEPT !.meta = t]
      OBVIOUS
    <3>2. o \in ErrorType /\ o.cause = errors[e].cause /\ o.reason = errors[e].reason
      <4>1. PICK d \in ErrorType : d = errors[e]
        BY <2>2
      <4>2. o = [code |-> d.code, reason |-> d.reason, msg |-> d.msg, meta |-> t, cause |-> d.cause,
                 stack |-> d.stack, clone |-> d.clone]
        BY <3>1, <4>1 DEF ErrorType
      <4>3. o \in ErrorType
        BY <4>2 DEF ErrorType
      <4> QED
        BY <4>1, <4>2, <4>3
    <3>3. With(e, o, e \in kin)
      BY <2>6, <3>1 DEF WithMetadata
    <3> QED
      BY <2>2, <2>3, <2>4, <3>2, <3>3, WithErrors
  <2>7. ASSUME NEW t \in Texts, WithReason(e, t)
        PROVE  ErrorInv'
    <3>1. PICK o : o = [errors[e] EXCEPT !.reason = t]
      OBVIOUS
    <3>2. o \in ErrorType /\ o.cause = errors[e].cause
      <4>1. PICK d \in ErrorType : d = errors[e]
        BY <2>2
      <4>2. o = [code |-> d.code, reason |-> t, msg |-> d.msg, meta |-> d.meta, cause |-> d.cause,
                 stack |-> d.stack, clone |-> d.clone]
        BY <3>1, <4>1 DEF ErrorType
      <4>3. o \in ErrorType
        BY <4>2 DEF ErrorType
      <4> QED
        BY <4>1, <4>2, <4>3
    <3>3. With(e, o, FALSE)
      BY <2>7, <3>1 DEF WithReason
    <3> QED
      BY <2>2, <2>4, <3>2, <3>3, WithErrors
  <2>8. ASSUME NEW c \in Objects, WithError(e, c)
        PROVE  ErrorInv'
    <3>1. PICK o : o = [errors[e] EXCEPT !.cause = c, !.meta = errors[c].meta]
      OBVIOUS
    <3>2. o \in ErrorType /\ o.cause = c /\ o.reason = errors[e].reason
      <4>1. PICK d \in ErrorType : d = errors[e]
        BY <2>2
      <4>2. PICK m \in Texts \union {"none"} : m = errors[c].meta
        BY <2>2 DEF ErrorType
      <4>3. o = [d EXCEPT !.cause = c, !.meta = m] /\ c \in Nat
        BY <2>2, <3>1, <4>1, <4>2
      <4>4. o \in ErrorType /\ o.cause = c /\ o.reason = d.reason
        <5>1. o = [code |-> d.code, reason |-> d.reason, msg |-> d.msg, meta |-> m, cause |-> c,
                   stack |-> d.stack, clone |-> d.clone]
          BY <4>3 DEF ErrorType
        <5>2. o \in ErrorType
          BY <4>3, <5>1 DEF ErrorType
        <5> QED
          BY <5>1, <5>2
      <4> QED
        BY <4>1, <4>4
    <3>3. With(e, o, c \in kin \/ (e \in kin /\ errors[e].reason = First.reason))
      BY <2>8, <3>1 DEF WithError
    <3>4. c \in 0 .. n
      BY <2>2
    <3> QED
      BY <2>2, <3>2, <3>3, <3>4, WithErrors
  <2>9. ASSUME NEW t \in Texts, Wrap(e, t)
        PROVE  ErrorInv'
    <3>1. PICK o : o = Fresh(errors[e].code, t, errors[e].msg, errors[e].meta, e, Frames["Wrap"])
      OBVIOUS
    <3>2. o \in ErrorType /\ ~o.clone /\ o.cause = e
      BY <2>2, <3>1, FramesType DEF ErrorType, Fresh
    <3>3. Room /\ Allocate(o, e \in kin)
      BY <2>9, <3>1 DEF Wrap
    <3>4. e \in 0 .. n
      BY <2>2
    <3> QED
      BY <2>2, <3>2, <3>3, <3>4, AllocateErrors
  <2>10. ASSUME OverTheWire(e)
         PROVE  ErrorInv'
    <3>1. PICK o : o = Fresh(errors[e].code, errors[e].reason, errors[e].msg, errors[e].meta, Nil,
                             Frames["FromError"])
      OBVIOUS
    <3>2. o \in ErrorType /\ ~o.clone /\ o.cause = 0
      BY <2>2, <3>1, FramesType DEF ErrorType, Fresh, Nil
    <3>3. Room /\ Allocate(o, FALSE)
      BY <2>10, <3>1 DEF OverTheWire
    <3>4. 0 \in 0 .. n
      OBVIOUS
    <3> QED
      BY <2>2, <3>2, <3>3, <3>4, AllocateErrors
  <2> QED
    BY <2>1, <2>5, <2>6, <2>7, <2>8, <2>9, <2>10
<1> QED
  BY <1>1, <1>2

\* One step of the recursion of Causes.
CausesStep(p, n) ==
  [e \in Objects \union {Nil} |->
     IF n = 0 \/ e = Nil THEN <<>> ELSE <<e>> \o p[n - 1][errors[e].cause]]

\* The recursion of Causes has a solution.
LEMMA CausesExist == Causes = [n \in 0 .. MaxErrors |-> CausesStep(Causes, n)]
<1> DEFINE upto(p, m) == p = [n \in 0 .. m |-> CausesStep(p, n)]
           bad == {m \in Nat : ~\E p : upto(p, m)}
<1>1. bad = {}
  <2> SUFFICES ASSUME bad # {}
               PROVE  FALSE
    OBVIOUS
  <2>1. PICK m \in bad : \A l \in bad : m <= l
    <3>1. bad \in SUBSET Nat
      OBVIOUS
    <3> HIDE DEF bad
    <3> QED
      BY <3>1, LeastNatural
  <2>2. m \in Nat /\ ~\E p : upto(p, m)
    OBVIOUS
  <2>3. CASE m = 0
    <3> DEFINE p == [n \in 0 .. 0 |-> [e \in Objects \union {Nil} |-> <<>>]]
    <3>1. \A n \in 0 .. 0 : CausesStep(p, n) = [e \in Objects \union {Nil} |-> <<>>]
      BY DEF CausesStep
    <3>2. upto(p, 0)
      BY <3>1
    <3> QED
      BY <2>2, <2>3, <3>2
  <2>4. CASE m > 0
    <3>1. m - 1 \in Nat /\ m - 1 \notin bad
      <4> HIDE DEF bad
      <4> QED
        BY <2>1, <2>2, <2>4
    <3>2. PICK p : upto(p, m - 1)
      BY <3>1
    <3> DEFINE q == [n \in 0 .. m |-> CausesStep(p, n)]
    <3>3. ASSUME NEW n \in 0 .. m
          PROVE  CausesStep(p, n) = CausesStep(q, n)
      <4>1. CASE n = 0
        BY <4>1 DEF CausesStep
      <4>2. CASE n # 0
        <5>1. n - 1 \in 0 .. m /\ n - 1 \in 0 .. m - 1
          BY <2>2, <4>2
        <5>2. p[n - 1] = CausesStep(p, n - 1) /\ q[n - 1] = CausesStep(p, n - 1)
          BY <3>2, <5>1
        <5>3. p[n - 1] = q[n - 1]
          BY <5>2
        <5> HIDE DEF q
        <5> QED
          BY <5>3 DEF CausesStep
      <4> QED
        BY <4>1, <4>2
    <3>4. upto(q, m)
      BY <3>3
    <3> QED
      BY <2>2, <3>4
  <2> QED
    BY <2>2, <2>3, <2>4
<1>2. MaxErrors \in Nat
  BY ErrorsAssumption
<1>3. \E p : upto(p, MaxErrors)
  BY <1>1, <1>2
<1>4. Causes = CHOOSE p : upto(p, MaxErrors)
  BY DEF Causes, CausesStep
<1> HIDE DEF upto
<1>5. upto(Causes, MaxErrors)
  BY <1>3, <1>4
<1> QED
  BY <1>5 DEF upto

\* The causes of an error, followed n times: itself, then those of its cause.
LEMMA CausesOf ==
  ASSUME NEW n \in 0 .. MaxErrors
  PROVE  /\ Causes[n][Nil] = <<>>
         /\ n = 0 => \A e \in Objects : Causes[n][e] = <<>>
         /\ n > 0 => \A e \in Objects : e # Nil => Causes[n][e] = <<e>> \o Causes[n - 1][errors[e].cause]
<1>1. Causes[n] = CausesStep(Causes, n)
  BY CausesExist
<1> QED
  BY <1>1 DEF CausesStep

\* What an object is and has before it.
LEMMA Older ==
  ASSUME HeapType, Derived, NEW e \in Objects
  PROVE  /\ e \in 1 .. MaxErrors /\ e # Nil /\ errors[e] \in ErrorType
         /\ errors[e].cause \in 0 .. e - 1 /\ errors[e].cause \in Objects \union {Nil}
<1>1. PICK n \in Nat : n = Len(errors) /\ Objects = 1 .. n /\ n <= MaxErrors /\ MaxErrors \in Nat
  BY ErrorsAssumption DEF HeapType, Objects
<1>2. errors[e] \in ErrorType
  BY DEF HeapType, Objects
<1>3. PICK c \in Nat : c = errors[e].cause /\ c < e
  BY <1>2 DEF ErrorType, Derived
<1> QED
  BY <1>1, <1>2, <1>3 DEF Nil

\* Causes are errors.
LEMMA CausesType ==
  ASSUME HeapType, Derived, NEW n \in 0 .. MaxErrors, NEW e \in Objects \union {Nil}
  PROVE  Causes[n][e] \in Seq(Objects)
<1>0. MaxErrors \in Nat
  BY ErrorsAssumption
<1> DEFINE bad == {m \in 0 .. MaxErrors : \E x \in Objects \union {Nil} : Causes[m][x] \notin Seq(Objects)}
<1> SUFFICES ASSUME bad # {}
             PROVE  FALSE
  OBVIOUS
<1>1. PICK m \in bad : \A l \in bad : m <= l
  <2>1. bad \in SUBSET Nat
    BY <1>0
  <2> HIDE DEF bad
  <2> QED
    BY <2>1, LeastNatural
<1>2. m \in 0 .. MaxErrors
  OBVIOUS
<1>3. PICK x \in Objects \union {Nil} : Causes[m][x] \notin Seq(Objects)
  OBVIOUS
<1>4. <<>> \in Seq(Objects)
  OBVIOUS
<1>5. m > 0 /\ x # Nil /\ x \in Objects
  <2>1. x # Nil
    BY <1>2, <1>3, <1>4, CausesOf
  <2>2. x \in Objects
    BY <1>3, <2>1
  <2>3. m # 0
    BY <1>2, <1>3, <1>4, <2>2, CausesOf
  <2> QED
    BY <1>0, <1>2, <2>1, <2>2, <2>3
<1>6. Causes[m][x] = <<x>> \o Causes[m - 1][errors[x].cause]
  BY <1>2, <1>5, CausesOf
<1>7. m - 1 \in 0 .. MaxErrors /\ ~(m <= m - 1)
  BY <1>0, <1>2, <1>5
<1>8. m - 1 \notin bad
  <2> HIDE DEF bad
  <2> QED
    BY <1>1, <1>7
<1>9. Causes[m - 1][errors[x].cause] \in Seq(Objects)
  BY <1>5, <1>7, <1>8, Older
<1>10. <<x>> \in Seq(Objects)
  BY <1>5
<1>11. <<x>> \o Causes[m - 1][errors[x].cause] \in Seq(Objects)
  BY <1>9, <1>10
<1> QED
  BY <1>3, <1>6, <1>11

\* Following more often than there are older errors finds nothing more.
LEMMA CausesEnd ==
  ASSUME HeapType, Derived, NEW n \in Nat, n < MaxErrors, NEW e \in Objects \union {Nil}, e <= n
  PROVE  Causes[n + 1][e] = Causes[n][e]
<1>0. MaxErrors \in Nat
  BY ErrorsAssumption
<1> DEFINE bad == {m \in Nat : m < MaxErrors /\ \E x \in Objects \union {Nil} :
                                 x <= m /\ Causes[m + 1][x] # Causes[m][x]}
<1> SUFFICES ASSUME bad # {}
             PROVE  FALSE
  OBVIOUS
<1>1. PICK m \in bad : \A l \in bad : m <= l
  <2>1. bad \in SUBSET Nat
    OBVIOUS
  <2> HIDE DEF bad
  <2> QED
    BY <2>1, LeastNatural
<1>2. m \in Nat /\ m < MaxErrors
  OBVIOUS
<1>3. PICK x \in Objects \union {Nil} : x <= m /\ Causes[m + 1][x] # Causes[m][x]
  OBVIOUS
<1>4. m \in 0 .. MaxErrors /\ m + 1 \in 0 .. MaxErrors /\ (m + 1) - 1 = m /\ m + 1 > 0
  BY <1>0, <1>2
<1>5. x # Nil /\ x \in Objects
  BY <1>3, <1>4, CausesOf
<1>6. PICK c : c = errors[x].cause /\ c \in Objects \union {Nil} /\ c \in 0 .. x - 1 /\ x \in 1 .. MaxErrors
  BY <1>5, Older
<1>7. m > 0 /\ m - 1 \in Nat /\ c <= m - 1 /\ m - 1 < MaxErrors /\ ~(m <= m - 1) /\ (m - 1) + 1 = m
  BY <1>0, <1>2, <1>3, <1>6
<1>8. m - 1 \notin bad
  <2> HIDE DEF bad
  <2> QED
    BY <1>1, <1>7
<1>9. Causes[m][c] = Causes[m - 1][c]
  BY <1>6, <1>7, <1>8
<1>10. Causes[m + 1][x] = <<x>> \o Causes[m][c]
  BY <1>4, <1>5, <1>6, CausesOf
<1>11. Causes[m][x] = <<x>> \o Causes[m - 1][c]
  BY <1>4, <1>5, <1>6, <1>7, CausesOf
<1> QED
  BY <1>3, <1>9, <1>10, <1>11

\* So the chain of an error is the error, then the chain of its cause.
LEMMA ChainOf ==
  ASSUME HeapType, Derived, NEW e \in Objects
  PROVE  /\ Chain(e) \in Seq(Objects) /\ Chain(Nil) = <<>>
         /\ Chain(errors[e].cause) \in Seq(Objects)
         /\ Chain(e) = <<e>> \o Chain(errors[e].cause)
<1>1. MaxErrors \in Nat /\ MaxErrors \in 0 .. MaxErrors /\ MaxErrors > 0 /\ MaxErrors - 1 \in Nat
      /\ MaxErrors - 1 < MaxErrors /\ (MaxErrors - 1) + 1 = MaxErrors
  BY ErrorsAssumption
<1>2. PICK c : c = errors[e].cause /\ c \in Objects \union {Nil} /\ c \in 0 .. e - 1 /\ e \in 1 .. MaxErrors
  BY Older
<1>3. c <= MaxErrors - 1 /\ e # Nil
  BY <1>1, <1>2 DEF Nil
<1>4. Causes[MaxErrors][e] = <<e>> \o Causes[MaxErrors - 1][c]
  BY <1>1, <1>2, <1>3, CausesOf
<1>5. Causes[(MaxErrors - 1) + 1][c] = Causes[MaxErrors - 1][c]
  BY <1>1, <1>2, <1>3, CausesEnd
<1>6. Causes[MaxErrors][c] = Causes[MaxErrors - 1][c]
  BY <1>1, <1>5
<1>7. Causes[MaxErrors][Nil] = <<>>
  BY <1>1, CausesOf
<1>8. Causes[MaxErrors][e] \in Seq(Objects) /\ Causes[MaxErrors][c] \in Seq(Objects)
  BY <1>1, <1>2, CausesType
<1> QED
  BY <1>2, <1>4, <1>6, <1>7, <1>8 DEF Chain

\* The chain begins with the error and has what the chain of its cause has.
LEMMA ChainHas ==
  ASSUME HeapType, Derived, NEW e \in Objects
  PROVE  /\ Len(Chain(e)) > 0 /\ e \in ToSet(Chain(e))
         /\ ToSet(Chain(errors[e].cause)) \subseteq ToSet(Chain(e))
         /\ errors[e].cause = Nil => Last(Chain(e)) = e
         /\ Len(Chain(errors[e].cause)) > 0 => Last(Chain(e)) = Last(Chain(errors[e].cause))
<1>1. PICK s \in Seq(Objects) : s = Chain(errors[e].cause)
  BY ChainOf
<1>2. PICK t : t = Chain(e) /\ t = <<e>> \o s
  BY <1>1, ChainOf
<1>3. PICK l \in Nat : l = Len(s) /\ DOMAIN s = 1 .. l
  OBVIOUS
<1>4. /\ Len(t) = l + 1 /\ DOMAIN t = 1 .. l + 1 /\ t[1] = e
      /\ \A k \in 1 .. l : t[k + 1] = s[k]
  BY <1>2, <1>3
<1>5. 1 \in 1 .. l + 1 /\ l + 1 > 0 /\ \A k \in 1 .. l : k + 1 \in 1 .. l + 1
  OBVIOUS
<1>6. e \in ToSet(t) /\ ToSet(s) \subseteq ToSet(t)
  BY <1>3, <1>4, <1>5 DEF ToSet
<1>7. ASSUME errors[e].cause = Nil
      PROVE  Last(t) = e
  <2>1. s = <<>>
    BY <1>1, <1>7, ChainOf
  <2>2. l = 0
    BY <1>3, <2>1
  <2> QED
    BY <1>4, <2>2 DEF Last
<1>8. ASSUME l > 0
      PROVE  Last(t) = Last(s)
  <2>1. l \in 1 .. l
    BY <1>8
  <2> QED
    BY <1>3, <1>4, <2>1 DEF Last
<1> QED
  BY <1>1, <1>2, <1>3, <1>4, <1>5, <1>6, <1>7, <1>8

\* It ends.
LEMMA NoCycle ==
  ASSUME HeapType, Derived, NEW e \in Objects
  PROVE  ~Cyclic(e)
<1> DEFINE bad == {x \in Objects : Cyclic(x)}
<1> SUFFICES ASSUME bad # {}
             PROVE  FALSE
  OBVIOUS
<1>1. PICK x \in bad : \A y \in bad : x <= y
  <2>1. bad \in SUBSET Nat
    BY DEF HeapType, Objects
  <2> HIDE DEF bad
  <2> QED
    BY <2>1, LeastNatural
<1>2. x \in Objects /\ Cyclic(x)
  OBVIOUS
<1>3. PICK c : c = errors[x].cause /\ c \in Objects \union {Nil} /\ c \in 0 .. x - 1 /\ x \in 1 .. MaxErrors
  BY <1>2, Older
<1>4. CASE c = Nil
  BY <1>2, <1>3, <1>4, ChainHas DEF Cyclic
<1>5. CASE c # Nil
  <2>1. c \in Objects /\ ~(x <= c)
    BY <1>3, <1>5
  <2>2. c \notin bad
    <3> HIDE DEF bad
    <3> QED
      BY <1>1, <2>1
  <2>3. ~Cyclic(c)
    BY <2>1, <2>2
  <2>4. Last(Chain(x)) = Last(Chain(c))
    BY <1>2, <1>3, <2>1, ChainHas
  <2> QED
    BY <1>2, <2>3, <2>4 DEF Cyclic
<1> QED
  BY <1>4, <1>5

\* An error derived from the sentinel is recognised as it.
LEMMA KinIs ==
  ASSUME HeapType, Derived, NEW e \in kin
  PROVE  Is(e, Sentinel)
<1> DEFINE bad == {x \in kin : ~Is(x, Sentinel)}
<1> SUFFICES ASSUME bad # {}
             PROVE  FALSE
  OBVIOUS
<1>0. kin \subseteq Objects /\ Objects \subseteq Nat
  BY DEF HeapType, Objects
<1>1. PICK x \in bad : \A y \in bad : x <= y
  <2>1. bad \in SUBSET Nat
    BY <1>0
  <2> HIDE DEF bad
  <2> QED
    BY <2>1, LeastNatural
<1>2. x \in kin /\ x \in Objects /\ ~Is(x, Sentinel)
  BY <1>0
<1>3. PICK c : c = errors[x].cause /\ c \in 0 .. x - 1 /\ x \in 1 .. MaxErrors
  BY <1>2, Older
<1>4. CASE errors[x].reason = First.reason
  <2>1. errors[x].code = 404
    BY <1>2, Older DEF ErrorType
  <2>2. Sentinel \in Objects
    BY DEF HeapType, Objects, Sentinel
  <2>3. errors[Sentinel] \in ErrorType
    BY <2>2, Older
  <2>4. errors[Sentinel].code = 404 /\ errors[Sentinel].reason = [errors[Sentinel] EXCEPT !.clone = FALSE].reason
    BY <2>3 DEF ErrorType
  <2>5. errors[Sentinel].reason = First.reason
    BY <2>4 DEF Derived
  <2>6. x \in ToSet(Chain(x))
    BY <1>2, ChainHas
  <2> QED
    BY <1>2, <1>4, <2>1, <2>4, <2>5, <2>6 DEF Is
<1>5. CASE c \in kin
  <2>1. ~(x <= c)
    BY <1>3
  <2>2. c \notin bad
    <3> HIDE DEF bad
    <3> QED
      BY <1>1, <2>1
  <2>3. Is(c, Sentinel)
    BY <1>5, <2>2
  <2>4. ToSet(Chain(c)) \subseteq ToSet(Chain(x))
    BY <1>2, <1>3, ChainHas
  <2> QED
    BY <1>2, <2>3, <2>4 DEF Is
<1> QED
  BY <1>2, <1>3, <1>4, <1>5 DEF Derived

\* What is left of the stack of the error at place i of a chain.
LEMMA Left ==
  ASSUME NEW chain, NEW i, NEW k
  PROVE  k \in removeExtraStackLines(chain, i) <=>
           /\ k \in Visible(chain[i])
           /\ \A j \in i + 1 .. Len(chain) : errors[chain[i]].stack[k] \notin Lines(chain[j])
           /\ \A l \in Visible(chain[i]) : l < k => errors[chain[i]].stack[l] # errors[chain[i]].stack[k]
  BY DEF removeExtraStackLines

\* A line that errors of a chain have is printed at one place: at the last of
\* them, where it is first in its stack.
LEMMA PrintedOnce ==
  ASSUME HeapType, NEW chain \in Seq(Objects), NEW i \in DOMAIN chain, NEW f \in Lines(chain[i])
  PROVE  \E p \in Printed(chain, f) : Printed(chain, f) = {p} /\ i <= p[1]
<1>1. PICK n \in Nat : n = Len(chain) /\ DOMAIN chain = 1 .. n
  OBVIOUS
<1>2. PICK Has : Has = {j \in 1 .. n : f \in Lines(chain[j])}
  OBVIOUS
<1>3. PICK m \in Has : \A j \in Has : j <= m
  <2>1. PICK S : S = {n - j : j \in Has}
    OBVIOUS
  <2>2. S \in SUBSET Nat /\ S # {}
    BY <1>1, <1>2, <2>1
  <2>3. PICK d \in S : \A l \in S : d <= l
    BY <2>2, LeastNatural
  <2>4. PICK j \in Has : d = n - j
    BY <2>1
  <2>5. ASSUME NEW l \in Has
        PROVE  l <= j
    <3>1. n - j <= n - l
      BY <2>1, <2>3, <2>4
    <3> QED
      BY <1>2, <2>4, <3>1
  <2> QED
    BY <2>4, <2>5
<1>4. m \in 1 .. n /\ f \in Lines(chain[m])
  BY <1>2
<1>5. PICK line : line = errors[chain[m]].stack
  OBVIOUS
<1>6. PICK W : W = {k \in Visible(chain[m]) : line[k] = f}
  OBVIOUS
<1>7. W \subseteq Nat
  <2>1. chain[m] \in Objects
    BY <1>1, <1>4
  <2>2. errors[chain[m]] \in ErrorType
    BY <2>1 DEF HeapType, Objects
  <2>3. line \in Seq(STRING)
    BY <1>5, <2>2 DEF ErrorType
  <2>4. DOMAIN line \subseteq Nat
    BY <2>3
  <2> QED
    BY <1>5, <1>6, <2>4 DEF Visible
<1>8. PICK k \in W : \A l \in W : k <= l
  <2>1. W # {}
    BY <1>4, <1>5, <1>6 DEF Lines
  <2> QED
    BY <1>7, <2>1, LeastNatural
<1>9. k \in Visible(chain[m]) /\ line[k] = f
  BY <1>6, <1>8
<1>10. k \in removeExtraStackLines(chain, m)
  <2>1. ASSUME NEW j \in m + 1 .. n
        PROVE  f \notin Lines(chain[j])
    <3>1. j \in 1 .. n /\ ~(j <= m)
      BY <1>4
    <3> QED
      BY <1>2, <1>3, <3>1
  <2>2. ASSUME NEW l \in Visible(chain[m]), l < k
        PROVE  line[l] # f
    <3> SUFFICES ASSUME line[l] = f
                 PROVE  FALSE
      OBVIOUS
    <3>1. l \in W /\ k \in W
      BY <1>6
    <3>2. k <= l /\ l \in Nat /\ k \in Nat
      BY <1>7, <1>8, <3>1
    <3> QED
      BY <2>2, <3>2
  <2> QED
    BY <1>1, <1>5, <1>9, <2>1, <2>2, Left
<1>11. ASSUME NEW j \in 1 .. n, NEW l \in removeExtraStackLines(chain, j), errors[chain[j]].stack[l] = f
       PROVE  j = m /\ l = k
  <2>1. l \in Visible(chain[j])
    BY Left
  <2>2. j \in Has
    BY <1>2, <1>11, <2>1 DEF Lines
  <2>3. j <= m
    BY <1>3, <2>2
  <2>4. m \notin j + 1 .. n
    BY <1>1, <1>4, <1>11, Left
  <2>5. j = m
    BY <1>4, <2>3, <2>4
  <2>6. l \in W
    BY <1>5, <1>6, <1>11, <2>1, <2>5
  <2>7. k <= l /\ ~(k < l)
    <3>1. k < l => line[k] # line[l]
      BY <1>5, <1>9, <2>5, Left
    <3> QED
      BY <1>5, <1>8, <1>9, <1>11, <2>5, <2>6, <3>1
  <2>8. l = k
    BY <1>7, <2>6, <2>7
  <2> QED
    BY <2>5, <2>8
<1>12. PICK st : /\ st = Stack(chain) /\ DOMAIN st = 1 .. n
                 /\ \A j \in 1 .. n : st[j] = removeExtraStackLines(chain, j)
  <2>1. Stack(chain) = [j \in 1 .. n |-> removeExtraStackLines(chain, j)]
    BY <1>1 DEF Stack
  <2>2. PICK st : st = Stack(chain)
    OBVIOUS
  <2>3. DOMAIN st = 1 .. n /\ \A j \in 1 .. n : st[j] = removeExtraStackLines(chain, j)
    BY <2>1, <2>2
  <2> QED
    BY <2>2, <2>3
<1>13. k \in UNION Range(st)
  BY <1>4, <1>10, <1>12 DEF Range
<1>14. PICK U : U = UNION Range(st)
  OBVIOUS
<1>15. Printed(chain, f) = {p \in (1 .. n) \X U : p[2] \in st[p[1]] /\ errors[chain[p[1]]].stack[p[2]] = f}
  BY <1>1, <1>12, <1>14 DEF Printed
<1>16. <<m, k>> \in Printed(chain, f)
  BY <1>4, <1>5, <1>9, <1>10, <1>12, <1>13, <1>14, <1>15
<1>17. ASSUME NEW p \in Printed(chain, f)
       PROVE  p = <<m, k>>
  <2>1. PICK j \in 1 .. n, l \in U : p = <<j, l>>
    BY <1>15
  <2>2. l \in st[j] /\ errors[chain[j]].stack[l] = f
    BY <1>15, <2>1
  <2>3. j = m /\ l = k
    BY <1>11, <1>12, <2>2
  <2> QED
    BY <2>1, <2>3
<1>18. Printed(chain, f) = {<<m, k>>}
  BY <1>16, <1>17
<1>19. i <= m
  BY <1>1, <1>2, <1>3
<1> QED
  BY <1>16, <1>18, <1>19

\* What the invariant says of errors that nobody reused.
LEMMA ErrorsSound == ErrorInv => SoundUntilReused
<1> SUFFICES ASSUME ErrorInv, NotReused
             PROVE  /\ [errors[Sentinel] EXCEPT !.clone = FALSE] = First
                    /\ \A e \in Objects : ~Cyclic(e) /\ ListedOnce(e)
                    /\ \A e \in kin : Is(e, Sentinel)
  BY DEF SoundUntilReused, NotReused
<1>1. HeapType /\ Derived
  BY DEF ErrorInv
<1>2. [errors[Sentinel] EXCEPT !.clone = FALSE] = First
  BY <1>1 DEF Derived
<1>3. ASSUME NEW e \in Objects
      PROVE  ~Cyclic(e) /\ ListedOnce(e)
  <2>1. Chain(e) \in Seq(Objects)
    BY <1>1, ChainOf
  <2>2. ListedOnce(e)
    BY <1>1, <2>1, PrintedOnce DEF ListedOnce
  <2> QED
    BY <1>1, <2>2, NoCycle
<1> QED
  BY <1>1, <1>2, <1>3, KinIs

\* Errors derived from a shared one stay sound as long as no object gets a
\* second With...: the shared one is what New made it, chains of causes end,
\* every line of the stacks is printed once, at the innermost error that has
\* it, and what is derived from it is recognised as it; for any number of
\* objects and of With..., any texts and any stacks.
THEOREM ErrorsStaySound == ErrorsSpec => []SoundUntilReused
<1>1. ErrorsInit => ErrorInv
  BY InitErrors
<1>2. ErrorInv /\ [ErrorsNext]_eVars => ErrorInv'
  BY NextErrors
<1>3. ErrorInv => SoundUntilReused
  BY ErrorsSound
<1> QED
  BY <1>1, <1>2, <1>3, PTL DEF ErrorsSpec

=============================================================================
