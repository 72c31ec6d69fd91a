---------------------------- MODULE BatchProofs ----------------------------
(***************************************************************************)
(* Proofs about Batch for any keys, sharding, sizes and stoppers: types,   *)
(* per-key order, what Stop leaves behind and has flushed, and the         *)
(* refinement of KeyedFifo.  Everything rests on one inductive invariant:  *)
(* the values of a key that are not yet executed are, in order, those its  *)
(* worker has collected followed by those still in that worker's channel.  *)
(***************************************************************************)
EXTENDS Batch, TLAPS

\* How many values of k have left the channel.
Taken(k) == Len(executed[k]) + Len(msg[Shard(k)][k])

\* Executed values are 1, 2, ...; collected ones continue them, at the key's
\* own worker only.
Collected ==
  \A k \in Keys :
    /\ \A i \in 1 .. Len(executed[k]) : executed[k][i] = i
    /\ \A w \in Workers :
         /\ \A i \in 1 .. Len(msg[w][k]) : msg[w][k][i] = Len(executed[k]) + i
         /\ w # Shard(k) => msg[w][k] = <<>>

\* Position p of channel c holds a value of key k.
Holds(c, p, k) == c[p] # Nil /\ c[p].key = k

\* Channel c holds exactly the values lo+1 .. hi of key k, in order.
Contains(c, k, lo, hi) ==
  /\ lo <= hi
  /\ \A p \in 1 .. Len(c) : Holds(c, p, k) =>
       /\ lo < c[p].value
       /\ c[p].value <= hi
       /\ \A q \in 1 .. Len(c) :
            (p < q /\ Holds(c, q, k)) => c[p].value < c[q].value
  /\ \A v \in lo + 1 .. hi :
       \E p \in 1 .. Len(c) : Holds(c, p, k) /\ c[p].value = v

\* Behind a nil, channel c holds only values later than "at".
LateAfterNil(c, at) ==
  \A p, q \in 1 .. Len(c) :
    (p < q /\ c[p] = Nil /\ c[q] # Nil) => c[q].value > at[c[q].key]

\* What was accepted and not taken is in the key's channel, and there only.
Queued ==
  /\ \A k \in Keys : Contains(chs[Shard(k)], k, Taken(k), added[k])
  /\ \A w \in Workers : \A p \in 1 .. Len(chs[w]) :
       chs[w][p] # Nil => Shard(chs[w][p].key) = w

\* Nils exist only once Stop was called, and behind a nil only values that
\* were accepted later; a worker that took one had taken everything older.
NilLast ==
  /\ \A k \in Keys : atStop[k] <= added[k]
  /\ \A w \in Workers :
       /\ LateAfterNil(chs[w], atStop)
       /\ stop[w] => Stopping
       /\ \A p \in 1 .. Len(chs[w]) : chs[w][p] = Nil => Stopping
       /\ \A k \in Keys : (stop[w] /\ Shard(k) = w) => Taken(k) >= atStop[k]

\* A worker that quit had its nil and holds nothing; Wait counts the others.
Quit ==
  \A w \in Workers :
    /\ pc[w] = "done" => stop[w] /\ msg[w] = NoMsg
    /\ stop[w] => pc[w] \in {"flush", "done"}
    /\ pc[w] \in {"select", "flush"} => w \in wg
    /\ pc[w] = "off" => msg[w] = NoMsg

Inv == TypeOK /\ Collected /\ Queued /\ NilLast /\ Quit

-----------------------------------------------------------------------------

LEMMA ShardType == \A k \in Keys : Shard(k) \in Workers
  BY KeysAssumption, WorkerAssumption DEF Shard, Workers

\* What the head of a non-empty channel is, when it is not Stop's nil.
LEMMA HeadItem ==
  ASSUME TypeOK, NEW w \in Workers, chs[w] # <<>>
  PROVE  /\ Head(chs[w]) = chs[w][1]
         /\ Len(chs[w]) \in Nat \ {0}
         /\ Head(chs[w]) # Nil => Head(chs[w]) \in Item
         /\ Tail(chs[w]) \in Seq(Item \cup {Nil})
         /\ Len(Tail(chs[w])) = Len(chs[w]) - 1
         /\ \A p \in 1 .. Len(chs[w]) - 1 : Tail(chs[w])[p] = chs[w][p + 1]
  BY DEF TypeOK

LEMMA TypeStep == TypeOK /\ [Next]_vars => TypeOK'
<1> SUFFICES ASSUME TypeOK, [Next]_vars PROVE TypeOK'
  OBVIOUS
<1> USE WorkerAssumption, SizeAssumption, ShardType
<1>1. CASE Run
  BY <1>1 DEF Run, TypeOK, stopVars
<1>2. ASSUME NEW k \in Keys, Add(k) PROVE TypeOK'
  BY <1>2 DEF Add, TypeOK, Item, batchVars, stopVars
<1>3. ASSUME NEW k \in Keys, AddFull(k) PROVE TypeOK'
  BY <1>3 DEF AddFull, TypeOK, vars, batchVars, stopVars
<1>4. ASSUME NEW w \in Workers, Receive(w) PROVE TypeOK'
  <2>1. chs[w] # <<>> /\ chs' = [chs EXCEPT ![w] = Tail(chs[w])]
    BY <1>4 DEF Receive, ReceiveItem, ReceiveNil
  <2>2. /\ Tail(chs[w]) \in Seq(Item \cup {Nil})
        /\ Len(Tail(chs[w])) <= Size
    BY <2>1, HeadItem DEF TypeOK
  <2>3. /\ chs' \in [Workers -> Seq(Item \cup {Nil})]
        /\ \A v \in Workers : Len(chs'[v]) <= Size
    BY <2>1, <2>2 DEF TypeOK
  <2>4. CASE ReceiveNil(w)
    BY <2>3, <2>4 DEF ReceiveNil, TypeOK, stopVars
  <2>5. CASE ReceiveItem(w)
    <3> DEFINE item == Head(chs[w])
    <3>1. item.key \in Keys /\ item.value \in Nat
      BY <2>1, <2>5, HeadItem DEF ReceiveItem, Item
    <3>2. msg' = [msg EXCEPT ![w] =
                    [msg[w] EXCEPT ![item.key] = Append(msg[w][item.key], item.value)]]
      BY <2>5 DEF ReceiveItem
    <3>3. /\ num' \in [Workers -> Nat]
          /\ pc' \in [Workers -> {"off", "select", "flush", "done"}]
      BY <2>5 DEF ReceiveItem, TypeOK
    <3> HIDE DEF item
    <3>4. [msg[w] EXCEPT ![item.key] = Append(msg[w][item.key], item.value)]
            \in [Keys -> Seq(Nat)]
      BY <3>1 DEF TypeOK
    <3>5. msg' \in [Workers -> [Keys -> Seq(Nat)]]
      BY <3>2, <3>4 DEF TypeOK
    <3>6. UNCHANGED <<stop, wg, stopPc, stopIdx, atStop, added, executed>>
      BY <2>5 DEF ReceiveItem, stopVars
    <3> QED
      BY <2>3, <3>3, <3>5, <3>6 DEF TypeOK
  <2> QED
    BY <1>4, <2>4, <2>5 DEF Receive
<1>5. ASSUME NEW w \in Workers, Tick(w) PROVE TypeOK'
  BY <1>5 DEF Tick, TypeOK, stopVars
<1>6. ASSUME NEW w \in Workers, Flush(w) PROVE TypeOK'
  BY <1>6 DEF Flush, TypeOK, NoMsg, stopVars
<1>7. ASSUME NEW s \in Stoppers, StopCall(s) PROVE TypeOK'
  BY <1>7 DEF StopCall, TypeOK, batchVars
<1>8. ASSUME NEW s \in Stoppers, StopSend(s) PROVE TypeOK'
  <2>1. stopIdx[s] \in Workers
    BY <1>8 DEF StopSend, TypeOK, Workers
  <2>2. /\ chs' \in [Workers -> Seq(Item \cup {Nil})]
        /\ \A v \in Workers : Len(chs'[v]) <= Size
    BY <1>8, <2>1 DEF StopSend, TypeOK
  <2>3. /\ stopPc' \in [Stoppers -> {"idle", "send", "wait", "returned"}]
        /\ stopIdx' \in [Stoppers -> 0 .. Worker]
        /\ \A t \in Stoppers : stopPc'[t] \in {"idle", "send"} => stopIdx'[t] < Worker
    BY <1>8, <2>1 DEF StopSend, TypeOK, Workers
  <2> QED
    BY <1>8, <2>2, <2>3 DEF StopSend, TypeOK, batchVars
<1>9. ASSUME NEW s \in Stoppers, StopReturn(s) PROVE TypeOK'
  BY <1>9 DEF StopReturn, TypeOK, batchVars
<1>10. CASE UNCHANGED vars
  BY <1>10 DEF TypeOK, vars, batchVars, stopVars
<1> QED
  BY <1>1, <1>2, <1>3, <1>4, <1>5, <1>6, <1>7, <1>8, <1>9, <1>10 DEF Next

\* Every variable of the batcher keeps its type: channels stay within their
\* capacity and Stop's loop never indexes past the last channel.
THEOREM TypeCorrect == Spec => []TypeOK
<1>1. Init => TypeOK
  BY WorkerAssumption, SizeAssumption DEF Init, TypeOK, NoMsg, Workers, Item
<1> QED
  BY <1>1, TypeStep, PTL DEF Spec

-----------------------------------------------------------------------------
\* What a send to, and a receive from, a channel do to what it contains.

LEMMA ContainsAppendNext ==
  ASSUME NEW c \in Seq(Item \cup {Nil}), NEW k \in Keys,
         NEW lo \in Nat, NEW hi \in Nat, Contains(c, k, lo, hi)
  PROVE  Contains(Append(c, [key |-> k, value |-> hi + 1]), k, lo, hi + 1)
<1> DEFINE x == [key |-> k, value |-> hi + 1]
           d == Append(c, x)
<1>1. x \in Item /\ x # Nil /\ x.key = k /\ x.value = hi + 1
  BY NilAssumption DEF Item
<1> HIDE DEF x
<1>2. /\ Len(d) = Len(c) + 1 /\ Len(c) \in Nat
      /\ d[Len(c) + 1] = x
      /\ \A p \in 1 .. Len(c) : d[p] = c[p]
  BY <1>1
<1> HIDE DEF d
<1>3. ASSUME NEW p \in 1 .. Len(c), Holds(c, p, k)
      PROVE  c[p].value \in Nat
  BY <1>3 DEF Holds, Item
<1>4. ASSUME NEW p \in 1 .. Len(d), Holds(d, p, k)
      PROVE  /\ lo < d[p].value
             /\ d[p].value <= hi + 1
             /\ \A q \in 1 .. Len(d) :
                  (p < q /\ Holds(d, q, k)) => d[p].value < d[q].value
  <2>1. CASE p = Len(c) + 1
    BY <1>1, <1>2, <2>1 DEF Contains
  <2>2. CASE p \in 1 .. Len(c)
    <3>1. /\ Holds(c, p, k) /\ d[p] = c[p] /\ c[p].value \in Nat
          /\ lo < c[p].value /\ c[p].value <= hi
      BY <1>2, <1>3, <1>4, <2>2 DEF Contains, Holds
    <3>2. ASSUME NEW q \in 1 .. Len(d), p < q, Holds(d, q, k)
          PROVE  d[p].value < d[q].value
      BY <1>1, <1>2, <2>2, <3>1, <3>2 DEF Contains, Holds
    <3> QED
      BY <3>1, <3>2
  <2> QED
    BY <1>2, <2>1, <2>2
<1>5. ASSUME NEW v \in lo + 1 .. hi + 1
      PROVE  \E p \in 1 .. Len(d) : Holds(d, p, k) /\ d[p].value = v
  <2>1. CASE v = hi + 1
    <3>1. Len(c) + 1 \in 1 .. Len(d) /\ Holds(d, Len(c) + 1, k)
      BY <1>1, <1>2 DEF Holds
    <3> QED
      BY <1>1, <1>2, <2>1, <3>1
  <2>2. CASE v \in lo + 1 .. hi
    <3>1. PICK p \in 1 .. Len(c) : Holds(c, p, k) /\ c[p].value = v
      BY <2>2 DEF Contains
    <3>2. p \in 1 .. Len(d) /\ d[p] = c[p]
      BY <1>2
    <3> QED
      BY <3>1, <3>2 DEF Holds
  <2> QED
    BY <2>1, <2>2
<1>6. lo <= hi + 1
  BY DEF Contains
<1>7. Contains(d, k, lo, hi + 1)
  BY <1>4, <1>5, <1>6 DEF Contains
<1> QED
  BY <1>7 DEF d, x

LEMMA ContainsAppendOther ==
  ASSUME NEW c \in Seq(Item \cup {Nil}), NEW k \in Keys, NEW lo, NEW hi,
         NEW x \in Item \cup {Nil}, x = Nil \/ x.key # k, Contains(c, k, lo, hi)
  PROVE  Contains(Append(c, x), k, lo, hi)
<1> DEFINE d == Append(c, x)
<1>1. /\ Len(d) = Len(c) + 1 /\ Len(c) \in Nat
      /\ d[Len(c) + 1] = x
      /\ \A p \in 1 .. Len(c) : d[p] = c[p]
  OBVIOUS
<1> HIDE DEF d
<1>2. ~Holds(d, Len(c) + 1, k) /\ \A p \in 1 .. Len(c) : Holds(d, p, k) <=> Holds(c, p, k)
  BY <1>1 DEF Holds
<1>3. Contains(d, k, lo, hi)
  BY <1>1, <1>2 DEF Contains
<1> QED
  BY <1>3 DEF d

LEMMA ContainsTail ==
  ASSUME NEW c \in Seq(Item \cup {Nil}), c # <<>>, NEW k \in Keys,
         NEW lo \in Nat, NEW hi \in Nat, Contains(c, k, lo, hi)
  PROVE  /\ Holds(c, 1, k) => /\ c[1].value = lo + 1
                              /\ Contains(Tail(c), k, lo + 1, hi)
         /\ ~Holds(c, 1, k) => Contains(Tail(c), k, lo, hi)
<1> DEFINE d == Tail(c)
<1>1. /\ Len(c) \in Nat \ {0} /\ Len(d) = Len(c) - 1
      /\ \A p \in 1 .. Len(d) : d[p] = c[p + 1]
  OBVIOUS
<1> HIDE DEF d
<1>2. \A p \in 1 .. Len(d) : Holds(d, p, k) <=> Holds(c, p + 1, k)
  BY <1>1 DEF Holds
<1>3. \A p \in 1 .. Len(c) : Holds(c, p, k) => c[p].value \in Nat
  BY DEF Holds, Item
<1>4. ASSUME NEW v \in lo + 1 .. hi, ~Holds(c, 1, k) \/ c[1].value # v
      PROVE  \E p \in 1 .. Len(d) : Holds(d, p, k) /\ d[p].value = v
  <2>1. PICK p \in 1 .. Len(c) : Holds(c, p, k) /\ c[p].value = v
    BY DEF Contains
  <2>2. p # 1 /\ p - 1 \in 1 .. Len(d) /\ (p - 1) + 1 = p
    BY <1>1, <1>4, <2>1
  <2> QED
    BY <1>1, <1>2, <2>1, <2>2
<1>5. ASSUME NEW q \in 1 .. Len(d), Holds(d, q, k)
      PROVE  /\ q + 1 \in 1 .. Len(c) /\ 1 < q + 1
             /\ Holds(c, q + 1, k) /\ d[q] = c[q + 1]
             /\ lo < d[q].value /\ d[q].value <= hi
             /\ \A r \in 1 .. Len(d) :
                  (q < r /\ Holds(d, r, k)) => d[q].value < d[r].value
  <2>1. q + 1 \in 1 .. Len(c) /\ Holds(c, q + 1, k) /\ d[q] = c[q + 1]
    BY <1>1, <1>2, <1>5
  <2>2. ASSUME NEW r \in 1 .. Len(d), q < r, Holds(d, r, k)
        PROVE  d[q].value < d[r].value
    <3>1. r + 1 \in 1 .. Len(c) /\ Holds(c, r + 1, k) /\ d[r] = c[r + 1] /\ q + 1 < r + 1
      BY <1>1, <1>2, <2>2
    <3> QED
      BY <2>1, <3>1 DEF Contains
  <2> QED
    BY <2>1, <2>2 DEF Contains
<1>6. ASSUME ~Holds(c, 1, k) PROVE Contains(d, k, lo, hi)
  <2>1. lo <= hi
    BY DEF Contains
  <2> QED
    BY <1>4, <1>5, <1>6, <2>1 DEF Contains
<1>7. ASSUME Holds(c, 1, k)
      PROVE  c[1].value = lo + 1 /\ Contains(d, k, lo + 1, hi)
  <2>1. lo < c[1].value /\ c[1].value <= hi /\ c[1].value \in Nat
    BY <1>1, <1>3, <1>7 DEF Contains
  <2>2. PICK p \in 1 .. Len(c) : Holds(c, p, k) /\ c[p].value = lo + 1
    BY <2>1 DEF Contains
  <2>3. p = 1
    BY <1>1, <1>3, <1>7, <2>1, <2>2 DEF Contains
  <2>4. lo + 1 <= hi
    BY <2>1, <2>2, <2>3
  <2>5. ASSUME NEW q \in 1 .. Len(d), Holds(d, q, k)
        PROVE  /\ lo + 1 < d[q].value
               /\ d[q].value <= hi
               /\ \A r \in 1 .. Len(d) :
                    (q < r /\ Holds(d, r, k)) => d[q].value < d[r].value
    <3>1. q + 1 \in 1 .. Len(c) /\ 1 \in 1 .. Len(c) /\ 1 < q + 1
      BY <1>1
    <3>2. c[1].value < c[q + 1].value
      BY <1>5, <1>7, <2>5, <3>1 DEF Contains
    <3> QED
      BY <1>5, <2>2, <2>3, <2>5, <3>2
  <2>6. ASSUME NEW v \in (lo + 1) + 1 .. hi
        PROVE  \E q \in 1 .. Len(d) : Holds(d, q, k) /\ d[q].value = v
    BY <1>4, <2>2, <2>3
  <2> QED
    BY <2>2, <2>3, <2>4, <2>5, <2>6 DEF Contains
<1> QED
  BY <1>6, <1>7 DEF d

LEMMA LateAfterNilAppend ==
  ASSUME NEW c \in Seq(Item \cup {Nil}), NEW at, NEW x \in Item \cup {Nil},
         x # Nil => x.value > at[x.key], LateAfterNil(c, at)
  PROVE  LateAfterNil(Append(c, x), at)
  BY DEF LateAfterNil

LEMMA LateAfterNilTail ==
  ASSUME NEW c \in Seq(Item \cup {Nil}), c # <<>>, NEW at, LateAfterNil(c, at)
  PROVE  LateAfterNil(Tail(c), at)
<1> DEFINE d == Tail(c)
<1>1. /\ Len(c) \in Nat \ {0} /\ Len(d) = Len(c) - 1
      /\ \A p \in 1 .. Len(d) : d[p] = c[p + 1]
  OBVIOUS
<1> HIDE DEF d
<1>2. ASSUME NEW p \in 1 .. Len(d), NEW q \in 1 .. Len(d),
             p < q, d[p] = Nil, d[q] # Nil
      PROVE  d[q].value > at[d[q].key]
  <2>1. /\ p + 1 \in 1 .. Len(c) /\ q + 1 \in 1 .. Len(c) /\ p + 1 < q + 1
        /\ d[p] = c[p + 1] /\ d[q] = c[q + 1]
    BY <1>1, <1>2
  <2> QED
    BY <1>2, <2>1 DEF LateAfterNil
<1>3. LateAfterNil(d, at)
  BY <1>2 DEF LateAfterNil
<1> QED
  BY <1>3 DEF d

-----------------------------------------------------------------------------
\* One lemma per action that changes what the invariant speaks of.

LEMMA PlusOne == \A a, b \in Nat : a + (b + 1) = (a + b) + 1
  OBVIOUS

LEMMA PlusBound == \A a, b, c \in Nat : a + b <= c => a <= c
  OBVIOUS

LEMMA IdentitySeq ==
  ASSUME NEW e \in Seq(Nat), \A i \in 1 .. Len(e) : e[i] = i
  PROVE  e = [i \in 1 .. Len(e) |-> i]
  OBVIOUS

LEMMA ConcatGrows ==
  ASSUME NEW e \in Seq(Nat), NEW m \in Seq(Nat)
  PROVE  Len(e) \in Nat /\ Len(e \o m) \in Nat /\ Len(e) <= Len(e \o m)
  OBVIOUS

LEMMA TakenType ==
  ASSUME TypeOK, NEW k \in Keys
  PROVE  /\ Taken(k) \in Nat /\ added[k] \in Nat /\ atStop[k] \in Nat
         /\ chs[Shard(k)] \in Seq(Item \cup {Nil})
  BY ShardType DEF Taken, TypeOK

LEMMA AddStep ==
  ASSUME Inv, NEW k \in Keys, Add(k)
  PROVE  Collected' /\ Queued' /\ NilLast' /\ Quit'
<1> DEFINE x == [key |-> k, value |-> added[k] + 1]
<1> USE DEF Inv
<1>1. x \in Item /\ x # Nil /\ x.key = k /\ x.value = added[k] + 1 /\ Shard(k) \in Workers
  BY ShardType, NilAssumption DEF TypeOK, Item
<1>2. /\ chs' = [chs EXCEPT ![Shard(k)] = Append(chs[Shard(k)], x)]
      /\ added' = [added EXCEPT ![k] = added[k] + 1]
      /\ UNCHANGED <<msg, num, stop, pc, wg, stopPc, stopIdx, atStop, executed>>
  BY DEF Add, batchVars, stopVars
<1> HIDE DEF x
<1>3. /\ chs'[Shard(k)] = Append(chs[Shard(k)], x)
      /\ \A w \in Workers : w # Shard(k) => chs'[w] = chs[w]
      /\ added'[k] = added[k] + 1
      /\ \A j \in Keys : j # k => added'[j] = added[j]
  BY <1>1, <1>2 DEF TypeOK
<1>4. \A j \in Keys : Taken(j)' = Taken(j)
  BY <1>2 DEF Taken, Shard
<1>5. Collected'
  BY <1>2 DEF Collected, Shard
<1>6. Queued'
  <2>1. ASSUME NEW j \in Keys PROVE Contains(chs'[Shard(j)], j, Taken(j), added'[j])
    <3>1. CASE j = k
      BY <1>3, <3>1, TakenType, ContainsAppendNext DEF Queued, x
    <3>2. CASE j # k /\ Shard(j) = Shard(k)
      <4>1. /\ Contains(chs[Shard(j)], j, Taken(j), added[j])
            /\ chs[Shard(j)] \in Seq(Item \cup {Nil})
            /\ x \in Item \cup {Nil} /\ x.key # j
        BY <1>1, <3>2, TakenType DEF Queued
      <4>2. Contains(Append(chs[Shard(j)], x), j, Taken(j), added[j])
        BY <4>1, ContainsAppendOther
      <4> QED
        BY <1>3, <3>2, <4>2
    <3>3. CASE j # k /\ Shard(j) # Shard(k)
      BY <1>3, <3>3, ShardType DEF Queued
    <3> QED
      BY <3>1, <3>2, <3>3
  <2>2. ASSUME NEW w \in Workers, NEW p \in 1 .. Len(chs'[w]), chs'[w][p] # Nil
        PROVE  Shard(chs'[w][p].key) = w
    <3>1. CASE w # Shard(k)
      BY <1>3, <2>2, <3>1 DEF Queued
    <3>2. CASE w = Shard(k)
      <4>1. chs[w] \in Seq(Item \cup {Nil}) /\ chs'[w] = Append(chs[w], x)
        BY <1>3, <3>2 DEF TypeOK
      <4>2. CASE p = Len(chs[w]) + 1
        BY <1>1, <3>2, <4>1, <4>2
      <4>3. CASE p \in 1 .. Len(chs[w])
        BY <1>1, <2>2, <4>1, <4>3 DEF Queued
      <4> QED
        BY <1>1, <4>1, <4>2, <4>3
    <3> QED
      BY <3>1, <3>2
  <2> QED
    BY <1>4, <2>1, <2>2 DEF Queued, Contains, Holds, Shard
<1>7. NilLast'
  <2>1. \A j \in Keys : atStop[j] <= added'[j]
    BY <1>3, TakenType DEF NilLast
  <2>2. x.value > atStop[x.key]
    BY <1>1, TakenType DEF NilLast
  <2>3. ASSUME NEW w \in Workers
        PROVE  /\ LateAfterNil(chs'[w], atStop)
               /\ \A p \in 1 .. Len(chs'[w]) : chs'[w][p] = Nil => Stopping
    <3>1. CASE w # Shard(k)
      BY <1>3, <3>1 DEF NilLast
    <3>2. CASE w = Shard(k)
      <4>1. chs[w] \in Seq(Item \cup {Nil}) /\ chs'[w] = Append(chs[w], x)
        BY <1>3, <3>2 DEF TypeOK
      <4>2. LateAfterNil(chs'[w], atStop)
        BY <1>1, <2>2, <4>1, LateAfterNilAppend DEF NilLast
      <4>3. \A p \in 1 .. Len(chs'[w]) : chs'[w][p] = Nil => Stopping
        BY <1>1, <4>1 DEF NilLast
      <4> QED
        BY <4>2, <4>3
    <3> QED
      BY <3>1, <3>2
  <2> QED
    BY <1>2, <1>4, <2>1, <2>3 DEF NilLast, Stopping, Shard, LateAfterNil
<1>8. Quit'
  BY <1>2 DEF Quit, NoMsg
<1> QED
  BY <1>5, <1>6, <1>7, <1>8

\* Both receives: the other channels, and the routing, are as before.
LEMMA TailStep ==
  ASSUME Inv, NEW w \in Workers, chs[w] # <<>>,
         chs' = [chs EXCEPT ![w] = Tail(chs[w])]
  PROVE  /\ chs'[w] = Tail(chs[w])
         /\ \A v \in Workers : v # w => chs'[v] = chs[v]
         /\ \A v \in Workers : LateAfterNil(chs'[v], atStop)
         /\ \A v \in Workers : \A p \in 1 .. Len(chs'[v]) :
              /\ chs'[v][p] # Nil => Shard(chs'[v][p].key) = v
              /\ chs'[v][p] = Nil => Stopping
<1> USE DEF Inv
<1>1. chs'[w] = Tail(chs[w]) /\ \A v \in Workers : v # w => chs'[v] = chs[v]
  BY DEF TypeOK
<1>2. chs[w] \in Seq(Item \cup {Nil})
  BY DEF TypeOK
<1>3. \A v \in Workers : LateAfterNil(chs'[v], atStop)
  BY <1>1, <1>2, LateAfterNilTail DEF NilLast
<1>4. ASSUME NEW v \in Workers, NEW p \in 1 .. Len(chs'[v])
      PROVE  /\ chs'[v][p] # Nil => Shard(chs'[v][p].key) = v
             /\ chs'[v][p] = Nil => Stopping
  <2>1. CASE v # w
    BY <1>1, <2>1 DEF Queued, NilLast
  <2>2. CASE v = w
    <3>1. p \in 1 .. Len(Tail(chs[w]))
      BY <1>1, <2>2
    <3>2. p + 1 \in 1 .. Len(chs[w]) /\ Tail(chs[w])[p] = chs[w][p + 1]
      BY <1>2, <3>1
    <3> QED
      BY <1>1, <2>2, <3>2 DEF Queued, NilLast
  <2> QED
    BY <2>1, <2>2
<1> QED
  BY <1>1, <1>3, <1>4

LEMMA ReceiveNilStep ==
  ASSUME Inv, NEW w \in Workers, ReceiveNil(w)
  PROVE  Collected' /\ Queued' /\ NilLast' /\ Quit'
<1> USE DEF Inv
<1>1. /\ chs[w] # <<>> /\ pc[w] = "select"
      /\ chs[w][1] = Nil /\ 1 \in 1 .. Len(chs[w])
      /\ chs' = [chs EXCEPT ![w] = Tail(chs[w])]
      /\ stop' = [stop EXCEPT ![w] = TRUE]
      /\ pc' = [pc EXCEPT ![w] = "flush"]
      /\ UNCHANGED <<msg, num, wg, stopPc, stopIdx, atStop, added, executed>>
  BY HeadItem DEF ReceiveNil, stopVars
<1>2. \A j \in Keys : Taken(j)' = Taken(j)
  BY <1>1 DEF Taken, Shard
<1>3. Collected'
  BY <1>1 DEF Collected, Shard
<1>4. Queued'
  <2>1. ASSUME NEW k \in Keys PROVE Contains(chs'[Shard(k)], k, Taken(k), added[k])
    <3>1. CASE Shard(k) = w
      <4>1. ~Holds(chs[w], 1, k)
        BY <1>1 DEF Holds
      <4>2. Contains(chs[w], k, Taken(k), added[k])
        BY <3>1 DEF Queued
      <4>3. Contains(Tail(chs[w]), k, Taken(k), added[k])
        BY <1>1, <3>1, <4>1, <4>2, TakenType, ContainsTail
      <4> QED
        BY <1>1, <3>1, <4>3, TailStep
    <3>2. CASE Shard(k) # w
      BY <1>1, <3>2, TailStep, ShardType DEF Queued
    <3> QED
      BY <3>1, <3>2
  <2>2. ASSUME NEW k \in Keys PROVE Contains(chs[Shard(k)], k, Taken(k), added[k])'
    <3>1. Contains(chs'[Shard(k)], k, Taken(k)', added'[k])
      BY <1>1, <1>2, <2>1
    <3> QED
      BY <3>1 DEF Contains, Holds, Shard
  <2> QED
    BY <1>1, <2>2, TailStep DEF Queued, Shard
<1>5. ASSUME NEW k \in Keys, Shard(k) = w PROVE Taken(k) >= atStop[k]
  <2> SUFFICES ASSUME Taken(k) < added[k] PROVE Taken(k) >= atStop[k]
    BY TakenType DEF NilLast
  <2>1. PICK p \in 1 .. Len(chs[w]) :
               Holds(chs[w], p, k) /\ chs[w][p].value = Taken(k) + 1
    <3>1. Contains(chs[w], k, Taken(k), added[k])
      BY <1>5 DEF Queued
    <3>2. Taken(k) + 1 \in Taken(k) + 1 .. added[k]
      BY TakenType
    <3> QED
      BY <3>1, <3>2 DEF Contains
  <2>2. p # 1 /\ 1 < p
    BY <1>1, <2>1 DEF Holds
  <2>3. chs[w][p].value > atStop[chs[w][p].key]
    BY <1>1, <2>1, <2>2 DEF NilLast, LateAfterNil, Holds
  <2> QED
    BY <2>1, <2>3, TakenType DEF Holds
<1>6. NilLast'
  <2>1. Stopping
    BY <1>1 DEF NilLast
  <2>2. Stopping'
    BY <1>1, <2>1 DEF Stopping
  <2>3. \A v \in Workers : \A k \in Keys :
          (stop'[v] /\ Shard(k) = v) => Taken(k) >= atStop[k]
    BY <1>1, <1>5 DEF NilLast, TypeOK
  <2>4. \A k \in Keys : atStop[k] <= added[k]
    BY DEF NilLast
  <2> QED
    BY <1>1, <1>2, <2>2, <2>3, <2>4, TailStep DEF NilLast, LateAfterNil, Shard
<1>7. Quit'
  BY <1>1 DEF Quit, NoMsg, TypeOK
<1> QED
  BY <1>3, <1>4, <1>6, <1>7

LEMMA ReceiveItemStep ==
  ASSUME Inv, NEW w \in Workers, ReceiveItem(w)
  PROVE  Collected' /\ Queued' /\ NilLast' /\ Quit'
<1> USE DEF Inv
<1>1. /\ chs[w] # <<>> /\ pc[w] = "select"
      /\ chs[w][1] # Nil /\ chs[w][1] \in Item /\ 1 \in 1 .. Len(chs[w])
      /\ chs' = [chs EXCEPT ![w] = Tail(chs[w])]
      /\ msg' = [msg EXCEPT ![w] = [msg[w] EXCEPT ![chs[w][1].key] =
                                Append(msg[w][chs[w][1].key], chs[w][1].value)]]
      /\ pc' = [pc EXCEPT ![w] = IF Full(w) THEN "flush" ELSE "select"]
      /\ UNCHANGED <<stop, wg, stopPc, stopIdx, atStop, added, executed>>
  BY HeadItem DEF ReceiveItem, stopVars
<1>2. PICK k \in Keys, n \in Nat : k = chs[w][1].key /\ n = chs[w][1].value /\ Shard(k) = w
  BY <1>1 DEF Queued, Item
<1>3. n = Taken(k) + 1 /\ Contains(chs'[w], k, Taken(k) + 1, added[k])
  <2>1. Holds(chs[w], 1, k) /\ Contains(chs[w], k, Taken(k), added[k])
    BY <1>1, <1>2 DEF Holds, Queued
  <2>2. chs[w] \in Seq(Item \cup {Nil}) /\ chs'[w] = Tail(chs[w])
    BY <1>1, TailStep DEF TypeOK
  <2>3. Taken(k) \in Nat /\ added[k] \in Nat
    BY TakenType
  <2>4. /\ chs[w][1].value = Taken(k) + 1
        /\ Contains(Tail(chs[w]), k, Taken(k) + 1, added[k])
    BY <1>1, <2>1, <2>2, <2>3, ContainsTail
  <2> QED
    BY <1>2, <2>2, <2>4
<1>4. ~stop[w]
  BY <1>1 DEF Quit
<1>5. \A j \in Keys : j # k => ~Holds(chs[w], 1, j)
  BY <1>2 DEF Holds
<1>6. /\ msg'[w][k] = Append(msg[w][k], n)
      /\ \A j \in Keys : j # k => msg'[w][j] = msg[w][j]
      /\ \A v \in Workers : v # w => msg'[v] = msg[v]
      /\ msg[w][k] \in Seq(Nat) /\ executed[k] \in Seq(Nat)
  BY <1>1, <1>2 DEF TypeOK
<1>7. /\ Taken(k)' = Taken(k) + 1
      /\ \A j \in Keys : j # k => Taken(j)' = Taken(j)
  <2>1. Len(msg'[w][k]) = Len(msg[w][k]) + 1
    BY <1>2, <1>6
  <2>2. /\ Taken(k)' = Len(executed[k]) + (Len(msg[w][k]) + 1)
        /\ Taken(k) = Len(executed[k]) + Len(msg[w][k])
    BY <1>1, <1>2, <2>1 DEF Taken, Shard
  <2>3. Taken(k)' = Taken(k) + 1
    <3>1. Len(executed[k]) \in Nat /\ Len(msg[w][k]) \in Nat
      BY <1>6
    <3>2. Len(executed[k]) + (Len(msg[w][k]) + 1) = (Len(executed[k]) + Len(msg[w][k])) + 1
      BY <3>1, PlusOne, Zenon
    <3> QED
      BY <2>2, <3>2, Zenon
  <2>4. ASSUME NEW j \in Keys, j # k PROVE Taken(j)' = Taken(j)
    <3>1. msg'[Shard(j)][j] = msg[Shard(j)][j]
      BY <1>6, <2>4, ShardType
    <3> QED
      BY <1>1, <3>1 DEF Taken, Shard
  <2> QED
    BY <2>3, <2>4
<1>8. Collected'
  <2>1. ASSUME NEW i \in 1 .. Len(msg'[w][k]) PROVE msg'[w][k][i] = Len(executed[k]) + i
    <3>1. n = Len(executed[k]) + Len(msg[w][k]) + 1
      BY <1>2, <1>3 DEF Taken
    <3>2. ASSUME NEW m \in 1 .. Len(msg[w][k]) PROVE msg[w][k][m] = Len(executed[k]) + m
      BY DEF Collected
    <3>3. CASE i \in 1 .. Len(msg[w][k])
      <4>1. msg'[w][k][i] = msg[w][k][i]
        BY <1>6, <3>3
      <4> QED
        BY <3>2, <3>3, <4>1, Zenon
    <3>4. CASE i = Len(msg[w][k]) + 1
      <4>1. msg'[w][k][i] = n
        BY <1>6, <3>4
      <4>2. Len(executed[k]) \in Nat /\ Len(msg[w][k]) \in Nat
        BY <1>6
      <4>3. Len(executed[k]) + (Len(msg[w][k]) + 1) = (Len(executed[k]) + Len(msg[w][k])) + 1
        BY <4>2, PlusOne, Zenon
      <4> QED
        BY <3>1, <3>4, <4>1, <4>3, Zenon
    <3>5. i \in 1 .. Len(msg[w][k]) + 1 /\ Len(msg[w][k]) \in Nat
      BY <1>6
    <3> QED
      BY <3>3, <3>4, <3>5
  <2>2. ASSUME NEW j \in Keys, NEW v \in Workers, <<v, j>> # <<w, k>>
        PROVE  msg'[v][j] = msg[v][j]
    BY <1>6, <2>2
  <2> QED
    BY <1>1, <1>2, <2>1, <2>2 DEF Collected, Shard
<1>9. Queued'
  <2>1. ASSUME NEW j \in Keys, j # k
        PROVE  Contains(chs'[Shard(j)], j, Taken(j), added[j])
    <3>1. CASE Shard(j) = w
      <4>1. Contains(chs[w], j, Taken(j), added[j]) /\ ~Holds(chs[w], 1, j)
        BY <1>5, <2>1, <3>1 DEF Queued
      <4>2. chs[w] \in Seq(Item \cup {Nil}) /\ Taken(j) \in Nat /\ added[j] \in Nat
        BY <3>1, TakenType
      <4>3. Contains(Tail(chs[w]), j, Taken(j), added[j])
        BY <1>1, <4>1, <4>2, ContainsTail
      <4> QED
        BY <1>1, <3>1, <4>3, TailStep
    <3>2. CASE Shard(j) # w
      BY <1>1, <3>2, TailStep, ShardType DEF Queued
    <3> QED
      BY <3>1, <3>2
  <2>2. Contains(chs[Shard(k)], k, Taken(k), added[k])'
    <3>1. Contains(chs'[Shard(k)], k, Taken(k) + 1, added'[k])
      BY <1>1, <1>2, <1>3
    <3> QED
      BY <1>7, <3>1 DEF Contains, Holds, Shard
  <2>3. ASSUME NEW j \in Keys, j # k
        PROVE  Contains(chs[Shard(j)], j, Taken(j), added[j])'
    BY <1>1, <1>7, <2>1, <2>3 DEF Contains, Holds, Shard
  <2> QED
    BY <1>1, <2>2, <2>3, TailStep DEF Queued, Shard
<1>10. NilLast'
  <2>1. ASSUME NEW v \in Workers, NEW j \in Keys, stop[v], Shard(j) = v
        PROVE  Taken(j)' >= atStop[j]
    <3>1. j # k
      BY <1>2, <1>4, <2>1
    <3> QED
      BY <1>7, <2>1, <3>1 DEF NilLast
  <2>2. Stopping => Stopping'
    BY <1>1 DEF Stopping
  <2> QED
    BY <1>1, <2>1, <2>2, TailStep DEF NilLast, LateAfterNil, Shard
<1>11. Quit'
  BY <1>1, <1>4, <1>6 DEF Quit, NoMsg, TypeOK
<1> QED
  BY <1>8, <1>9, <1>10, <1>11

LEMMA QueuedFrame ==
  ASSUME Queued, UNCHANGED <<chs, added>>, \A k \in Keys : Taken(k)' = Taken(k)
  PROVE  Queued'
<1>1. ASSUME NEW k \in Keys PROVE Contains(chs[Shard(k)], k, Taken(k), added[k])'
  <2>1. Contains(chs'[Shard(k)], k, Taken(k)', added'[k])
    BY DEF Queued
  <2> QED
    BY <2>1 DEF Contains, Holds, Shard
<1> QED
  BY <1>1 DEF Queued, Shard

\* Executing a batch: what follows in order is appended in order.
LEMMA ConcatInOrder ==
  ASSUME NEW e \in Seq(Nat), NEW m \in Seq(Nat),
         \A i \in 1 .. Len(e) : e[i] = i,
         \A i \in 1 .. Len(m) : m[i] = Len(e) + i
  PROVE  /\ Len(e \o m) = Len(e) + Len(m)
         /\ Len(e \o m) = Len(e \o m) + 0
         /\ \A i \in 1 .. Len(e \o m) : (e \o m)[i] = i
<1>1. Len(e) \in Nat /\ Len(m) \in Nat /\ Len(e \o m) = Len(e) + Len(m)
  OBVIOUS
<1>2. ASSUME NEW i \in 1 .. Len(e \o m) PROVE (e \o m)[i] = i
  <2>1. CASE i <= Len(e)
    BY <1>1, <2>1
  <2>2. CASE i > Len(e)
    <3>1. i - Len(e) \in 1 .. Len(m)
      BY <1>1, <2>2
    <3>2. (e \o m)[i] = m[i - Len(e)]
      BY <1>1, <2>2
    <3> QED
      BY <1>1, <3>1, <3>2
  <2> QED
    BY <1>1, <2>1, <2>2
<1> QED
  BY <1>1, <1>2

LEMMA FlushStep ==
  ASSUME Inv, NEW w \in Workers, Flush(w)
  PROVE  Collected' /\ Queued' /\ NilLast' /\ Quit'
<1> USE DEF Inv
<1>1. /\ pc[w] = "flush"
      /\ executed' = [k \in Keys |-> executed[k] \o msg[w][k]]
      /\ msg' = [msg EXCEPT ![w] = NoMsg]
      /\ pc' = [pc EXCEPT ![w] = IF stop[w] THEN "done" ELSE "select"]
      /\ wg' = IF stop[w] THEN wg \ {w} ELSE wg
      /\ UNCHANGED <<chs, stop, stopPc, stopIdx, atStop, added>>
  BY DEF Flush, stopVars
<1>2. ASSUME NEW k \in Keys
      PROVE  /\ executed[k] \in Seq(Nat) /\ msg[w][k] \in Seq(Nat)
             /\ msg'[w][k] = <<>>
             /\ executed'[k] = executed[k] \o msg[w][k]
             /\ \A v \in Workers : v # w => msg'[v][k] = msg[v][k]
  BY <1>1 DEF TypeOK, NoMsg
<1>3. ASSUME NEW k \in Keys, Shard(k) # w
      PROVE  /\ executed'[k] = executed[k]
             /\ \A v \in Workers : msg'[v][k] = msg[v][k]
  <2>1. msg[w][k] = <<>>
    BY <1>3 DEF Collected
  <2>2. \A e \in Seq(Nat) : e \o <<>> = e
    OBVIOUS
  <2>3. executed'[k] = executed[k]
    BY <1>2, <2>1, <2>2, Zenon
  <2> QED
    BY <1>2, <2>1, <2>3
<1>4. ASSUME NEW k \in Keys, Shard(k) = w
      PROVE  /\ Len(executed'[k]) = Len(executed[k]) + Len(msg[w][k])
             /\ Len(executed'[k]) = Len(executed'[k]) + 0
             /\ \A v \in Workers : msg'[v][k] = <<>>
             /\ \A i \in 1 .. Len(executed'[k]) : executed'[k][i] = i
  <2>1. /\ \A i \in 1 .. Len(executed[k]) : executed[k][i] = i
        /\ \A i \in 1 .. Len(msg[w][k]) : msg[w][k][i] = Len(executed[k]) + i
    BY DEF Collected
  <2>2. \A v \in Workers : msg'[v][k] = <<>>
    BY <1>2, <1>4 DEF Collected
  <2>3. executed[k] \in Seq(Nat) /\ msg[w][k] \in Seq(Nat)
    BY <1>2
  <2>4. executed'[k] = executed[k] \o msg[w][k]
    BY <1>2
  <2>5. /\ Len(executed[k] \o msg[w][k]) = Len(executed[k]) + Len(msg[w][k])
        /\ Len(executed[k] \o msg[w][k]) = Len(executed[k] \o msg[w][k]) + 0
        /\ \A i \in 1 .. Len(executed[k] \o msg[w][k]) : (executed[k] \o msg[w][k])[i] = i
    BY <2>1, <2>3, ConcatInOrder
  <2> QED
    BY <2>2, <2>4, <2>5, Zenon
<1>5. ASSUME NEW k \in Keys PROVE Taken(k)' = Taken(k)
  <2>1. CASE Shard(k) # w
    BY <1>3, <2>1, ShardType DEF Taken, Shard
  <2>2. CASE Shard(k) = w
    <3>1. Taken(k)' = Len(executed'[k]) + Len(msg'[w][k])
      BY <2>2 DEF Taken, Shard
    <3>2. msg'[w][k] = <<>> /\ Len(<<>>) = 0
      BY <1>2
    <3>3. Taken(k)' = Len(executed'[k]) + 0
      BY <3>1, <3>2, Zenon
    <3>4. Taken(k) = Len(executed[k]) + Len(msg[w][k])
      BY <2>2 DEF Taken
    <3> QED
      BY <1>4, <2>2, <3>3, <3>4, Zenon
  <2> QED
    BY <2>1, <2>2
<1>6. Collected'
  <2> SUFFICES ASSUME NEW k \in Keys
               PROVE  /\ \A i \in 1 .. Len(executed'[k]) : executed'[k][i] = i
                      /\ \A v \in Workers :
                           /\ \A i \in 1 .. Len(msg'[v][k]) :
                                msg'[v][k][i] = Len(executed'[k]) + i
                           /\ v # Shard(k) => msg'[v][k] = <<>>
    BY DEF Collected, Shard
  <2>1. CASE Shard(k) # w
    <3>1. \A i \in 1 .. Len(executed'[k]) : executed'[k][i] = i
      BY <1>3, <2>1 DEF Collected
    <3>2. ASSUME NEW v \in Workers
          PROVE  /\ \A i \in 1 .. Len(msg'[v][k]) :
                      msg'[v][k][i] = Len(executed'[k]) + i
                 /\ v # Shard(k) => msg'[v][k] = <<>>
      <4>1. executed'[k] = executed[k] /\ msg'[v][k] = msg[v][k]
        BY <1>3, <2>1
      <4> QED
        BY <4>1 DEF Collected
    <3> QED
      BY <3>1, <3>2
  <2>2. CASE Shard(k) = w
    <3>1. ASSUME NEW v \in Workers PROVE msg'[v][k] = <<>>
      BY <1>4, <2>2
    <3>2. 1 .. Len(<<>>) = {}
      OBVIOUS
    <3>3. ASSUME NEW v \in Workers PROVE 1 .. Len(msg'[v][k]) = {}
      BY <3>1, <3>2, Zenon
    <3> QED
      BY <1>4, <2>2, <3>1, <3>3, Zenon
  <2> QED
    BY <2>1, <2>2
<1>7. Queued'
  BY <1>1, <1>5, QueuedFrame
<1>8. NilLast'
  BY <1>1, <1>5 DEF NilLast, LateAfterNil, Stopping, Shard
<1>9. Quit'
  BY <1>1 DEF Quit, TypeOK, NoMsg
<1> QED
  BY <1>6, <1>7, <1>8, <1>9

LEMMA StopCallStep ==
  ASSUME Inv, NEW s \in Stoppers, StopCall(s)
  PROVE  Collected' /\ Queued' /\ NilLast' /\ Quit'
<1> USE DEF Inv
<1>1. /\ stopPc' = [stopPc EXCEPT ![s] = "send"]
      /\ atStop' = IF Stopping THEN atStop ELSE added
      /\ UNCHANGED <<chs, msg, num, stop, pc, wg, stopIdx, added, executed>>
  BY DEF StopCall, batchVars
<1>2. Stopping'
  BY <1>1 DEF Stopping, TypeOK
<1>3. \A k \in Keys : Taken(k)' = Taken(k)
  BY <1>1 DEF Taken, Shard
<1>4. Collected' /\ Quit'
  BY <1>1 DEF Collected, Quit, Shard, NoMsg
<1>5. Queued'
  BY <1>1, <1>3, QueuedFrame
<1>6. NilLast'
  <2>1. CASE Stopping
    BY <1>1, <1>2, <1>3, <2>1 DEF NilLast, LateAfterNil, Shard
  <2>2. CASE ~Stopping
    <3>1. \A w \in Workers : ~stop[w] /\ \A p \in 1 .. Len(chs[w]) : chs[w][p] # Nil
      BY <2>2 DEF NilLast
    <3>2. \A k \in Keys : atStop'[k] <= added'[k]
      BY <1>1, <2>2, TakenType
    <3> QED
      BY <1>1, <1>2, <3>1, <3>2 DEF NilLast, LateAfterNil, Shard
  <2> QED
    BY <2>1, <2>2
<1> QED
  BY <1>4, <1>5, <1>6

LEMMA StopSendStep ==
  ASSUME Inv, NEW s \in Stoppers, StopSend(s)
  PROVE  Collected' /\ Queued' /\ NilLast' /\ Quit'
<1> USE DEF Inv
<1>1. PICK u \in Workers : u = stopIdx[s]
  BY WorkerAssumption DEF StopSend, TypeOK, Workers
<1>2. /\ chs' = [chs EXCEPT ![u] = Append(chs[u], Nil)]
      /\ stopPc[s] = "send"
      /\ stopPc' = [stopPc EXCEPT ![s] = IF stopIdx[s] + 1 = Worker THEN "wait" ELSE "send"]
      /\ UNCHANGED <<msg, num, stop, pc, wg, atStop, added, executed>>
  BY <1>1 DEF StopSend, batchVars
<1>3. /\ chs'[u] = Append(chs[u], Nil)
      /\ chs[u] \in Seq(Item \cup {Nil})
      /\ \A w \in Workers : w # u => chs'[w] = chs[w]
  BY <1>2 DEF TypeOK
<1>4. Stopping /\ Stopping'
  BY <1>2 DEF Stopping, TypeOK
<1>5. \A k \in Keys : Taken(k)' = Taken(k)
  BY <1>2 DEF Taken, Shard
<1>6. Collected' /\ Quit'
  BY <1>2 DEF Collected, Quit, Shard, NoMsg
<1>7. Queued'
  <2>1. ASSUME NEW k \in Keys
        PROVE  Contains(chs'[Shard(k)], k, Taken(k), added[k])
    <3>1. CASE Shard(k) = u
      <4>1. Contains(chs[u], k, Taken(k), added[k])
        BY <3>1 DEF Queued
      <4>2. Contains(Append(chs[u], Nil), k, Taken(k), added[k])
        BY <1>3, <4>1, ContainsAppendOther
      <4> QED
        BY <1>3, <3>1, <4>2
    <3>2. CASE Shard(k) # u
      BY <1>3, <3>2, ShardType DEF Queued
    <3> QED
      BY <3>1, <3>2
  <2>2. ASSUME NEW k \in Keys
        PROVE  Contains(chs[Shard(k)], k, Taken(k), added[k])'
    <3>1. Contains(chs'[Shard(k)], k, Taken(k)', added'[k])
      BY <1>2, <1>5, <2>1
    <3> QED
      BY <3>1 DEF Contains, Holds, Shard
  <2>3. ASSUME NEW w \in Workers, NEW p \in 1 .. Len(chs'[w]), chs'[w][p] # Nil
        PROVE  Shard(chs'[w][p].key) = w
    <3>1. CASE w # u
      BY <1>3, <2>3, <3>1 DEF Queued
    <3>2. CASE w = u
      BY <1>3, <2>3, <3>2 DEF Queued
    <3> QED
      BY <3>1, <3>2
  <2> QED
    BY <2>2, <2>3 DEF Queued, Shard
<1>8. NilLast'
  <2>1. ASSUME NEW w \in Workers PROVE LateAfterNil(chs'[w], atStop)
    <3>1. CASE w # u
      BY <1>3, <3>1 DEF NilLast
    <3>2. CASE w = u
      <4>1. LateAfterNil(chs[u], atStop)
        BY DEF NilLast
      <4>2. LateAfterNil(Append(chs[u], Nil), atStop)
        BY <1>3, <4>1, LateAfterNilAppend
      <4> QED
        BY <1>3, <3>2, <4>2
    <3> QED
      BY <3>1, <3>2
  <2> QED
    BY <1>2, <1>4, <1>5, <2>1 DEF NilLast, LateAfterNil, Shard
<1> QED
  BY <1>6, <1>7, <1>8

LEMMA InvStep == Inv /\ [Next]_vars => Inv'
<1> SUFFICES ASSUME Inv, [Next]_vars PROVE Inv'
  OBVIOUS
<1>1. TypeOK'
  BY TypeStep DEF Inv
<1>2. CASE Run
  <2>1. /\ wg' = Workers /\ pc' = [w \in Workers |-> "select"]
        /\ \A w \in Workers : pc[w] = "off"
        /\ UNCHANGED <<chs, msg, num, stop, stopPc, stopIdx, atStop, added, executed>>
    BY <1>2 DEF Run, stopVars
  <2>2. Quit'
    BY <2>1 DEF Inv, Quit
  <2>3. \A k \in Keys : Taken(k)' = Taken(k)
    BY <2>1 DEF Taken, Shard
  <2>4. Queued'
    BY <2>1, <2>3, QueuedFrame DEF Inv
  <2>5. Collected' /\ NilLast'
    BY <2>1, <2>3 DEF Inv, Collected, NilLast, LateAfterNil, Stopping, Shard
  <2> QED
    BY <1>1, <2>2, <2>4, <2>5 DEF Inv
<1>3. ASSUME NEW k \in Keys, Add(k) PROVE Inv'
  BY <1>1, <1>3, AddStep DEF Inv
<1>4. ASSUME NEW w \in Workers, Receive(w) PROVE Inv'
  BY <1>1, <1>4, ReceiveItemStep, ReceiveNilStep DEF Inv, Receive
<1>5. ASSUME NEW w \in Workers, Tick(w) PROVE Inv'
  <2>1. /\ pc[w] = "select" /\ pc' = [pc EXCEPT ![w] = "flush"]
        /\ UNCHANGED <<chs, msg, num, stop, wg, stopPc, stopIdx, atStop, added, executed>>
    BY <1>5 DEF Tick, stopVars
  <2>2. Quit'
    BY <2>1 DEF Inv, Quit, TypeOK, NoMsg
  <2>3. \A k \in Keys : Taken(k)' = Taken(k)
    BY <2>1 DEF Taken, Shard
  <2>4. Queued'
    BY <2>1, <2>3, QueuedFrame DEF Inv
  <2>5. Collected' /\ NilLast'
    BY <2>1, <2>3 DEF Inv, Collected, NilLast, LateAfterNil, Stopping, Shard
  <2> QED
    BY <1>1, <2>2, <2>4, <2>5 DEF Inv
<1>6. ASSUME NEW w \in Workers, Flush(w) PROVE Inv'
  BY <1>1, <1>6, FlushStep DEF Inv
<1>7. ASSUME NEW s \in Stoppers, StopCall(s) PROVE Inv'
  BY <1>1, <1>7, StopCallStep DEF Inv
<1>8. ASSUME NEW s \in Stoppers, StopSend(s) PROVE Inv'
  BY <1>1, <1>8, StopSendStep DEF Inv
<1>9. ASSUME NEW s \in Stoppers, StopReturn(s) PROVE Inv'
  <2>1. /\ stopPc[s] = "wait" /\ stopPc' = [stopPc EXCEPT ![s] = "returned"]
        /\ UNCHANGED <<chs, msg, num, stop, pc, wg, stopIdx, atStop, added, executed>>
    BY <1>9 DEF StopReturn, batchVars
  <2>2. Stopping'
    BY <2>1 DEF Inv, TypeOK, Stopping
  <2>3. \A k \in Keys : Taken(k)' = Taken(k)
    BY <2>1 DEF Taken, Shard
  <2>4. Queued'
    BY <2>1, <2>3, QueuedFrame DEF Inv
  <2>5. Collected' /\ NilLast' /\ Quit'
    BY <2>1, <2>2, <2>3 DEF Inv, Collected, NilLast, Quit, LateAfterNil, Shard, NoMsg
  <2> QED
    BY <1>1, <2>4, <2>5 DEF Inv
<1>10. CASE UNCHANGED vars
  <2>1. UNCHANGED <<chs, msg, num, stop, pc, wg, stopPc, stopIdx, atStop, added, executed>>
    BY <1>10 DEF vars, batchVars, stopVars
  <2>2. \A k \in Keys : Taken(k)' = Taken(k)
    BY <2>1 DEF Taken, Shard
  <2>3. Queued'
    BY <2>1, <2>2, QueuedFrame DEF Inv
  <2>4. Collected' /\ NilLast' /\ Quit'
    BY <2>1, <2>2 DEF Inv, Collected, NilLast, Quit, LateAfterNil, Stopping, Shard, NoMsg
  <2> QED
    BY <1>1, <2>3, <2>4 DEF Inv
<1>11. ASSUME NEW k \in Keys, AddFull(k) PROVE Inv'
  BY <1>10, <1>11 DEF AddFull
<1> QED
  BY <1>2, <1>3, <1>4, <1>5, <1>6, <1>7, <1>8, <1>9, <1>10, <1>11 DEF Next

\* The inductive invariant holds in every reachable state.
THEOREM Invariant == Spec => []Inv
<1>1. Init => Inv
  <2> SUFFICES ASSUME Init PROVE Inv
    OBVIOUS
  <2> USE DEF Init
  <2>1. TypeOK
    BY WorkerAssumption, SizeAssumption DEF TypeOK, NoMsg, Workers, Item
  <2>2. Collected
    BY DEF Collected, NoMsg
  <2>3. Queued
    BY ShardType DEF Queued, Contains, Taken, NoMsg
  <2>4. NilLast
    BY DEF NilLast, LateAfterNil
  <2>5. Quit
    BY DEF Quit
  <2> QED
    BY <2>1, <2>2, <2>3, <2>4, <2>5 DEF Inv
<1> QED
  BY <1>1, InvStep, PTL DEF Spec

\* exec sees each key's values in the order they were accepted, each once.
THEOREM OrderPreserved == Spec => []InOrder
<1>1. Inv => InOrder
  <2> SUFFICES ASSUME Inv, NEW k \in Keys PROVE Len(executed[k]) <= added[k]
    BY DEF Inv, Collected, InOrder
  <2>1. Taken(k) <= added[k]
    BY DEF Inv, Queued, Contains
  <2>2. executed[k] \in Seq(Nat) /\ msg[Shard(k)][k] \in Seq(Nat)
    BY ShardType DEF Inv, TypeOK
  <2>3. Len(executed[k]) \in Nat /\ Len(msg[Shard(k)][k]) \in Nat /\ added[k] \in Nat
    BY <2>2 DEF Inv, TypeOK
  <2> QED
    BY <2>1, <2>3, PlusBound, Zenon DEF Taken
<1> QED
  BY <1>1, Invariant, PTL

\* A worker that quits abandons only values accepted after Stop was called.
THEOREM NothingOldAbandoned == Spec => []LeftBehindIsLate
<1>1. Inv => LeftBehindIsLate
  <2> SUFFICES ASSUME Inv, NEW w \in Workers, NEW p \in 1 .. Len(chs[w]),
                      pc[w] = "done", chs[w][p] # Nil
               PROVE  chs[w][p].value > atStop[chs[w][p].key]
    BY DEF LeftBehindIsLate
  <2>1. chs[w][p] \in Item
    BY DEF Inv, TypeOK
  <2>2. PICK k \in Keys : k = chs[w][p].key
    BY <2>1 DEF Item
  <2>3. Shard(k) = w /\ Holds(chs[w], p, k)
    BY <2>2 DEF Inv, Queued, Holds
  <2>4. Taken(k) < chs[w][p].value
    BY <2>3 DEF Inv, Queued, Contains
  <2>5. Taken(k) >= atStop[k]
    BY <2>3 DEF Inv, Quit, NilLast
  <2>6. Taken(k) \in Nat /\ atStop[k] \in Nat /\ chs[w][p].value \in Nat
    BY <2>1, TakenType DEF Inv, Item
  <2> QED
    BY <2>2, <2>4, <2>5, <2>6
<1> QED
  BY <1>1, Invariant, PTL

\* A Stop of started workers returns only when every value accepted before
\* the first call of Stop has been executed.
THEOREM StopFlushes == Spec => FlushedAtReturn
<1> DEFINE Returned(s) == /\ stopPc[s] = "wait"
                          /\ stopPc'[s] = "returned"
                          /\ \A w \in Workers : pc[w] # "off"
           Flushed == \A s \in Stoppers :
                        Returned(s) => \A k \in Keys : Len(executed[k]) >= atStop[k]
<1>1. Inv /\ [Next]_vars => [Flushed]_vars
  <2> SUFFICES ASSUME Inv, Next, NEW s \in Stoppers, Returned(s), NEW k \in Keys
               PROVE  Len(executed[k]) >= atStop[k]
    BY DEF Flushed
  <2>1. StopReturn(s)
    <3>1. ASSUME NEW t \in Stoppers, t # s, StopReturn(t) PROVE FALSE
      BY <3>1 DEF StopReturn, Inv, TypeOK
    <3>2. ASSUME NEW t \in Stoppers, StopSend(t) PROVE FALSE
      BY <3>2 DEF StopSend, Inv, TypeOK
    <3>3. ASSUME NEW t \in Stoppers, StopCall(t) PROVE FALSE
      BY <3>3 DEF StopCall, Inv, TypeOK
    <3>4. stopPc' # stopPc
      OBVIOUS
    <3> QED
      BY <3>1, <3>2, <3>3, <3>4
      DEF Next, Run, Add, AddFull, Receive, ReceiveItem, ReceiveNil, Tick, Flush,
          vars, stopVars
  <2>2. Shard(k) \in Workers /\ pc[Shard(k)] = "done"
    BY <2>1, ShardType DEF StopReturn, Inv, Quit, TypeOK
  <2>3. stop[Shard(k)] /\ msg[Shard(k)][k] = <<>>
    BY <2>2 DEF Inv, Quit, NoMsg
  <2>4. Taken(k) >= atStop[k]
    BY <2>2, <2>3 DEF Inv, NilLast
  <2>5. executed[k] \in Seq(Nat) /\ Len(<<>>) = 0 /\ \A n \in Nat : n + 0 = n
    BY DEF Inv, TypeOK
  <2>6. Len(executed[k]) \in Nat
    BY <2>5
  <2>7. Taken(k) = Len(executed[k]) + 0
    BY <2>3, <2>5, Zenon DEF Taken
  <2> QED
    BY <2>4, <2>5, <2>6, <2>7, Zenon
<1>2. []Inv /\ [][Next]_vars => [][Flushed]_vars
  BY <1>1, PTL
<1> QED
  BY <1>2, Invariant, PTL DEF Spec, FlushedAtReturn

\* The batcher implements the per-key FIFO of KeyedFifo.
THEOREM Refinement == Spec => ImplementsFifo
<1>1. Init => Fifo!Init
  BY DEF Init, Fifo!Init, NoMsg
<1>2. Inv /\ Inv' /\ [Next]_vars => [Fifo!Next]_Fifo!vars
  <2> SUFFICES ASSUME Inv, Inv', [Next]_vars PROVE [Fifo!Next]_Fifo!vars
    OBVIOUS
  <2>1. ASSUME NEW k \in Keys, Add(k) PROVE Fifo!Accept(k)
    BY <2>1 DEF Add, Fifo!Accept
  <2>2. ASSUME NEW w \in Workers, Flush(w) PROVE Fifo!Deliver
    <3>1. UNCHANGED added /\ DOMAIN executed' = Keys
      BY <2>2 DEF Flush
    <3>2. ASSUME NEW k \in Keys
          PROVE  /\ Len(executed'[k]) \in Len(executed[k]) .. added[k]
                 /\ executed'[k] = [i \in 1 .. Len(executed'[k]) |-> i]
      <4>1. /\ executed[k] \in Seq(Nat) /\ msg[w][k] \in Seq(Nat)
            /\ executed'[k] = executed[k] \o msg[w][k] /\ executed'[k] \in Seq(Nat)
        <5>1. executed[k] \in Seq(Nat) /\ msg[w][k] \in Seq(Nat)
          BY DEF Inv, TypeOK
        <5>2. executed' \in [Keys -> Seq(Nat)]
          BY DEF Inv, TypeOK
        <5>3. executed'[k] = executed[k] \o msg[w][k]
          BY <2>2 DEF Flush
        <5> QED
          BY <5>1, <5>2, <5>3
      <4>2. /\ Len(executed[k]) \in Nat /\ Len(executed'[k]) \in Nat
            /\ Len(executed[k]) <= Len(executed'[k])
        BY <4>1, ConcatGrows, Zenon
      <4>3. Len(executed'[k]) <= added[k]
        <5>1. Taken(k)' <= added'[k]
          BY DEF Inv, Queued, Contains
        <5>2. Taken(k)' = Len(executed'[k]) + Len(msg'[Shard(k)][k])
          BY DEF Taken, Shard
        <5>3. msg'[Shard(k)][k] \in Seq(Nat) /\ added'[k] \in Nat
          BY ShardType DEF Inv, TypeOK
        <5>4. Len(msg'[Shard(k)][k]) \in Nat
          BY <5>3
        <5> QED
          BY <3>1, <4>2, <5>1, <5>2, <5>3, <5>4
      <4>4. \A i \in 1 .. Len(executed'[k]) : executed'[k][i] = i
        BY DEF Inv, Collected
      <4>5. executed'[k] = [i \in 1 .. Len(executed'[k]) |-> i]
        BY <4>1, <4>4, IdentitySeq, Zenon
      <4> QED
        BY <4>2, <4>3, <4>5 DEF Inv, TypeOK
    <3> QED
      BY <3>1, <3>2 DEF Fifo!Deliver
  <2>3. ASSUME UNCHANGED <<added, executed>> PROVE UNCHANGED Fifo!vars
    BY <2>3 DEF Fifo!vars
  <2> QED
    BY <2>1, <2>2, <2>3
    DEF Next, Run, AddFull, Receive, ReceiveItem, ReceiveNil, Tick, StopCall, StopSend,
        StopReturn, vars, Fifo!Next
<1> QED
  BY <1>1, <1>2, Invariant, PTL DEF Spec, ImplementsFifo, Fifo!Spec

=============================================================================
