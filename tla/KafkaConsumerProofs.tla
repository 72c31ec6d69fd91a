------------------------ MODULE KafkaConsumerProofs ------------------------
(***************************************************************************)
(* Proofs about KafkaConsumer for any group, partition, keys, workers,     *)
(* capacities and number of rebalances, crashes and panics: the order      *)
(* within a key and what a crash can lose.                                 *)
(***************************************************************************)
EXTENDS KafkaConsumer, FiniteSetTheorems, TLAPS

TypeOK ==
  /\ committed \in 0 .. MaxMsg /\ owner \in Members \union {NoMember}
  /\ marked \in [Members -> 0 .. MaxMsg] /\ next \in [Members -> 1 .. MaxMsg + 1]
  /\ cpc \in [Members -> {"off", "range", "send", "mark", "ended"}]
  /\ chs \in [Workers -> Seq(Msgs)]
  /\ wpc \in [Workers -> {"recv", "handle", "dead"}]
  /\ cur \in [Workers -> 0 .. MaxMsg]
  /\ handled \subseteq Msgs /\ lost \subseteq Msgs
  /\ \A w \in Workers : Len(chs[w]) <= Cap

\* Message e is done with, or some member has it.
Settled(e) == e \in handled \union lost
Safe(e) == Settled(e) \/ \E c \in Members : Holds(c, e)

\* Member c need not send e: it is committed, done with, or already sent.
Given(c, e) == e <= committed \/ Settled(e) \/ Holds(c, e)

\* What the claim loop of c has gone past is given, except the message it is
\* about to send, and the mark is behind that message.
Claim(c) ==
  /\ \A e \in 1 .. next[c] - 1 : Given(c, e) \/ (cpc[c] = "send" /\ e = Msg(c))
  /\ marked[c] <= Msg(c) /\ (cpc[c] = "send" => marked[c] < Msg(c))
  /\ cpc[c] \in {"send", "mark"} => Msg(c) \in Msgs
  /\ owner = c => committed <= marked[c]

\* Member c will not receive e again: e is committed, c does not have it, and
\* the claim loop is past it.
Passed(c, e) ==
  /\ e <= committed /\ ~Holds(c, e)
  /\ cpc[c] \in {"range", "mark"} => e < next[c]
  /\ cpc[c] = "send" => e < Msg(c)

\* Messages of m's key before m are settled or passed by c.
Follows(c, m) == \A e \in 1 .. m - 1 : Key[e] = Key[m] => Settled(e) \/ Passed(c, e)

\* ... or ahead of position p of worker w's channel.
Queued(w, p) ==
  \A e \in 1 .. chs[w][p] - 1 : Key[e] = Key[chs[w][p]] =>
    \/ Settled(e) \/ InHand(w, e) \/ Passed(w[1], e)
    \/ \E q \in 1 .. p - 1 : chs[w][q] = e

WorkerOrder(w) ==
  /\ wpc[w] = "handle" => /\ cur[w] \in Msgs /\ Shard(w[1], cur[w]) = w
                          /\ Follows(w[1], cur[w])
  /\ \A p \in 1 .. Len(chs[w]) : Shard(w[1], chs[w][p]) = w /\ Queued(w, p)

ConsumerInv ==
  /\ TypeOK
  /\ \A e \in 1 .. committed : Safe(e)
  /\ \A c \in Members : Claim(c)
  /\ \A w \in Workers : WorkerOrder(w)

-----------------------------------------------------------------------------

LEMMA ShardType == \A c \in Members, m \in Msgs : Shard(c, m) \in Workers /\ Shard(c, m)[1] = c
<1> SUFFICES ASSUME NEW c \in Members, NEW m \in Msgs
             PROVE  Shard(c, m) \in Workers /\ Shard(c, m)[1] = c
  OBVIOUS
<1>1. Key[m] % Worker[c] \in 0 .. Worker[c] - 1
  BY ConstantsAssumption
<1>2. Shard(c, m) \in {c} \X (0 .. Worker[c] - 1)
  BY <1>1 DEF Shard
<1> QED
  BY <1>2 DEF Workers, Shard

LEMMA NoMemberOut == \A c \in Members : c # NoMember
  BY ConstantsAssumption

LEMMA WorkerType == \A w \in Workers : w[1] \in Members /\ w = <<w[1], w[2]>>
  BY DEF Workers

\* A key has one worker in each member.
LEMMA ShardOfKey ==
  \A c \in Members, e, m \in Msgs : Key[e] = Key[m] => Shard(c, e) = Shard(c, m)
  BY DEF Shard

LEMMA InitConsumer == Init => ConsumerInv
<1> SUFFICES ASSUME Init
             PROVE  ConsumerInv
  OBVIOUS
<1>2. TypeOK
  BY ConstantsAssumption DEF Init, TypeOK
<1>3. \A w \in Workers : WorkerOrder(w)
  BY DEF Init, WorkerOrder
<1>4. \A c \in Members : Claim(c)
  BY DEF Init, Claim, Msg
<1> QED
  BY <1>2, <1>3, <1>4 DEF Init, ConsumerInv

\* A worker that does not move keeps its order, as settled and passed messages
\* remain so.
LEMMA OrderStays ==
  ASSUME NEW w \in Workers, WorkerOrder(w),
         chs'[w] = chs[w], wpc'[w] = wpc[w], cur'[w] = cur[w],
         \A e \in Nat \ {0} : Settled(e) => Settled(e)',
         \A e \in Nat \ {0} : Passed(w[1], e) => Passed(w[1], e)'
  PROVE  WorkerOrder(w)'
<1>1. \A m : Follows(w[1], m) => Follows(w[1], m)'
  BY DEF Follows
<1>2. \A e : InHand(w, e) => InHand(w, e)'
  BY DEF InHand
<1>3. ASSUME NEW p \in 1 .. Len(chs[w]), Queued(w, p)
      PROVE  Queued(w, p)'
  BY <1>2, <1>3 DEF Queued
<1>4. wpc[w] = "handle" => Follows(w[1], cur[w])'
  BY <1>1 DEF WorkerOrder, Follows
<1> QED
  BY <1>3, <1>4 DEF WorkerOrder

\* The claim loop and the session, as far as they leave the workers alone.
ClaimOnly(c) ==
  Join(c) \/ RangeMessages(c) \/ Mark(c) \/ Leave(c) \/ Commit(c) \/ EndSession(c) \/ Stop(c)

LEMMA ClaimStep ==
  ASSUME ConsumerInv, NEW c \in Members, ClaimOnly(c)
  PROVE  ConsumerInv'
<1>t. TypeOK /\ Claim(c)
  BY DEF ConsumerInv
<1>1. UNCHANGED <<chs, wpc, cur, handled, lost>>
  BY DEF ClaimOnly, Join, RangeMessages, Mark, Leave, Commit, EndSession, Stop, workerVars
<1>2. TypeOK'
  <2> USE <1>1, <1>t, ConstantsAssumption DEF TypeOK, claimVars, Msg
  <2>1. CASE Join(c)
    BY <2>1 DEF Join
  <2>2. CASE RangeMessages(c)
    BY <2>2 DEF RangeMessages
  <2>3. CASE Mark(c)
    BY <2>3 DEF Mark, Claim, Msgs
  <2>4. CASE Leave(c) \/ Commit(c) \/ Stop(c)
    <3>1. CASE Leave(c)
      BY <3>1 DEF Leave
    <3>2. CASE Commit(c)
      BY <3>2 DEF Commit
    <3>3. CASE Stop(c)
      BY <3>3 DEF Stop
    <3> QED
      BY <2>4, <3>1, <3>2, <3>3
  <2>5. CASE EndSession(c)
    <3>1. committed' \in {committed, marked[c]} /\ owner' \in {owner, NoMember}
      BY <2>5 DEF EndSession
    <3>2. /\ next' = [next EXCEPT ![c] = 1] /\ marked' = [marked EXCEPT ![c] = 0]
          /\ cpc' = [cpc EXCEPT ![c] = "off"]
      BY <2>5 DEF EndSession
    <3> QED
      BY <3>1, <3>2
  <2> QED
    BY <2>1, <2>2, <2>3, <2>4, <2>5 DEF ClaimOnly
<1>3. \A e : (Settled(e)' <=> Settled(e)) /\ (Safe(e)' <=> Safe(e))
  BY <1>1 DEF Safe, Settled, Holds, InHand, Waiting
<1>4. \A d, e : Holds(d, e)' <=> Holds(d, e)
  BY <1>1 DEF Holds, InHand, Waiting
<1>5. /\ committed \in Nat /\ committed' \in Nat
      /\ committed' = committed \/ (owner = c /\ committed' = marked[c])
      /\ committed' = committed \/ owner' # c \/ Commit(c)
  BY <1>t, <1>2, ConstantsAssumption
     DEF TypeOK, ClaimOnly, Join, RangeMessages, Mark, Leave, Commit, EndSession, Stop
<1>6. committed <= committed'
  BY <1>5, <1>t DEF Claim
<1>7. \A e \in 1 .. committed' : Safe(e)'
  <2> SUFFICES ASSUME NEW e \in 1 .. committed', committed' # committed
               PROVE  Safe(e)
    BY <1>3 DEF ConsumerInv
  <2>1. e \in 1 .. marked[c] /\ marked[c] \in Nat /\ next[c] \in Nat
    BY <1>5, <1>t, ConstantsAssumption DEF TypeOK
  <2>2. e \in 1 .. next[c] - 1 /\ ~(cpc[c] = "send" /\ e = Msg(c))
    BY <2>1, <1>t DEF Claim, Msg
  <2>3. Given(c, e)
    BY <2>2, <1>t DEF Claim
  <2> QED
    BY <2>3, <2>1, <1>5 DEF Given, Safe, ConsumerInv
<1>8. \A d \in Members, e \in Nat : Given(d, e) => Given(d, e)'
  BY <1>3, <1>4, <1>5, <1>6 DEF Given
<1>9. ASSUME NEW d \in Members \ {c}
      PROVE  Claim(d)' /\ \A e \in Nat : Passed(d, e) => Passed(d, e)'
  <2>1. /\ cpc'[d] = cpc[d] /\ next'[d] = next[d] /\ marked'[d] = marked[d]
        /\ next[d] \in Nat /\ marked[d] \in Nat
        /\ owner' = d => owner = d
    BY <1>t, ConstantsAssumption, NoMemberOut
       DEF TypeOK, ClaimOnly, Join, RangeMessages, Mark, Leave, Commit, EndSession, Stop, claimVars
  <2>2. owner' = d => committed' <= marked'[d]
    BY <2>1, <1>5 DEF ConsumerInv, Claim
  <2>3. \A e \in Nat : Passed(d, e) => Passed(d, e)'
    BY <2>1, <1>4, <1>5, <1>6 DEF Passed, Msg
  <2>4. Claim(d)
    BY DEF ConsumerInv
  <2> QED
    BY <2>1, <2>2, <2>3, <2>4, <1>8 DEF Claim, Msg
<1>10. Claim(c)' /\ \A e \in Nat : Passed(c, e) => Passed(c, e)'
  <2>0. /\ cpc \in [Members -> {"off", "range", "send", "mark", "ended"}]
        /\ next \in [Members -> 1 .. MaxMsg + 1] /\ marked \in [Members -> 0 .. MaxMsg]
        /\ next[c] \in Nat /\ marked[c] \in Nat /\ MaxMsg \in Nat
    BY <1>t, ConstantsAssumption DEF TypeOK
  <2>1. CASE Join(c)
    <3>1. /\ next'[c] = committed + 1 /\ marked'[c] = committed /\ cpc'[c] = "range"
          /\ committed' = committed
      BY <2>0, <2>1 DEF Join
    <3> QED
      BY <3>1, <1>4, <1>5 DEF Claim, Msg, Given, Passed
  <2>2. CASE RangeMessages(c)
    <3>1. /\ next'[c] = next[c] + 1 /\ marked'[c] = marked[c] /\ cpc'[c] = "send"
          /\ committed' = committed /\ owner' = owner /\ cpc[c] = "range" /\ next[c] <= MaxMsg
      BY <2>0, <2>2 DEF RangeMessages
    <3>2. Claim(c)'
      BY <3>1, <2>0, <1>t, <1>8 DEF Claim, Msg, Msgs
    <3>3. \A e \in Nat : Passed(c, e) => Passed(c, e)'
      BY <3>1, <2>0, <1>4 DEF Passed, Msg
    <3> QED
      BY <3>2, <3>3
  <2>3. CASE Mark(c)
    <3>1. /\ next'[c] = next[c] /\ marked'[c] = Msg(c) /\ cpc'[c] = "range"
          /\ committed' = committed /\ owner' = owner /\ cpc[c] = "mark"
      BY <2>0, <2>3, <1>t DEF Mark, Claim, Msg
    <3>2. Claim(c)'
      <4>1. owner' = c => committed' <= marked'[c]
        BY <3>1, <2>0, <1>t, <1>5 DEF Claim, Msg
      <4> QED
        BY <3>1, <4>1, <2>0, <1>t, <1>8 DEF Claim, Msg
    <3>3. \A e \in Nat : Passed(c, e) => Passed(c, e)'
      BY <3>1, <2>0, <1>4 DEF Passed, Msg
    <3> QED
      BY <3>2, <3>3
  <2>4. CASE EndSession(c)
    <3>1. /\ next'[c] = 1 /\ marked'[c] = 0 /\ cpc'[c] = "off" /\ owner' # c
      BY <2>0, <2>4, NoMemberOut DEF EndSession
    <3> QED
      BY <3>1, <1>4, <1>5, <1>6 DEF Claim, Msg, Passed
  <2>5. CASE Leave(c) \/ Commit(c) \/ Stop(c)
    <3>1. /\ next'[c] = next[c] /\ marked'[c] = marked[c] /\ owner' = owner
          /\ cpc'[c] = cpc[c] \/ (cpc[c] = "off" /\ cpc'[c] = "ended")
      BY <2>0, <2>5 DEF Leave, Commit, Stop, claimVars
    <3>2. owner' = c => committed' <= marked'[c]
      BY <3>1, <1>5, <1>t, <2>0 DEF Claim
    <3>3. Claim(c)'
      BY <3>1, <3>2, <1>8, <1>t, <2>0 DEF Claim, Msg
    <3>4. \A e \in Nat : Passed(c, e) => Passed(c, e)'
      BY <3>1, <1>4, <1>5, <1>6 DEF Passed, Msg
    <3> QED
      BY <3>3, <3>4
  <2> QED
    BY <2>1, <2>2, <2>3, <2>4, <2>5 DEF ClaimOnly
<1>11. \A w \in Workers : WorkerOrder(w)'
  BY <1>1, <1>3, <1>9, <1>10, WorkerType, OrderStays DEF ConsumerInv
<1> QED
  BY <1>2, <1>7, <1>9, <1>10, <1>11 DEF ConsumerInv

\* The broker's eviction changes no member.
LEMMA EvictStep ==
  ASSUME ConsumerInv, Evict
  PROVE  ConsumerInv'
<1>1. /\ UNCHANGED <<committed, marked, next, cpc, chs, wpc, cur, handled, lost>>
      /\ owner' = NoMember
  BY DEF Evict, claimVars, workerVars
<1>2. TypeOK'
  BY <1>1 DEF ConsumerInv, TypeOK
<1>3. \A c, e : /\ (Settled(e)' <=> Settled(e)) /\ (Holds(c, e)' <=> Holds(c, e))
                /\ (Safe(e)' <=> Safe(e))
  BY <1>1 DEF Settled, Holds, InHand, Waiting, Safe
<1>4. \A c, e : (Passed(c, e)' <=> Passed(c, e)) /\ (Given(c, e)' <=> Given(c, e))
  BY <1>1, <1>3 DEF Passed, Given, Msg
<1>5. \A c \in Members : Claim(c)'
  BY <1>1, <1>4, NoMemberOut DEF ConsumerInv, Claim, Msg
<1>6. \A w \in Workers : WorkerOrder(w)'
  BY <1>1, <1>3, <1>4, OrderStays DEF ConsumerInv
<1> QED
  BY <1>1, <1>2, <1>3, <1>5, <1>6 DEF ConsumerInv

\* The claim loop appends a message behind everything older of its key.
LEMMA SendStep ==
  ASSUME ConsumerInv, NEW c \in Members, Send(c)
  PROVE  ConsumerInv'
<1>t. TypeOK /\ Claim(c)
  BY DEF ConsumerInv
<1>0. Msg(c) \in Msgs /\ cpc[c] = "send"
  BY <1>t DEF Claim, Send
<1>m. PICK m \in Msgs : m = Msg(c) /\ m \in Nat /\ next[c] = m + 1
  BY <1>0, <1>t, ConstantsAssumption DEF TypeOK, Msg, Msgs
<1>w. PICK w \in Workers : w = Shard(c, m) /\ w[1] = c
  BY ShardType
<1>n. PICK len \in Nat : len = Len(chs[w])
  BY <1>t DEF TypeOK
<1>1. /\ len < Cap
      /\ chs' = [chs EXCEPT ![w] = Append(chs[w], m)]
      /\ cpc' = [cpc EXCEPT ![c] = "mark"]
      /\ UNCHANGED <<committed, owner, marked, next, wpc, cur, handled, lost>>
  BY <1>m, <1>w, <1>n DEF Send
<1>2. cpc'[c] = "mark" /\ \A d \in Members \ {c} : cpc'[d] = cpc[d]
  BY <1>1, <1>t DEF TypeOK
<1>3. /\ chs \in [Workers -> Seq(Msgs)] /\ chs'[w] = Append(chs[w], m) /\ chs[w] \in Seq(Msgs)
      /\ Len(chs'[w]) = len + 1 /\ chs'[w][len + 1] = m
      /\ \A q \in 1 .. len : chs'[w][q] = chs[w][q]
      /\ \A v \in Workers \ {w} : chs'[v] = chs[v]
  BY <1>1, <1>n, <1>t DEF TypeOK
<1>4. TypeOK'
  <2>1. chs' \in [Workers -> Seq(Msgs)]
    BY <1>1, <1>3
  <2>2. \A v \in Workers : Len(chs'[v]) <= Cap
    BY <1>1, <1>3, <1>t, ConstantsAssumption DEF TypeOK
  <2> QED
    BY <1>1, <1>t, <2>1, <2>2 DEF TypeOK
<1>5. \A v, e : InHand(v, e)' <=> InHand(v, e)
  BY <1>1 DEF InHand
<1>6. \A v \in Workers, e \in Msgs : Waiting(v, e)' <=> Waiting(v, e) \/ (v = w /\ e = m)
  <2> SUFFICES ASSUME NEW v \in Workers, NEW e \in Msgs
               PROVE  Waiting(v, e)' <=> Waiting(v, e) \/ (v = w /\ e = m)
    OBVIOUS
  <2>1. CASE v # w
    BY <2>1, <1>3 DEF Waiting
  <2>2. CASE v = w
    <3>1. Waiting(w, e) => Waiting(w, e)'
      BY <1>3, <1>n DEF Waiting
    <3>2. e = m => Waiting(w, e)'
      BY <1>3, <1>n DEF Waiting
    <3>3. ASSUME NEW q \in 1 .. len + 1, chs'[w][q] = e
          PROVE  Waiting(w, e) \/ e = m
      BY <1>3, <1>n, <3>3 DEF Waiting
    <3> QED
      BY <2>2, <1>3, <3>1, <3>2, <3>3 DEF Waiting
  <2> QED
    BY <2>1, <2>2
<1>7. \A d \in Members, e \in Msgs : Holds(d, e)' <=> Holds(d, e) \/ (d = c /\ e = m)
  BY <1>5, <1>6, <1>w, ShardType DEF Holds
<1>8. \A e : Settled(e)' <=> Settled(e)
  BY <1>1 DEF Settled
<1>c. /\ committed \in Nat /\ committed <= MaxMsg /\ 1 .. committed \subseteq Msgs
      /\ \A d \in Members : next[d] \in Nat /\ 1 .. next[d] - 1 \subseteq Msgs
  BY <1>t, ConstantsAssumption DEF TypeOK, Msgs
<1>9. \A e \in 1 .. committed : Safe(e)'
  BY <1>7, <1>8, <1>c DEF ConsumerInv, Safe
<1>10. ASSUME NEW d \in Members
       PROVE  Claim(d)'
  <2>1. Claim(d)
    BY DEF ConsumerInv
  <2>2. \A e \in 1 .. next[d] - 1 : Given(d, e) => Given(d, e)'
    BY <1>1, <1>7, <1>8, <1>c DEF Given
  <2>3. CASE d = c
    <3>1. Given(c, m)'
      BY <1>7 DEF Given
    <3> QED
      BY <2>1, <2>2, <2>3, <3>1, <1>1, <1>2, <1>m DEF Claim, Msg
  <2>4. CASE d # c
    BY <2>1, <2>2, <2>4, <1>1, <1>2 DEF Claim, Msg
  <2> QED
    BY <2>3, <2>4
<1>11. \A d \in Members, e \in Msgs : Passed(d, e) => Passed(d, e)'
  <2> SUFFICES ASSUME NEW d \in Members, NEW e \in Msgs, Passed(d, e)
               PROVE  Passed(d, e)'
    OBVIOUS
  <2>1. CASE d = c
    <3>1. e < m /\ e <= committed /\ ~Holds(c, e) /\ e \in Nat
      BY <2>1, <1>0, <1>m, ConstantsAssumption DEF Passed, Msgs
    <3> QED
      BY <2>1, <3>1, <1>1, <1>2, <1>7, <1>m DEF Passed
  <2>2. CASE d # c
    BY <2>2, <1>1, <1>2, <1>7 DEF Passed, Msg
  <2> QED
    BY <2>1, <2>2
<1>12. \A d \in Members, e \in Nat \ {0} : Passed(d, e) => Passed(d, e)'
  <2>1. \A e \in Nat \ {0} : e <= committed => e \in Msgs
    BY <1>c DEF Msgs
  <2> QED
    BY <2>1, <1>11 DEF Passed
<1>13. ASSUME NEW v \in Workers
       PROVE  WorkerOrder(v)'
  <2>0. WorkerOrder(v) /\ v[1] \in Members
    BY WorkerType DEF ConsumerInv
  <2>1. CASE v # w
    BY <2>0, <2>1, <1>1, <1>3, <1>8, <1>12, OrderStays
  <2>2. CASE v = w
    <3>1. wpc'[w] = "handle" => /\ cur'[w] \in Msgs /\ Shard(w[1], cur'[w]) = w
                                /\ Follows(w[1], cur[w])'
      BY <2>0, <2>2, <1>1, <1>8, <1>12 DEF WorkerOrder, Follows
    <3>2. ASSUME NEW p \in 1 .. len
          PROVE  Shard(c, chs'[w][p]) = w /\ Queued(w, p)'
      <4>1. Shard(c, chs[w][p]) = w /\ Queued(w, p) /\ chs[w][p] \in Nat
        BY <2>0, <2>2, <1>3, <1>n, <1>w, ConstantsAssumption DEF WorkerOrder, Msgs
      <4>2. \A q \in 1 .. p : chs'[w][q] = chs[w][q]
        BY <1>3, <1>n
      <4> QED
        BY <4>1, <4>2, <1>5, <1>8, <1>12, <1>w DEF Queued
    <3>3. ASSUME NEW e \in 1 .. m - 1, Key[e] = Key[m]
          PROVE  \/ Settled(e)' \/ InHand(w, e)' \/ Passed(c, e)'
                 \/ \E q \in 1 .. len : chs'[w][q] = e
      <4>1. e \in Msgs /\ Shard(c, e) = w /\ e # m /\ e \in 1 .. next[c] - 1 /\ e \in Nat
        BY <1>m, <1>w, <3>3, ShardOfKey, ConstantsAssumption DEF Msgs
      <4>2. Given(c, e)
        BY <1>m, <1>t, <4>1 DEF Claim
      <4>3. CASE Holds(c, e)
        BY <4>1, <4>3, <1>3, <1>5, <1>n DEF Holds, Waiting
      <4>4. CASE ~Holds(c, e) /\ e <= committed
        BY <4>1, <4>4, <1>1, <1>2, <1>7, <1>m DEF Passed
      <4> QED
        BY <4>2, <4>3, <4>4, <1>8 DEF Given
    <3>4. Queued(w, len + 1)'
      BY <1>3, <1>w, <3>3 DEF Queued
    <3>5. Shard(c, chs'[w][len + 1]) = w
      BY <1>3, <1>w
    <3>6. ASSUME NEW p \in 1 .. Len(chs'[w])
          PROVE  Shard(c, chs'[w][p]) = w /\ Queued(w, p)'
      <4>1. p \in 1 .. len \/ p = len + 1
        BY <1>3
      <4> QED
        BY <4>1, <3>2, <3>4, <3>5
    <3> QED
      BY <2>2, <3>1, <3>6, <1>w DEF WorkerOrder
  <2> QED
    BY <2>1, <2>2
<1> QED
  BY <1>1, <1>4, <1>9, <1>10, <1>13 DEF ConsumerInv

\* A crash settles the committed messages that only its member had, and forgets
\* the rest of what it had.
LEMMA CrashStep ==
  ASSUME ConsumerInv, NEW c \in Members, Crash(c)
  PROVE  ConsumerInv'
<1>t. TypeOK
  BY DEF ConsumerInv
<1>1. /\ chs' = [w \in Workers |-> IF w[1] = c THEN <<>> ELSE chs[w]]
      /\ wpc' = [w \in Workers |-> IF w[1] = c THEN "recv" ELSE wpc[w]]
      /\ cur' = [w \in Workers |-> IF w[1] = c THEN 0 ELSE cur[w]]
      /\ marked' = [marked EXCEPT ![c] = 0] /\ next' = [next EXCEPT ![c] = 1]
      /\ cpc' = [cpc EXCEPT ![c] = "off"]
      /\ lost' = lost \union OnlyIn(c) /\ owner' = IF owner = c THEN NoMember ELSE owner
      /\ UNCHANGED <<committed, handled>>
  BY DEF Crash
<1>2. /\ \A w \in Workers : w[1] = c => chs'[w] = <<>> /\ wpc'[w] = "recv" /\ cur'[w] = 0
      /\ \A w \in Workers : w[1] # c => chs'[w] = chs[w] /\ wpc'[w] = wpc[w] /\ cur'[w] = cur[w]
  BY <1>1
<1>3. /\ marked'[c] = 0 /\ next'[c] = 1 /\ cpc'[c] = "off" /\ owner' # c
      /\ \A d \in Members \ {c} : /\ marked'[d] = marked[d] /\ next'[d] = next[d]
                                  /\ cpc'[d] = cpc[d] /\ (owner' = d => owner = d)
  BY <1>1, <1>t, NoMemberOut DEF TypeOK
<1>c. /\ committed \in Nat /\ 1 .. committed \subseteq Msgs /\ OnlyIn(c) \subseteq Msgs
      /\ \A d \in Members : 1 .. next[d] - 1 \subseteq Msgs
  BY <1>t, ConstantsAssumption DEF TypeOK, Msgs, OnlyIn
<1>4. TypeOK'
  <2>1. /\ chs' \in [Workers -> Seq(Msgs)] /\ wpc' \in [Workers -> {"recv", "handle", "dead"}]
        /\ cur' \in [Workers -> 0 .. MaxMsg]
    BY <1>1, <1>t, ConstantsAssumption DEF TypeOK
  <2>2. \A w \in Workers : Len(chs'[w]) <= Cap
    <3> SUFFICES ASSUME NEW w \in Workers
                 PROVE  Len(chs'[w]) <= Cap
      OBVIOUS
    <3>1. CASE w[1] = c
      <4>1. Len(chs'[w]) = 0
        BY <3>1, <1>2
      <4> QED
        BY <4>1, ConstantsAssumption
    <3>2. CASE w[1] # c
      BY <3>2, <1>2, <1>t DEF TypeOK
    <3> QED
      BY <3>1, <3>2
  <2>3. /\ marked' \in [Members -> 0 .. MaxMsg] /\ next' \in [Members -> 1 .. MaxMsg + 1]
        /\ cpc' \in [Members -> {"off", "range", "send", "mark", "ended"}]
    BY <1>1, <1>t, ConstantsAssumption DEF TypeOK
  <2> QED
    BY <1>1, <1>t, <1>c, <2>1, <2>2, <2>3 DEF TypeOK
<1>5. \A e : Settled(e) => Settled(e)'
  BY <1>1 DEF Settled
<1>6. \A d \in Members \ {c}, e \in Msgs : Holds(d, e)' <=> Holds(d, e)
  BY <1>2, ShardType DEF Holds, InHand, Waiting
<1>7. ASSUME NEW e \in 1 .. committed
      PROVE  Safe(e)'
  <2>1. CASE \E d \in Members \ {c} : Holds(d, e)
    BY <2>1, <1>6, <1>c DEF Safe
  <2>2. CASE \A d \in Members \ {c} : ~Holds(d, e)
    BY <2>2, <1>1 DEF OnlyIn, Safe, Settled
  <2> QED
    BY <2>1, <2>2
<1>8. ASSUME NEW d \in Members
      PROVE  Claim(d)'
  <2>1. CASE d = c
    BY <2>1, <1>3 DEF Claim, Msg
  <2>2. CASE d # c
    <3>1. Claim(d) /\ \A e \in 1 .. next[d] - 1 : Given(d, e) => Given(d, e)'
      BY <2>2, <1>1, <1>5, <1>6, <1>c DEF ConsumerInv, Given
    <3> QED
      BY <2>2, <3>1, <1>1, <1>3 DEF Claim, Msg
  <2> QED
    BY <2>1, <2>2
<1>9. ASSUME NEW w \in Workers
      PROVE  WorkerOrder(w)'
  <2>1. CASE w[1] = c
    BY <2>1, <1>2 DEF WorkerOrder
  <2>2. CASE w[1] # c
    <3>1. \A e \in Nat \ {0} : Passed(w[1], e) => Passed(w[1], e)'
      <4>1. w[1] \in Members \ {c} /\ \A e \in Nat \ {0} : e <= committed => e \in Msgs
        BY <2>2, <1>c, WorkerType
      <4> QED
        BY <4>1, <1>1, <1>3, <1>6 DEF Passed, Msg
    <3> QED
      BY <2>2, <3>1, <1>2, <1>5, OrderStays DEF ConsumerInv
  <2> QED
    BY <2>1, <2>2
<1> QED
  BY <1>1, <1>4, <1>7, <1>8, <1>9 DEF ConsumerInv

\* What a worker's step has to show: its member gets no message it did not have
\* and keeps the others until they are settled, and the worker keeps its order.
LEMMA WorkStep ==
  ASSUME NEW w \in Workers, ConsumerInv, TypeOK', WorkerOrder(w)',
         UNCHANGED <<committed, owner, claimVars, lost>>, handled \subseteq handled',
         \A v \in Workers \ {w} : chs'[v] = chs[v] /\ wpc'[v] = wpc[v] /\ cur'[v] = cur[v],
         \A e \in Msgs : InHand(w, e) \/ Waiting(w, e) =>
           InHand(w, e)' \/ Waiting(w, e)' \/ Settled(e)',
         \A e \in Msgs : InHand(w, e)' \/ Waiting(w, e)' => InHand(w, e) \/ Waiting(w, e)
  PROVE  ConsumerInv'
<1>1. \A e : Settled(e) => Settled(e)'
  BY DEF Settled
<1>2. \A v \in Workers \ {w}, e \in Msgs :
        (InHand(v, e)' <=> InHand(v, e)) /\ (Waiting(v, e)' <=> Waiting(v, e))
  BY DEF InHand, Waiting
<1>3. \A c \in Members, e \in Msgs :
        (Holds(c, e) => Holds(c, e)' \/ Settled(e)') /\ (Holds(c, e)' => Holds(c, e))
  BY <1>2, ShardType DEF Holds
<1>c. /\ committed \in Nat /\ 1 .. committed \subseteq Msgs
      /\ \A d \in Members : 1 .. next[d] - 1 \subseteq Msgs
      /\ \A e \in Nat \ {0} : e <= committed => e \in Msgs
  BY ConstantsAssumption DEF ConsumerInv, TypeOK, Msgs
<1>4. \A e \in 1 .. committed : Safe(e)'
  BY <1>1, <1>3, <1>c DEF ConsumerInv, Safe
<1>5. ASSUME NEW c \in Members
      PROVE  Claim(c)' /\ \A e \in Nat \ {0} : Passed(c, e) => Passed(c, e)'
  <2>1. \A e \in 1 .. next[c] - 1 : Given(c, e) => Given(c, e)'
    BY <1>1, <1>3, <1>c DEF Given
  <2>2. Claim(c)'
    BY <2>1 DEF ConsumerInv, Claim, claimVars, Msg
  <2> QED
    BY <2>2, <1>3, <1>c DEF Passed, claimVars, Msg
<1>6. ASSUME NEW v \in Workers \ {w}
      PROVE  WorkerOrder(v)'
  BY <1>1, <1>5, WorkerType, OrderStays DEF ConsumerInv
<1> QED
  BY <1>4, <1>5, <1>6 DEF ConsumerInv

\* The head of a channel follows every older message of its key.
LEMMA HeadFollows ==
  ASSUME NEW w \in Workers, ConsumerInv, wpc[w] = "recv", chs[w] # <<>>
  PROVE  /\ chs[w][1] \in Msgs /\ Shard(w[1], chs[w][1]) = w /\ Follows(w[1], chs[w][1])
         /\ Head(chs[w]) = chs[w][1] /\ Len(chs[w]) > 0
<1>1. chs[w] \in Seq(Msgs) /\ Len(chs[w]) > 0
  BY DEF ConsumerInv, TypeOK
<1>2. chs[w][1] \in Msgs /\ Head(chs[w]) = chs[w][1]
  BY <1>1
<1>3. Shard(w[1], chs[w][1]) = w /\ Queued(w, 1)
  BY <1>1 DEF ConsumerInv, WorkerOrder
<1>4. Follows(w[1], chs[w][1])
  BY <1>3 DEF Queued, Follows, InHand
<1> QED
  BY <1>1, <1>2, <1>3, <1>4

LEMMA ReceiveStep ==
  ASSUME NEW w \in Workers, ConsumerInv, Receive(w)
  PROVE  ConsumerInv'
<1>1. /\ wpc[w] = "recv" /\ chs[w] # <<>>
      /\ chs' = [chs EXCEPT ![w] = Tail(chs[w])]
      /\ UNCHANGED <<committed, owner, claimVars, lost>>
  BY DEF Receive
<1>t. TypeOK /\ w[1] \in Members
  BY WorkerType DEF ConsumerInv
<1>2. PICK h \in Msgs : /\ h = chs[w][1] /\ h = Head(chs[w])
                        /\ Shard(w[1], h) = w /\ Follows(w[1], h)
  BY <1>1, HeadFollows
<1>3. /\ chs[w] \in Seq(Msgs) /\ Len(chs[w]) > 0 /\ chs'[w] = Tail(chs[w])
      /\ Len(chs'[w]) = Len(chs[w]) - 1
      /\ \A p \in 1 .. Len(chs'[w]) : chs'[w][p] = chs[w][p + 1]
  BY <1>1, <1>t, HeadFollows DEF TypeOK
<1>4. \/ handled' = handled \union {h} /\ wpc' = wpc /\ cur' = cur
      \/ /\ wpc' = [wpc EXCEPT ![w] = "handle"] /\ cur' = [cur EXCEPT ![w] = h]
         /\ handled' = handled
  BY <1>2 DEF Receive
<1>5. Settled(h)' \/ InHand(w, h)'
  BY <1>t, <1>4 DEF Settled, InHand, TypeOK
<1>6. TypeOK'
  <2>1. chs' \in [Workers -> Seq(Msgs)] /\ \A v \in Workers : Len(chs'[v]) <= Cap
    <3>1. Tail(chs[w]) \in Seq(Msgs)
      BY <1>1, <1>3
    <3>2. chs' \in [Workers -> Seq(Msgs)]
      BY <1>1, <1>t, <3>1 DEF TypeOK
    <3>3. ASSUME NEW v \in Workers
          PROVE  Len(chs'[v]) <= Cap
      <4>1. CASE v = w
        BY <1>3, <1>t, <4>1, ConstantsAssumption DEF TypeOK
      <4>2. CASE v # w
        BY <1>1, <1>t, <4>2 DEF TypeOK
      <4> QED
        BY <4>1, <4>2
    <3> QED
      BY <3>2, <3>3
  <2>2. /\ wpc' \in [Workers -> {"recv", "handle", "dead"}] /\ cur' \in [Workers -> 0 .. MaxMsg]
        /\ handled' \subseteq Msgs
    <3>1. h \in 0 .. MaxMsg
      BY ConstantsAssumption DEF Msgs
    <3> QED
      BY <1>4, <1>t, <3>1 DEF TypeOK
  <2> QED
    BY <1>1, <1>t, <2>1, <2>2 DEF TypeOK, claimVars
<1>7. ASSUME NEW e \in Msgs, InHand(w, e) \/ Waiting(w, e)
      PROVE  InHand(w, e)' \/ Waiting(w, e)' \/ Settled(e)'
  <2>1. PICK q \in 1 .. Len(chs[w]) : chs[w][q] = e
    BY <1>1, <1>7 DEF InHand, Waiting
  <2>2. CASE q = 1
    BY <2>1, <2>2, <1>2, <1>5
  <2>3. CASE q > 1
    <3>1. q - 1 \in 1 .. Len(chs'[w]) /\ chs'[w][q - 1] = e
      BY <2>1, <2>3, <1>3
    <3> QED
      BY <3>1 DEF Waiting
  <2> QED
    BY <2>2, <2>3
<1>8. ASSUME NEW e \in Msgs, InHand(w, e)' \/ Waiting(w, e)'
      PROVE  InHand(w, e) \/ Waiting(w, e)
  <2>1. CASE InHand(w, e)'
    <3>1. e = h
      BY <2>1, <1>1, <1>4, <1>t DEF InHand, TypeOK
    <3> QED
      BY <3>1, <1>2, <1>3 DEF Waiting
  <2>2. ASSUME NEW q \in 1 .. Len(chs'[w]), chs'[w][q] = e
        PROVE  Waiting(w, e)
    <3>1. q + 1 \in 1 .. Len(chs[w]) /\ chs[w][q + 1] = e
      BY <2>2, <1>3
    <3> QED
      BY <3>1 DEF Waiting
  <2> QED
    BY <1>8, <2>1, <2>2 DEF Waiting
<1>9. /\ handled \subseteq handled'
      /\ \A v \in Workers \ {w} : chs'[v] = chs[v] /\ wpc'[v] = wpc[v] /\ cur'[v] = cur[v]
  BY <1>1, <1>2, <1>4, <1>t DEF TypeOK
<1>10. \A e : Settled(e) => Settled(e)'
  BY <1>1, <1>9 DEF Settled
<1>11. \A e \in Nat \ {0} : Passed(w[1], e) => Passed(w[1], e)'
  <2>1. \A e \in Nat \ {0} : e <= committed => e \in Msgs
    BY <1>t, ConstantsAssumption DEF TypeOK, Msgs
  <2>2. \A e \in Msgs : Holds(w[1], e)' => Holds(w[1], e)
    <3> SUFFICES ASSUME NEW e \in Msgs, Holds(w[1], e)'
                 PROVE  Holds(w[1], e)
      OBVIOUS
    <3>1. CASE Shard(w[1], e) = w
      BY <3>1, <1>8 DEF Holds
    <3>2. CASE Shard(w[1], e) # w
      BY <3>2, <1>t, <1>9, ShardType DEF Holds, InHand, Waiting
    <3> QED
      BY <3>1, <3>2
  <2> QED
    BY <2>1, <2>2, <1>1 DEF Passed, claimVars, Msg
<1>12. WorkerOrder(w)'
  <2>1. wpc'[w] = "handle" => /\ cur'[w] \in Msgs /\ Shard(w[1], cur'[w]) = w
                              /\ Follows(w[1], cur[w])'
    <3>1. wpc'[w] = "handle" => cur'[w] = h
      BY <1>1, <1>4, <1>t DEF TypeOK
    <3>2. Follows(w[1], h)'
      BY <1>2, <1>10, <1>11 DEF Follows
    <3> QED
      BY <1>2, <3>1, <3>2 DEF Follows
  <2>2. ASSUME NEW p \in 1 .. Len(chs'[w])
        PROVE  Shard(w[1], chs'[w][p]) = w /\ Queued(w, p)'
    <3>1. p + 1 \in 1 .. Len(chs[w]) /\ chs'[w][p] = chs[w][p + 1]
      BY <1>3, <2>2
    <3>2. Shard(w[1], chs[w][p + 1]) = w /\ Queued(w, p + 1)
      BY <3>1 DEF ConsumerInv, WorkerOrder
    <3>3. ASSUME NEW e \in 1 .. chs[w][p + 1] - 1, Key[e] = Key[chs[w][p + 1]]
          PROVE  \/ Settled(e)' \/ InHand(w, e)' \/ Passed(w[1], e)'
                 \/ \E q \in 1 .. p - 1 : chs'[w][q] = e
      <4>1. CASE Settled(e) \/ Passed(w[1], e)
        BY <4>1, <1>10, <1>11
      <4>2. ASSUME NEW q \in 1 .. p, chs[w][q] = e
            PROVE  Settled(e)' \/ InHand(w, e)' \/ \E r \in 1 .. p - 1 : chs'[w][r] = e
        <5>1. CASE q = 1
          BY <5>1, <4>2, <1>2, <1>5
        <5>2. CASE q > 1
          <6>1. q - 1 \in 1 .. p - 1 /\ chs'[w][q - 1] = e
            BY <5>2, <4>2, <1>3, <2>2
          <6> QED
            BY <6>1
        <5> QED
          BY <5>1, <5>2
      <4>3. ~InHand(w, e)
        BY <1>1 DEF InHand
      <4> QED
        BY <3>2, <3>3, <4>1, <4>2, <4>3 DEF Queued
    <3> QED
      BY <3>1, <3>2, <3>3 DEF Queued
  <2> QED
    BY <2>1, <2>2 DEF WorkerOrder
<1> QED
  BY <1>1, <1>6, <1>7, <1>8, <1>9, <1>12, WorkStep

\* The handler returns or panics: its message is settled, after the older ones.
LEMMA HandleStep ==
  ASSUME NEW w \in Workers, ConsumerInv, Handle(w) \/ Panic(w)
  PROVE  ConsumerInv'
<1>t. TypeOK /\ w[1] \in Members
  BY WorkerType DEF ConsumerInv
<1>x. PICK x \in {"recv", "dead"} : wpc' = [wpc EXCEPT ![w] = x]
  BY DEF Handle, Panic
<1>1. /\ wpc[w] = "handle" /\ wpc'[w] \in {"recv", "dead"}
      /\ wpc' = [wpc EXCEPT ![w] = x] /\ cur' = [cur EXCEPT ![w] = 0]
      /\ handled' = handled \union {cur[w]}
      /\ UNCHANGED <<committed, owner, claimVars, lost, chs>>
  BY <1>t, <1>x DEF Handle, Panic, TypeOK
<1>2. cur[w] \in Msgs
  BY <1>1 DEF ConsumerInv, WorkerOrder
<1>3. TypeOK'
  <2>1. /\ wpc' \in [Workers -> {"recv", "handle", "dead"}] /\ cur' \in [Workers -> 0 .. MaxMsg]
        /\ handled' \subseteq Msgs
    BY <1>1, <1>2, <1>t, ConstantsAssumption DEF TypeOK
  <2> QED
    BY <1>1, <1>t, <2>1 DEF TypeOK, claimVars
<1>4. \A e : Settled(e) \/ InHand(w, e) => Settled(e)'
  BY <1>1 DEF Settled, InHand
<1>5. ~ \E e : InHand(w, e)'
  BY <1>1 DEF InHand
<1>6. \A e : Waiting(w, e)' <=> Waiting(w, e)
  BY <1>1 DEF Waiting
<1>7. /\ handled \subseteq handled'
      /\ \A v \in Workers \ {w} : chs'[v] = chs[v] /\ wpc'[v] = wpc[v] /\ cur'[v] = cur[v]
  BY <1>1, <1>t DEF TypeOK
<1>8. \A e \in Nat \ {0} : Passed(w[1], e) => Passed(w[1], e)'
  <2>1. \A e \in Nat \ {0} : e <= committed => e \in Msgs
    BY <1>t, ConstantsAssumption DEF TypeOK, Msgs
  <2>2. \A e \in Msgs : Holds(w[1], e)' => Holds(w[1], e)
    <3> SUFFICES ASSUME NEW e \in Msgs, Holds(w[1], e)'
                 PROVE  Holds(w[1], e)
      OBVIOUS
    <3>1. CASE Shard(w[1], e) = w
      BY <3>1, <1>5, <1>6 DEF Holds
    <3>2. CASE Shard(w[1], e) # w
      BY <3>2, <1>t, <1>7, ShardType DEF Holds, InHand, Waiting
    <3> QED
      BY <3>1, <3>2
  <2> QED
    BY <2>1, <2>2, <1>1 DEF Passed, claimVars, Msg
<1>9. WorkerOrder(w)'
  <2>1. ASSUME NEW p \in 1 .. Len(chs[w])
        PROVE  Shard(w[1], chs[w][p]) = w /\ Queued(w, p)'
    <3>1. Shard(w[1], chs[w][p]) = w /\ Queued(w, p)
      BY DEF ConsumerInv, WorkerOrder
    <3> QED
      BY <1>1, <1>4, <1>8, <3>1 DEF Queued
  <2> QED
    BY <1>1, <2>1 DEF WorkerOrder
<1> QED
  BY <1>1, <1>3, <1>4, <1>5, <1>6, <1>7, <1>9, WorkStep

LEMMA NextConsumer == ConsumerInv /\ [Next]_vars => ConsumerInv'
<1> SUFFICES ASSUME ConsumerInv, [Next]_vars
             PROVE  ConsumerInv'
  OBVIOUS
<1>1. ASSUME NEW c \in Members,
             Consume(c) \/ Commit(c) \/ EndSession(c) \/ Stop(c) \/ Crash(c)
      PROVE  ConsumerInv'
  BY <1>1, ClaimStep, SendStep, CrashStep DEF Consume, ClaimOnly
<1>2. CASE Evict
  BY <1>2, EvictStep
<1>3. ASSUME NEW w \in Workers, Work(w)
      PROVE  ConsumerInv'
  BY <1>3, ReceiveStep, HandleStep DEF Work
<1>4. CASE UNCHANGED vars
  BY <1>4 DEF vars, claimVars, workerVars, ConsumerInv, TypeOK, Safe, Settled, Holds, InHand,
              Waiting, Given, Claim, Msg, Passed, WorkerOrder, Follows, Queued
<1> QED
  BY <1>1, <1>2, <1>3, <1>4 DEF Next

LEMMA ConsumerCorrect == Spec => []ConsumerInv
  BY InitConsumer, NextConsumer, PTL DEF Spec

\* For any group, partition, sharding and capacity, and through any rebalances,
\* redeliveries, panics and restarts: a handler gets a message only after the
\* older ones of its key, unless a crash has lost them or they are committed and
\* still wait in another member.
THEOREM KeysInOrder == Spec => []KeyInOrder
<1>1. ConsumerInv => KeyInOrder
  <2> SUFFICES ASSUME ConsumerInv, NEW w \in Workers,
                      wpc[w] = "handle", NEW e \in 1 .. cur[w] - 1, Key[e] = Key[cur[w]]
               PROVE  \/ e \in handled \union lost
                      \/ e <= committed /\ \E d \in Members \ {w[1]} : Holds(d, e)
    BY DEF KeyInOrder
  <2>1. cur[w] \in Nat /\ Follows(w[1], cur[w])
    BY ConstantsAssumption DEF ConsumerInv, WorkerOrder, Msgs
  <2>2. Settled(e) \/ Passed(w[1], e)
    BY <2>1 DEF Follows
  <2>3. ASSUME Passed(w[1], e)
        PROVE  e <= committed /\ (Settled(e) \/ \E d \in Members \ {w[1]} : Holds(d, e))
    <3>1. e \in 1 .. committed /\ ~Holds(w[1], e)
      BY <2>1, <2>3, ConstantsAssumption DEF Passed, ConsumerInv, TypeOK
    <3> QED
      BY <3>1 DEF ConsumerInv, Safe
  <2> QED
    BY <2>2, <2>3 DEF Settled
<1> QED
  BY <1>1, ConsumerCorrect, PTL

\* The place of a message that only member c has: the worker of its key, and
\* its hand (0) or a position in its channel.
Place(c, e) ==
  <<Key[e] % Worker[c],
    IF InHand(Shard(c, e), e) THEN 0
    ELSE CHOOSE q \in 1 .. Len(chs[Shard(c, e)]) : chs[Shard(c, e)][q] = e>>

\* A place holds one message, and there are Worker[c] * (Cap + 1) of them.
LEMMA Places ==
  ASSUME ConsumerInv, NEW c \in Members
  PROVE  Cardinality(OnlyIn(c)) <= Worker[c] * (Cap + 1)
<1>n. PICK n \in Nat \ {0} : n = Worker[c]
  BY ConstantsAssumption
<1> DEFINE T == (0 .. n - 1) \X (0 .. Cap)
           f == [e \in OnlyIn(c) |-> Place(c, e)]
<1>1. ASSUME NEW e \in OnlyIn(c)
      PROVE  /\ e \in Msgs /\ Shard(c, e) \in Workers
             /\ InHand(Shard(c, e), e) \/ Waiting(Shard(c, e), e)
             /\ Key[e] % Worker[c] \in 0 .. n - 1
  <2>1. e \in Msgs
    BY ConstantsAssumption DEF ConsumerInv, TypeOK, Msgs, OnlyIn
  <2>2. Safe(e) /\ ~Settled(e) /\ \A d \in Members \ {c} : ~Holds(d, e)
    BY DEF ConsumerInv, Settled, OnlyIn
  <2>3. Holds(c, e)
    BY <2>2 DEF Safe
  <2> QED
    BY <2>1, <2>3, <1>n, ShardType, ConstantsAssumption DEF Holds
<1>2. ASSUME NEW e \in OnlyIn(c), ~InHand(Shard(c, e), e)
      PROVE  /\ Place(c, e)[2] \in 1 .. Len(chs[Shard(c, e)])
             /\ chs[Shard(c, e)][Place(c, e)[2]] = e
  <2>1. \E q \in 1 .. Len(chs[Shard(c, e)]) : chs[Shard(c, e)][q] = e
    BY <1>1, <1>2 DEF Waiting
  <2> QED
    BY <1>2, <2>1 DEF Place
<1>3. \A e \in OnlyIn(c) : Place(c, e) \in T
  <2> SUFFICES ASSUME NEW e \in OnlyIn(c)
               PROVE  Place(c, e)[2] \in 0 .. Cap
    <3>1. \A e \in OnlyIn(c) : Place(c, e) = <<Key[e] % Worker[c], Place(c, e)[2]>>
      BY DEF Place
    <3> QED
      BY <1>1, <3>1
  <2>1. CASE InHand(Shard(c, e), e)
    BY <2>1, ConstantsAssumption DEF Place
  <2>2. CASE ~InHand(Shard(c, e), e)
    <3>1. Len(chs[Shard(c, e)]) <= Cap /\ Len(chs[Shard(c, e)]) \in Nat
      BY <1>1 DEF ConsumerInv, TypeOK
    <3> QED
      BY <1>2, <2>2, <3>1, ConstantsAssumption
  <2> QED
    BY <2>1, <2>2
<1>4. ASSUME NEW e \in OnlyIn(c), NEW d \in OnlyIn(c), Place(c, e) = Place(c, d)
      PROVE  e = d
  <2>1. Shard(c, e) = Shard(c, d) /\ Place(c, e)[2] = Place(c, d)[2]
    BY <1>4 DEF Place, Shard
  <2>2. \A x \in OnlyIn(c) : InHand(Shard(c, x), x) <=> Place(c, x)[2] = 0
    <3> SUFFICES ASSUME NEW x \in OnlyIn(c)
                 PROVE  InHand(Shard(c, x), x) <=> Place(c, x)[2] = 0
      OBVIOUS
    <3>1. InHand(Shard(c, x), x) => Place(c, x)[2] = 0
      BY DEF Place
    <3>2. ~InHand(Shard(c, x), x) => Place(c, x)[2] # 0
      BY <1>2
    <3> QED
      BY <3>1, <3>2
  <2>3. CASE InHand(Shard(c, e), e)
    BY <2>1, <2>2, <2>3 DEF InHand
  <2>4. CASE ~InHand(Shard(c, e), e)
    BY <2>1, <2>2, <2>4, <1>2
  <2> QED
    BY <2>3, <2>4
<1>5. f \in Injection(OnlyIn(c), T)
  BY <1>3, <1>4 DEF Injection, IsInjective
<1>6. IsFiniteSet(0 .. n - 1) /\ Cardinality(0 .. n - 1) = n
  <2>1. n - 1 \in Int /\ ~(0 > n - 1) /\ (n - 1) - 0 + 1 = n
    OBVIOUS
  <2> QED
    BY <2>1, FS_Interval
<1>c. IsFiniteSet(0 .. Cap) /\ Cardinality(0 .. Cap) = Cap + 1
  <2>1. Cap \in Int /\ ~(0 > Cap) /\ Cap - 0 + 1 = Cap + 1
    BY ConstantsAssumption
  <2> QED
    BY <2>1, FS_Interval
<1>7. IsFiniteSet(T) /\ Cardinality(T) = n * (Cap + 1)
  <2>1. IsFiniteSet(T) /\ Cardinality(T) = Cardinality(0 .. n - 1) * Cardinality(0 .. Cap)
    BY <1>6, <1>c, FS_Product
  <2> HIDE DEF T
  <2> QED
    BY <1>6, <1>c, <2>1
<1>8. Cardinality(OnlyIn(c)) <= Cardinality(T)
  BY <1>5, <1>7, FS_Injection
<1> QED
  BY <1>7, <1>8, <1>n

\* For any group, capacity and number of workers, a crash of a member loses at
\* most as many messages as its channels hold and its workers have in hand,
\* although messages are marked, and committed, before they are handled.
THEOREM LossesBounded == Spec => []LossBound
<1>1. ConsumerInv => LossBound
  BY Places DEF LossBound
<1> QED
  BY <1>1, ConsumerCorrect, PTL

=============================================================================
