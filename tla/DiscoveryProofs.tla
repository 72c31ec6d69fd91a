-------------------------- MODULE DiscoveryProofs --------------------------
(***************************************************************************)
(* Proofs about the parts by which a caller finds a node.  Discovery, for  *)
(* any services, addresses and subset size and any number of changes,      *)
(* breaks and failures: a resolver that waits has lost no change but to a  *)
(* failed read.  Dial, for any network interfaces, servers, options and    *)
(* objects: servers advertise their best address, and clients reach the    *)
(* server they name.  ConsistentHash, for any nodes, hash function and     *)
(* callers: the owner of a key serves it.                                  *)
(***************************************************************************)
EXTENDS Discovery, Dial, ConsistentHash,
        FiniteSetTheorems, NaturalsInduction, WellFoundedInduction, TLAPS

\* The watch responds for every change: with none of its responses left to
\* take and no event lost, nothing changed since the last read.
Settled == watch = "ok" /\ pending = 0 /\ ~missed

\* So what was read is what there is until it is handed over, and what was
\* handed over is what there is until the next response.  The first response
\* comes of itself, whether the watch is the first one or replaces a broken one.
WatchInv ==
  /\ pending \in Nat
  /\ bpc \in {"select", "check"} => pc = "off"
  /\ pc = "off" /\ watch = "ok" => pending > 0
  /\ pc = "update" /\ Settled => got = Named
  /\ pc \in {"loop", "list"} /\ Settled => UpToDate

LEMMA InitWatch == Init => WatchInv
  BY DEF Init, WatchInv, Settled

\* Whether the addresses are up to date depends on these alone.
LEMMA UpToDateKept ==
  ASSUME UNCHANGED <<registry, live>>
  PROVE  /\ Named' = Named
         /\ UNCHANGED shown => UpToDate' = UpToDate
  BY DEF Named, UpToDate

\* Build starts the parser with a response on its way.
LEMMA BuildWatch ==
  ASSUME WatchInv, Discover \/ Build
  PROVE  WatchInv'
<1> USE DEF WatchInv, Settled, envVars
<1>1. UNCHANGED <<registry, live, shown, missed, got>>
  BY DEF Discover, Build, DiscoverOk, DiscoverK8s,
         DiscoverErr, Assign, AssignSend, BuildSelect,
         BuildReturn
<1>2. CASE DiscoverOk \/ DiscoverK8s
  BY <1>2 DEF DiscoverOk, DiscoverK8s
<1>3. CASE DiscoverErr \/ Assign \/ AssignSend \/ BuildSelect
  BY <1>1, <1>3, UpToDateKept
     DEF DiscoverErr, Assign, AssignSend, BuildSelect
<1>4. CASE BuildReturn
  BY <1>1, <1>4, UpToDateKept DEF BuildReturn, Broken
<1> QED
  BY <1>2, <1>3, <1>4 DEF Discover, Build

\* A change that the watch reports leaves a response; one it does not report
\* finds a watch that is replaced before the parser waits again.
LEMMA RegistryWatch ==
  ASSUME WatchInv,
         \/ Break \/ Annotate \/ Close
         \/ \E s \in Services : Change(s)
  PROVE  WatchInv'
<1> USE DEF WatchInv, Settled, buildVars
<1>1. CASE Break \/ Annotate \/ Close
  <2>1. UNCHANGED <<registry, live, shown>>
    BY <1>1 DEF Break, Annotate, Close
  <2> QED
    BY <1>1, <2>1, UpToDateKept
       DEF Break, Annotate, Close, Broken
<1>2. ASSUME NEW s \in Services, Change(s)
      PROVE  WatchInv'
  BY <1>2 DEF Change
<1> QED
  BY <1>1, <1>2

\* The parser: List reads after the response it took, so that the read sees
\* what the response announced.
LEMMA ParserWatch ==
  ASSUME WatchInv, Watch
  PROVE  WatchInv'
<1> USE DEF WatchInv, Settled, buildVars, envVars
<1>1. UNCHANGED <<registry, live>>
  BY DEF Watch, Loop, List, ListDone, ListEvent,
         ListRewatch, Get, Update
<1>2. CASE Loop \/ ListDone
  BY <1>1, <1>2, UpToDateKept DEF Loop, ListDone
<1>3. CASE ListEvent
  BY <1>3 DEF ListEvent
<1>4. CASE ListRewatch
  BY <1>4 DEF ListRewatch
<1>5. CASE Get
  BY <1>1, <1>5, UpToDateKept DEF Get
<1>6. CASE Update
  <2>1. Settled => got = Named
    BY <1>6 DEF Update
  <2>2. got = Named => UpToDate'
    BY <1>1, <1>6, UpToDateKept DEF Update, UpToDate, Named
  <2> QED
    BY <1>6, <2>1, <2>2 DEF Update
<1> QED
  BY <1>2, <1>3, <1>4, <1>5, <1>6 DEF Watch, List

LEMMA NextWatch == WatchInv /\ [Next]_vars => WatchInv'
<1> SUFFICES ASSUME WatchInv, [Next]_vars
             PROVE  WatchInv'
  OBVIOUS
<1>1. CASE Discover \/ Build
  BY <1>1, BuildWatch
<1>2. CASE Watch
  BY <1>2, ParserWatch
<1>3. CASE \/ Break \/ Annotate \/ Close
           \/ \E s \in Services : Change(s)
  BY <1>3, RegistryWatch
<1>4. CASE UNCHANGED vars
  BY <1>4, UpToDateKept
     DEF vars, envVars, buildVars, WatchInv, Settled
<1> QED
  BY <1>1, <1>2, <1>3, <1>4 DEF Next

\* However services come and go, watches break and are replaced and reads fail,
\* a parser that waits for a working watch with no response on its way has
\* handed over what the registry has, unless a read failed since.
THEOREM NoChangeIsLost == Spec => []NoChangeLost
<1>1. Spec => []WatchInv
  BY InitWatch, NextWatch, PTL DEF Spec
<1>2. WatchInv => NoChangeLost
  BY DEF WatchInv, Settled, NoChangeLost
<1> QED
  BY <1>1, <1>2, PTL

-----------------------------------------------------------------------------
(* Induction and folds over lists. *)

\* A set of naturals that is not empty has a least member; every induction
\* below is on a least counterexample.
LEMMA LeastNatural ==
  ASSUME NEW T \in SUBSET Nat, T # {}
  PROVE  \E n \in T : \A m \in T : n <= m
<1>1. PICK n \in T : \A m \in T : ~(<<m, n>> \in OpToRel(<, Nat))
  BY NatLessThanWellFounded, WFMin
<1>2. \A m \in T : ~(m < n)
  BY <1>1 DEF OpToRel
<1>3. \A m \in T : n <= m
  BY <1>2
<1> QED
  BY <1>3

\* The least of some indices is one of them.
LEMMA MinIn ==
  ASSUME NEW T \in SUBSET Nat, T # {}
  PROVE  Min(T) \in T
  BY LeastNatural DEF Min

\* So is the greatest of some indices of a list.
LEMMA MaxIn ==
  ASSUME NEW n \in Nat, NEW T \in SUBSET (1 .. n), T # {}
  PROVE  Max(T) \in T /\ \A m \in T : m <= Max(T)
<1> DEFINE gaps == {n - k : k \in T}
<1>1. gaps \in SUBSET Nat /\ gaps # {}
  OBVIOUS
<1>2. PICK g \in gaps : \A h \in gaps : g <= h
  BY <1>1, LeastNatural
<1>3. PICK k \in T : g = n - k
  OBVIOUS
<1>4. \A m \in T : k >= m
  <2> TAKE m \in T
  <2>1. n - m \in gaps /\ m \in Int /\ k \in Int
    OBVIOUS
  <2>2. n - k <= n - m
    BY <1>2, <1>3, <2>1
  <2> QED
    BY <2>1, <2>2
<1> HIDE DEF gaps
<1>5. Max(T) \in T /\ \A m \in T : Max(T) >= m
  BY <1>4 DEF Max
<1> QED
  BY <1>5

\* One step of a fold over the indices of a list, the last one outermost; F is
\* what the fold does with an accumulator and an index.
Step(F, base, g, s) == IF s = {} THEN base ELSE F[g[s \ {Max(s)}]][Max(s)]

\* g has the fold over every set of indices, with values in A.
IsFold(g, F, base, A, n) ==
  /\ g \in [SUBSET (1 .. n) -> A]
  /\ \A s \in SUBSET (1 .. n) : g[s] = Step(F, base, g, s)

\* A fold whose step stays in a set has a solution over any list: one that
\* reaches to index m - 1 extends to m.
LEMMA FoldExists ==
  ASSUME NEW A, NEW base \in A, NEW n \in Nat, NEW F \in [A -> [1 .. n -> A]]
  PROVE  \E g : IsFold(g, F, base, A, n)
<1> DEFINE upto(m) == {s \in SUBSET (1 .. n) : \A k \in s : k <= m}
           partial(g, m) == g \in [upto(m) -> A] /\ \A s \in upto(m) : g[s] = Step(F, base, g, s)
           bad == {m \in Nat : ~\E g : partial(g, m)}
<1>1. bad = {}
  <2> SUFFICES ASSUME bad # {}
               PROVE  FALSE
    OBVIOUS
  <2>1. PICK m \in bad : \A l \in bad : m <= l
    <3>1. bad \in SUBSET Nat
      OBVIOUS
    <3> HIDE DEF bad
    <3> QED
      BY <3>1, LeastNatural
  <2>2. m \in Nat /\ ~\E g : partial(g, m)
    OBVIOUS
  <2>3. CASE m = 0
    <3>1. \A s \in upto(0) : s = {}
      OBVIOUS
    <3>2. PICK g : g = [s \in upto(0) |-> base]
      OBVIOUS
    <3>3. partial(g, 0)
      BY <3>1, <3>2 DEF Step
    <3> QED
      BY <2>2, <2>3, <3>3
  <2>4. CASE m > 0
    <3>1. m - 1 \in Nat /\ m - 1 \notin bad
      <4> HIDE DEF bad
      <4> QED
        BY <2>1, <2>2, <2>4
    <3>2. PICK g : partial(g, m - 1)
      BY <3>1
    <3>3. PICK h : h = [s \in upto(m) |-> Step(F, base, g, s)]
      OBVIOUS
    <3>4. ASSUME NEW s \in upto(m), s # {}
          PROVE  s \ {Max(s)} \in upto(m - 1) /\ Max(s) \in 1 .. n
      <4>1. s \in SUBSET (1 .. n) /\ \A k \in s : k <= m
        OBVIOUS
      <4>2. Max(s) \in s /\ \A k \in s : k <= Max(s)
        BY <3>4, <4>1, MaxIn
      <4>3. ASSUME NEW k \in s \ {Max(s)}
            PROVE  k <= m - 1
        <5> HIDE DEF upto
        <5>1. k \in s /\ k # Max(s)
          OBVIOUS
        <5>2. k \in Int /\ Max(s) \in Int
          <6>1. k \in 1 .. n /\ Max(s) \in 1 .. n
            BY <5>1, <4>1, <4>2
          <6> QED
            BY <6>1
        <5>3. k <= Max(s) /\ Max(s) <= m
          BY <4>1, <4>2
        <5> QED
          BY <5>1, <5>2, <5>3, <2>2
      <4> QED
        BY <4>1, <4>2, <4>3
    <3>5. \A s \in upto(m) : Step(F, base, g, s) \in A
      <4> TAKE s \in upto(m)
      <4>1. CASE s = {}
        BY <4>1 DEF Step
      <4>2. CASE s # {}
        <5>1. g[s \ {Max(s)}] \in A /\ Max(s) \in 1 .. n
          BY <3>2, <3>4, <4>2
        <5> HIDE DEF upto
        <5> QED
          BY <5>1, <4>2 DEF Step
      <4> QED
        BY <4>1, <4>2
    <3>6. ASSUME NEW t \in upto(m - 1)
          PROVE  h[t] = g[t]
      <4>1. t \in upto(m)
        BY <2>2
      <4> QED
        BY <3>2, <3>3, <4>1
    <3>7. \A s \in upto(m) : Step(F, base, g, s) = Step(F, base, h, s)
      BY <3>4, <3>6 DEF Step
    <3>8. partial(h, m)
      BY <3>3, <3>5, <3>7
    <3> QED
      BY <2>2, <3>8
  <2> QED
    BY <2>2, <2>3, <2>4
<1>2. PICK g : partial(g, n)
  BY <1>1
<1>3. upto(n) = SUBSET (1 .. n)
  OBVIOUS
<1> QED
  BY <1>2, <1>3 DEF IsFold

\* The last of the first k indices, and the ones before it.
LEMMA LastOf ==
  ASSUME NEW k \in Nat, k > 0
  PROVE  Max(1 .. k) = k /\ (1 .. k) \ {Max(1 .. k)} = 1 .. k - 1 /\ 1 .. k # {}
<1>1. k \in 1 .. k
  OBVIOUS
<1>2. Max(1 .. k) \in 1 .. k /\ k <= Max(1 .. k)
  BY <1>1, MaxIn
<1>3. Max(1 .. k) = k
  BY <1>2
<1>4. (1 .. k) \ {k} = 1 .. k - 1
  OBVIOUS
<1> QED
  BY <1>1, <1>3, <1>4

-----------------------------------------------------------------------------
(* The address a server advertises. *)

\* The step of ParseAddr.
Better(acc, i) ==
  IF ~i.up \/ (i.index >= acc.index /\ acc.host # NoHost) \/ Offered(i) = NoHost
  THEN acc ELSE [index |-> i.index, host |-> Offered(i)]

\* What it starts from.
None == [index |-> MaxIndex, host |-> NoHost]

\* The hosts that can come out.
Hosts == STRING \union {NoHost}

\* The accumulators of ParseAddr.
Chosen == [index : Int, host : Hosts]

\* ParseAddr's fold over some of the interfaces.
Scan(is, g, s) == IF s = {} THEN None ELSE Better(g[s \ {Max(s)}], is[Max(s)])

\* g has that fold over every set of them.
IsScan(is, g) == g = [s \in SUBSET DOMAIN is |-> Scan(is, g, s)]

\* The function that the fold chooses.
Scanned(is) == CHOOSE g : IsScan(is, g)

\* ParseAddr is its value at all interfaces.
LEMMA ParseAddrDef ==
  ASSUME NEW is
  PROVE  ParseAddr(is) = Scanned(is)[DOMAIN is]
  BY DEF ParseAddr, FoldLeft, MapThenFoldSet, Scanned, IsScan, Scan, Better, None

\* An interface offers one of its usable addresses, of version 4 if it has one.
Offers(i) ==
  Offered(i) # NoHost =>
    \E a \in Range(i.addrs) :
      /\ a.ip = Offered(i) /\ a.global
      /\ a.v4 \/ \A b \in Range(i.addrs) : b.global => ~b.v4

\* It offers one exactly if it has a usable one.
LEMMA OfferedIs ==
  ASSUME NEW i \in Interface
  PROVE  /\ Offered(i) \in Hosts
         /\ Offered(i) = NoHost <=> ~\E k \in DOMAIN i.addrs : i.addrs[k].global
         /\ Offers(i)
<1> USE DEF Offers
<1> DEFINE usable == {k \in DOMAIN i.addrs : i.addrs[k].global}
           v4 == {k \in usable : i.addrs[k].v4}
<1>1. PICK adr \in Seq(Address) : adr = i.addrs
  BY DEF Interface
<1>2. DOMAIN adr = 1 .. Len(adr) /\ Len(adr) \in Nat /\ \A k \in DOMAIN adr : adr[k] \in Address
  OBVIOUS
<1>3. usable \in SUBSET (1 .. Len(adr)) /\ v4 \in SUBSET Nat /\ v4 \subseteq usable
  BY <1>1, <1>2
<1>4. CASE usable = {}
  <2>1. Offered(i) = NoHost
    BY <1>4 DEF Offered
  <2> QED
    BY <1>4, <2>1 DEF Hosts
<1>5. CASE usable # {}
  <2>1. PICK k : k = IF v4 # {} THEN Min(v4) ELSE Max(usable)
    OBVIOUS
  <2>2. Offered(i) = adr[k].ip
    BY <1>1, <1>5, <2>1 DEF Offered
  <2>3. k \in usable /\ (v4 # {} => k \in v4)
    <3> HIDE DEF usable, v4
    <3>1. CASE v4 # {}
      BY <1>3, <2>1, <3>1, MinIn
    <3>2. CASE v4 = {}
      BY <1>2, <1>3, <1>5, <2>1, <3>2, MaxIn
    <3> QED
      BY <3>1, <3>2
  <2>4. k \in DOMAIN adr /\ adr[k] \in Address /\ adr[k].global
    BY <1>1, <1>2, <2>3
  <2>5. adr[k].ip \in STRING /\ adr[k].ip # NoHost
    BY <2>4 DEF Address
  <2>6. adr[k].v4 \/ \A b \in Range(adr) : b.global => ~b.v4
    <3>1. CASE v4 # {}
      BY <1>1, <2>3, <3>1
    <3>2. CASE v4 = {}
      BY <1>1, <3>2 DEF Range
    <3> QED
      BY <3>1, <3>2
  <2>7. adr[k] \in Range(adr)
    BY <2>4 DEF Range
  <2> QED
    BY <1>1, <1>5, <2>2, <2>4, <2>5, <2>6, <2>7 DEF Hosts
<1> QED
  BY <1>4, <1>5

\* The fold of ParseAddr has a solution.
LEMMA ScanExists ==
  ASSUME NEW is \in Seq(Interface)
  PROVE  IsScan(is, Scanned(is))
<1>1. PICK n \in Nat : n = Len(is) /\ DOMAIN is = 1 .. n /\ \A k \in 1 .. n : is[k] \in Interface
  OBVIOUS
<1>2. None \in Chosen
  <2>1. MaxIndex \in Int
    BY DialAssumption
  <2> QED
    BY <2>1 DEF None, Chosen, Hosts
<1>3. ASSUME NEW acc \in Chosen, NEW i \in Interface
      PROVE  Better(acc, i) \in Chosen
  BY OfferedIs DEF Better, Chosen, Interface
<1>4. PICK F : F = [acc \in Chosen |-> [k \in 1 .. n |-> Better(acc, is[k])]]
  OBVIOUS
<1>5. F \in [Chosen -> [1 .. n -> Chosen]]
  BY <1>1, <1>3, <1>4
<1>6. PICK g : IsFold(g, F, None, Chosen, n)
  BY <1>2, <1>5, FoldExists
<1>7. ASSUME NEW s \in SUBSET (1 .. n)
      PROVE  Step(F, None, g, s) = Scan(is, g, s)
  <2>1. CASE s = {}
    BY <2>1 DEF Step, Scan
  <2>2. CASE s # {}
    <3>1. Max(s) \in 1 .. n /\ s \ {Max(s)} \in SUBSET (1 .. n)
      BY <2>2, MaxIn
    <3>2. g[s \ {Max(s)}] \in Chosen
      BY <1>6, <3>1 DEF IsFold
    <3> QED
      BY <1>4, <2>2, <3>1, <3>2 DEF Step, Scan
  <2> QED
    BY <2>1, <2>2
<1>8. IsScan(is, g)
  BY <1>1, <1>6, <1>7 DEF IsScan, IsFold
<1> QED
  BY <1>8 DEF Scanned

\* acc has the usable interface of lowest index among the first k.
BestOf(is, k, acc) ==
  LET up == {j \in 1 .. k : is[j].up /\ Offered(is[j]) # NoHost}
  IN  IF up = {} THEN acc.host = NoHost
      ELSE \E j \in up : /\ acc.index = is[j].index /\ acc.host = Offered(is[j])
                         /\ \A l \in up : is[j].index <= is[l].index

\* One more interface: it is better, or the best so far stays.
LEMMA BetterIsBest ==
  ASSUME NEW is \in Seq(Interface), NEW k \in 1 .. Len(is), NEW acc, BestOf(is, k - 1, acc)
  PROVE  BestOf(is, k, Better(acc, is[k]))
<1> DEFINE up(m) == {j \in 1 .. m : is[j].up /\ Offered(is[j]) # NoHost}
<1>1. Len(is) \in Nat /\ \A j \in 1 .. Len(is) : is[j] \in Interface /\ is[j].index \in Int
  <2>1. Len(is) \in Nat /\ \A j \in 1 .. Len(is) : is[j] \in Interface
    OBVIOUS
  <2>2. \A i \in Interface : i.index \in Int
    BY DEF Interface
  <2> QED
    BY <2>1, <2>2
<1>2. 1 .. k = (1 .. k - 1) \union {k} /\ 1 .. k \subseteq 1 .. Len(is)
  BY <1>1
<1>3. CASE ~is[k].up \/ Offered(is[k]) = NoHost
  <2>1. Better(acc, is[k]) = acc
    BY <1>3 DEF Better
  <2>2. up(k) = up(k - 1)
    BY <1>2, <1>3
  <2> QED
    BY <2>1, <2>2 DEF BestOf
<1>4. CASE is[k].up /\ Offered(is[k]) # NoHost
  <2>1. up(k) = up(k - 1) \union {k} /\ k \in up(k) /\ up(k) \subseteq 1 .. Len(is)
    BY <1>2, <1>4
  <2>2. CASE up(k - 1) = {}
    <3>1. acc.host = NoHost
      BY <2>2 DEF BestOf
    <3>2. Better(acc, is[k]) = [index |-> is[k].index, host |-> Offered(is[k])]
      BY <1>4, <3>1 DEF Better
    <3>3. up(k) = {k}
      BY <2>1, <2>2
    <3>4. is[k].index <= is[k].index /\ Better(acc, is[k]).index = is[k].index
          /\ Better(acc, is[k]).host = Offered(is[k])
      BY <1>1, <1>2, <3>2
    <3> QED
      BY <3>3, <3>4 DEF BestOf
  <2>3. CASE up(k - 1) # {}
    <3>1. PICK j \in up(k - 1) :
            /\ acc.index = is[j].index /\ acc.host = Offered(is[j])
            /\ \A l \in up(k - 1) : is[j].index <= is[l].index
      BY <2>3 DEF BestOf
    <3>2. acc.host # NoHost /\ j \in up(k) /\ j \in 1 .. Len(is)
      BY <2>1, <3>1
    <3>3. CASE is[k].index >= is[j].index
      <4>1. Better(acc, is[k]) = acc
        BY <3>1, <3>2, <3>3 DEF Better
      <4>2. \A l \in up(k) : is[j].index <= is[l].index
        BY <1>1, <2>1, <3>1, <3>3
      <4> QED
        BY <2>1, <3>1, <3>2, <4>1, <4>2 DEF BestOf
    <3>4. CASE ~(is[k].index >= is[j].index)
      <4>1. Better(acc, is[k]) = [index |-> is[k].index, host |-> Offered(is[k])]
        BY <1>4, <3>1, <3>4 DEF Better
      <4>2. \A l \in up(k) : is[k].index <= is[l].index
        <5> TAKE l \in up(k)
        <5>1. l = k \/ l \in up(k - 1)
          BY <2>1
        <5>2. is[k].index \in Int /\ is[j].index \in Int /\ is[l].index \in Int
          BY <1>1, <2>1, <3>2
        <5> HIDE DEF up
        <5> QED
          BY <3>1, <3>4, <5>1, <5>2
      <4> QED
        BY <2>1, <4>1, <4>2 DEF BestOf
    <3> QED
      BY <3>3, <3>4
  <2> QED
    BY <2>2, <2>3
<1> QED
  BY <1>3, <1>4

\* ParseAddr ends with the best of all interfaces.
LEMMA ParseAddrBest ==
  ASSUME NEW is \in Seq(Interface)
  PROVE  BestOf(is, Len(is), ParseAddr(is))
<1>1. PICK g : g = Scanned(is) /\ IsScan(is, g)
  BY ScanExists
<1>2. PICK n \in Nat : n = Len(is) /\ DOMAIN is = 1 .. n
  OBVIOUS
<1> DEFINE bad == {k \in 0 .. n : ~BestOf(is, k, g[1 .. k])}
<1>3. bad = {}
  <2> SUFFICES ASSUME bad # {}
               PROVE  FALSE
    OBVIOUS
  <2>1. PICK k \in bad : \A m \in bad : k <= m
    <3>1. bad \in SUBSET Nat
      OBVIOUS
    <3> HIDE DEF bad
    <3> QED
      BY <3>1, LeastNatural
  <2>2. k \in 0 .. n /\ ~BestOf(is, k, g[1 .. k])
    OBVIOUS
  <2>3. g[1 .. k] = Scan(is, g, 1 .. k)
    BY <1>1, <1>2, <2>2 DEF IsScan
  <2>4. CASE k = 0
    <3>1. 1 .. k = {} /\ None.host = NoHost
      BY <2>4 DEF None
    <3> QED
      BY <2>2, <2>3, <3>1 DEF Scan, BestOf
  <2>5. CASE k # 0
    <3>1. k \in Nat /\ k > 0 /\ k - 1 \in 0 .. n /\ ~(k <= k - 1) /\ k \in 1 .. n
      BY <2>2, <2>5
    <3>2. k - 1 \notin bad
      <4> HIDE DEF bad
      <4> QED
        BY <2>1, <3>1
    <3>3. BestOf(is, k - 1, g[1 .. k - 1])
      BY <3>1, <3>2
    <3>4. g[1 .. k] = Better(g[1 .. k - 1], is[k])
      BY <2>3, <3>1, LastOf DEF Scan
    <3> QED
      BY <1>2, <2>2, <3>1, <3>3, <3>4, BetterIsBest
  <2> QED
    BY <2>4, <2>5
<1>4. BestOf(is, n, g[1 .. n])
  BY <1>3
<1> QED
  BY <1>1, <1>2, <1>4, ParseAddrDef

\* A host as AdvertisedIsBest wants it.
Best(is, h) ==
  IF UsableOf(is) = {} THEN h = NoHost
  ELSE \E i \in UsableOf(is) :
         /\ \A j \in UsableOf(is) : i.index <= j.index
         /\ \E a \in Range(i.addrs) :
              /\ a.ip = h /\ a.global
              /\ a.v4 \/ \A b \in Range(i.addrs) : b.global => ~b.v4

\* And that is what its host is.
LEMMA HostIsBest ==
  ASSUME NEW is \in Seq(Interface)
  PROVE  Best(is, ParseAddr(is).host)
<1>1. PICK n \in Nat : n = Len(is) /\ DOMAIN is = 1 .. n
  OBVIOUS
<1>2. \A k \in 1 .. n : is[k] \in Interface
  BY <1>1
<1> DEFINE up == {j \in 1 .. n : is[j].up /\ Offered(is[j]) # NoHost}
<1>3. UsableOf(is) = {is[j] : j \in up}
  <2>1. \A j \in 1 .. n : Offered(is[j]) # NoHost <=> \E k \in DOMAIN is[j].addrs : is[j].addrs[k].global
    BY <1>2, OfferedIs
  <2> QED
    BY <1>1, <2>1 DEF UsableOf, Range
<1>4. BestOf(is, n, ParseAddr(is))
  BY <1>1, ParseAddrBest
<1>5. CASE up = {}
  BY <1>3, <1>4, <1>5 DEF BestOf, Best
<1>6. CASE up # {}
  <2>1. PICK j \in up :
          /\ ParseAddr(is).host = Offered(is[j])
          /\ \A l \in up : is[j].index <= is[l].index
    BY <1>4, <1>6 DEF BestOf
  <2>2. PICK i : i = is[j] /\ i \in Interface
    BY <1>2
  <2>3. \E a \in Range(i.addrs) :
          /\ a.ip = ParseAddr(is).host /\ a.global
          /\ a.v4 \/ \A b \in Range(i.addrs) : b.global => ~b.v4
    <3>1. ParseAddr(is).host = Offered(i) /\ Offered(i) # NoHost
      BY <2>1, <2>2
    <3>2. Offers(i)
      BY <2>2, OfferedIs
    <3> QED
      BY <3>1, <3>2 DEF Offers
  <2>4. i \in UsableOf(is) /\ \A l \in UsableOf(is) : i.index <= l.index
    BY <1>3, <2>1, <2>2
  <2> HIDE DEF up
  <2> QED
    BY <2>3, <2>4, Zenon DEF Best
<1> QED
  BY <1>5, <1>6

\* The endpoints that servers can advertise on these interfaces.
Advertised(is) ==
  {[scheme |-> Scheme(s.kind, ~s.tls), server |-> s, host |-> ParseAddr(is).host] : s \in Server}

\* Every endpoint is one of a server, under its scheme.
AdvertiseInv ==
  /\ ifs \in Interfaces
  /\ servers \in Seq(Server)
  /\ endpoints \in Seq(Advertised(ifs))

\* Only App.service adds endpoints.
LEMMA NextAdvertise == AdvertiseInv /\ [DialNext]_dialVars => AdvertiseInv'
<1> SUFFICES ASSUME AdvertiseInv, [DialNext]_dialVars
             PROVE  AdvertiseInv'
  OBVIOUS
<1>1. CASE Advertise
  <2>1. servers # <<>> /\ servers' = Tail(servers) /\ ifs' = ifs
    BY <1>1 DEF Advertise
  <2>2. Head(servers) \in Server /\ servers' \in Seq(Server)
    BY <2>1 DEF AdvertiseInv
  <2>3. PICK s \in Server : s = Head(servers)
    BY <2>2
  <2>4. endpoints' = Append(endpoints, Endpoint(s)) \/ endpoints' = endpoints
    BY <1>1, <2>3 DEF Advertise
  <2>5. Endpoint(s) \in Advertised(ifs)
    BY DEF Endpoint, Advertised
  <2>6. endpoints' \in Seq(Advertised(ifs))
    BY <2>4, <2>5 DEF AdvertiseInv
  <2> QED
    BY <2>1, <2>2, <2>6 DEF AdvertiseInv
<1>2. CASE Registered \/ DialOne \/ CloseAll \/ UNCHANGED dialVars
  <2>1. UNCHANGED <<ifs, servers, endpoints>>
    BY <1>2 DEF Registered, DialOne, CloseAll, dialVars
  <2> QED
    BY <2>1 DEF AdvertiseInv
<1> QED
  BY <1>1, <1>2 DEF DialNext

\* It starts with none.
LEMMA InitAdvertise == DialInit => AdvertiseInv
  BY DialAssumption DEF DialInit, AdvertiseInv

\* Whatever interfaces the system lists, in whichever order, every server
\* advertises an address of the usable interface with the lowest index, of
\* version 4 if that has one (endpoint.ParseAddr), and no host only if none is
\* usable.
THEOREM AdvertisesBest == DialSpec => []AdvertisedIsBest
<1>1. AdvertiseInv => AdvertisedIsBest
  <2> SUFFICES ASSUME AdvertiseInv, NEW k \in DOMAIN endpoints
               PROVE  Best(ifs, endpoints[k].host)
    BY DEF AdvertisedIsBest, Best
  <2>1. ifs \in Seq(Interface)
    BY DialAssumption DEF AdvertiseInv
  <2>2. endpoints[k] \in Advertised(ifs)
    BY DEF AdvertiseInv
  <2>3. endpoints[k].host = ParseAddr(ifs).host
    BY <2>2 DEF Advertised
  <2> QED
    BY <2>1, <2>3, HostIsBest
<1> QED
  BY <1>1, InitAdvertise, NextAdvertise, PTL DEF DialSpec

-----------------------------------------------------------------------------
(* How a client is set up. *)

\* The fields of the option struct with their types.
Settings ==
  [addr : STRING \union {Defaults.addr}, insecure : BOOLEAN, tls : BOOLEAN, discovery : BOOLEAN,
   mws : Nat, enable : SUBSET Nat]

\* An option sets its field to a value of the field's type.
LEMMA OptionKeeps ==
  ASSUME NEW opt \in Settings, NEW o \in Option
  PROVE  ApplyOption(opt, o) \in Settings
<1>1. CASE o.field = "addr" /\ o.value \in STRING
  BY <1>1 DEF ApplyOption, Settings
<1>2. CASE o.field \in {"insecure", "tls", "discovery"} /\ o.value \in BOOLEAN
  BY <1>2 DEF ApplyOption, Settings
<1>3. CASE o.field = "mws" /\ o.value \in Nat
  BY <1>3 DEF ApplyOption, Settings
<1>4. CASE o.field = "enable" /\ o.value \in SUBSET Nat
  BY <1>4 DEF ApplyOption, Settings
<1> QED
  BY <1>1, <1>2, <1>3, <1>4 DEF Option

\* The defaults are such values.
LEMMA DefaultsType == Defaults \in Settings
  BY DEF Defaults, Settings

\* The fold of Dial over some of the options.
Applied(os, g, s) == IF s = {} THEN Defaults ELSE ApplyOption(g[s \ {Max(s)}], os[Max(s)])

\* g has that fold over every set of them.
IsApplied(os, g) == g = [s \in SUBSET DOMAIN os |-> Applied(os, g, s)]

\* The function that the fold chooses.
Applying(os) == CHOOSE g : IsApplied(os, g)

\* Dial's option struct is its value at all options.
LEMMA OptionsDef ==
  ASSUME NEW os
  PROVE  FoldLeft(ApplyOption, Defaults, os) = Applying(os)[DOMAIN os]
  BY DEF FoldLeft, MapThenFoldSet, Applying, IsApplied, Applied

\* The fold of Dial has a solution.
LEMMA ApplyExists ==
  ASSUME NEW os \in Seq(Option)
  PROVE  IsApplied(os, Applying(os))
<1>1. PICK n \in Nat : n = Len(os) /\ DOMAIN os = 1 .. n /\ \A k \in 1 .. n : os[k] \in Option
  OBVIOUS
<1>2. PICK F : F = [opt \in Settings |-> [k \in 1 .. n |-> ApplyOption(opt, os[k])]]
  OBVIOUS
<1>3. F \in [Settings -> [1 .. n -> Settings]]
  BY <1>1, <1>2, OptionKeeps
<1>4. PICK g : IsFold(g, F, Defaults, Settings, n)
  BY <1>3, DefaultsType, FoldExists
<1>5. ASSUME NEW s \in SUBSET (1 .. n)
      PROVE  Step(F, Defaults, g, s) = Applied(os, g, s)
  <2>1. CASE s = {}
    BY <2>1 DEF Step, Applied
  <2>2. CASE s # {}
    <3>1. Max(s) \in 1 .. n /\ s \ {Max(s)} \in SUBSET (1 .. n)
      BY <2>2, MaxIn
    <3>2. g[s \ {Max(s)}] \in Settings
      BY <1>4, <3>1 DEF IsFold
    <3> QED
      BY <1>2, <2>2, <3>1, <3>2 DEF Step, Applied
  <2> QED
    BY <2>1, <2>2
<1>6. IsApplied(os, g)
  BY <1>1, <1>4, <1>5 DEF IsApplied, IsFold
<1> QED
  BY <1>6 DEF Applying

\* After any number of options the struct is well typed.
LEMMA AppliedType ==
  ASSUME NEW os \in Seq(Option), NEW k \in 0 .. Len(os)
  PROVE  Applying(os)[1 .. k] \in Settings
<1>1. PICK g : g = Applying(os) /\ IsApplied(os, g)
  BY ApplyExists
<1>2. PICK n \in Nat : n = Len(os) /\ DOMAIN os = 1 .. n /\ \A j \in 1 .. n : os[j] \in Option
  OBVIOUS
<1> DEFINE bad == {j \in 0 .. n : g[1 .. j] \notin Settings}
<1> SUFFICES ASSUME bad # {}
             PROVE  FALSE
  BY <1>1, <1>2
<1>3. PICK j \in bad : \A m \in bad : j <= m
  <2>1. bad \in SUBSET Nat
    OBVIOUS
  <2> HIDE DEF bad
  <2> QED
    BY <2>1, LeastNatural
<1>4. j \in 0 .. n /\ g[1 .. j] \notin Settings
  OBVIOUS
<1>5. g[1 .. j] = Applied(os, g, 1 .. j)
  BY <1>1, <1>2, <1>4 DEF IsApplied
<1>6. CASE j = 0
  <2>1. 1 .. j = {}
    BY <1>6
  <2> QED
    BY <1>4, <1>5, <2>1, DefaultsType DEF Applied
<1>7. CASE j # 0
  <2>1. j \in Nat /\ j > 0 /\ j - 1 \in 0 .. n /\ ~(j <= j - 1) /\ j \in 1 .. n
    BY <1>4, <1>7
  <2>2. j - 1 \notin bad
    <3> HIDE DEF bad
    <3> QED
      BY <1>3, <2>1
  <2>3. g[1 .. j - 1] \in Settings
    BY <2>1, <2>2
  <2>4. g[1 .. j] = ApplyOption(g[1 .. j - 1], os[j])
    BY <1>5, <2>1, LastOf DEF Applied
  <2> QED
    BY <1>2, <1>4, <2>1, <2>3, <2>4, OptionKeeps
<1> QED
  BY <1>6, <1>7

\* The address given last is the one that counts.
LEMMA LastOption ==
  ASSUME NEW os \in Seq(Option), NEW adr \in STRING, NEW opt,
         opt = FoldLeft(ApplyOption, Defaults, Append(os, WithAddr(adr)))
  PROVE  opt \in Settings /\ opt.addr = adr
<1>0. PICK w \in Option : w = WithAddr(adr) /\ w.field = "addr" /\ w.value = adr
  BY DEF WithAddr, Option
<1>1. PICK all : all = Append(os, w)
  OBVIOUS
<1>11. all \in Seq(Option) /\ Len(all) = Len(os) + 1 /\ all[Len(os) + 1] = w
  BY <1>1
<1>2. PICK n \in Nat : n = Len(all) /\ DOMAIN all = 1 .. n /\ n > 0 /\ all[n] = w
  BY <1>11
<1>3. PICK g : g = Applying(all) /\ IsApplied(all, g)
  BY <1>11, ApplyExists
<1>4. opt = g[1 .. n]
  BY <1>0, <1>1, <1>2, <1>3, OptionsDef
<1>5. n - 1 \in 0 .. n /\ n \in 0 .. n
  BY <1>2
<1>6. g[1 .. n - 1] \in Settings /\ g[1 .. n] \in Settings
  BY <1>2, <1>3, <1>5, <1>11, AppliedType
<1>7. g[1 .. n] = ApplyOption(g[1 .. n - 1], all[n])
  <2>1. g[1 .. n] = Applied(all, g, 1 .. n)
    BY <1>2, <1>3 DEF IsApplied
  <2> QED
    BY <1>2, <2>1, LastOf DEF Applied
<1>8. PICK r \in Settings : r = g[1 .. n - 1]
  BY <1>6
<1>9. opt = [r EXCEPT !["addr"] = adr]
  BY <1>0, <1>2, <1>4, <1>7, <1>8 DEF ApplyOption
<1>10. opt.addr = adr
  BY <1>9 DEF Settings
<1> QED
  BY <1>4, <1>6, <1>10

\* A connection is that of an object with its name, and has resolved an
\* endpoint of its scheme; the options that have piled up are all well typed.
DialInv ==
  /\ AdvertiseInv
  /\ opts \in Seq(Option)
  /\ objs \in Seq(Range(Objects))
  /\ \A n \in DOMAIN clients : \E k \in DOMAIN Objects :
       Objects[k].name = n /\ clients[n].addr = Objects[k].addr
  /\ \A n \in DOMAIN clients : \A e \in clients[n].resolved :
       /\ e.server.kind = "grpc"
       /\ ~clients[n].both => (e.server.tls <=> clients[n].creds = "tls")

\* The endpoint with the scheme that Dial expects is one of a grpc server, and
\* the scheme says whether it talks TLS.
LEMMA Resolved ==
  ASSUME AdvertiseInv, NEW opt \in Settings, Credentials(opt) # "none",
         NEW e \in Connection(opt).resolved
  PROVE  /\ e.server.kind = "grpc"
         /\ ~Connection(opt).both => (e.server.tls <=> Connection(opt).creds = "tls")
<1>1. PICK scheme : scheme = Scheme("grpc", opt.insecure)
  OBVIOUS
<1>2. e \in ParseValidAddr(endpoints, scheme)
  BY <1>1 DEF Connection
<1> DEFINE found == {k \in DOMAIN endpoints : endpoints[k].scheme = scheme}
<1>3. found # {} /\ e = endpoints[Min(found)]
  BY <1>2 DEF ParseValidAddr
<1>4. found \in SUBSET Nat
  BY DEF AdvertiseInv
<1>5. Min(found) \in found
  <2> HIDE DEF found
  <2> QED
    BY <1>3, <1>4, MinIn
<1>6. e.scheme = scheme /\ e \in Advertised(ifs)
  BY <1>3, <1>5 DEF AdvertiseInv
<1>7. PICK s \in Server : e.server = s /\ e.scheme = Scheme(s.kind, ~s.tls)
  BY <1>6 DEF Advertised
<1>8. s.kind = "grpc" /\ (~opt.insecure) = (~~s.tls)
  BY <1>1, <1>6, <1>7 DEF Scheme
<1>9. s.tls \in BOOLEAN /\ opt.insecure \in BOOLEAN /\ opt.tls \in BOOLEAN
  BY DEF Server, Settings
<1>10. Connection(opt).both = (opt.tls /\ opt.insecure) /\ Connection(opt).creds = Credentials(opt)
  BY DEF Connection
<1>11. Credentials(opt) = "tls" <=> opt.tls
  BY DEF Credentials
<1>12. opt.tls \/ opt.insecure
  BY DEF Credentials
<1> QED
  BY <1>7, <1>8, <1>9, <1>10, <1>11, <1>12

\* Dialling one object: its address is appended last.
LEMMA DialOneDial ==
  ASSUME DialInv, DialOne
  PROVE  DialInv'
<1>1. PICK o \in Range(Objects) : o = Head(objs)
  BY DEF DialInv, DialOne
<1>2. PICK k \in DOMAIN Objects : o = Objects[k]
  BY DEF Range
<1>3. o.name \in STRING /\ o.addr \in STRING
  <2>1. PICK R : R = [name : STRING, addr : STRING]
    OBVIOUS
  <2>2. Objects \in Seq(R)
    BY <2>1, DialAssumption
  <2>3. o \in R
    BY <1>2, <2>2
  <2> QED
    BY <2>1, <2>3
<1>4. PICK opt : opt = FoldLeft(ApplyOption, Defaults, Added(o))
  OBVIOUS
<1>5. opt \in Settings /\ opt.addr = o.addr
  <2>1. opts \in Seq(Option) /\ opt = FoldLeft(ApplyOption, Defaults, Append(opts, WithAddr(o.addr)))
    BY <1>4 DEF Added, DialInv
  <2> QED
    BY <1>3, <2>1, LastOption
<1>6. objs' \in Seq(Range(Objects)) /\ opts' \in Seq(Option) /\ UNCHANGED <<ifs, servers, endpoints>>
  <2>1. objs' = Tail(objs) /\ objs # <<>> /\ opts' = Added(o) /\ UNCHANGED <<ifs, servers, endpoints>>
    BY <1>1 DEF DialOne
  <2>2. WithAddr(o.addr) \in Option
    BY <1>3 DEF WithAddr, Option
  <2> QED
    BY <2>1, <2>2 DEF DialInv, Added
<1>7. AdvertiseInv'
  BY <1>6 DEF DialInv, AdvertiseInv
<1>8. CASE UNCHANGED clients
  BY <1>6, <1>7, <1>8 DEF DialInv
<1>9. CASE clients' = <<>>
  <2>1. DOMAIN clients' = {}
    BY <1>9
  <2> QED
    BY <1>6, <1>7, <2>1 DEF DialInv
<1>10. CASE /\ Credentials(opt) # "none"
            /\ clients' = [n \in DOMAIN clients \union {o.name} |->
                             IF n = o.name THEN Connection(opt) ELSE clients[n]]
  <2>1. ASSUME NEW n \in DOMAIN clients'
        PROVE  \/ n = o.name /\ clients'[n] = Connection(opt)
               \/ n \in DOMAIN clients /\ clients'[n] = clients[n]
    BY <1>10
  <2>2. Connection(opt).addr = o.addr
    BY <1>5 DEF Connection
  <2>3. ASSUME NEW n \in DOMAIN clients'
        PROVE  \E j \in DOMAIN Objects : Objects[j].name = n /\ clients'[n].addr = Objects[j].addr
    BY <1>2, <2>1, <2>2 DEF DialInv
  <2>4. ASSUME NEW n \in DOMAIN clients', NEW e \in clients'[n].resolved
        PROVE  /\ e.server.kind = "grpc"
               /\ ~clients'[n].both => (e.server.tls <=> clients'[n].creds = "tls")
    <3>1. CASE clients'[n] = Connection(opt)
      BY <1>5, <1>10, <3>1, Resolved DEF DialInv
    <3>2. CASE n \in DOMAIN clients /\ clients'[n] = clients[n]
      BY <3>2 DEF DialInv
    <3> QED
      BY <2>1, <3>1, <3>2
  <2> QED
    BY <1>6, <1>7, <2>3, <2>4 DEF DialInv
<1> QED
  BY <1>1, <1>4, <1>8, <1>9, <1>10 DEF DialOne

\* For any options, objects with names of their own and applications, every
\* connection of NewClient has its own object's address although all options
\* pile up, and what the resolver finds for it is a grpc server with TLS exactly
\* if the connection has it, unless TLS was given and insecure left on.
THEOREM ClientReachesItsServer == DialSpec => []ReachesItsServer
<1>1. DialInit => DialInv
  <2> SUFFICES ASSUME DialInit
               PROVE  DialInv
    OBVIOUS
  <2>1. opts \in Seq(Option) /\ objs = Objects /\ DOMAIN clients = {}
    BY DialAssumption DEF DialInit
  <2>2. Objects \in Seq(Range(Objects))
    BY DialAssumption DEF Range
  <2> QED
    BY <2>1, <2>2, InitAdvertise DEF DialInv
<1>2. DialInv /\ [DialNext]_dialVars => DialInv'
  <2> SUFFICES ASSUME DialInv, [DialNext]_dialVars
               PROVE  DialInv'
    OBVIOUS
  <2>1. CASE DialOne
    BY <2>1, DialOneDial
  <2>2. CASE Advertise \/ Registered \/ CloseAll \/ UNCHANGED dialVars
    <3>1. UNCHANGED <<opts, objs, clients>>
      BY <2>2 DEF Advertise, Registered, CloseAll, dialVars
    <3>2. AdvertiseInv'
      BY NextAdvertise DEF DialInv
    <3> QED
      BY <3>1, <3>2 DEF DialInv
  <2> QED
    BY <2>1, <2>2 DEF DialNext
<1>3. DialInv => ReachesItsServer
  <2> SUFFICES ASSUME DialInv
               PROVE  ReachesItsServer
    OBVIOUS
  <2>1. \A j, k \in DOMAIN Objects : Objects[j].name = Objects[k].name => j = k
    BY DialAssumption
  <2> QED
    BY <2>1 DEF DialInv, ReachesItsServer
<1> QED
  BY <1>1, <1>2, <1>3, PTL DEF DialSpec

-----------------------------------------------------------------------------
(* The sorted list of the hash ring. *)

\* What sort.Search finds.
Found(s, h, i) ==
  /\ i \in 1 .. Len(s) + 1
  /\ i = Len(s) + 1 \/ s[i] >= h
  /\ \A j \in 1 .. i - 1 : s[j] < h

\* It finds a place in any list.
LEMMA SearchFinds ==
  ASSUME NEW s \in Seq(Nat), NEW h \in Nat
  PROVE  Found(s, h, Search(s, h))
<1>1. PICK n \in Nat : n = Len(s) /\ \A j \in 1 .. n : s[j] \in Nat
  OBVIOUS
<1> DEFINE stops == {i \in 1 .. n + 1 : i = n + 1 \/ s[i] >= h}
<1>2. stops \in SUBSET Nat /\ n + 1 \in stops
  OBVIOUS
<1>3. PICK i \in stops : \A j \in stops : i <= j
  <2> HIDE DEF stops
  <2> QED
    BY <1>2, LeastNatural
<1>4. i \in 1 .. n + 1 /\ (i = n + 1 \/ s[i] >= h)
  OBVIOUS
<1>5. ASSUME NEW j \in 1 .. i - 1
      PROVE  s[j] < h
  <2>1. j \in 1 .. n /\ ~(i <= j)
    BY <1>4
  <2>2. j \notin stops
    <3> HIDE DEF stops
    <3> QED
      BY <1>3, <2>1
  <2>3. ~(s[j] >= h) /\ s[j] \in Nat
    BY <1>1, <2>1, <2>2
  <2> QED
    BY <2>3
<1>6. Found(s, h, i)
  BY <1>1, <1>4, <1>5 DEF Found
<1> QED
  BY <1>6 DEF Search, Found

\* The list is in order.
Sorted(s) == \A i, j \in 1 .. Len(s) : i <= j => s[i] <= s[j]

\* g says where in s each of D is listed: every place lists one of D, under its
\* hash H.
IsListing(g, s, D, H) ==
  /\ g \in [D -> 1 .. Len(s)]
  /\ \A k \in 1 .. Len(s) : \E c \in D : g[c] = k
  /\ \A c, d \in D : g[c] = g[d] => c = d
  /\ \A c \in D : s[g[c]] = H[c]

\* s has one entry for each of D, several where hashes collide.
Lists(s, D, H) == \E g : IsListing(g, s, D, H)

\* Two lists one behind the other.
LEMMA Joined ==
  ASSUME NEW S, NEW p \in Seq(S), NEW q \in Seq(S)
  PROVE  /\ p \o q \in Seq(S)
         /\ Len(p \o q) = Len(p) + Len(q)
         /\ \A j \in 1 .. Len(p) + Len(q) : (p \o q)[j] = IF j <= Len(p) THEN p[j] ELSE q[j - Len(p)]
  OBVIOUS

\* What is left of a list without its k-th entry.
LEMMA Removed ==
  ASSUME NEW s \in Seq(Nat), NEW k \in 1 .. Len(s)
  PROVE  /\ RemoveAt(s, k) \in Seq(Nat)
         /\ Len(RemoveAt(s, k)) = Len(s) - 1
         /\ \A j \in 1 .. Len(s) - 1 : RemoveAt(s, k)[j] = IF j < k THEN s[j] ELSE s[j + 1]
<1>1. PICK n \in Nat : n = Len(s) /\ k \in 1 .. n /\ \A j \in 1 .. n : s[j] \in Nat
  OBVIOUS
<1>2. PICK p : p = SubSeq(s, 1, k - 1)
  OBVIOUS
<1>3. PICK q : q = SubSeq(s, k + 1, n)
  OBVIOUS
<1>4. p \in Seq(Nat) /\ Len(p) = k - 1 /\ \A j \in 1 .. k - 1 : p[j] = s[j]
  BY <1>1, <1>2
<1>5. q \in Seq(Nat) /\ Len(q) = n - k /\ \A j \in 1 .. n - k : q[j] = s[k + j]
  BY <1>1, <1>3
<1>6. PICK t : t = p \o q
  OBVIOUS
<1>7. /\ t \in Seq(Nat) /\ Len(t) = n - 1
      /\ \A j \in 1 .. n - 1 : t[j] = IF j <= k - 1 THEN p[j] ELSE q[j - (k - 1)]
  <2>1. Len(p) + Len(q) = n - 1
    BY <1>1, <1>4, <1>5
  <2>2. /\ t \in Seq(Nat) /\ Len(t) = n - 1
        /\ \A j \in 1 .. n - 1 : t[j] = IF j <= Len(p) THEN p[j] ELSE q[j - Len(p)]
    <3>1. /\ t \in Seq(Nat) /\ Len(t) = Len(p) + Len(q)
          /\ \A j \in 1 .. Len(p) + Len(q) : t[j] = IF j <= Len(p) THEN p[j] ELSE q[j - Len(p)]
      BY <1>4, <1>5, <1>6, Joined
    <3> QED
      BY <2>1, <3>1
  <2> QED
    BY <1>4, <2>2
<1>8. ASSUME NEW j \in 1 .. n - 1
      PROVE  t[j] = IF j < k THEN s[j] ELSE s[j + 1]
  <2>1. CASE j < k
    BY <1>1, <1>4, <1>7, <2>1
  <2>2. CASE j >= k
    <3>1. j - (k - 1) \in 1 .. n - k /\ k + (j - (k - 1)) = j + 1 /\ ~(j <= k - 1)
      BY <1>1, <2>2
    <3>2. t[j] = q[j - (k - 1)]
      BY <1>7, <3>1
    <3>3. q[j - (k - 1)] = s[k + (j - (k - 1))]
      BY <1>5, <3>1
    <3> QED
      BY <1>1, <2>2, <3>1, <3>2, <3>3
  <2> QED
    BY <1>1, <2>1, <2>2
<1>9. RemoveAt(s, k) = t
  BY <1>1, <1>2, <1>3, <1>6 DEF RemoveAt
<1> QED
  BY <1>1, <1>7, <1>8, <1>9

\* t is the list s with e put before its k-th entry.
Inserts(t, s, k, e) ==
  /\ t \in Seq(Nat)
  /\ Len(t) = Len(s) + 1
  /\ \A j \in 1 .. Len(s) + 1 : t[j] = IF j < k THEN s[j] ELSE IF j = k THEN e ELSE s[j - 1]

\* So does InsertAt.
LEMMA Inserted ==
  ASSUME NEW s \in Seq(Nat), NEW k \in 1 .. Len(s) + 1, NEW e \in Nat
  PROVE  Inserts(InsertAt(s, k, e), s, k, e)
<1>1. PICK n \in Nat : n = Len(s) /\ k \in 1 .. n + 1 /\ \A j \in 1 .. n : s[j] \in Nat
  OBVIOUS
<1>2. PICK p : p = SubSeq(s, 1, k - 1)
  OBVIOUS
<1>3. PICK q : q = SubSeq(s, k, n)
  OBVIOUS
<1>4. p \in Seq(Nat) /\ Len(p) = k - 1 /\ \A j \in 1 .. k - 1 : p[j] = s[j]
  BY <1>1, <1>2
<1>5. q \in Seq(Nat) /\ Len(q) = n + 1 - k /\ \A j \in 1 .. n + 1 - k : q[j] = s[k + j - 1]
  BY <1>1, <1>3
<1>6. PICK r : r = p \o <<e>>
  OBVIOUS
<1>7. r \in Seq(Nat) /\ Len(r) = k /\ r[k] = e /\ \A j \in 1 .. k - 1 : r[j] = s[j]
  <2>1. <<e>> \in Seq(Nat) /\ Len(<<e>>) = 1 /\ <<e>>[1] = e
    OBVIOUS
  <2>2. Len(p) + 1 = k /\ k \in 1 .. k /\ ~(k <= Len(p)) /\ k - Len(p) = 1
    BY <1>1, <1>4
  <2>3. /\ r \in Seq(Nat) /\ Len(r) = k
        /\ \A j \in 1 .. k : r[j] = IF j <= Len(p) THEN p[j] ELSE <<e>>[j - Len(p)]
    <3>1. PICK o \in Seq(Nat) : o = <<e>> /\ Len(o) = 1
      BY <2>1
    <3>2. /\ r \in Seq(Nat) /\ Len(r) = Len(p) + Len(o)
          /\ \A j \in 1 .. Len(p) + Len(o) : r[j] = IF j <= Len(p) THEN p[j] ELSE o[j - Len(p)]
      BY <1>4, <1>6, <3>1, Joined
    <3> QED
      BY <2>2, <3>1, <3>2
  <2>4. r[k] = e
    BY <2>1, <2>2, <2>3
  <2>5. ASSUME NEW j \in 1 .. k - 1
        PROVE  r[j] = s[j]
    <3>1. j \in 1 .. k /\ j <= Len(p)
      BY <1>1, <1>4
    <3> QED
      BY <1>4, <2>3, <3>1
  <2> QED
    BY <2>3, <2>4, <2>5
<1>8. PICK t : t = r \o q
  OBVIOUS
<1>9. /\ t \in Seq(Nat) /\ Len(t) = n + 1
      /\ \A j \in 1 .. n + 1 : t[j] = IF j <= k THEN r[j] ELSE q[j - k]
  <2>1. Len(r) = k /\ Len(r) + Len(q) = n + 1
    BY <1>1, <1>5, <1>7
  <2>2. /\ t \in Seq(Nat) /\ Len(t) = Len(r) + Len(q)
        /\ \A j \in 1 .. Len(r) + Len(q) : t[j] = IF j <= Len(r) THEN r[j] ELSE q[j - Len(r)]
    BY <1>5, <1>7, <1>8, Joined
  <2> QED
    BY <2>1, <2>2
<1>10. ASSUME NEW j \in 1 .. n + 1
       PROVE  t[j] = IF j < k THEN s[j] ELSE IF j = k THEN e ELSE s[j - 1]
  <2>1. CASE j <= k
    BY <1>1, <1>7, <1>9, <2>1
  <2>2. CASE j > k
    <3>1. j - k \in 1 .. n + 1 - k /\ k + (j - k) - 1 = j - 1 /\ ~(j <= k)
      BY <1>1, <2>2
    <3>2. t[j] = q[j - k]
      BY <1>9, <3>1
    <3>3. q[j - k] = s[k + (j - k) - 1]
      BY <1>5, <3>1
    <3> QED
      BY <1>1, <2>2, <3>1, <3>2, <3>3
  <2> QED
    BY <1>1, <2>1, <2>2
<1>11. InsertAt(s, k, e) = t
  BY <1>1, <1>2, <1>3, <1>6, <1>8 DEF InsertAt
<1> QED
  BY <1>1, <1>9, <1>10, <1>11 DEF Inserts

\* Delete takes an entry out for one of D: the first one with its hash, which
\* may be listed for another that collides; that one takes over its place.
LEMMA RemoveOne ==
  ASSUME NEW s \in Seq(Nat), NEW D, NEW c \in D, NEW H, \A e \in D : H[e] \in Nat,
         Sorted(s), Lists(s, D, H)
  PROVE  /\ RemovePoint(s, H[c]) \in Seq(Nat)
         /\ Sorted(RemovePoint(s, H[c]))
         /\ Lists(RemovePoint(s, H[c]), D \ {c}, H)
<1>1. PICK g : IsListing(g, s, D, H)
  BY DEF Lists
<1>2. PICK n \in Nat : n = Len(s) /\ \A j \in 1 .. n : s[j] \in Nat
  OBVIOUS
<1>3. PICK h \in Nat : h = H[c]
  OBVIOUS
<1>4. PICK k : k = Search(s, h) /\ Found(s, h, k)
  BY SearchFinds
<1>5. PICK l \in 1 .. n : l = g[c] /\ s[l] = h
  BY <1>1, <1>2, <1>3 DEF IsListing
<1>6. k \in 1 .. n /\ s[k] = h
  <2>1. k \in 1 .. n + 1 /\ (k = n + 1 \/ s[k] >= h) /\ \A j \in 1 .. k - 1 : s[j] < h
    BY <1>2, <1>4 DEF Found
  <2>2. k <= l
    <3>1. ASSUME l < k PROVE FALSE
      <4>1. l \in 1 .. k - 1
        BY <2>1, <3>1
      <4>2. s[l] < h
        BY <2>1, <4>1
      <4> QED
        BY <1>5, <4>2
    <3> QED
      BY <2>1, <3>1
  <2>3. k \in 1 .. n
    BY <2>1, <2>2
  <2>4. s[k] >= h /\ s[k] <= s[l] /\ s[k] \in Nat
    BY <1>2, <2>1, <2>2, <2>3 DEF Sorted
  <2> QED
    BY <1>5, <2>3, <2>4
<1>7. PICK t : t = RemoveAt(s, k) /\ RemovePoint(s, H[c]) = t
  BY <1>2, <1>3, <1>4, <1>6 DEF RemovePoint
<1>8. /\ t \in Seq(Nat) /\ Len(t) = n - 1
      /\ \A j \in 1 .. n - 1 : t[j] = IF j < k THEN s[j] ELSE s[j + 1]
  BY <1>2, <1>6, <1>7, Removed
<1>9. Sorted(t)
  <2> SUFFICES ASSUME NEW i \in 1 .. n - 1, NEW j \in 1 .. n - 1, i <= j
               PROVE  t[i] <= t[j]
    BY <1>8 DEF Sorted
  <2>1. PICK x \in 1 .. n : x = IF i < k THEN i ELSE i + 1
    BY <1>2
  <2>2. PICK y \in 1 .. n : y = IF j < k THEN j ELSE j + 1
    BY <1>2
  <2>3. x <= y
    BY <1>6, <2>1, <2>2
  <2>4. s[x] <= s[y]
    BY <1>2, <2>3 DEF Sorted
  <2>5. t[i] = s[x] /\ t[j] = s[y]
    BY <1>8, <2>1, <2>2
  <2> QED
    BY <2>4, <2>5
<1>10. PICK d \in D : g[d] = k
  BY <1>1, <1>2, <1>6 DEF IsListing
\* The place of the others in s, with d in c's, and in t.
<1>11. PICK f : f = [e \in D \ {c} |-> IF e = d THEN l ELSE g[e]]
  OBVIOUS
<1>12. PICK r : r = [e \in D \ {c} |-> IF f[e] < k THEN f[e] ELSE f[e] - 1]
  OBVIOUS
<1>13. /\ \A e \in D \ {c} : f[e] \in (1 .. n) \ {k} /\ s[f[e]] = H[e]
       /\ \A e, e2 \in D \ {c} : f[e] = f[e2] => e = e2
       /\ \A j \in (1 .. n) \ {k} : \E e \in D \ {c} : f[e] = j
  <2>1. /\ \A e \in D : g[e] \in 1 .. n /\ s[g[e]] = H[e]
        /\ \A e, e2 \in D : g[e] = g[e2] => e = e2
        /\ \A j \in 1 .. n : \E e \in D : g[e] = j
    BY <1>1, <1>2 DEF IsListing
  <2>2. H[d] = h /\ H[c] = h /\ g[c] = l
    BY <1>3, <1>5, <1>6, <1>10, <2>1
  <2>3. ASSUME NEW e \in D \ {c}
        PROVE  f[e] \in (1 .. n) \ {k} /\ s[f[e]] = H[e]
    BY <1>5, <1>6, <1>10, <1>11, <2>1, <2>2
  <2>4. ASSUME NEW e \in D \ {c}, NEW e2 \in D \ {c}, f[e] = f[e2]
        PROVE  e = e2
    BY <1>10, <1>11, <2>1, <2>2, <2>4
  <2>5. ASSUME NEW j \in (1 .. n) \ {k}
        PROVE  \E e \in D \ {c} : f[e] = j
    <3>1. CASE j = l
      <4>1. d \in D \ {c}
        BY <1>10, <2>2, <3>1
      <4> QED
        BY <1>11, <3>1, <4>1
    <3>2. CASE j # l
      <4>1. PICK e \in D : g[e] = j
        BY <2>1
      <4>2. e \in D \ {c} /\ e # d
        BY <1>10, <2>2, <3>2, <4>1
      <4> QED
        BY <1>11, <4>1, <4>2
    <3> QED
      BY <3>1, <3>2
  <2> QED
    BY <2>3, <2>4, <2>5
<1>14. IsListing(r, t, D \ {c}, H)
  <2>1. ASSUME NEW e \in D \ {c}
        PROVE  r[e] \in 1 .. n - 1 /\ t[r[e]] = H[e]
    <3>1. PICK x \in 1 .. n : x = f[e] /\ x # k /\ s[x] = H[e]
      BY <1>13
    <3>2. r[e] = IF x < k THEN x ELSE x - 1
      BY <1>12, <3>1
    <3>3. (IF x < k THEN x ELSE x - 1) \in 1 .. n - 1
      <4>1. x \in Nat /\ k \in Nat /\ 1 <= x /\ x <= n /\ 1 <= k /\ k <= n
        BY <1>2, <1>6
      <4>2. CASE x < k
        BY <1>2, <4>1, <4>2
      <4>3. CASE x > k
        BY <1>2, <4>1, <4>3
      <4> QED
        BY <3>1, <4>1, <4>2, <4>3
    <3>4. x = IF r[e] < k THEN r[e] ELSE r[e] + 1
      BY <1>2, <1>6, <3>1, <3>2
    <3> QED
      BY <1>8, <3>1, <3>2, <3>3, <3>4
  <2>2. ASSUME NEW e \in D \ {c}, NEW e2 \in D \ {c}, r[e] = r[e2]
        PROVE  e = e2
    <3>1. PICK x \in 1 .. n : x = f[e] /\ x # k
      BY <1>13
    <3>4. PICK y \in 1 .. n : y = f[e2] /\ y # k
      BY <1>13
    <3>2. (IF x < k THEN x ELSE x - 1) = (IF y < k THEN y ELSE y - 1)
      BY <1>12, <2>2, <3>1, <3>4
    <3>3. x = y
      <4>1. x \in Nat /\ y \in Nat /\ k \in Nat
        BY <1>2, <1>6
      <4>2. CASE x < k /\ y < k
        BY <3>2, <4>2
      <4>3. CASE x < k /\ y > k
        BY <3>2, <4>1, <4>3
      <4>4. CASE x > k /\ y < k
        BY <3>2, <4>1, <4>4
      <4>5. CASE x > k /\ y > k
        BY <3>2, <4>1, <4>5
      <4> QED
        BY <3>1, <3>4, <4>1, <4>2, <4>3, <4>4, <4>5
    <3> QED
      BY <1>13, <3>1, <3>3, <3>4
  <2>3. ASSUME NEW j \in 1 .. n - 1
        PROVE  \E e \in D \ {c} : r[e] = j
    <3>1. PICK x \in (1 .. n) \ {k} : x = IF j < k THEN j ELSE j + 1
      BY <1>2, <1>6
    <3>2. PICK e \in D \ {c} : f[e] = x
      BY <1>13
    <3>3. r[e] = IF x < k THEN x ELSE x - 1
      BY <1>12, <3>2
    <3>4. r[e] = j
      BY <1>2, <1>6, <3>1, <3>3
    <3> QED
      BY <3>4
  <2>4. r \in [D \ {c} -> 1 .. n - 1]
    BY <1>12, <2>1
  <2>5. 1 .. Len(t) = 1 .. n - 1
    BY <1>8
  <2> QED
    BY <2>1, <2>2, <2>3, <2>4, <2>5 DEF IsListing
<1> QED
  BY <1>7, <1>8, <1>9, <1>14 DEF Lists

\* The sort of Add puts an entry in for one more.
LEMMA InsertOne ==
  ASSUME NEW s \in Seq(Nat), NEW D, NEW c, c \notin D, NEW H, \A e \in D \union {c} : H[e] \in Nat,
         Sorted(s), Lists(s, D, H)
  PROVE  /\ InsertPoint(s, H[c]) \in Seq(Nat)
         /\ Sorted(InsertPoint(s, H[c]))
         /\ Lists(InsertPoint(s, H[c]), D \union {c}, H)
<1>1. PICK g : IsListing(g, s, D, H)
  BY DEF Lists
<1>2. PICK n \in Nat : n = Len(s) /\ \A j \in 1 .. n : s[j] \in Nat
  OBVIOUS
<1>3. PICK h \in Nat : h = H[c]
  OBVIOUS
<1>4. PICK k : k = Search(s, h) /\ Found(s, h, k)
  BY SearchFinds
<1>5. k \in 1 .. n + 1 /\ (k = n + 1 \/ s[k] >= h) /\ \A j \in 1 .. k - 1 : s[j] < h
  BY <1>2, <1>4 DEF Found
<1>6. PICK t : t = InsertAt(s, k, h) /\ InsertPoint(s, H[c]) = t
  BY <1>3, <1>4 DEF InsertPoint
<1>7. /\ t \in Seq(Nat) /\ Len(t) = n + 1
      /\ \A j \in 1 .. n + 1 : t[j] = IF j < k THEN s[j] ELSE IF j = k THEN h ELSE s[j - 1]
  <2>1. k \in 1 .. Len(s) + 1
    BY <1>2, <1>5
  <2>2. Inserts(t, s, k, h)
    BY <1>6, <2>1, Inserted
  <2> QED
    BY <1>2, <2>2 DEF Inserts
<1>8. \A j \in k .. n : s[j] >= h
  <2> TAKE j \in k .. n
  <2>1. k \in 1 .. n /\ j \in 1 .. n /\ k <= j /\ s[k] >= h
    BY <1>2, <1>5
  <2>2. s[k] <= s[j]
    BY <1>2, <2>1 DEF Sorted
  <2> QED
    BY <1>2, <2>1, <2>2
<1>9. Sorted(t)
  <2> SUFFICES ASSUME NEW i \in 1 .. n + 1, NEW j \in 1 .. n + 1, i < j
               PROVE  t[i] <= t[j]
    <3>1. \A i \in 1 .. n + 1 : t[i] \in Nat
      BY <1>7
    <3> QED
      BY <1>7, <3>1 DEF Sorted
  <2>1. CASE i = k
    <3>1. t[i] = h /\ t[j] = s[j - 1] /\ j - 1 \in k .. n
      BY <1>2, <1>5, <1>7, <2>1
    <3> QED
      BY <1>2, <1>5, <1>8, <3>1
  <2>2. CASE j = k
    <3>1. t[i] = s[i] /\ t[j] = h /\ i \in 1 .. k - 1 /\ s[i] \in Nat
      BY <1>2, <1>5, <1>7, <2>2
    <3> QED
      BY <1>5, <3>1
  <2>3. CASE i # k /\ j # k
    <3>1. PICK x \in 1 .. n : x = IF i < k THEN i ELSE i - 1
      BY <1>2, <1>5, <2>3
    <3>2. PICK y \in 1 .. n : y = IF j < k THEN j ELSE j - 1
      BY <1>2, <1>5, <2>3
    <3>3. x <= y
      BY <1>5, <2>3, <3>1, <3>2
    <3>4. s[x] <= s[y]
      BY <1>2, <3>3 DEF Sorted
    <3>5. t[i] = s[x] /\ t[j] = s[y]
      BY <1>7, <2>3, <3>1, <3>2
    <3> QED
      BY <3>4, <3>5
  <2> QED
    BY <2>1, <2>2, <2>3
<1>10. PICK r : r = [e \in D \union {c} |-> IF e = c THEN k ELSE IF g[e] < k THEN g[e] ELSE g[e] + 1]
  OBVIOUS
<1>11. /\ \A e \in D : g[e] \in 1 .. n /\ s[g[e]] = H[e]
       /\ \A e, e2 \in D : g[e] = g[e2] => e = e2
       /\ \A j \in 1 .. n : \E e \in D : g[e] = j
  BY <1>1, <1>2 DEF IsListing
<1>12. r[c] = k
  BY <1>10
<1>13. ASSUME NEW e \in D
       PROVE  /\ r[e] \in (1 .. n + 1) \ {k} /\ t[r[e]] = H[e]
              /\ g[e] = IF r[e] < k THEN r[e] ELSE r[e] - 1
  <2>1. PICK x \in 1 .. n : x = g[e] /\ s[x] = H[e]
    BY <1>11
  <2>2. r[e] = IF x < k THEN x ELSE x + 1
    BY <1>10, <2>1
  <2>3. r[e] \in (1 .. n + 1) \ {k} /\ x = IF r[e] < k THEN r[e] ELSE r[e] - 1
    BY <1>2, <1>5, <2>2
  <2> QED
    BY <1>5, <1>7, <2>1, <2>3
<1>14. IsListing(r, t, D \union {c}, H)
  <2>1. r \in [D \union {c} -> 1 .. n + 1]
    BY <1>5, <1>10, <1>12, <1>13
  <2>2. ASSUME NEW e \in D \union {c}
        PROVE  t[r[e]] = H[e]
    <3>1. CASE e = c
      <4>1. t[k] = h
        BY <1>5, <1>7
      <4> QED
        BY <1>3, <1>12, <3>1, <4>1
    <3>2. CASE e \in D
      BY <1>13, <3>2
    <3> QED
      BY <3>1, <3>2
  <2>3. ASSUME NEW e \in D \union {c}, NEW e2 \in D \union {c}, r[e] = r[e2]
        PROVE  e = e2
    <3>1. CASE e \in D /\ e2 \in D
      <4>1. g[e] = g[e2]
        BY <1>13, <2>3, <3>1
      <4> QED
        BY <1>11, <3>1, <4>1
    <3>2. CASE e = c \/ e2 = c
      BY <1>12, <1>13, <2>3, <3>2
    <3> QED
      BY <3>1, <3>2
  <2>4. ASSUME NEW j \in 1 .. n + 1
        PROVE  \E e \in D \union {c} : r[e] = j
    <3>1. CASE j = k
      BY <1>12, <3>1
    <3>2. CASE j # k
      <4>1. PICK x \in 1 .. n : x = IF j < k THEN j ELSE j - 1
        BY <1>2, <1>5, <3>2
      <4>2. PICK e \in D : g[e] = x
        BY <1>11
      <4>3. r[e] = IF x < k THEN x ELSE x + 1
        BY <1>10, <4>2
      <4>4. r[e] = j
        BY <1>2, <1>5, <3>2, <4>1, <4>3
      <4> QED
        BY <4>4
    <3> QED
      BY <3>1, <3>2
  <2>5. 1 .. Len(t) = 1 .. n + 1
    BY <1>7
  <2> QED
    BY <2>1, <2>2, <2>3, <2>4, <2>5 DEF IsListing
<1> QED
  BY <1>6, <1>7, <1>9, <1>14 DEF Lists

\* h[k] is what g has for the first k indices.
FirstOnes(h, g, n, k) ==
  /\ h[k] = g[1 .. k] /\ h[k - 1] = g[(1 .. k) \ {Max(1 .. k)}]
  /\ Max(1 .. k) = k /\ 1 .. k \in SUBSET (1 .. n) /\ 1 .. k # {}

\* A fold goes over the list from its first entry to its last: the values it
\* has after 0, 1, ... entries.
LEMMA PrefixOf ==
  ASSUME NEW n \in Nat, NEW g, NEW h, h = [k \in 0 .. n |-> g[1 .. k]]
  PROVE  /\ h[0] = g[{}] /\ h[n] = g[1 .. n]
         /\ \A k \in 1 .. n : FirstOnes(h, g, n, k)
<1>1. 1 .. 0 = {} /\ 0 \in 0 .. n /\ n \in 0 .. n
  OBVIOUS
<1>2. ASSUME NEW k \in 1 .. n
      PROVE  FirstOnes(h, g, n, k)
  <2>1. k \in Nat /\ k > 0 /\ k \in 0 .. n /\ k - 1 \in 0 .. n
    OBVIOUS
  <2>2. Max(1 .. k) = k /\ (1 .. k) \ {Max(1 .. k)} = 1 .. k - 1 /\ 1 .. k # {}
    BY <2>1, LastOf
  <2>3. h[k] = g[1 .. k] /\ h[k - 1] = g[1 .. k - 1]
    BY <2>1
  <2>4. 1 .. k \in SUBSET (1 .. n)
    OBVIOUS
  <2> QED
    BY <2>2, <2>3, <2>4 DEF FirstOnes
<1> QED
  BY <1>1, <1>2

\* The fold of Delete over a list of hashes.
IsRemoving(base, ps, g) ==
  g = [s \in SUBSET DOMAIN ps |->
         IF s = {} THEN base ELSE RemovePoint(g[s \ {Max(s)}], ps[Max(s)])]

\* The loop of Delete takes the hashes out one by one.
LEMMA Removing ==
  ASSUME NEW base \in Seq(Nat), NEW ps \in Seq(Nat)
  PROVE  \E h : /\ h[0] = base /\ h[Len(ps)] = FoldLeft(RemovePoint, base, ps)
                /\ \A k \in 1 .. Len(ps) : h[k] = RemovePoint(h[k - 1], ps[k])
<1>1. PICK n \in Nat : n = Len(ps) /\ DOMAIN ps = 1 .. n /\ \A k \in 1 .. n : ps[k] \in Nat
  OBVIOUS
<1>2. PICK A : A = Seq(Nat)
  OBVIOUS
<1>3. ASSUME NEW s \in A, NEW p \in Nat
      PROVE  RemovePoint(s, p) \in A
  <2>1. PICK k : k = Search(s, p)
    OBVIOUS
  <2>2. k \in 1 .. Len(s) + 1
    BY <1>2, <2>1, SearchFinds DEF Found
  <2>3. k \in 1 .. Len(s) => RemoveAt(s, k) \in A
    BY <1>2, Removed
  <2>4. k <= Len(s) => k \in 1 .. Len(s)
    BY <1>2, <2>2
  <2> QED
    BY <2>1, <2>3, <2>4 DEF RemovePoint
<1>4. PICK F : F = [s \in A |-> [k \in 1 .. n |-> RemovePoint(s, ps[k])]]
  OBVIOUS
<1>5. F \in [A -> [1 .. n -> A]]
  BY <1>1, <1>3, <1>4
<1>6. PICK f : IsFold(f, F, base, A, n)
  BY <1>2, <1>5, FoldExists
<1>7. ASSUME NEW s \in SUBSET (1 .. n)
      PROVE  f[s] = IF s = {} THEN base ELSE RemovePoint(f[s \ {Max(s)}], ps[Max(s)])
  <2>1. f[s] = Step(F, base, f, s)
    BY <1>6 DEF IsFold
  <2>2. CASE s = {}
    BY <2>1, <2>2 DEF Step
  <2>3. CASE s # {}
    <3>1. Max(s) \in 1 .. n /\ s \ {Max(s)} \in SUBSET (1 .. n)
      BY <2>3, MaxIn
    <3>2. f[s \ {Max(s)}] \in A
      BY <1>6, <3>1 DEF IsFold
    <3> QED
      BY <1>4, <2>1, <2>3, <3>1, <3>2 DEF Step
  <2> QED
    BY <2>2, <2>3
<1>8. IsRemoving(base, ps, f)
  BY <1>1, <1>6, <1>7 DEF IsRemoving, IsFold
<1>9. PICK g : g = (CHOOSE x : IsRemoving(base, ps, x)) /\ IsRemoving(base, ps, g)
  BY <1>8
<1>10. FoldLeft(RemovePoint, base, ps) = g[1 .. n]
  BY <1>1, <1>9 DEF FoldLeft, MapThenFoldSet, IsRemoving
<1>11. PICK h : h = [k \in 0 .. n |-> g[1 .. k]]
  OBVIOUS
<1>12. h[0] = base
  <2>1. g[{}] = base
    BY <1>1, <1>9 DEF IsRemoving
  <2> QED
    BY <1>11, <2>1, PrefixOf
<1>13. ASSUME NEW k \in 1 .. n
       PROVE  h[k] = RemovePoint(h[k - 1], ps[k])
  <2>1. FirstOnes(h, g, n, k)
    BY <1>11, PrefixOf
  <2>2. g[1 .. k] = RemovePoint(g[(1 .. k) \ {Max(1 .. k)}], ps[Max(1 .. k)])
    BY <1>1, <1>9, <2>1 DEF IsRemoving, FirstOnes
  <2> QED
    BY <2>1, <2>2 DEF FirstOnes
<1>14. h[n] = g[1 .. n]
  BY <1>11, PrefixOf
<1> QED
  BY <1>1, <1>10, <1>12, <1>13, <1>14

\* The fold of the sort.
IsInserting(base, ps, g) ==
  g = [s \in SUBSET DOMAIN ps |->
         IF s = {} THEN base ELSE InsertPoint(g[s \ {Max(s)}], ps[Max(s)])]

\* The sort puts the entries in one by one.
LEMMA Inserting ==
  ASSUME NEW base \in Seq(Nat), NEW ps \in Seq(Nat)
  PROVE  \E h : /\ h[0] = base /\ h[Len(ps)] = FoldLeft(InsertPoint, base, ps)
                /\ \A k \in 1 .. Len(ps) : h[k] = InsertPoint(h[k - 1], ps[k])
<1>1. PICK n \in Nat : n = Len(ps) /\ DOMAIN ps = 1 .. n /\ \A k \in 1 .. n : ps[k] \in Nat
  OBVIOUS
<1>2. PICK A : A = Seq(Nat)
  OBVIOUS
<1>3. ASSUME NEW s \in A, NEW p \in Nat
      PROVE  InsertPoint(s, p) \in A
  <2>1. PICK k : k = Search(s, p)
    OBVIOUS
  <2>2. k \in 1 .. Len(s) + 1
    BY <1>2, <2>1, SearchFinds DEF Found
  <2> QED
    BY <1>2, <2>1, <2>2, Inserted DEF InsertPoint, Inserts
<1>4. PICK F : F = [s \in A |-> [k \in 1 .. n |-> InsertPoint(s, ps[k])]]
  OBVIOUS
<1>5. F \in [A -> [1 .. n -> A]]
  BY <1>1, <1>3, <1>4
<1>6. PICK f : IsFold(f, F, base, A, n)
  BY <1>2, <1>5, FoldExists
<1>7. ASSUME NEW s \in SUBSET (1 .. n)
      PROVE  f[s] = IF s = {} THEN base ELSE InsertPoint(f[s \ {Max(s)}], ps[Max(s)])
  <2>1. f[s] = Step(F, base, f, s)
    BY <1>6 DEF IsFold
  <2>2. CASE s = {}
    BY <2>1, <2>2 DEF Step
  <2>3. CASE s # {}
    <3>1. Max(s) \in 1 .. n /\ s \ {Max(s)} \in SUBSET (1 .. n)
      BY <2>3, MaxIn
    <3>2. f[s \ {Max(s)}] \in A
      BY <1>6, <3>1 DEF IsFold
    <3> QED
      BY <1>4, <2>1, <2>3, <3>1, <3>2 DEF Step
  <2> QED
    BY <2>2, <2>3
<1>8. IsInserting(base, ps, f)
  BY <1>1, <1>6, <1>7 DEF IsInserting, IsFold
<1>9. PICK g : g = (CHOOSE x : IsInserting(base, ps, x)) /\ IsInserting(base, ps, g)
  BY <1>8
<1>10. FoldLeft(InsertPoint, base, ps) = g[1 .. n]
  BY <1>1, <1>9 DEF FoldLeft, MapThenFoldSet, IsInserting
<1>11. PICK h : h = [k \in 0 .. n |-> g[1 .. k]]
  OBVIOUS
<1>12. h[0] = base
  <2>1. g[{}] = base
    BY <1>1, <1>9 DEF IsInserting
  <2> QED
    BY <1>11, <2>1, PrefixOf
<1>13. ASSUME NEW k \in 1 .. n
       PROVE  h[k] = InsertPoint(h[k - 1], ps[k])
  <2>1. FirstOnes(h, g, n, k)
    BY <1>11, PrefixOf
  <2>2. g[1 .. k] = InsertPoint(g[(1 .. k) \ {Max(1 .. k)}], ps[Max(1 .. k)])
    BY <1>1, <1>9, <2>1 DEF IsInserting, FirstOnes
  <2> QED
    BY <2>1, <2>2 DEF FirstOnes
<1>14. h[n] = g[1 .. n]
  BY <1>11, PrefixOf
<1> QED
  BY <1>1, <1>10, <1>12, <1>13, <1>14

\* One step of utils.Delete, and its fold.
Keep(m, kept, x) == IF x = m THEN kept ELSE Append(kept, x)
IsKeeping(m, ps, g) ==
  g = [s \in SUBSET DOMAIN ps |->
         IF s = {} THEN <<>> ELSE Keep(m, g[s \ {Max(s)}], ps[Max(s)])]

\* utils.Delete copies the entries that stay one by one.
LEMMA Keeping ==
  ASSUME NEW m, NEW S, NEW ps \in Seq(S)
  PROVE  \E h : /\ h[0] = <<>> /\ h[Len(ps)] = Without(ps, m)
                /\ \A k \in 1 .. Len(ps) : h[k] = Keep(m, h[k - 1], ps[k])
<1>1. PICK n \in Nat : n = Len(ps) /\ DOMAIN ps = 1 .. n /\ \A k \in 1 .. n : ps[k] \in S
  OBVIOUS
<1>2. PICK A : A = Seq(S)
  OBVIOUS
<1>3. ASSUME NEW s \in A, NEW p \in S
      PROVE  Keep(m, s, p) \in A
  BY <1>2 DEF Keep
<1>4. PICK F : F = [s \in A |-> [k \in 1 .. n |-> Keep(m, s, ps[k])]]
  OBVIOUS
<1>5. F \in [A -> [1 .. n -> A]]
  BY <1>1, <1>3, <1>4
<1>6. PICK f : IsFold(f, F, <<>>, A, n)
  <2>1. <<>> \in A
    BY <1>2
  <2> QED
    BY <1>5, <2>1, FoldExists
<1>7. ASSUME NEW s \in SUBSET (1 .. n)
      PROVE  f[s] = IF s = {} THEN <<>> ELSE Keep(m, f[s \ {Max(s)}], ps[Max(s)])
  <2>1. f[s] = Step(F, <<>>, f, s)
    BY <1>6 DEF IsFold
  <2>2. CASE s = {}
    BY <2>1, <2>2 DEF Step
  <2>3. CASE s # {}
    <3>1. Max(s) \in 1 .. n /\ s \ {Max(s)} \in SUBSET (1 .. n)
      BY <2>3, MaxIn
    <3>2. f[s \ {Max(s)}] \in A
      BY <1>6, <3>1 DEF IsFold
    <3> QED
      BY <1>4, <2>1, <2>3, <3>1, <3>2 DEF Step
  <2> QED
    BY <2>2, <2>3
<1>8. IsKeeping(m, ps, f)
  BY <1>1, <1>6, <1>7 DEF IsKeeping, IsFold
<1>9. PICK g : g = (CHOOSE x : IsKeeping(m, ps, x)) /\ IsKeeping(m, ps, g)
  BY <1>8
<1>10. Without(ps, m) = g[1 .. n]
  BY <1>1, <1>9 DEF Without, FoldLeft, MapThenFoldSet, IsKeeping, Keep
<1>11. PICK h : h = [k \in 0 .. n |-> g[1 .. k]]
  OBVIOUS
<1>12. h[0] = <<>>
  <2>1. g[{}] = <<>>
    BY <1>1, <1>9 DEF IsKeeping
  <2> QED
    BY <1>11, <2>1, PrefixOf
<1>13. ASSUME NEW k \in 1 .. n
       PROVE  h[k] = Keep(m, h[k - 1], ps[k])
  <2>1. FirstOnes(h, g, n, k)
    BY <1>11, PrefixOf
  <2>2. g[1 .. k] = Keep(m, g[(1 .. k) \ {Max(1 .. k)}], ps[Max(1 .. k)])
    BY <1>1, <1>9, <2>1 DEF IsKeeping, FirstOnes
  <2> QED
    BY <2>1, <2>2 DEF FirstOnes
<1>14. h[n] = g[1 .. n]
  BY <1>11, PrefixOf
<1> QED
  BY <1>1, <1>10, <1>12, <1>13, <1>14

-----------------------------------------------------------------------------
(* The hash ring. *)

\* The hash of a virtual node.
Label == [c \in Nodes \X Virtual |-> Hash[c[1]][c[2]]]

\* What Delete leaves of a list: the entries of the other nodes.
LEMMA DeletesNode ==
  ASSUME NEW s \in Seq(Nat), NEW S \in SUBSET Nodes, NEW n \in S,
         Sorted(s), Lists(s, S \X Virtual, Label)
  PROVE  /\ FoldLeft(RemovePoint, s, NewPoints(n)) \in Seq(Nat)
         /\ Sorted(FoldLeft(RemovePoint, s, NewPoints(n)))
         /\ Lists(FoldLeft(RemovePoint, s, NewPoints(n)), (S \ {n}) \X Virtual, Label)
<1>1. VN \in Nat /\ MaxHash \in Nat /\ Hash \in [Nodes -> [0 .. VN - 1 -> 0 .. MaxHash]]
  BY HashAssumption DEF Virtual, Points
<1>2. PICK ps : ps = NewPoints(n)
  OBVIOUS
<1>3. ps \in Seq(Nat) /\ Len(ps) = VN /\ \A k \in 1 .. VN : ps[k] = Hash[n][k - 1] /\ ps[k] \in Nat
  <2>1. \A k \in 1 .. VN : k - 1 \in 0 .. VN - 1
    BY <1>1
  <2>2. \A k \in 1 .. VN : Hash[n][k - 1] \in Nat
    BY <1>1, <2>1
  <2>3. ps = [k \in 1 .. VN |-> Hash[n][k - 1]]
    BY <1>2 DEF NewPoints
  <2> QED
    BY <1>1, <2>2, <2>3
<1>4. PICK h : /\ h[0] = s /\ h[VN] = FoldLeft(RemovePoint, s, ps)
               /\ \A k \in 1 .. VN : h[k] = RemovePoint(h[k - 1], ps[k])
  <2>1. \E h : /\ h[0] = s /\ h[Len(ps)] = FoldLeft(RemovePoint, s, ps)
               /\ \A k \in 1 .. Len(ps) : h[k] = RemovePoint(h[k - 1], ps[k])
    BY <1>3, Removing
  <2> QED
    BY <1>3, <2>1
<1> DEFINE left(k) == (S \X Virtual) \ {<<n, j>> : j \in 0 .. k - 1}
           good(k) == h[k] \in Seq(Nat) /\ Sorted(h[k]) /\ Lists(h[k], left(k), Label)
           bad == {k \in 0 .. VN : ~good(k)}
<1>5. bad = {}
  <2> SUFFICES ASSUME bad # {}
               PROVE  FALSE
    OBVIOUS
  <2>1. PICK k \in bad : \A l \in bad : k <= l
    <3>1. bad \in SUBSET Nat
      BY <1>1
    <3> HIDE DEF bad
    <3> QED
      BY <3>1, LeastNatural
  <2>2. k \in 0 .. VN /\ ~good(k)
    OBVIOUS
  <2>3. CASE k = 0
    <3>1. left(0) = S \X Virtual
      OBVIOUS
    <3> QED
      BY <1>4, <2>2, <2>3, <3>1
  <2>4. CASE k # 0
    <3>1. k \in 1 .. VN /\ k - 1 \in 0 .. VN /\ k - 1 \in 0 .. VN - 1 /\ ~(k <= k - 1)
      BY <1>1, <2>2, <2>4
    <3>2. good(k - 1)
      <4>1. k - 1 \notin bad
        <5> HIDE DEF bad
        <5> QED
          BY <2>1, <3>1
      <4> QED
        BY <3>1, <4>1
    <3>3. PICK c : c = <<n, k - 1>>
      OBVIOUS
    <3>4. c \in left(k - 1) /\ Label[c] = ps[k]
      <4>1. c \in S \X Virtual /\ c \in Nodes \X Virtual
        BY <3>1, <3>3 DEF Virtual
      <4>2. c \notin {<<n, j>> : j \in 0 .. k - 1 - 1}
        BY <3>1, <3>3
      <4>3. Label[c] = Hash[n][k - 1]
        BY <3>3, <4>1 DEF Label
      <4> QED
        BY <1>3, <3>1, <4>1, <4>2, <4>3
    <3>5. left(k) = left(k - 1) \ {c}
      <4>1. 0 .. k - 1 = (0 .. k - 1 - 1) \union {k - 1}
        BY <3>1
      <4> QED
        BY <3>3, <4>1
    <3>6. \A e \in left(k - 1) : Label[e] \in Nat
      <4>1. \A e \in Nodes \X Virtual : Label[e] \in Nat
        BY <1>1 DEF Label, Virtual
      <4> QED
        BY <4>1
    <3>7. h[k] = RemovePoint(h[k - 1], Label[c])
      BY <1>4, <3>1, <3>4
    <3>8. PICK D : D = left(k - 1)
      OBVIOUS
    <3>9. /\ RemovePoint(h[k - 1], Label[c]) \in Seq(Nat)
          /\ Sorted(RemovePoint(h[k - 1], Label[c]))
          /\ Lists(RemovePoint(h[k - 1], Label[c]), D \ {c}, Label)
      <4>1. h[k - 1] \in Seq(Nat) /\ Sorted(h[k - 1]) /\ Lists(h[k - 1], D, Label)
        BY <3>2, <3>8
      <4>2. c \in D /\ \A e \in D : Label[e] \in Nat
        BY <3>4, <3>6, <3>8
      <4> QED
        BY <4>1, <4>2, RemoveOne
    <3> QED
      BY <2>2, <3>5, <3>7, <3>8, <3>9
  <2> QED
    BY <2>3, <2>4
<1>6. good(VN)
  <2>1. VN \in 0 .. VN
    BY <1>1
  <2>2. VN \notin bad
    <3> HIDE DEF bad
    <3> QED
      BY <1>5
  <2> QED
    BY <2>1, <2>2
<1>7. left(VN) = (S \ {n}) \X Virtual
  BY DEF Virtual
<1> QED
  BY <1>2, <1>4, <1>6, <1>7

\* Sorting a list keeps its entries.
LEMMA AscendingSorts ==
  ASSUME NEW t \in Seq(Nat)
  PROVE  /\ Ascending(t) \in Seq(Nat)
         /\ Sorted(Ascending(t))
         /\ Lists(Ascending(t), 1 .. Len(t), t)
<1>1. PICK n \in Nat : n = Len(t) /\ \A k \in 1 .. n : t[k] \in Nat
  OBVIOUS
<1>2. PICK h : /\ h[0] = <<>> /\ h[n] = Ascending(t)
               /\ \A k \in 1 .. n : h[k] = InsertPoint(h[k - 1], t[k])
  <2>1. <<>> \in Seq(Nat)
    OBVIOUS
  <2>2. \E h : /\ h[0] = <<>> /\ h[Len(t)] = FoldLeft(InsertPoint, <<>>, t)
               /\ \A k \in 1 .. Len(t) : h[k] = InsertPoint(h[k - 1], t[k])
    BY <2>1, Inserting
  <2> QED
    BY <1>1, <2>2 DEF Ascending
<1> DEFINE good(k) == h[k] \in Seq(Nat) /\ Sorted(h[k]) /\ Lists(h[k], 1 .. k, t)
           bad == {k \in 0 .. n : ~good(k)}
<1>3. bad = {}
  <2> SUFFICES ASSUME bad # {}
               PROVE  FALSE
    OBVIOUS
  <2>1. PICK k \in bad : \A l \in bad : k <= l
    <3>1. bad \in SUBSET Nat
      OBVIOUS
    <3> HIDE DEF bad
    <3> QED
      BY <3>1, LeastNatural
  <2>2. k \in 0 .. n /\ ~good(k)
    OBVIOUS
  <2>3. CASE k = 0
    <3>1. <<>> \in Seq(Nat) /\ Len(<<>>) = 0 /\ 1 .. 0 = {}
      OBVIOUS
    <3>2. Sorted(<<>>)
      BY <3>1 DEF Sorted
    <3>3. IsListing(<<>>, <<>>, 1 .. 0, t)
      BY <3>1 DEF IsListing
    <3> QED
      BY <1>2, <2>2, <2>3, <3>1, <3>2, <3>3 DEF Lists
  <2>4. CASE k # 0
    <3>1. k \in 1 .. n /\ k - 1 \in 0 .. n /\ ~(k <= k - 1)
      BY <2>2, <2>4
    <3>2. good(k - 1)
      <4>1. k - 1 \notin bad
        <5> HIDE DEF bad
        <5> QED
          BY <2>1, <3>1
      <4> QED
        BY <3>1, <4>1
    <3>3. PICK D : D = 1 .. k - 1
      OBVIOUS
    <3>4. 1 .. k = D \union {k} /\ k \notin D /\ \A e \in D \union {k} : t[e] \in Nat
      BY <1>1, <3>1, <3>3
    <3>5. /\ InsertPoint(h[k - 1], t[k]) \in Seq(Nat)
          /\ Sorted(InsertPoint(h[k - 1], t[k]))
          /\ Lists(InsertPoint(h[k - 1], t[k]), D \union {k}, t)
      <4>1. h[k - 1] \in Seq(Nat) /\ Sorted(h[k - 1]) /\ Lists(h[k - 1], D, t)
        BY <3>2, <3>3
      <4> QED
        BY <3>4, <4>1, InsertOne
    <3> QED
      BY <1>2, <2>2, <3>1, <3>4, <3>5
  <2> QED
    BY <2>3, <2>4
<1>4. good(n)
  BY <1>3
<1> QED
  BY <1>1, <1>2, <1>4

\* A list of the entries of another list lists what that one does.
LEMMA ListsAgain ==
  ASSUME NEW t \in Seq(Nat), NEW r \in Seq(Nat), NEW D, NEW H,
         Lists(t, D, H), Lists(r, 1 .. Len(t), t)
  PROVE  Lists(r, D, H)
<1>1. PICK g : IsListing(g, t, D, H)
  BY DEF Lists
<1>2. PICK f : IsListing(f, r, 1 .. Len(t), t)
  BY DEF Lists
<1>3. PICK x : x = [c \in D |-> f[g[c]]]
  OBVIOUS
<1>4. IsListing(x, r, D, H)
  <2>1. ASSUME NEW c \in D
        PROVE  g[c] \in 1 .. Len(t) /\ x[c] = f[g[c]] /\ x[c] \in 1 .. Len(r) /\ r[x[c]] = H[c]
    BY <1>1, <1>2, <1>3 DEF IsListing
  <2>2. ASSUME NEW c \in D, NEW d \in D, x[c] = x[d]
        PROVE  c = d
    <3>1. g[c] = g[d]
      BY <1>2, <2>1, <2>2 DEF IsListing
    <3> QED
      BY <1>1, <3>1 DEF IsListing
  <2>3. ASSUME NEW k \in 1 .. Len(r)
        PROVE  \E c \in D : x[c] = k
    <3>1. PICK j \in 1 .. Len(t) : f[j] = k
      BY <1>2 DEF IsListing
    <3>2. PICK c \in D : g[c] = j
      BY <1>1 DEF IsListing
    <3> QED
      BY <2>1, <3>1, <3>2
  <2> QED
    BY <1>3, <2>1, <2>2, <2>3 DEF IsListing
<1> QED
  BY <1>4 DEF Lists

\* The points of one more node behind the list.
LEMMA AppendsNode ==
  ASSUME NEW s \in Seq(Nat), NEW S \in SUBSET Nodes, NEW n \in Nodes, n \notin S,
         Lists(s, S \X Virtual, Label)
  PROVE  /\ s \o NewPoints(n) \in Seq(Nat)
         /\ Lists(s \o NewPoints(n), (S \union {n}) \X Virtual, Label)
<1>1. VN \in Nat /\ MaxHash \in Nat /\ Hash \in [Nodes -> [0 .. VN - 1 -> 0 .. MaxHash]]
  BY HashAssumption DEF Virtual, Points
<1>2. PICK ps : ps = NewPoints(n)
  OBVIOUS
<1>3. ps \in Seq(Nat) /\ Len(ps) = VN /\ \A k \in 1 .. VN : ps[k] = Hash[n][k - 1]
  <2>1. \A k \in 1 .. VN : k - 1 \in 0 .. VN - 1
    BY <1>1
  <2>2. \A k \in 1 .. VN : Hash[n][k - 1] \in Nat
    BY <1>1, <2>1
  <2>3. ps = [k \in 1 .. VN |-> Hash[n][k - 1]]
    BY <1>2 DEF NewPoints
  <2> QED
    BY <1>1, <2>2, <2>3
<1>4. PICK l \in Nat : l = Len(s)
  OBVIOUS
<1>5. PICK t : t = s \o ps
  OBVIOUS
<1>6. /\ t \in Seq(Nat) /\ Len(t) = l + VN
      /\ \A j \in 1 .. l + VN : t[j] = IF j <= l THEN s[j] ELSE ps[j - l]
  BY <1>3, <1>4, <1>5, Joined
<1>7. PICK g : IsListing(g, s, S \X Virtual, Label)
  BY DEF Lists
<1>8. PICK D : D = S \X Virtual
  OBVIOUS
<1>9. /\ \A c \in D : g[c] \in 1 .. l /\ s[g[c]] = Label[c]
      /\ \A c, d \in D : g[c] = g[d] => c = d
      /\ \A j \in 1 .. l : \E c \in D : g[c] = j
  BY <1>4, <1>7, <1>8 DEF IsListing
<1>10. PICK all : all = (S \union {n}) \X Virtual
  OBVIOUS
<1>11. /\ \A c \in D : c \in all /\ c[1] # n
       /\ \A i \in 0 .. VN - 1 : <<n, i>> \in all /\ Label[<<n, i>>] = Hash[n][i]
       /\ \A c \in all : c \in D \/ \E i \in 0 .. VN - 1 : c = <<n, i>>
  BY <1>8, <1>10 DEF Virtual, Label
<1>12. PICK x : x = [c \in all |-> IF c[1] = n THEN l + 1 + c[2] ELSE g[c]]
  OBVIOUS
<1>13. ASSUME NEW c \in D
       PROVE  x[c] = g[c] /\ x[c] \in 1 .. l /\ t[x[c]] = Label[c]
  <2>1. x[c] = g[c] /\ g[c] \in 1 .. l /\ s[g[c]] = Label[c]
    BY <1>9, <1>11, <1>12
  <2>2. g[c] \in 1 .. l + VN /\ g[c] <= l
    BY <1>1, <2>1
  <2> QED
    BY <1>6, <2>1, <2>2
<1>14. ASSUME NEW i \in 0 .. VN - 1
       PROVE  /\ x[<<n, i>>] = l + 1 + i /\ l + 1 + i \in l + 1 .. l + VN
              /\ t[l + 1 + i] = Label[<<n, i>>]
  <2>1. x[<<n, i>>] = l + 1 + i
    BY <1>11, <1>12
  <2>2. /\ l + 1 + i \in l + 1 .. l + VN /\ l + 1 + i \in 1 .. l + VN /\ ~(l + 1 + i <= l)
        /\ (l + 1 + i) - l = i + 1 /\ i + 1 \in 1 .. VN /\ (i + 1) - 1 = i
    BY <1>1
  <2>3. t[l + 1 + i] = ps[i + 1]
    BY <1>6, <2>2
  <2>4. ps[i + 1] = Hash[n][i]
    BY <1>3, <2>2
  <2> QED
    BY <1>11, <2>1, <2>2, <2>3, <2>4
<1>15. IsListing(x, t, all, Label)
  <2>1. ASSUME NEW c \in all
        PROVE  x[c] \in 1 .. l + VN /\ t[x[c]] = Label[c]
    <3>1. CASE c \in D
      BY <1>1, <1>13, <3>1
    <3>2. CASE \E i \in 0 .. VN - 1 : c = <<n, i>>
      BY <1>1, <1>14, <3>2
    <3> QED
      BY <1>11, <3>1, <3>2
  <2>2. ASSUME NEW c \in all, NEW d \in all, x[c] = x[d]
        PROVE  c = d
    <3>1. CASE c \in D /\ d \in D
      BY <1>9, <1>13, <2>2, <3>1
    <3>2. CASE c \in D /\ d \notin D
      <4>1. PICK i \in 0 .. VN - 1 : d = <<n, i>>
        BY <1>11, <3>2
      <4>2. x[c] \in 1 .. l /\ x[d] \in l + 1 .. l + VN
        BY <1>13, <1>14, <3>2, <4>1
      <4> QED
        BY <1>1, <2>2, <4>2
    <3>3. CASE c \notin D /\ d \in D
      <4>1. PICK i \in 0 .. VN - 1 : c = <<n, i>>
        BY <1>11, <3>3
      <4>2. x[d] \in 1 .. l /\ x[c] \in l + 1 .. l + VN
        BY <1>13, <1>14, <3>3, <4>1
      <4> QED
        BY <1>1, <2>2, <4>2
    <3>4. CASE c \notin D /\ d \notin D
      <4>1. PICK i \in 0 .. VN - 1 : c = <<n, i>>
        BY <1>11, <3>4
      <4>2. PICK j \in 0 .. VN - 1 : d = <<n, j>>
        BY <1>11, <3>4
      <4>3. l + 1 + i = l + 1 + j
        BY <1>14, <2>2, <4>1, <4>2
      <4>4. i = j
        BY <4>3
      <4> QED
        BY <4>1, <4>2, <4>4
    <3> QED
      BY <3>1, <3>2, <3>3, <3>4
  <2>3. ASSUME NEW j \in 1 .. l + VN
        PROVE  \E c \in all : x[c] = j
    <3>1. CASE j <= l
      <4>1. PICK c \in D : g[c] = j
        BY <1>9, <3>1
      <4> QED
        BY <1>11, <1>13, <4>1
    <3>2. CASE j > l
      <4>1. PICK i \in 0 .. VN - 1 : l + 1 + i = j
        <5>1. j - (l + 1) \in 0 .. VN - 1 /\ l + 1 + (j - (l + 1)) = j
          BY <1>1, <3>2
        <5> QED
          BY <5>1
      <4> QED
        BY <1>11, <1>14, <4>1
    <3> QED
      BY <3>1, <3>2
  <2>4. x \in [all -> 1 .. l + VN]
    BY <1>12, <2>1
  <2> QED
    BY <1>6, <2>1, <2>2, <2>3, <2>4 DEF IsListing
<1> QED
  BY <1>2, <1>5, <1>6, <1>10, <1>15 DEF Lists

\* utils.Delete takes out n and nothing else.
LEMMA WithoutIs ==
  ASSUME NEW S, NEW s \in Seq(S), NEW n
  PROVE  Without(s, n) \in Seq(S) /\ Range(Without(s, n)) = Range(s) \ {n}
<1>1. PICK l \in Nat : l = Len(s) /\ DOMAIN s = 1 .. l /\ \A k \in 1 .. l : s[k] \in S
  OBVIOUS
<1>2. PICK h : /\ h[0] = <<>> /\ h[l] = Without(s, n)
               /\ \A k \in 1 .. l : h[k] = Keep(n, h[k - 1], s[k])
  <2>1. \E h : /\ h[0] = <<>> /\ h[Len(s)] = Without(s, n)
               /\ \A k \in 1 .. Len(s) : h[k] = Keep(n, h[k - 1], s[k])
    BY Keeping
  <2> QED
    BY <1>1, <2>1
<1> DEFINE kept(k) == {s[j] : j \in 1 .. k} \ {n}
           good(k) == h[k] \in Seq(S) /\ Range(h[k]) = kept(k)
           bad == {k \in 0 .. l : ~good(k)}
<1>3. bad = {}
  <2> SUFFICES ASSUME bad # {}
               PROVE  FALSE
    OBVIOUS
  <2>1. PICK k \in bad : \A i \in bad : k <= i
    <3>1. bad \in SUBSET Nat
      OBVIOUS
    <3> HIDE DEF bad
    <3> QED
      BY <3>1, LeastNatural
  <2>2. k \in 0 .. l /\ ~good(k)
    OBVIOUS
  <2>3. CASE k = 0
    <3>1. <<>> \in Seq(S) /\ Range(<<>>) = {} /\ 1 .. 0 = {}
      BY DEF Range
    <3> QED
      BY <1>2, <2>2, <2>3, <3>1
  <2>4. CASE k # 0
    <3>1. k \in 1 .. l /\ k - 1 \in 0 .. l /\ ~(k <= k - 1) /\ 1 .. k = (1 .. k - 1) \union {k}
      BY <2>2, <2>4
    <3>2. good(k - 1)
      <4>1. k - 1 \notin bad
        <5> HIDE DEF bad
        <5> QED
          BY <2>1, <3>1
      <4> QED
        BY <3>1, <4>1
    <3>3. kept(k) = kept(k - 1) \union ({s[k]} \ {n})
      BY <3>1
    <3>4. h[k] = Keep(n, h[k - 1], s[k])
      BY <1>2, <3>1
    <3>5. CASE s[k] = n
      BY <2>2, <3>2, <3>3, <3>4, <3>5 DEF Keep
    <3>6. CASE s[k] # n
      <4>1. PICK t \in Seq(S) : t = h[k - 1] /\ Range(t) = kept(k - 1)
        BY <3>2
      <4>2. PICK e \in S : e = s[k] /\ e # n
        BY <1>1, <3>1, <3>6
      <4>3. Append(t, e) \in Seq(S) /\ Range(Append(t, e)) = Range(t) \union {e}
        <5>1. PICK a : a = Append(t, e)
          OBVIOUS
        <5>2. /\ a \in Seq(S) /\ DOMAIN a = 1 .. Len(t) + 1 /\ a[Len(t) + 1] = e
              /\ DOMAIN t = 1 .. Len(t) /\ \A j \in 1 .. Len(t) : a[j] = t[j]
          BY <5>1
        <5>3. 1 .. Len(t) + 1 = (1 .. Len(t)) \union {Len(t) + 1}
          OBVIOUS
        <5>4. Range(a) = {a[j] : j \in 1 .. Len(t)} \union {e}
          BY <5>2, <5>3 DEF Range
        <5>5. Range(t) = {a[j] : j \in 1 .. Len(t)}
          BY <5>2 DEF Range
        <5> QED
          BY <5>1, <5>2, <5>4, <5>5
      <4>4. h[k] = Append(t, e)
        BY <3>4, <4>1, <4>2 DEF Keep
      <4>5. kept(k) = kept(k - 1) \union {e}
        BY <3>3, <4>2
      <4> HIDE DEF kept
      <4>6. good(k)
        BY <4>1, <4>3, <4>4, <4>5
      <4> QED
        BY <2>2, <4>6
    <3> QED
      BY <3>5, <3>6
  <2> QED
    BY <2>3, <2>4
<1>4. good(l)
  <2>1. l \in 0 .. l
    OBVIOUS
  <2>2. l \notin bad
    <3> HIDE DEF bad
    <3> QED
      BY <1>3
  <2> QED
    BY <2>1, <2>2
<1>5. kept(l) = Range(s) \ {n}
  BY <1>1 DEF Range
<1> QED
  BY <1>2, <1>4, <1>5

\* A node is put at a point once for each of its virtual nodes there.
LEMMA TimesIs ==
  ASSUME NEW n \in Nodes, NEW h \in Points
  PROVE  Times(n, h) \in Nat /\ (Times(n, h) > 0 <=> h \in PointsOf(n))
<1>1. PICK T : T = {i \in Virtual : Hash[n][i] = h}
  OBVIOUS
<1>2. IsFiniteSet(Virtual) /\ T \in SUBSET Virtual
  <2>1. 0 \in Int /\ VN - 1 \in Int
    BY HashAssumption
  <2> QED
    BY <1>1, <2>1, FS_Interval DEF Virtual
<1>3. IsFiniteSet(T)
  BY <1>2, FS_Subset
<1>4. Cardinality(T) \in Nat /\ (Cardinality(T) = 0 <=> T = {})
  BY <1>3, FS_CardinalityType, FS_EmptySet
<1>5. T # {} <=> h \in PointsOf(n)
  BY <1>1 DEF PointsOf
<1>6. Times(n, h) = Cardinality(T)
  BY <1>1 DEF Times
<1> QED
  BY <1>4, <1>5, <1>6

\* The list has one entry for each virtual node of the nodes, in order, and the
\* ring has at a point the nodes with that point: until a node is inserted
\* twice, which Delete does not undo.
RingInv ==
  ~doubled =>
    /\ nodes \in SUBSET Nodes
    /\ adding \in [Callers -> Nodes \union {NoNode}]
    /\ ring \in [Points -> Seq(Nodes)]
    /\ \A h \in Points : Range(ring[h]) = {n \in nodes : h \in PointsOf(n)}
    /\ vnl \in Seq(Nat)
    /\ Sorted(vnl)
    /\ Lists(vnl, nodes \X Virtual, Label)

\* An empty ring lists nothing.
LEMMA InitRing == RingInit => RingInv
<1> SUFFICES ASSUME RingInit PROVE RingInv
  OBVIOUS
<1>1. <<>> \in Seq(Nat) /\ <<>> \in Seq(Nodes) /\ Len(<<>>) = 0 /\ Range(<<>>) = {} /\ 1 .. 0 = {}
  BY DEF Range
<1>2. Sorted(<<>>)
  BY <1>1 DEF Sorted
<1>3. {} \X Virtual = {}
  OBVIOUS
<1>4. IsListing(<<>>, <<>>, {}, Label)
  BY <1>1 DEF IsListing
<1>5. Lists(<<>>, {} \X Virtual, Label)
  BY <1>3, <1>4 DEF Lists
<1> QED
  BY <1>1, <1>2, <1>5 DEF RingInit, RingInv

\* Delete, alone or at the beginning of Add.
LEMMA DeleteRing ==
  ASSUME RingInv, ~doubled, NEW n \in Nodes, DeleteNode(n)
  PROVE  /\ nodes' \in SUBSET Nodes
         /\ ring' \in [Points -> Seq(Nodes)]
         /\ \A h \in Points : Range(ring'[h]) = {m \in nodes' : h \in PointsOf(m)}
         /\ vnl' \in Seq(Nat)
         /\ Sorted(vnl')
         /\ Lists(vnl', nodes' \X Virtual, Label)
<1>1. CASE n \notin nodes
  BY <1>1 DEF RingInv, DeleteNode
<1>2. CASE n \in nodes
  <2>1. vnl' = FoldLeft(RemovePoint, vnl, NewPoints(n)) /\ ring' = DeletedRing(n) /\ nodes' = nodes \ {n}
    BY <1>2 DEF DeleteNode, DeletedPoints
  <2>2. vnl' \in Seq(Nat) /\ Sorted(vnl') /\ Lists(vnl', nodes' \X Virtual, Label)
    <3>1. vnl \in Seq(Nat) /\ nodes \in SUBSET Nodes /\ Sorted(vnl) /\ Lists(vnl, nodes \X Virtual, Label)
      BY DEF RingInv
    <3> QED
      BY <1>2, <2>1, <3>1, DeletesNode
  <2>3. ASSUME NEW h \in Points
        PROVE  ring'[h] \in Seq(Nodes) /\ Range(ring'[h]) = {m \in nodes' : h \in PointsOf(m)}
    <3>1. ring[h] \in Seq(Nodes) /\ Range(ring[h]) = {m \in nodes : h \in PointsOf(m)}
      BY DEF RingInv
    <3>2. CASE h \in PointsOf(n)
      <4>1. ring'[h] = Without(ring[h], n)
        BY <2>1, <3>2 DEF DeletedRing
      <4>2. ring'[h] \in Seq(Nodes) /\ Range(ring'[h]) = Range(ring[h]) \ {n}
        BY <3>1, <4>1, WithoutIs
      <4> QED
        BY <2>1, <3>1, <4>2
    <3>3. CASE h \notin PointsOf(n)
      <4>1. ring'[h] = ring[h]
        BY <2>1, <3>3 DEF DeletedRing
      <4> QED
        BY <2>1, <3>1, <3>3, <4>1
    <3> QED
      BY <3>2, <3>3
  <2>4. ring' \in [Points -> Seq(Nodes)]
    BY <2>1, <2>3 DEF DeletedRing
  <2> QED
    BY <2>1, <2>2, <2>3, <2>4 DEF RingInv
<1> QED
  BY <1>1, <1>2

\* The second half of Add: of a node that nobody inserted meanwhile.
LEMMA InsertRing ==
  ASSUME RingInv, NEW g \in Callers, AddInsert(g)
  PROVE  RingInv'
<1> SUFFICES ASSUME ~doubled'
             PROVE  RingInv'
  BY DEF RingInv
<1>1. PICK n : n = adding[g]
  OBVIOUS
<1>2. ~doubled /\ n \notin nodes
  BY <1>1 DEF AddInsert
<1>3. n \in Nodes
  BY <1>1, <1>2 DEF RingInv, AddInsert
<1>4. /\ vnl' = Ascending(vnl \o NewPoints(n)) /\ nodes' = nodes \union {n}
      /\ ring' = [h \in Points |-> ring[h] \o [i \in 1 .. Times(n, h) |-> n]]
      /\ adding' = [adding EXCEPT ![g] = NoNode]
  BY <1>1 DEF AddInsert, InsertedPoints
<1>5. vnl' \in Seq(Nat) /\ Sorted(vnl') /\ Lists(vnl', nodes' \X Virtual, Label)
  <2>1. vnl \in Seq(Nat) /\ nodes \in SUBSET Nodes /\ Lists(vnl, nodes \X Virtual, Label)
    BY <1>2 DEF RingInv
  <2>2. PICK t : t = vnl \o NewPoints(n)
    OBVIOUS
  <2>3. t \in Seq(Nat) /\ Lists(t, (nodes \union {n}) \X Virtual, Label)
    BY <1>2, <1>3, <2>1, <2>2, AppendsNode
  <2>4. Ascending(t) \in Seq(Nat) /\ Sorted(Ascending(t)) /\ Lists(Ascending(t), 1 .. Len(t), t)
    BY <2>3, AscendingSorts
  <2>5. Lists(Ascending(t), (nodes \union {n}) \X Virtual, Label)
    BY <2>3, <2>4, ListsAgain
  <2> QED
    BY <1>4, <2>2, <2>4, <2>5
<1>6. ASSUME NEW h \in Points
      PROVE  ring'[h] \in Seq(Nodes) /\ Range(ring'[h]) = {m \in nodes' : h \in PointsOf(m)}
  <2>1. ring[h] \in Seq(Nodes) /\ Range(ring[h]) = {m \in nodes : h \in PointsOf(m)}
    BY <1>2 DEF RingInv
  <2>2. PICK k \in Nat : k = Times(n, h) /\ (k > 0 <=> h \in PointsOf(n))
    BY <1>3, TimesIs
  <2>3. PICK s \in Seq(Nodes) : s = ring[h]
    BY <2>1
  <2>4. PICK q : q = [i \in 1 .. k |-> n]
    OBVIOUS
  <2>5. q \in Seq(Nodes) /\ Len(q) = k /\ \A i \in 1 .. k : q[i] = n
    BY <1>3, <2>4
  <2>6. PICK t : t = s \o q
    OBVIOUS
  <2>7. /\ t \in Seq(Nodes) /\ Len(t) = Len(s) + k
        /\ \A j \in 1 .. Len(s) + k : t[j] = IF j <= Len(s) THEN s[j] ELSE q[j - Len(s)]
    BY <2>5, <2>6, Joined
  <2>8. Range(t) = IF k > 0 THEN Range(s) \union {n} ELSE Range(s)
    <3>1. ASSUME NEW j \in 1 .. Len(s) + k
          PROVE  t[j] \in Range(s) \/ (k > 0 /\ t[j] = n)
      <4>1. CASE j <= Len(s)
        BY <2>7, <4>1 DEF Range
      <4>2. CASE j > Len(s)
        <5>1. j - Len(s) \in 1 .. k /\ ~(j <= Len(s)) /\ k > 0
          BY <4>2
        <5> QED
          BY <2>5, <2>7, <5>1
      <4> QED
        BY <4>1, <4>2
    <3>2. ASSUME NEW j \in 1 .. Len(s)
          PROVE  s[j] \in Range(t)
      <4>1. j \in 1 .. Len(s) + k /\ j <= Len(s)
        OBVIOUS
      <4> QED
        BY <2>7, <4>1 DEF Range
    <3>3. k > 0 => n \in Range(t)
      <4> SUFFICES ASSUME k > 0
                   PROVE  n \in Range(t)
        OBVIOUS
      <4>1. PICK j \in 1 .. Len(s) + k : j = Len(s) + k /\ ~(j <= Len(s)) /\ j - Len(s) = k
        OBVIOUS
      <4>2. k \in 1 .. k
        OBVIOUS
      <4>3. t[j] = n
        BY <2>5, <2>7, <4>1, <4>2
      <4>4. DOMAIN t = 1 .. Len(s) + k
        BY <2>7
      <4> QED
        BY <4>3, <4>4 DEF Range
    <3>4. Range(t) = {t[j] : j \in 1 .. Len(s) + k} /\ Range(s) = {s[j] : j \in 1 .. Len(s)}
      BY <2>7 DEF Range
    <3> QED
      BY <3>1, <3>2, <3>3, <3>4
  <2>9. ring'[h] = t
    BY <1>4, <2>2, <2>3, <2>4, <2>6
  <2>10. CASE k > 0
    BY <1>4, <2>1, <2>2, <2>3, <2>7, <2>8, <2>9, <2>10
  <2>11. CASE ~(k > 0)
    BY <1>4, <2>1, <2>2, <2>3, <2>7, <2>8, <2>9, <2>11
  <2> QED
    BY <2>10, <2>11
<1>7. ring' \in [Points -> Seq(Nodes)]
  BY <1>4, <1>6
<1>8. nodes' \in SUBSET Nodes /\ adding' \in [Callers -> Nodes \union {NoNode}]
  BY <1>2, <1>3, <1>4 DEF RingInv
<1> QED
  BY <1>5, <1>6, <1>7, <1>8 DEF RingInv

\* Every critical section keeps the ring in order.
LEMMA NextRing == RingInv /\ [RingNext]_ringVars => RingInv'
<1> SUFFICES ASSUME RingInv, [RingNext]_ringVars
             PROVE  RingInv'
  OBVIOUS
<1>1. ASSUME NEW n \in Nodes, DeleteNode(n), doubled' = doubled,
             \/ UNCHANGED adding
             \/ \E g \in Callers : adding' = [adding EXCEPT ![g] = n]
      PROVE  RingInv'
  <2> SUFFICES ASSUME ~doubled
               PROVE  RingInv'
    BY <1>1 DEF RingInv
  <2>1. adding' \in [Callers -> Nodes \union {NoNode}]
    BY <1>1 DEF RingInv
  <2> QED
    BY <1>1, <2>1, DeleteRing DEF RingInv
<1>2. CASE \E n \in Nodes : Delete(n)
  BY <1>1, <1>2 DEF Delete
<1>3. CASE \E g \in Callers : \E n \in Nodes : AddDelete(g, n)
  BY <1>1, <1>3 DEF AddDelete
<1>4. CASE \E g \in Callers : AddInsert(g)
  BY <1>4, InsertRing
<1>5. CASE UNCHANGED ringVars
  BY <1>5 DEF ringVars, RingInv
<1> QED
  BY <1>2, <1>3, <1>4, <1>5 DEF RingNext

\* The place of a key is that of the first point clockwise.
LEMMA PlaceOwns ==
  ASSUME RingInv, ~doubled, nodes # {}, NEW h \in Points
  PROVE  \E p \in Points : /\ p = vnl[Place(h)]
                           /\ Owners(nodes, h) = {n \in nodes : p \in PointsOf(n)}
                           /\ \E n \in nodes : p \in PointsOf(n)
<1> DEFINE taken == UNION {PointsOf(n) : n \in nodes}
           above == {p \in taken : p >= h}
           first(q, T) == q \in T /\ \A r \in T : q <= r
<1>1. VN \in Nat \ {0} /\ MaxHash \in Nat /\ Hash \in [Nodes -> [0 .. VN - 1 -> 0 .. MaxHash]]
  BY HashAssumption DEF Virtual, Points
<1>2. nodes \in SUBSET Nodes /\ vnl \in Seq(Nat) /\ Sorted(vnl)
  BY DEF RingInv
<1>3. PICK l \in Nat : l = Len(vnl) /\ \A j \in 1 .. l : vnl[j] \in Nat
  BY <1>2
<1>4. /\ taken \in SUBSET Points /\ taken # {}
      /\ \A j \in 1 .. l : vnl[j] \in taken
      /\ \A q \in taken : \E j \in 1 .. l : vnl[j] = q
  <2>1. PICK g : IsListing(g, vnl, nodes \X Virtual, Label)
    BY DEF RingInv, Lists
  <2>2. ASSUME NEW n \in nodes, NEW i \in Virtual
        PROVE  /\ Label[<<n, i>>] = Hash[n][i] /\ Hash[n][i] \in PointsOf(n)
               /\ Hash[n][i] \in Points
               /\ \E j \in 1 .. l : vnl[j] = Hash[n][i]
    <3>1. <<n, i>> \in nodes \X Virtual /\ <<n, i>> \in Nodes \X Virtual
      BY <1>2
    <3>2. Label[<<n, i>>] = Hash[n][i] /\ Hash[n][i] \in PointsOf(n) /\ Hash[n][i] \in Points
      BY <1>1, <3>1 DEF Label, PointsOf, Points, Virtual
    <3>3. g[<<n, i>>] \in 1 .. l /\ vnl[g[<<n, i>>]] = Label[<<n, i>>]
      BY <1>3, <2>1, <3>1 DEF IsListing
    <3> QED
      BY <3>2, <3>3
  <2>3. \A q \in taken : \E n \in nodes, i \in Virtual : q = Hash[n][i]
    BY DEF PointsOf
  <2>4. ASSUME NEW j \in 1 .. l
        PROVE  vnl[j] \in taken
    <3>1. PICK c \in nodes \X Virtual : g[c] = j
      BY <1>3, <2>1 DEF IsListing
    <3>2. PICK n \in nodes, i \in Virtual : c = <<n, i>>
      OBVIOUS
    <3>3. vnl[j] = Label[c]
      BY <2>1, <3>1 DEF IsListing
    <3>4. vnl[j] \in PointsOf(n)
      BY <2>2, <3>2, <3>3
    <3> QED
      BY <3>4
  <2>5. taken # {}
    <3>1. PICK n \in nodes : TRUE
      OBVIOUS
    <3>2. 0 \in Virtual
      BY <1>1 DEF Virtual
    <3>3. Hash[n][0] \in PointsOf(n)
      BY <2>2, <3>2
    <3>4. Hash[n][0] \in taken
      BY <3>3
    <3> QED
      BY <3>4
  <2> HIDE DEF taken
  <2>6. taken \in SUBSET Points
    BY <2>2, <2>3
  <2>7. \A q \in taken : \E j \in 1 .. l : vnl[j] = q
    <3> TAKE q \in taken
    <3>1. PICK n \in nodes, i \in Virtual : q = Hash[n][i]
      BY <2>3
    <3> QED
      BY <2>2, <3>1
  <2> QED
    BY <2>4, <2>5, <2>6, <2>7
<1>5. h \in Nat /\ \A q \in taken : q \in Nat
  <2>1. Points \subseteq Nat
    BY <1>1 DEF Points
  <2> HIDE DEF taken
  <2> QED
    BY <1>4, <2>1
<1>6. PICK k : k = Search(vnl, h) /\ Found(vnl, h, k)
  BY <1>2, <1>5, SearchFinds
<1>7. k \in 1 .. l + 1 /\ (k = l + 1 \/ vnl[k] >= h) /\ \A j \in 1 .. k - 1 : vnl[j] < h
  BY <1>3, <1>6 DEF Found
<1> HIDE DEF taken
<1>8. l > 0
  BY <1>3, <1>4
\* The point is the least one above the key, or the least one.
<1>9. PICK p : p = vnl[Place(h)]
  OBVIOUS
<1>10. CASE k <= l
  <2>1. k \in 1 .. l /\ p = vnl[k]
    BY <1>3, <1>6, <1>7, <1>9, <1>10 DEF Place
  <2>2. p \in above
    BY <1>4, <1>7, <1>10, <2>1
  <2>3. ASSUME NEW r \in above
        PROVE  p <= r
    <3>1. PICK j \in 1 .. l : vnl[j] = r
      BY <1>4
    <3>2. k <= j
      <4>1. ASSUME j < k PROVE FALSE
        <5>1. j \in 1 .. k - 1
          BY <1>7, <4>1
        <5>2. r < h /\ r >= h /\ r \in Nat
          BY <1>5, <1>7, <3>1, <5>1
        <5> QED
          BY <1>5, <5>2
      <4> QED
        BY <2>1, <4>1
    <3> QED
      BY <1>2, <1>3, <2>1, <3>1, <3>2 DEF Sorted
  <2>4. above # {} /\ p = CHOOSE q \in above : \A r \in above : q <= r
    <3>1. \A q \in above : q \in Nat
      BY <1>5
    <3> HIDE DEF above
    <3>2. \A q \in above : (\A r \in above : q <= r) => q = p
      <4> TAKE q \in above
      <4>1. (\A r \in above : q <= r) => q <= p /\ p <= q
        BY <2>2, <2>3
      <4>2. q \in Nat /\ p \in Nat
        BY <2>2, <3>1
      <4> QED
        BY <4>1, <4>2
    <3> QED
      BY <2>2, <2>3, <3>2
  <2>5. p \in taken
    BY <2>2
  <2>6. Owners(nodes, h) = {n \in nodes : p \in PointsOf(n)}
    BY <1>4, <2>4 DEF Owners, taken
  <2> QED
    BY <1>4, <1>9, <2>5, <2>6 DEF taken
<1>11. CASE k = l + 1
  <2>1. p = vnl[1] /\ 1 \in 1 .. l
    BY <1>3, <1>6, <1>8, <1>9, <1>11 DEF Place
  <2>2. p \in taken
    BY <1>4, <2>1
  <2>3. ASSUME NEW r \in taken
        PROVE  p <= r /\ ~(r >= h)
    <3>1. PICK j \in 1 .. l : vnl[j] = r
      BY <1>4
    <3>2. 1 <= j /\ j \in 1 .. k - 1
      BY <1>11
    <3>3. vnl[j] < h /\ vnl[j] \in Nat
      BY <1>3, <1>7, <3>2
    <3>4. ~(r >= h)
      BY <1>5, <3>1, <3>3
    <3> QED
      BY <1>2, <1>3, <2>1, <3>1, <3>2, <3>4 DEF Sorted
  <2>4. above = {}
    BY <2>3
  <2>5. p = CHOOSE q \in taken : \A r \in taken : q <= r
    <3>2. \A q \in taken : (\A r \in taken : q <= r) => q = p
      <4> TAKE q \in taken
      <4>1. (\A r \in taken : q <= r) => q <= p /\ p <= q
        BY <2>2, <2>3
      <4>2. q \in Nat /\ p \in Nat
        BY <1>5, <2>2
      <4> QED
        BY <4>1, <4>2
    <3> QED
      BY <2>2, <2>3, <3>2
  <2>6. Owners(nodes, h) = {n \in nodes : p \in PointsOf(n)}
    BY <1>4, <2>4, <2>5 DEF Owners, taken
  <2> QED
    BY <1>4, <1>9, <2>2, <2>6 DEF taken
<1> QED
  BY <1>7, <1>10, <1>11

\* So Fetch answers with an owner, or with nothing if there are no nodes.
LEMMA RingFetches == RingInv => FetchIsOwner
<1> SUFFICES ASSUME RingInv, ~doubled, NEW h \in Points
             PROVE  IF nodes = {} THEN Fetch(h) = NoNode ELSE Fetch(h) \in Owners(nodes, h)
  BY DEF FetchIsOwner
<1>1. \A p \in Points : ring[p] \in Seq(Nodes) /\ Range(ring[p]) = {n \in nodes : p \in PointsOf(n)}
  BY DEF RingInv
<1>2. CASE nodes = {}
  <2>1. ASSUME NEW p \in Points
        PROVE  ring[p] = <<>>
    <3>1. PICK s \in Seq(Nodes) : s = ring[p]
      BY <1>1
    <3>2. Range(s) = {}
      BY <1>1, <1>2, <3>1
    <3>3. Len(s) = 0
      <4>1. DOMAIN s = 1 .. Len(s) /\ Len(s) \in Nat
        OBVIOUS
      <4>2. DOMAIN s = {}
        BY <3>2 DEF Range
      <4>3. Len(s) # 0 => 1 \in 1 .. Len(s)
        BY <4>1
      <4> QED
        BY <4>1, <4>2, <4>3
    <3> QED
      BY <3>1, <3>3
  <2> QED
    BY <1>2, <2>1 DEF Fetch
<1>3. CASE nodes # {}
  <2>1. PICK p \in Points : /\ p = vnl[Place(h)]
                            /\ Owners(nodes, h) = {n \in nodes : p \in PointsOf(n)}
                            /\ \E n \in nodes : p \in PointsOf(n)
    BY <1>3, PlaceOwns
  <2>2. PICK at \in Seq(Nodes) : at = ring[p] /\ Range(at) = Owners(nodes, h) /\ Range(at) # {}
    BY <1>1, <2>1
  <2>3. PICK l \in Nat : l = Len(at) /\ l > 0 /\ DOMAIN at = 1 .. l
    <3>1. Len(at) \in Nat /\ DOMAIN at = 1 .. Len(at)
      OBVIOUS
    <3>2. DOMAIN at # {}
      BY <2>2 DEF Range
    <3>3. Len(at) = 0 => 1 .. Len(at) = {}
      OBVIOUS
    <3>4. Len(at) > 0
      BY <3>1, <3>2, <3>3
    <3> QED
      BY <3>1, <3>4
  <2>4. at # <<>>
    BY <2>3
  <2>5. (Rehash[h] % l) + 1 \in 1 .. l
    <3>1. Rehash[h] \in Nat
      BY HashAssumption
    <3> QED
      BY <2>3, <3>1
  <2>6. \A j \in 1 .. l : at[j] \in Owners(nodes, h)
    BY <2>2, <2>3 DEF Range
  <2>7. Fetch(h) = IF l = 1 THEN at[1] ELSE at[(Rehash[h] % l) + 1]
    BY <2>1, <2>2, <2>3, <2>4 DEF Fetch
  <2> QED
    BY <1>3, <2>3, <2>5, <2>6, <2>7
<1> QED
  BY <1>2, <1>3

\* Whatever nodes are added and deleted, by whichever callers and with whichever
\* collisions of their hashes, a key is served by a node that owns the first
\* point clockwise, until two overlapping Adds have inserted a node twice.
THEOREM OwnerServes == RingSpec => []FetchIsOwner
<1>1. RingSpec => []RingInv
  BY InitRing, NextRing, PTL DEF RingSpec
<1> QED
  BY <1>1, RingFetches, PTL

=============================================================================
