--------------------------- MODULE ConsistentHash ---------------------------
(***************************************************************************)
(* pkg/hash/consistent.go: a consistent hash ring.  Every node is hashed   *)
(* to VN points; vnl lists the points of all nodes in order and ring says  *)
(* which nodes are at a point, several when hashes collide.  Delete is one *)
(* critical section, Add is two: it first deletes the node and then, under *)
(* the lock anew, inserts it.  Several goroutines call Add and Delete.     *)
(***************************************************************************)
EXTENDS Integers, Sequences, FiniteSets, SequencesExt

CONSTANTS
  Nodes,      \* real nodes
  NoNode,     \* the empty string that Fetch returns
  VN,         \* c.vn: virtual nodes of a node
  Hash,       \* Hash[n][i]: c.f of node n followed by i
  MaxHash,    \* the hashes are 0 .. MaxHash
  Rehash,     \* per hash of a key: c.f of the same key with a suffix
  Callers,    \* goroutines that call Add and Delete
  MaxPoints   \* bound: length of vnl

Points == 0 .. MaxHash
Virtual == 0 .. VN - 1

ASSUME HashAssumption ==
  /\ IsFiniteSet(Nodes) /\ NoNode \notin Nodes /\ VN \in Nat \ {0} /\ MaxHash \in Nat
  /\ Hash \in [Nodes -> [Virtual -> Points]] /\ Rehash \in [Points -> Nat]
  /\ MaxPoints \in Nat

VARIABLES
  vnl,     \* c.vnl
  ring,    \* c.ring; a missing entry is the empty sequence
  nodes,   \* c.nodes
  adding,  \* per caller: the node its Add has deleted and not yet inserted
  doubled  \* history: a node was inserted that was there already

ringVars == <<vnl, ring, nodes, adding, doubled>>

RingInit ==
  /\ vnl = <<>>
  /\ ring = [h \in Points |-> <<>>]
  /\ nodes = {}
  /\ adding = [g \in Callers |-> NoNode]
  /\ doubled = FALSE

-----------------------------------------------------------------------------

\* sort.Search: the first place with a point that is not below h, or the place
\* behind the last.
Search(s, h) ==
  CHOOSE i \in 1 .. Len(s) + 1 :
    /\ i = Len(s) + 1 \/ s[i] >= h
    /\ \A j \in 1 .. i - 1 : s[j] < h

\* One occurrence of h leaves the list.
RemovePoint(s, h) ==
  LET i == Search(s, h)
  IN  IF i <= Len(s) /\ s[i] = h THEN RemoveAt(s, i) ELSE s

\* utils.Delete: every occurrence of n leaves the list of a point.
Without(s, n) == FoldLeft(LAMBDA kept, m : IF m = n THEN kept ELSE Append(kept, m), <<>>, s)

PointsOf(n) == {Hash[n][i] : i \in Virtual}

\* The hashes of n's virtual nodes, and how often it hashes to h.
NewPoints(n) == [i \in 1 .. VN |-> Hash[n][i - 1]]
Times(n, h) == Cardinality({i \in Virtual : Hash[n][i] = h})

\* The loop of Delete over the virtual nodes.
DeletedPoints(n) == FoldLeft(RemovePoint, vnl, NewPoints(n))

DeletedRing(n) ==
  [h \in Points |-> IF h \in PointsOf(n) THEN Without(ring[h], n) ELSE ring[h]]

\* Delete in one critical section; a node that is not there is left alone.
DeleteNode(n) ==
  IF n \in nodes
  THEN /\ vnl' = DeletedPoints(n)
       /\ ring' = DeletedRing(n)
       /\ nodes' = nodes \ {n}
  ELSE UNCHANGED <<vnl, ring, nodes>>

Delete(n) ==
  /\ DeleteNode(n)
  /\ UNCHANGED <<adding, doubled>>

\* Add begins with a Delete and releases the lock.
AddDelete(g, n) ==
  /\ adding[g] = NoNode
  /\ DeleteNode(n)
  /\ adding' = [adding EXCEPT ![g] = n]
  /\ UNCHANGED doubled

\* sort.Slice: the list in ascending order.
InsertPoint(s, h) == InsertAt(s, Search(s, h), h)
Ascending(s) == FoldLeft(InsertPoint, <<>>, s)

InsertedPoints(n) == Ascending(vnl \o NewPoints(n))

\* The second critical section of Add.
AddInsert(g) ==
  LET n == adding[g]
  IN  /\ n # NoNode
      /\ Len(vnl) + VN <= MaxPoints
      /\ vnl' = InsertedPoints(n)
      /\ ring' = [h \in Points |-> ring[h] \o [i \in 1 .. Times(n, h) |-> n]]
      /\ nodes' = nodes \union {n}
      /\ adding' = [adding EXCEPT ![g] = NoNode]
      /\ doubled' = (doubled \/ n \in nodes)

\* Fault: no wrap-around at the end of the ring.
PlaceLast(h) == LET i == Search(vnl, h) IN IF i > Len(vnl) THEN Len(vnl) ELSE i

\* The place of a key with hash h: clockwise, the first point not below it.
Place(h) == LET i == Search(vnl, h) IN IF i > Len(vnl) THEN 1 ELSE i

\* Fetch of a key with hash h; of several nodes at a point a second hash chooses.
Fetch(h) ==
  IF \A p \in Points : ring[p] = <<>> THEN NoNode
  ELSE LET at == ring[vnl[Place(h)]]
       IN  IF at = <<>> THEN NoNode
           ELSE IF Len(at) = 1 THEN at[1]
           ELSE at[(Rehash[h] % Len(at)) + 1]

RingNext ==
  \/ \E n \in Nodes : Delete(n)
  \/ \E g \in Callers : AddInsert(g) \/ \E n \in Nodes : AddDelete(g, n)

RingSpec == RingInit /\ [][RingNext]_ringVars

-----------------------------------------------------------------------------

\* What the ring should answer: the nodes at the first point clockwise.
Owners(S, h) ==
  LET taken == UNION {PointsOf(n) : n \in S}
      above == {p \in taken : p >= h}
      p == IF above # {} THEN CHOOSE q \in above : \A r \in above : q <= r
           ELSE CHOOSE q \in taken : \A r \in taken : q <= r
  IN  IF taken = {} THEN {} ELSE {n \in S : p \in PointsOf(n)}

\* Whatever the history of Adds and Deletes, repeated and overlapping ones
\* included, a key is served by a node that owns the first point clockwise
\* from it: the answer depends on the set of nodes only, up to collisions.
\* Two Adds of one node that overlap are the exception: both insert it.
FetchIsOwner ==
  ~doubled => \A h \in Points :
    IF nodes = {} THEN Fetch(h) = NoNode ELSE Fetch(h) \in Owners(nodes, h)

=============================================================================
