------------------------------ MODULE Balancer ------------------------------
(***************************************************************************)
(* transport/grpc/balancer: the smooth weighted round robin of algo/wrr.go *)
(* under node.Set.  Each new set of ready connections gets a picker of its *)
(* own, but all pickers share one wrr and its map of current weights, which *)
(* outlives the connections.  A pick may be restricted by the call's        *)
(* filters, and pickers before the latest may still be in use.              *)
(***************************************************************************)
EXTENDS Integers, FiniteSets, Functions

CONSTANTS
  Nodes,   \* addresses of connections
  Weight   \* per node: Weight() from the service's metadata (100 by default)

ASSUME NodesAssumption ==
  IsFiniteSet(Nodes) /\ Nodes # {} /\ Weight \in [Nodes -> Nat]

VARIABLES
  ready,    \* the nodes of the latest picker
  weight,   \* wrr.weight; a missing entry is 0
  last,     \* the node of the last pick, as a set; empty when it failed
  kind,     \* the Go type of the node that Set.Pick returned
  settled,  \* from now on the picker stays and no call has filters
  pure,     \* history: one picker and no filters since the start
  hits      \* history: per node, its picks in this round of a pure run

wrrVars == <<ready, weight, last, kind, settled, pure, hits>>

NoHits == [n \in Nodes |-> 0]

WrrInit ==
  /\ ready \in SUBSET Nodes \ {{}}
  /\ weight = [n \in Nodes |-> 0]
  /\ last = {} /\ kind = "nil"
  /\ settled = FALSE /\ pure = TRUE
  /\ hits = NoHits

\* builder.Build: a new picker for the ready connections, around the same wrr.
Build(S) ==
  /\ ~settled
  /\ ready' = S
  /\ pure' = FALSE /\ hits' = NoHits
  /\ UNCHANGED <<weight, last, kind, settled>>

Total(S) == SumFunctionOnSet(Weight, S)

\* Each node gains its weight.
Gained(S) == [n \in Nodes |-> IF n \in S THEN weight[n] + Weight[n] ELSE weight[n]]

\* Fault: the nodes that are not hit gain nothing.
HitOnlyGains(S, h) ==
  /\ \A n \in S : weight[n] <= weight[h]
  /\ weight' = [weight EXCEPT ![h] = @ + Weight[h] - Total(S)]

\* Fault: the choice looks at the static weights.
HitStatic(S, h) ==
  /\ \A n \in S : Weight[n] <= Weight[h]
  /\ weight' = [Gained(S) EXCEPT ![h] = @ - Total(S)]

\* Fault: the new weights are not stored.
HitForgets(S, h) ==
  /\ \A n \in S : Gained(S)[n] <= Gained(S)[h]
  /\ UNCHANGED weight

\* wrr.Pick on a non-empty list: the heaviest node (of equals the first in the
\* picker's arbitrary order) is hit and pays the total.
Hit(S, h) ==
  /\ \A n \in S : Gained(S)[n] <= Gained(S)[h]
  /\ weight' = [Gained(S) EXCEPT ![h] = @ - Total(S)]

\* History: the picks of a round.
Round == SumFunction(hits)
Count(h) ==
  IF Round >= Total(ready)
  THEN [n \in Nodes |-> IF n = h THEN 1 ELSE 0]
  ELSE [hits EXCEPT ![h] = @ + 1]

\* Set.Pick of the latest picker without filters; Save has wrapped the nodes
\* in PlainWeight, and that is what the pick returns.
Pick ==
  /\ IF ready = {}
     THEN last' = {} /\ kind' = "nil" /\ UNCHANGED <<weight, hits>>
     ELSE \E h \in ready :
            /\ Hit(ready, h)
            /\ last' = {h} /\ kind' = "PlainWeight"
            /\ hits' = IF pure THEN Count(h) ELSE hits
  /\ UNCHANGED <<ready, settled, pure>>

\* A pick with filters that leave S, or of a picker of earlier connections.
PickFiltered(S) ==
  /\ ~settled
  /\ IF S = {}
     THEN last' = {} /\ kind' = "nil" /\ UNCHANGED weight
     ELSE \E h \in S : Hit(S, h) /\ last' = {h} /\ kind' = "PlainWeight"
  /\ pure' = FALSE /\ hits' = NoHits
  /\ UNCHANGED <<ready, settled>>

\* The connections and the calls become steady.
Settle ==
  /\ ~settled
  /\ settled' = TRUE
  /\ UNCHANGED <<ready, weight, last, kind, pure, hits>>

WrrNext ==
  \/ Pick
  \/ Settle
  \/ \E S \in SUBSET Nodes : Build(S) \/ PickFiltered(S)

\* Calls keep coming.
WrrSpec == WrrInit /\ [][WrrNext]_wrrVars /\ WF_wrrVars(Pick)

-----------------------------------------------------------------------------

\* The current weights always sum to zero: what one node is ahead others are
\* behind, whichever nodes came, went or were filtered out.
SumZero == SumFunction(weight) = 0

\* A steady picker is exactly proportional: in every round of as many calls as
\* the weights sum to, each node is hit as often as its weight says.
Proportional ==
  (pure /\ Round = Total(ready)) => \A n \in ready : hits[n] = Weight[n]

\* Whatever weights the churn left behind, once nodes and calls are steady a
\* node with a positive weight is hit again and again.
NotStarved ==
  \A n \in Nodes : (settled /\ n \in ready /\ Weight[n] > 0) ~> (last = {n})

\* The assertion of picker.Pick: the picked node is a *node.WrappedNode.
PickedIsWrapped == kind \in {"nil", "WrappedNode"}

=============================================================================
