----------------------------- MODULE KeyedFifo -----------------------------
(***************************************************************************)
(* What a batcher promises about the values it accepts: per key, they are  *)
(* delivered in the order they were accepted, each at most once, and       *)
(* nothing that was not accepted is delivered.  A delivery may carry any   *)
(* number of values of any number of keys.  The n-th value accepted for a  *)
(* key is the number n.                                                    *)
(***************************************************************************)
EXTENDS Integers, Sequences

CONSTANT Keys

VARIABLES
  accepted,   \* per key, how many values were accepted
  delivered   \* per key, the values delivered so far, in order

vars == <<accepted, delivered>>

Init ==
  /\ accepted = [k \in Keys |-> 0]
  /\ delivered = [k \in Keys |-> <<>>]

Accept(k) ==
  /\ accepted' = [accepted EXCEPT ![k] = @ + 1]
  /\ UNCHANGED delivered

\* Each key's delivery grows by the next values that were accepted for it.
Deliver ==
  /\ DOMAIN delivered' = Keys
  /\ \A k \in Keys :
       /\ Len(delivered'[k]) \in Len(delivered[k]) .. accepted[k]
       /\ delivered'[k] = [i \in 1 .. Len(delivered'[k]) |-> i]
  /\ UNCHANGED accepted

Next == (\E k \in Keys : Accept(k)) \/ Deliver

Spec == Init /\ [][Next]_vars

=============================================================================
