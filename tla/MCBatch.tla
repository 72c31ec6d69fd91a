------------------------------ MODULE MCBatch ------------------------------
(***************************************************************************)
(* Two keys whose shard numbers differ and fall on one of two workers.     *)
(***************************************************************************)
EXTENDS Batch

CONSTANTS k1, k2

MCSharding == [k \in Keys |-> IF k = k1 THEN 0 ELSE 2]

=============================================================================
