--------------------------- MODULE MCEtcdRegistry ---------------------------
(***************************************************************************)
(* Instances of EtcdRegistry for TLC; the constants are in the .cfg files. *)
(***************************************************************************)
EXTENDS EtcdRegistry

=============================================================================
