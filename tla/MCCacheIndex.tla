---------------------------- MODULE MCCacheIndex ----------------------------
(***************************************************************************)
(* Cache alone, with an fn that queries the primary key and nothing else.  *)
(***************************************************************************)
EXTENDS Cache

=============================================================================
