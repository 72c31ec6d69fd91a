---------------------------- MODULE MCWsSession ----------------------------
(***************************************************************************)
(* Instances of WsSession for TLC; the constants are in the .cfg files.    *)
(***************************************************************************)
EXTENDS WsSession

=============================================================================
