---------------------------- MODULE MCServerCall ----------------------------
(***************************************************************************)
(* Masks: the default 0x63, every middleware, and every one but Recovery.  *)
(* Customs: Sentinel outside Recovery, and inside it above a panic.        *)
(***************************************************************************)
EXTENDS ServerCall, TLC

MCMasks == {{0, 1, 5, 6}, 0 .. 6, (0 .. 6) \ {5}}
MCCustoms == {
  <<"trace", "stat", "sentinel", "recovery", "traceid", "authz", "auth">>,
  <<"log", "recovery", "sentinel", "ray", "metadata">>}
Symmetry == Permutations(Requests) \union Permutations(Contexts)

=============================================================================
