------------------------------- MODULE MCApp -------------------------------
(***************************************************************************)
(* Instances of App for TLC.                                               *)
(***************************************************************************)
EXTENDS App, TLC

CONSTANTS a, b

MCDeployments == {(a :> "http") @@ (b :> "grpc"), (a :> "ws") @@ (b :> "socketio")}

=============================================================================
