---------------------------- MODULE DeadlineState ----------------------------
(***************************************************************************)
(* A grpc call under a deadline among other components: the variables that *)
(* its handler and its caller share.                                       *)
(***************************************************************************)

VARIABLES ctx, hpc, cpc, mutex, resp, err, done, ch, res, out

Deadline == INSTANCE ServerTimeout

\* No success is made up at a deadline; see ServerTimeout.
AnswerJustified == Deadline!AnswerJustified

=============================================================================
