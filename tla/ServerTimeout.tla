--------------------------- MODULE ServerTimeout ---------------------------
(***************************************************************************)
(* transport/grpc/server_interceptor.go: ServerTimeout.  The handler runs  *)
(* in a goroutine of its own, under a mutex, and reports on done or, if it *)
(* panicked, on ch; the caller waits for either or for its context.  Both  *)
(* goroutines store to err when the context ends: there the mutex is not   *)
(* taken.                                                                  *)
(***************************************************************************)

VARIABLES
  ctx,    \* "live", or how it ended: "deadline" or "canceled"
  hpc,    \* the handler's goroutine
  cpc,    \* the caller
  mutex,  \* who has l
  resp,   \* the shared variable resp: "nil" or "rsp"
  err,    \* the shared variable err
  done,   \* done is closed
  ch,     \* values in ch
  res,    \* what the handler returned, or "none"
  out     \* what the caller returned: a pair of resp and err

vars == <<ctx, hpc, cpc, mutex, resp, err, done, ch, res, out>>

Nothing == [resp |-> "nil", err |-> "none"]

Init ==
  /\ ctx = "live" /\ hpc = "start" /\ cpc = "select" /\ mutex = "free"
  /\ resp = "nil" /\ err = "nil" /\ done = FALSE /\ ch = 0
  /\ res = "none" /\ out = Nothing

\* l.Lock(), then the handler.
Start ==
  /\ hpc = "start" /\ mutex = "free"
  /\ mutex' = "handler" /\ hpc' = "handler"
  /\ UNCHANGED <<ctx, cpc, resp, err, done, ch, res, out>>

\* The handler returns a response, an error of its own or that of its context.
HandlerReturns ==
  /\ hpc = "handler"
  /\ res' \in {"ok", "error"} \union (IF ctx = "live" THEN {} ELSE {ctx})
  /\ hpc' = "store"
  /\ UNCHANGED <<ctx, cpc, mutex, resp, err, done, ch, out>>

\* It panics: l is unlocked, the panic is recovered.
HandlerPanics ==
  /\ hpc = "handler"
  /\ res' = "panic" /\ mutex' = "free" /\ hpc' = "recovered"
  /\ UNCHANGED <<ctx, cpc, resp, err, done, ch, out>>

Stored == IF res = "ok" THEN "nil" ELSE res

\* resp, err = ... : the caller may look between the two stores, and what it
\* reads of err in the middle of the second is not one value.
Store ==
  /\ \/ hpc = "store" /\ resp' = (IF res = "ok" THEN "rsp" ELSE "nil") /\ hpc' = "store2" /\ UNCHANGED err
     \/ hpc = "store2" /\ err' = "torn" /\ hpc' = "store3" /\ UNCHANGED resp
     \/ hpc = "store3" /\ err' = Stored /\ hpc' = "close" /\ UNCHANGED resp
  /\ UNCHANGED <<ctx, cpc, mutex, done, ch, res, out>>

\* close(done), then l is unlocked.
CloseDone ==
  /\ hpc = "close"
  /\ done' = TRUE /\ mutex' = "free" /\ hpc' = "ended"
  /\ UNCHANGED <<ctx, cpc, resp, err, ch, res, out>>

\* Fault: done is closed by a deferred call, so a panic closes it too.
ReportDefersClose ==
  /\ hpc = "recovered" /\ ch = 0
  /\ ch' = 1 /\ done' = TRUE /\ hpc' = "ended"
  /\ UNCHANGED <<ctx, cpc, mutex, resp, err, res, out>>

\* Fault: ch has no buffer.
ReportBlocks ==
  /\ hpc = "recovered" /\ cpc = "select"
  /\ ch' = 1 /\ hpc' = "ended"
  /\ UNCHANGED <<ctx, cpc, mutex, resp, err, done, res, out>>

\* The stack goes to ch, which has room for it.
Report ==
  /\ hpc = "recovered" /\ ch = 0
  /\ ch' = 1 /\ hpc' = "ended"
  /\ UNCHANGED <<ctx, cpc, mutex, resp, err, done, res, out>>

\* The select of the caller takes any of what is ready.
Select ==
  /\ cpc = "select"
  /\ \/ ch = 1 /\ ch' = 0 /\ cpc' = "panicked"
     \/ done /\ cpc' = "lock" /\ UNCHANGED ch
     \/ ctx # "live" /\ cpc' = "ctx" /\ UNCHANGED ch
  /\ UNCHANGED <<ctx, hpc, mutex, resp, err, done, res, out>>

\* done: the result is read under l.
ReturnResult ==
  /\ cpc = "lock" /\ mutex = "free"
  /\ out' = [resp |-> resp, err |-> err] /\ cpc' = "returned"
  /\ UNCHANGED <<ctx, hpc, mutex, resp, err, done, ch, res>>

\* The context: err = ctx.Err() without l ...
StoreCtxErr ==
  /\ cpc = "ctx"
  /\ err' = ctx /\ cpc' = "convert"
  /\ UNCHANGED <<ctx, hpc, mutex, resp, done, ch, res, out>>

\* ... which becomes a status, if err still is one of the two ...
Convert ==
  /\ cpc = "convert"
  /\ err' = (IF err \in {"deadline", "canceled"} THEN "status" ELSE err)
  /\ cpc' = "read"
  /\ UNCHANGED <<ctx, hpc, mutex, resp, done, ch, res, out>>

\* ... and err is read once more.
ReturnCtxErr ==
  /\ cpc = "read"
  /\ out' = [resp |-> "nil", err |-> err] /\ cpc' = "returned"
  /\ UNCHANGED <<ctx, hpc, mutex, resp, err, done, ch, res>>

\* The deadline passes, or the caller's own context is cancelled.
CtxEnds ==
  /\ ctx = "live" /\ ctx' \in {"deadline", "canceled"}
  /\ UNCHANGED <<hpc, cpc, mutex, resp, err, done, ch, res, out>>

Goroutine == Start \/ Store \/ CloseDone \/ Report
Caller == Select \/ ReturnResult \/ StoreCtxErr \/ Convert \/ ReturnCtxErr
Next == Goroutine \/ HandlerReturns \/ HandlerPanics \/ Caller \/ CtxEnds

Spec == Init /\ [][Next]_vars

\* Goroutines run; how long the handler takes is the service's.
Fairness == WF_vars(Goroutine) /\ WF_vars(Caller)

-----------------------------------------------------------------------------

\* No success is made up: a call that returns without an error had a handler
\* that returned without one, however the deadline races it; a response comes
\* with the error it was returned with, and half a store is seen only by a
\* caller whose context ended.
AnswerJustified ==
  /\ out.err = "nil" => res = "ok"
  /\ out.resp = "rsp" => res = "ok" /\ out.err = "nil"
  /\ out.err = "torn" => ctx # "live"

\* A handler that returned or panicked ends its goroutine and lets the caller
\* go, also when the caller left at its deadline long before.
BothEnd == (res # "none") ~> (hpc = "ended" /\ cpc \in {"returned", "panicked"})

=============================================================================
