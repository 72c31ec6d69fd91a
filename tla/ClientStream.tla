---------------------------- MODULE ClientStream ----------------------------
(***************************************************************************)
(* transport/grpc/client_interceptor.go: a client's stream.  The           *)
(* interceptor runs the chain (Trace is in it by default), and inside it   *)
(* opens the stream and starts two goroutines: the event loop of           *)
(* wrapClientStream, which waits for the first event that ends the stream, *)
(* and a tracer, which records that end in the span.  The user may receive *)
(* in one goroutine and send in another; each call that sees the end hands *)
(* the loop an event.                                                      *)
(***************************************************************************)
EXTENDS Naturals

CONSTANTS MaxCalls  \* bound: calls of each user goroutine

Users == {"recv", "send"}

VARIABLES
  pc,             \* the interceptor: "call", "opened", "returned", "panicked"
  serverStreams,  \* desc.ServerStreams
  ctxDone,        \* the stream's context is done
  loop,           \* the event loop: "off", "select", "finish", "close", "ended"
  tracer,         \* the tracer: "off", "wait", "record", "ended"
  val,            \* what the loop sends on finished: "none", "ok", "error"
  spanEnded,      \* Trace's deferred span.End has run
  span,           \* the status in the span
  event,          \* per user: the event it is sending, or "none"
  calls,          \* per user: calls made
  sawEnd, sawErr  \* history: a call saw the end; a call failed

userVars == <<event, calls, sawEnd, sawErr>>
vars == <<pc, serverStreams, ctxDone, loop, tracer, val, spanEnded, span, userVars>>

Init ==
  /\ pc = "call" /\ serverStreams \in BOOLEAN /\ ctxDone = FALSE
  /\ loop = "off" /\ tracer = "off" /\ val = "none"
  /\ spanEnded = FALSE /\ span = "none"
  /\ event = [u \in Users |-> "none"] /\ calls = [u \in Users |-> 0]
  /\ sawEnd = FALSE /\ sawErr = FALSE

\* The streamer succeeds, and the two goroutines start.
Streamer ==
  /\ pc = "call"
  /\ pc' = "opened" /\ loop' = "select" /\ tracer' = "wait"
  /\ UNCHANGED <<serverStreams, ctxDone, val, spanEnded, span, userVars>>

\* It fails: the chain returns a nil stream, Trace records the error, and the
\* conversion of nil to a ClientStream panics.
StreamerFails ==
  /\ pc = "call"
  /\ pc' = "panicked" /\ span' = "error" /\ spanEnded' = TRUE
  /\ UNCHANGED <<serverStreams, ctxDone, loop, tracer, val, userVars>>

\* The chain returns: Trace takes the opened stream for a success and ends its
\* span, and the user has the stream.
ChainReturns ==
  /\ pc = "opened"
  /\ pc' = "returned" /\ spanEnded' = TRUE
  /\ span' = IF span = "none" THEN "ok" ELSE span
  /\ UNCHANGED <<serverStreams, ctxDone, loop, tracer, val, userVars>>

\* The event loop takes the event of a user ...
LoopEvent(u) ==
  /\ loop = "select" /\ event[u] # "none"
  /\ val' = event[u] /\ loop' = "finish"
  /\ event' = [event EXCEPT ![u] = "none"]
  /\ UNCHANGED <<pc, serverStreams, ctxDone, tracer, spanEnded, span, calls, sawEnd, sawErr>>

\* ... or finds its context done.
LoopCtx ==
  /\ loop = "select" /\ ctxDone
  /\ val' = "error" /\ loop' = "finish"
  /\ UNCHANGED <<pc, serverStreams, ctxDone, tracer, spanEnded, span, userVars>>

\* finished has no buffer: the tracer takes the value as the loop sends it.
Finish ==
  /\ loop = "finish" /\ tracer = "wait"
  /\ loop' = "close" /\ tracer' = "record"
  /\ UNCHANGED <<pc, serverStreams, ctxDone, val, spanEnded, span, userVars>>

\* defer close(done)
CloseDone ==
  /\ loop = "close"
  /\ loop' = "ended"
  /\ UNCHANGED <<pc, serverStreams, ctxDone, tracer, val, spanEnded, span, userVars>>

\* The tracer sets the span's status; a span that has ended ignores it.
Record ==
  /\ tracer = "record"
  /\ tracer' = "ended"
  /\ span' = IF spanEnded THEN span ELSE val
  /\ UNCHANGED <<pc, serverStreams, ctxDone, loop, val, spanEnded, userVars>>

Calling(u) ==
  /\ pc = "returned" /\ event[u] = "none" /\ calls[u] < MaxCalls
  /\ calls' = [calls EXCEPT ![u] = @ + 1]
  /\ UNCHANGED <<pc, serverStreams, ctxDone, loop, tracer, val, spanEnded, span>>

Fails(u) ==
  /\ event' = [event EXCEPT ![u] = "error"] /\ sawErr' = TRUE
  /\ UNCHANGED sawEnd

\* RecvMsg: a message, which is the last unless the server streams; io.EOF; or
\* another error.
RecvMsg ==
  /\ Calling("recv") /\ ~sawEnd
  /\ \/ serverStreams /\ ~ctxDone /\ UNCHANGED <<event, sawEnd, sawErr>>
     \/ /\ event' = [event EXCEPT !["recv"] = "ok"]
        /\ sawEnd' = TRUE /\ UNCHANGED sawErr
     \/ Fails("recv")

\* SendMsg, Header and CloseSend succeed or fail.
SendMsg ==
  /\ Calling("send")
  /\ UNCHANGED <<event, sawEnd, sawErr>> \/ Fails("send")

\* Fault: sendStreamEvent waits for the loop only.
SkipNever(u) == FALSE /\ UNCHANGED vars

\* sendStreamEvent gives up once done is closed.
SkipEvent(u) ==
  /\ event[u] # "none" /\ loop = "ended"
  /\ event' = [event EXCEPT ![u] = "none"]
  /\ UNCHANGED <<pc, serverStreams, ctxDone, loop, tracer, val, spanEnded, span, calls, sawEnd, sawErr>>

\* The user cancels, or the deadline passes.
Cancel ==
  /\ ~ctxDone /\ ctxDone' = TRUE
  /\ UNCHANGED <<pc, serverStreams, loop, tracer, val, spanEnded, span, userVars>>

Loop == LoopCtx \/ Finish \/ CloseDone \/ \E u \in Users : LoopEvent(u)

Next ==
  \/ Streamer \/ StreamerFails \/ ChainReturns \/ Loop \/ Record
  \/ RecvMsg \/ SendMsg \/ Cancel
  \/ \E u \in Users : SkipEvent(u)

\* The goroutines run; nothing obliges the user to call, or a context to end.
Fairness ==
  /\ WF_vars(ChainReturns) /\ WF_vars(Loop) /\ WF_vars(Record)
  /\ \A u \in Users : WF_vars(SkipEvent(u))

-----------------------------------------------------------------------------

\* Nothing leaks: once a call has seen the end of the stream, or its context is
\* done, both goroutines end, and no call of the user stays blocked on them.
NothingLeaks ==
  (loop # "off" /\ (sawEnd \/ sawErr \/ ctxDone)) ~>
    (loop = "ended" /\ tracer = "ended" /\ \A u \in Users : event[u] = "none")

=============================================================================
