----------------------------- MODULE WsSession -----------------------------
(***************************************************************************)
(* transport/ws/ws.go: one websocket session.  Four goroutines share it:   *)
(* "read" (Session.read, which also answers pings), "write" (Session.write)*)
(* "hf" (the user's handler, which calls Receive, Send and Close) and      *)
(* "main" (the http handler, which waits for hf and then closes).  Every   *)
(* one of them may run Session.Close.                                      *)
(*                                                                         *)
(* The peer's n-th data message is the number n, and so is the n-th        *)
(* message hf passes to Send.  Deadlines, the close wait and the heartbeat *)
(* period are abstracted: a tick, and a failure of the peer or of the      *)
(* network, may come at any time.                                          *)
(***************************************************************************)
EXTENDS Integers, Sequences, FiniteSets

CONSTANTS
  InCap,    \* opt.in, the capacity of s.in
  OutCap,   \* opt.out, the capacity of s.out
  MaxIn,    \* bound: data messages the peer sends
  MaxSend   \* bound: Sends the handler calls

ASSUME CapAssumption == InCap \in Nat \ {0} /\ OutCap \in Nat \ {0}
ASSUME BoundAssumption == MaxIn \in Nat /\ MaxSend \in Nat

Goroutines == {"read", "write", "hf", "main"}

None == "none"

VARIABLES
  rpc,       \* pc of read
  wpc,       \* pc of write
  hpc,       \* pc of hf
  mpc,       \* pc of the http handler
  cpc,       \* per goroutine, pc of the Session.Close it runs
  in, out,   \* s.in and s.out
  inErr,     \* s.inErr (capacity 1): "eof" stands for the nil error
  outErr,    \* s.outErr (capacity 1)
  ch,        \* s.ch (capacity 1): whether it holds hf's signal
  closed,    \* s.closed
  l,         \* s.l: the goroutine that holds the mutex
  item,      \* what write took from its select: a message, or 0 for a ping
  nRead,     \* data messages ReadMessage has returned
  nSend,     \* Sends called
  connOpen,  \* whether s.conn.Close has not been called
  writeErr,  \* the connection's sticky write error
  received   \* history: messages Receive has returned

chanVars == <<in, out, inErr, outErr, ch>>
connVars == <<connOpen, writeErr>>
vars == <<rpc, wpc, hpc, mpc, cpc, chanVars, closed, l, item, nRead, nSend,
          connVars, received>>

-----------------------------------------------------------------------------
\* The gorilla connection, as Session uses it.

\* A write succeeds only on an open connection without an earlier write
\* error; it may fail at any time, and a failure is sticky.
WriteOK == connOpen /\ ~writeErr /\ UNCHANGED writeErr

WriteFail == writeErr' = TRUE

-----------------------------------------------------------------------------
\* NewSession has upgraded the connection and started the goroutines; the
\* http handler has started hf and waits on session.ch.
Init ==
  /\ rpc = "read" /\ wpc = "top" /\ hpc = "ready" /\ mpc = "wait"
  /\ cpc = [g \in Goroutines |-> "none"]
  /\ in = <<>> /\ out = <<>> /\ inErr = <<>> /\ outErr = <<>>
  /\ ch = FALSE
  /\ closed = FALSE
  /\ l = None
  /\ item = 0
  /\ nRead = 0 /\ nSend = 0
  /\ connOpen = TRUE /\ writeErr = FALSE
  /\ received = <<>>

-----------------------------------------------------------------------------
\* Session.Close, run by goroutine g once cpc[g] is "check".

CloseCheck(g) ==
  /\ cpc[g] = "check"
  /\ cpc' = [cpc EXCEPT ![g] = IF closed THEN "returned" ELSE "store"]
  /\ UNCHANGED <<rpc, wpc, hpc, mpc, chanVars, closed, l, item, nRead, nSend,
                 connVars, received>>

\* closed.Store(true), then the sleep of closeWait.
CloseStore(g) ==
  /\ cpc[g] = "store"
  /\ closed' = TRUE
  /\ cpc' = [cpc EXCEPT ![g] = "lock"]
  /\ UNCHANGED <<rpc, wpc, hpc, mpc, chanVars, l, item, nRead, nSend,
                 connVars, received>>

\* Fault: the close frame is written without the mutex.
CloseUnlocked(g) ==
  /\ cpc[g] = "lock"
  /\ l' = g
  /\ cpc' = [cpc EXCEPT ![g] = "write"]
  /\ UNCHANGED <<rpc, wpc, hpc, mpc, chanVars, closed, item, nRead, nSend,
                 connVars, received>>

CloseLock(g) ==
  /\ cpc[g] = "lock"
  /\ l = None
  /\ l' = g
  /\ cpc' = [cpc EXCEPT ![g] = "write"]
  /\ UNCHANGED <<rpc, wpc, hpc, mpc, chanVars, closed, item, nRead, nSend,
                 connVars, received>>

\* Fault: an early return from Close keeps the mutex.
CloseWriteKeepsLock(g) ==
  /\ cpc[g] = "write"
  /\ WriteFail
  /\ cpc' = [cpc EXCEPT ![g] = "shut"]
  /\ UNCHANGED <<rpc, wpc, hpc, mpc, chanVars, closed, l, item, nRead, nSend,
                 connOpen, received>>

\* The close frame: whether it is written or not, later writes fail.
CloseWrite(g) ==
  /\ cpc[g] = "write"
  /\ WriteFail
  /\ l' = None
  /\ cpc' = [cpc EXCEPT ![g] = "shut"]
  /\ UNCHANGED <<rpc, wpc, hpc, mpc, chanVars, closed, item, nRead, nSend,
                 connOpen, received>>

CloseShut(g) ==
  /\ cpc[g] = "shut"
  /\ connOpen' = FALSE
  /\ cpc' = [cpc EXCEPT ![g] = "returned"]
  /\ UNCHANGED <<rpc, wpc, hpc, mpc, chanVars, closed, l, item, nRead, nSend,
                 writeErr, received>>

-----------------------------------------------------------------------------
\* Session.read.

\* ReadMessage returns the peer's next data message; a session that has been
\* closed meanwhile drops it and ends without a word to Receive.
ReadData ==
  /\ rpc = "read"
  /\ connOpen
  /\ nRead < MaxIn
  /\ nRead' = nRead + 1
  /\ IF closed
     THEN rpc' = "close" /\ cpc' = [cpc EXCEPT !["read"] = "check"]
     ELSE rpc' = "deliver" /\ UNCHANGED cpc
  /\ UNCHANGED <<wpc, hpc, mpc, chanVars, closed, l, item, nSend, connVars,
                 received>>

\* s.in <- m, blocking while in is full.
ReadDeliver ==
  /\ rpc = "deliver"
  /\ Len(in) < InCap
  /\ in' = Append(in, nRead)
  /\ rpc' = "read"
  /\ UNCHANGED <<wpc, hpc, mpc, cpc, out, inErr, outErr, ch, closed, l, item,
                 nRead, nSend, connVars, received>>

\* A ping frame inside ReadMessage: PingHandler, which a closed session skips.
ReadPing ==
  /\ rpc = "read"
  /\ connOpen
  /\ ~closed
  /\ rpc' = "pong"
  /\ UNCHANGED <<wpc, hpc, mpc, cpc, chanVars, closed, l, item, nRead, nSend,
                 connVars, received>>

PongLock ==
  /\ rpc = "pong"
  /\ l = None
  /\ l' = "read"
  /\ rpc' = "pongWrite"
  /\ UNCHANGED <<wpc, hpc, mpc, cpc, chanVars, closed, item, nRead, nSend,
                 connVars, received>>

\* The pong; its write error is ReadMessage's error, which is no CloseError.
PongWrite ==
  /\ rpc = "pongWrite"
  /\ l' = None
  /\ \/ WriteOK /\ rpc' = "read"
     \/ WriteFail /\ rpc' = "eof"
  /\ UNCHANGED <<wpc, hpc, mpc, cpc, chanVars, closed, item, nRead, nSend,
                 connOpen, received>>

\* ReadMessage fails: an unexpected close code, or anything else (a normal
\* close, a timeout, a network error, the local conn.Close).
ReadFail ==
  /\ rpc = "read"
  /\ rpc' \in IF connOpen THEN {"eof", "error"} ELSE {"eof"}
  /\ UNCHANGED <<wpc, hpc, mpc, cpc, chanVars, closed, l, item, nRead, nSend,
                 connVars, received>>

\* Fault: tells Receive only about errors, not about the end of the stream.
ReadEndErrorOnly ==
  /\ rpc \in {"eof", "error"}
  /\ inErr' = IF rpc = "error" THEN <<rpc>> ELSE <<>>
  /\ rpc' = "close"
  /\ cpc' = [cpc EXCEPT !["read"] = "check"]
  /\ UNCHANGED <<wpc, hpc, mpc, in, out, outErr, ch, closed, l, item, nRead,
                 nSend, connVars, received>>

\* s.inErr <- nil or err, and the deferred Close.
ReadEnd ==
  /\ rpc \in {"eof", "error"}
  /\ inErr = <<>>
  /\ inErr' = <<rpc>>
  /\ rpc' = "close"
  /\ cpc' = [cpc EXCEPT !["read"] = "check"]
  /\ UNCHANGED <<wpc, hpc, mpc, in, out, outErr, ch, closed, l, item, nRead,
                 nSend, connVars, received>>

-----------------------------------------------------------------------------
\* Session.write.

WriteTop ==
  /\ wpc = "top"
  /\ IF closed
     THEN wpc' = "close" /\ cpc' = [cpc EXCEPT !["write"] = "check"]
     ELSE wpc' = "select" /\ UNCHANGED cpc
  /\ UNCHANGED <<rpc, hpc, mpc, chanVars, closed, l, item, nRead, nSend,
                 connVars, received>>

WriteTake ==
  /\ wpc = "select"
  /\ out # <<>>
  /\ item' = Head(out)
  /\ out' = Tail(out)
  /\ wpc' = "lock"
  /\ UNCHANGED <<rpc, hpc, mpc, cpc, in, inErr, outErr, ch, closed, l, nRead,
                 nSend, connVars, received>>

WriteTick ==
  /\ wpc = "select"
  /\ item' = 0
  /\ wpc' = "lock"
  /\ UNCHANGED <<rpc, hpc, mpc, cpc, chanVars, closed, l, nRead, nSend,
                 connVars, received>>

WriteLock ==
  /\ wpc = "lock"
  /\ l = None
  /\ l' = "write"
  /\ wpc' = "write"
  /\ UNCHANGED <<rpc, hpc, mpc, cpc, chanVars, closed, item, nRead, nSend,
                 connVars, received>>

WriteMessage ==
  /\ wpc = "write"
  /\ l' = None
  /\ \/ /\ WriteOK
        /\ wpc' = "top"
     \/ /\ WriteFail
        /\ wpc' = "error"
  /\ UNCHANGED <<rpc, hpc, mpc, cpc, chanVars, closed, item, nRead, nSend,
                 connOpen, received>>

\* s.outErr <- err, and the deferred Close.
WriteEnd ==
  /\ wpc = "error"
  /\ outErr = <<>>
  /\ outErr' = <<"error">>
  /\ wpc' = "close"
  /\ cpc' = [cpc EXCEPT !["write"] = "check"]
  /\ UNCHANGED <<rpc, hpc, mpc, in, out, inErr, ch, closed, l, item, nRead,
                 nSend, connVars, received>>

-----------------------------------------------------------------------------
\* hf, the user's handler: it calls Receive, Send and (once) Close as it
\* likes, returns, or panics; the end of the stream or an error of Receive or
\* Send makes it return, as the handlers of the package's test do.

HfCall ==
  /\ hpc = "ready"
  /\ \/ /\ hpc' = "recv"
        /\ UNCHANGED <<cpc, nSend>>
     \/ /\ nSend < MaxSend
        /\ nSend' = nSend + 1
        /\ hpc' = "send"
        /\ UNCHANGED cpc
     \/ /\ cpc["hf"] = "none"
        /\ hpc' = "close"
        /\ cpc' = [cpc EXCEPT !["hf"] = "check"]
        /\ UNCHANGED nSend
     \/ /\ hpc' \in {"signal", "panicked"}
        /\ UNCHANGED <<cpc, nSend>>
  /\ UNCHANGED <<rpc, wpc, mpc, chanVars, closed, l, item, nRead, connVars,
                 received>>

\* Receive: the select takes either ready case.
HfReceive ==
  /\ hpc = "recv"
  /\ \/ /\ in # <<>>
        /\ received' = Append(received, Head(in))
        /\ in' = Tail(in)
        /\ hpc' = "ready"
        /\ UNCHANGED inErr
     \/ /\ inErr # <<>>
        /\ inErr' = <<>>
        /\ hpc' = "signal"
        /\ UNCHANGED <<in, received>>
  /\ UNCHANGED <<rpc, wpc, mpc, cpc, out, outErr, ch, closed, l, item, nRead,
                 nSend, connVars>>

\* Send: it neither looks at closed nor waits for the write.
HfSend ==
  /\ hpc = "send"
  /\ \/ /\ Len(out) < OutCap
        /\ out' = Append(out, nSend)
        /\ hpc' = "ready"
        /\ UNCHANGED outErr
     \/ /\ outErr # <<>>
        /\ outErr' = <<>>
        /\ hpc' = "signal"
        /\ UNCHANGED out
  /\ UNCHANGED <<rpc, wpc, mpc, cpc, in, inErr, ch, closed, l, item, nRead,
                 nSend, connVars, received>>

HfClosed ==
  /\ hpc = "close"
  /\ cpc["hf"] = "returned"
  /\ hpc' = "ready"
  /\ UNCHANGED <<rpc, wpc, mpc, cpc, chanVars, closed, l, item, nRead, nSend,
                 connVars, received>>

\* session.ch <- struct{}{}; a panic is recovered by GoSafe and skips it.
HfSignal ==
  /\ hpc = "signal"
  /\ ch' = TRUE
  /\ hpc' = "done"
  /\ UNCHANGED <<rpc, wpc, mpc, cpc, in, out, inErr, outErr, closed, l, item,
                 nRead, nSend, connVars, received>>

\* <-session.ch, then after, which closes the session.
MainWake ==
  /\ mpc = "wait"
  /\ ch
  /\ ch' = FALSE
  /\ mpc' = "close"
  /\ cpc' = [cpc EXCEPT !["main"] = "check"]
  /\ UNCHANGED <<rpc, wpc, hpc, in, out, inErr, outErr, closed, l, item, nRead,
                 nSend, connVars, received>>

Close(g) ==
  CloseCheck(g) \/ CloseStore(g) \/ CloseLock(g) \/ CloseWrite(g) \/ CloseShut(g)

Read == ReadData \/ ReadDeliver \/ ReadPing \/ PongLock \/ PongWrite \/ ReadFail \/ ReadEnd

Write == WriteTop \/ WriteTake \/ WriteTick \/ WriteLock \/ WriteMessage \/ WriteEnd

Hf == HfCall \/ HfReceive \/ HfSend \/ HfClosed \/ HfSignal

Next == Read \/ Write \/ Hf \/ MainWake \/ \E g \in Goroutines : Close(g)

Spec == Init /\ [][Next]_vars

\* The scheduler runs every runnable goroutine, and sync.Mutex hands itself to
\* a waiter that starves.  Nothing obliges the peer to send, or an open
\* connection to fail: ReadMessage is fair only once the connection is closed.
Fairness ==
  /\ SF_vars(\/ ReadDeliver \/ PongLock \/ PongWrite \/ ReadEnd
             \/ ReadFail /\ ~connOpen
             \/ Close("read"))
  /\ SF_vars(Write \/ Close("write"))
  /\ SF_vars(Hf \/ Close("hf"))
  /\ SF_vars(MainWake \/ Close("main"))

FairSpec == Spec /\ Fairness

-----------------------------------------------------------------------------

\* The goroutines inside a WriteMessage of the connection.
Writing ==
  {g \in Goroutines : cpc[g] = "write"}
    \cup (IF rpc = "pongWrite" THEN {"pong"} ELSE {})
    \cup (IF wpc = "write" THEN {"message"} ELSE {})

\* The connection allows one writer at a time: data, pings, the reader's
\* pongs and the close frames of up to four closers never overlap.
WriteExclusive == Cardinality(Writing) <= 1

\* A session marked closed is torn down: whichever goroutines won the race for
\* it get the mutex and reach conn.Close, the writer is woken by its ticker and
\* ends, and so does the reader unless nobody drains the full s.in it sends to.
CloseCompletes ==
  closed ~> /\ ~connOpen
            /\ wpc = "close" /\ cpc["write"] = "returned"
            /\ \/ rpc = "close" /\ cpc["read"] = "returned"
               \/ rpc = "deliver" /\ Len(in) = InCap

\* A handler blocked in Receive learns that the reader has ended, unless that
\* ended on a message that it dropped because the session was being closed.
HandlerTold ==
  (hpc = "recv" /\ rpc = "close") ~> (hpc # "recv" \/ Len(received) + Len(in) = nRead - 1)

=============================================================================
