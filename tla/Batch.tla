------------------------------- MODULE Batch -------------------------------
(***************************************************************************)
(* pkg/future/batch.go: a batcher.  Add puts an item, without blocking, in *)
(* the bounded channel of the worker its key is sharded to; each worker    *)
(* (goroutine "do") collects items per key and hands them to the user's    *)
(* exec when it holds num of them, when its ticker fires, or when Stop's   *)
(* nil arrives; Stop sends a nil to every worker and waits for all.        *)
(*                                                                         *)
(* A value is identified by its serial number among the values accepted    *)
(* for its key: the n-th Add of key k that returns nil carries n.  Time is *)
(* abstracted: a ticker may fire whenever its worker is at its select, so  *)
(* the first-tick adjustment of "do" has no counterpart.                   *)
(***************************************************************************)
EXTENDS Integers, Sequences, FiniteSets

CONSTANTS
  Keys,      \* keys passed to Add
  Sharding,  \* WithSharding: the shard number of a key
  Worker,    \* WithWorker: number of channels and of worker goroutines
  Size,      \* WithSize: capacity of each channel
  Num,       \* WithNum: items that make a full batch
  Stoppers,  \* goroutines that may call Stop, once each
  Nil,       \* the nil *data that Stop sends
  MaxAdds    \* bound: successful Adds per key

Item == [key : Keys, value : Nat]

ASSUME KeysAssumption == Sharding \in [Keys -> Nat] /\ IsFiniteSet(Keys)
ASSUME WorkerAssumption == Worker \in Nat \ {0}
ASSUME SizeAssumption == Size \in Nat \ {0}
ASSUME NumAssumption == Num \in Nat \ {0}
ASSUME NilAssumption == Nil \notin Item
ASSUME BoundAssumption == MaxAdds \in Nat

VARIABLES
  chs,       \* b.chs: the queued items of each worker's channel
  msg,       \* per worker and key, the values collected so far
  num,       \* per worker, how many it has collected
  stop,      \* per worker, whether it has received nil
  pc,        \* per worker: "off", "select", "flush" or "done"
  wg,        \* b.wg: the workers that still owe a Done
  stopPc,    \* per stopper: "idle", "send", "wait" or "returned"
  stopIdx,   \* per stopper, the channel its next nil goes to
  added,     \* history: how many Adds of each key returned nil
  executed,  \* history: the values of each key that exec was given, in order
  atStop     \* history: added, when Stop was called for the first time

batchVars == <<msg, num, stop, pc, wg>>
stopVars == <<stopPc, stopIdx, atStop>>
vars == <<chs, batchVars, stopVars, added, executed>>

Workers == 0 .. Worker - 1

\* Faulty variants, each named for its fault, precede the definition they
\* distort; no specification uses them.

\* Fault: shards by channel load instead of by key.
ShardByLoad(k) ==
  CHOOSE w \in Workers : \A v \in Workers : Len(chs[w]) <= Len(chs[v])

\* The worker that owns key k's channel: b.sharding(key) % b.worker.
Shard(k) == Sharding[k] % Worker

Stopping == \E s \in Stoppers : stopPc[s] # "idle"

NoMsg == [k \in Keys |-> <<>>]

-----------------------------------------------------------------------------

\* NewBatch: the channels exist, no goroutine runs.
Init ==
  /\ chs = [w \in Workers |-> <<>>]
  /\ msg = [w \in Workers |-> NoMsg]
  /\ num = [w \in Workers |-> 0]
  /\ stop = [w \in Workers |-> FALSE]
  /\ pc = [w \in Workers |-> "off"]
  /\ wg = {}
  /\ stopPc = [s \in Stoppers |-> "idle"]
  /\ stopIdx = [s \in Stoppers |-> 0]
  /\ added = [k \in Keys |-> 0]
  /\ executed = NoMsg
  /\ atStop = [k \in Keys |-> 0]

\* Run is called once; it may come after Adds, and even after Stop.
Run ==
  /\ \A w \in Workers : pc[w] = "off"
  /\ wg' = Workers
  /\ pc' = [w \in Workers |-> "select"]
  /\ UNCHANGED <<chs, msg, num, stop, stopVars, added, executed>>

\* The channel has room: the item is queued and Add returns nil.
Add(k) ==
  /\ added[k] < MaxAdds
  /\ Len(chs[Shard(k)]) < Size
  /\ chs' = [chs EXCEPT ![Shard(k)] =
               Append(@, [key |-> k, value |-> added[k] + 1])]
  /\ added' = [added EXCEPT ![k] = @ + 1]
  /\ UNCHANGED <<batchVars, stopVars, executed>>

\* The default branch: "data channel full".
AddFull(k) ==
  /\ Len(chs[Shard(k)]) >= Size
  /\ UNCHANGED vars

\* The item being received completes a batch: not num < b.num after num++.
Full(w) == num[w] + 1 >= Num

\* case item := <-ch with an item.  Below num items the loop continues with
\* its select.
ReceiveItem(w) ==
  LET item == Head(chs[w])
  IN  /\ pc[w] = "select"
      /\ chs[w] # <<>>
      /\ item # Nil
      /\ chs' = [chs EXCEPT ![w] = Tail(@)]
      /\ num' = [num EXCEPT ![w] = @ + 1]
      /\ msg' = [msg EXCEPT ![w][item.key] = Append(@, item.value)]
      /\ pc' = [pc EXCEPT ![w] = IF Full(w) THEN "flush" ELSE "select"]
      /\ UNCHANGED <<stop, wg, stopVars, added, executed>>

\* case item := <-ch with Stop's nil.
ReceiveNil(w) ==
  /\ pc[w] = "select"
  /\ chs[w] # <<>>
  /\ Head(chs[w]) = Nil
  /\ chs' = [chs EXCEPT ![w] = Tail(@)]
  /\ stop' = [stop EXCEPT ![w] = TRUE]
  /\ pc' = [pc EXCEPT ![w] = "flush"]
  /\ UNCHANGED <<msg, num, wg, stopVars, added, executed>>

Receive(w) == ReceiveItem(w) \/ ReceiveNil(w)

\* Fault: a tick does not flush.
TickIgnored(w) ==
  /\ pc[w] = "select"
  /\ UNCHANGED vars

\* case <-ticker.C
Tick(w) ==
  /\ pc[w] = "select"
  /\ pc' = [pc EXCEPT ![w] = "flush"]
  /\ UNCHANGED <<chs, msg, num, stop, wg, stopVars, added, executed>>

\* Fault: an empty batch goes back to the select before the stop check.
FlushSkipsStop(w) ==
  /\ pc[w] = "flush"
  /\ executed' = [k \in Keys |-> executed[k] \o msg[w][k]]
  /\ msg' = [msg EXCEPT ![w] = NoMsg]
  /\ num' = [num EXCEPT ![w] = 0]
  /\ LET quits == stop[w] /\ msg[w] # NoMsg
     IN  /\ pc' = [pc EXCEPT ![w] = IF quits THEN "done" ELSE "select"]
         /\ wg' = IF quits THEN wg \ {w} ELSE wg
  /\ UNCHANGED <<chs, stop, stopVars, added>>

\* The tail of the loop: exec of a non-empty batch, then the stop check.
Flush(w) ==
  /\ pc[w] = "flush"
  /\ executed' = [k \in Keys |-> executed[k] \o msg[w][k]]
  /\ msg' = [msg EXCEPT ![w] = NoMsg]
  /\ num' = [num EXCEPT ![w] = IF msg[w] # NoMsg THEN 0 ELSE @]
  /\ pc' = [pc EXCEPT ![w] = IF stop[w] THEN "done" ELSE "select"]
  /\ wg' = IF stop[w] THEN wg \ {w} ELSE wg
  /\ UNCHANGED <<chs, stop, stopVars, added>>

-----------------------------------------------------------------------------
\* Stop: one blocking send per channel, in order, then wg.Wait.

StopCall(s) ==
  /\ stopPc[s] = "idle"
  /\ stopPc' = [stopPc EXCEPT ![s] = "send"]
  /\ atStop' = IF Stopping THEN atStop ELSE added
  /\ UNCHANGED <<chs, batchVars, stopIdx, added, executed>>

\* Fault: the nil overtakes the queued items.
StopSendAhead(s) ==
  /\ stopPc[s] = "send"
  /\ Len(chs[stopIdx[s]]) < Size
  /\ chs' = [chs EXCEPT ![stopIdx[s]] = <<Nil>> \o @]
  /\ stopIdx' = [stopIdx EXCEPT ![s] = @ + 1]
  /\ stopPc' = [stopPc EXCEPT ![s] = IF stopIdx[s] + 1 = Worker
                                     THEN "wait" ELSE "send"]
  /\ UNCHANGED <<batchVars, atStop, added, executed>>

StopSend(s) ==
  /\ stopPc[s] = "send"
  /\ Len(chs[stopIdx[s]]) < Size
  /\ chs' = [chs EXCEPT ![stopIdx[s]] = Append(@, Nil)]
  /\ stopIdx' = [stopIdx EXCEPT ![s] = @ + 1]
  /\ stopPc' = [stopPc EXCEPT ![s] = IF stopIdx[s] + 1 = Worker
                                     THEN "wait" ELSE "send"]
  /\ UNCHANGED <<batchVars, atStop, added, executed>>

\* Fault: no wg.Wait.
StopReturnAtOnce(s) ==
  /\ stopPc[s] = "wait"
  /\ stopPc' = [stopPc EXCEPT ![s] = "returned"]
  /\ UNCHANGED <<chs, batchVars, stopIdx, atStop, added, executed>>

StopReturn(s) ==
  /\ stopPc[s] = "wait"
  /\ wg = {}
  /\ stopPc' = [stopPc EXCEPT ![s] = "returned"]
  /\ UNCHANGED <<chs, batchVars, stopIdx, atStop, added, executed>>

Next ==
  \/ Run
  \/ \E k \in Keys : Add(k) \/ AddFull(k)
  \/ \E w \in Workers : Receive(w) \/ Tick(w) \/ Flush(w)
  \/ \E s \in Stoppers : StopCall(s) \/ StopSend(s) \/ StopReturn(s)

Spec == Init /\ [][Next]_vars

\* Goroutines that can run do run.  The strong fairness of Receive is Go's:
\* select picks uniformly among ready cases, so ticks cannot shut a ready
\* channel out for ever.
Fairness ==
  /\ \A w \in Workers : SF_vars(Receive(w)) /\ WF_vars(Tick(w))
                                            /\ WF_vars(Flush(w))
  /\ \A s \in Stoppers : SF_vars(StopSend(s)) /\ WF_vars(StopReturn(s))

FairSpec == Spec /\ Fairness

-----------------------------------------------------------------------------

\* Types; a channel never holds more than its capacity, and Stop sends only
\* to channels that exist.
TypeOK ==
  /\ chs \in [Workers -> Seq(Item \cup {Nil})]
  /\ \A w \in Workers : Len(chs[w]) <= Size
  /\ msg \in [Workers -> [Keys -> Seq(Nat)]]
  /\ num \in [Workers -> Nat]
  /\ stop \in [Workers -> BOOLEAN]
  /\ pc \in [Workers -> {"off", "select", "flush", "done"}]
  /\ wg \in SUBSET Workers
  /\ stopPc \in [Stoppers -> {"idle", "send", "wait", "returned"}]
  /\ stopIdx \in [Stoppers -> 0 .. Worker]
  /\ \A s \in Stoppers : stopPc[s] \in {"idle", "send"} => stopIdx[s] < Worker
  /\ added \in [Keys -> Nat]
  /\ executed \in [Keys -> Seq(Nat)]
  /\ atStop \in [Keys -> Nat]

\* exec is given the values of a key in the order their Adds returned nil,
\* none twice and none skipped, whatever the workers, ticks, refused Adds
\* and Stops in between.
InOrder ==
  \A k \in Keys : /\ Len(executed[k]) <= added[k]
                  /\ \A i \in 1 .. Len(executed[k]) : executed[k][i] = i

\* A worker that has quit leaves behind in its channel only values whose Add
\* returned nil after the first call of Stop: nothing older is dropped.
LeftBehindIsLate ==
  \A w \in Workers : \A p \in 1 .. Len(chs[w]) :
    (pc[w] = "done" /\ chs[w][p] # Nil) =>
      chs[w][p].value > atStop[chs[w][p].key]

\* When a Stop returns and the workers had been started, every value accepted
\* before the first call of Stop has been executed: wg.Wait covers the flush
\* of every worker, and each nil is queued behind all of those values.
FlushedAtReturn ==
  [][\A s \in Stoppers :
       (/\ stopPc[s] = "wait"
        /\ stopPc'[s] = "returned"
        /\ \A w \in Workers : pc[w] # "off")
       => \A k \in Keys : Len(executed[k]) >= atStop[k]]_vars

\* The batcher implements the per-key FIFO that its users rely on.
Fifo == INSTANCE KeyedFifo WITH accepted <- added, delivered <- executed

ImplementsFifo == Fifo!Spec

\* Once the workers run, an accepted value is executed unless Stop is called.
EventuallyExecuted ==
  \A k \in Keys : \A n \in 1 .. MaxAdds :
    (added[k] >= n /\ pc[Shard(k)] # "off") ~>
      (Len(executed[k]) >= n \/ Stopping)

\* A call of Stop on a running batcher returns, even when it finds full
\* channels and other goroutines keep adding.  The one exception needs two
\* Stops: the worker that got the nil of the other has quit, later Adds have
\* filled its channel, and this Stop sends to it for ever.
StopTerminates ==
  \A s \in Stoppers :
    (stopPc[s] = "send" /\ \A w \in Workers : pc[w] # "off") ~>
      \/ stopPc[s] = "returned"
      \/ /\ stopPc[s] = "send" /\ \E t \in Stoppers \ {s} : stopPc[t] # "idle"
         /\ pc[stopIdx[s]] = "done" /\ Len(chs[stopIdx[s]]) = Size

=============================================================================
