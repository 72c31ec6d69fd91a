---------------------------- MODULE KafkaConsumer ----------------------------
(***************************************************************************)
(* infra/kafka/sarama.go: KafkaConsumerGroup, the members of a group on one *)
(* partition.  A member's claim loop hands each message to the worker of    *)
(* its key over a bounded channel and marks it at once; a commit takes the  *)
(* marks to the broker.  A rebalance may give the partition to any member,  *)
(* while the workers of the last one go on with what they hold; a member    *)
(* may crash and restart, a handler may panic and take its worker with it.  *)
(* Messages are their offsets.                                              *)
(***************************************************************************)
EXTENDS Integers, Sequences, FiniteSets

CONSTANTS
  Members, NoMember,
  Worker,         \* per member: conf.Worker, how many workers it has
  Cap,            \* capacity of a worker's channel (1024)
  MaxMsg,         \* bound: messages in the partition
  Key,            \* per message: the hash of its key
  Unregistered,   \* the messages of topics without a handler
  AutoCommit,     \* conf.AutoCommit
  MaxEvents       \* bound: rebalances, evictions, Stops, crashes and panics

Msgs == 1 .. MaxMsg
Workers == UNION {{c} \X (0 .. Worker[c] - 1) : c \in Members}

ASSUME ConstantsAssumption ==
  /\ NoMember \notin Members /\ IsFiniteSet(Members)
  /\ Worker \in [Members -> Nat \ {0}] /\ Cap \in Nat \ {0} /\ MaxMsg \in Nat
  /\ Key \in [Msgs -> Nat] /\ Unregistered \subseteq Msgs /\ AutoCommit \in BOOLEAN
  /\ MaxEvents \in Nat

VARIABLES
  committed,  \* the group's offset at the broker: all up to it are committed
  owner,      \* the member that has the partition, as the broker sees it
  marked,     \* per member: the session's marked offset
  next,       \* per member: the next message of claim.Messages()
  cpc,        \* per member: the claim loop: "off", "range", "send", "mark", "ended"
  chs,        \* per worker: its channel
  wpc,        \* per worker: "recv", "handle", "dead", "returned"
  cur,        \* per worker: the message it handles
  stopping,   \* the members whose Stop cancelled the context
  handled,    \* history: messages whose handler was called, or without one
  lost,       \* history: messages committed and not handled at a crash
  events      \* how many of MaxEvents there were

claimVars == <<marked, next, cpc>>
workerVars == <<chs, wpc, cur>>
vars == <<committed, owner, claimVars, workerVars, stopping, handled, lost, events>>

Init ==
  /\ committed = 0 /\ owner = NoMember
  /\ marked = [c \in Members |-> 0] /\ next = [c \in Members |-> 1]
  /\ cpc = [c \in Members |-> "off"]
  /\ chs = [w \in Workers |-> <<>>] /\ wpc = [w \in Workers |-> "recv"]
  /\ cur = [w \in Workers |-> 0]
  /\ stopping = {} /\ handled = {} /\ lost = {}
  /\ events = 0

\* Fault: by message instead of key.
ShardByMsg(c, m) == <<c, m % Worker[c]>>

Shard(c, m) == <<c, Key[m] % Worker[c]>>

\* The message the claim loop took last.
Msg(c) == next[c] - 1

\* Message e is in the hands of worker w, or in its channel.
InHand(w, e) == wpc[w] = "handle" /\ cur[w] = e
Waiting(w, e) == \E q \in 1 .. Len(chs[w]) : chs[w][q] = e

\* Member c's worker of e's key has e.
Holds(c, e) == InHand(Shard(c, e), e) \/ Waiting(Shard(c, e), e)

-----------------------------------------------------------------------------
\* Consume and ConsumeClaim

\* A session: the group gives a member the partition, and its claim starts
\* behind the committed offset.
Join(c) ==
  /\ cpc[c] = "off" /\ c \notin stopping
  /\ owner = NoMember
  /\ owner' = c
  /\ next' = [next EXCEPT ![c] = committed + 1]
  /\ marked' = [marked EXCEPT ![c] = committed]
  /\ cpc' = [cpc EXCEPT ![c] = "range"]
  /\ UNCHANGED <<committed, workerVars, stopping, handled, lost, events>>

\* Fault: marks before the message is in its channel.
RangeMarks(c) ==
  /\ cpc[c] = "range" /\ next[c] <= MaxMsg
  /\ next' = [next EXCEPT ![c] = @ + 1]
  /\ marked' = [marked EXCEPT ![c] = next[c]]
  /\ cpc' = [cpc EXCEPT ![c] = "send"]
  /\ UNCHANGED <<committed, owner, workerVars, stopping, handled, lost, events>>

RangeMessages(c) ==
  /\ cpc[c] = "range" /\ next[c] <= MaxMsg
  /\ next' = [next EXCEPT ![c] = @ + 1]
  /\ cpc' = [cpc EXCEPT ![c] = "send"]
  /\ UNCHANGED <<committed, owner, marked, workerVars, stopping, handled, lost, events>>

\* k.chs[index] <- msg blocks on a full channel, whoever is behind it.
Send(c) ==
  /\ cpc[c] = "send"
  /\ Len(chs[Shard(c, Msg(c))]) < Cap
  /\ chs' = [chs EXCEPT ![Shard(c, Msg(c))] = Append(@, Msg(c))]
  /\ cpc' = [cpc EXCEPT ![c] = "mark"]
  /\ UNCHANGED <<committed, owner, marked, next, wpc, cur, stopping, handled, lost, events>>

\* MarkMessage moves the mark forward only.
Mark(c) ==
  /\ cpc[c] = "mark"
  /\ marked' = [marked EXCEPT ![c] = IF Msg(c) > @ THEN Msg(c) ELSE @]
  /\ cpc' = [cpc EXCEPT ![c] = "range"]
  /\ UNCHANGED <<committed, owner, next, workerVars, stopping, handled, lost, events>>

\* The periodic commit; the broker refuses it from a member it has evicted.
Commit(c) ==
  /\ AutoCommit /\ owner = c
  /\ committed < marked[c]
  /\ committed' = marked[c]
  /\ UNCHANGED <<owner, claimVars, workerVars, stopping, handled, lost, events>>

\* A rebalance, Stop or an eviction closes claim.Messages(): the claim loop
\* returns, the owner's marks are committed if that succeeds, and the session
\* is over; Cleanup leaves the workers and their channels as they are.  It
\* cannot end while the claim loop is blocked.
EndSession(c) ==
  /\ cpc[c] = "range"
  /\ IF owner = c
     THEN /\ committed' \in IF AutoCommit THEN {committed, marked[c]} ELSE {committed}
          /\ owner' = NoMember
          /\ \/ c \in stopping /\ UNCHANGED events
             \/ c \notin stopping /\ events < MaxEvents /\ events' = events + 1
     ELSE UNCHANGED <<committed, owner, events>>
  /\ cpc' = [cpc EXCEPT ![c] = "off"]
  /\ next' = [next EXCEPT ![c] = 1] /\ marked' = [marked EXCEPT ![c] = 0]
  /\ UNCHANGED <<workerVars, stopping, handled, lost>>

\* The broker gives up on a member, whose claim loop may be blocked through the
\* whole rebalance timeout and goes on with what it fetched.
Evict ==
  /\ owner # NoMember /\ events < MaxEvents
  /\ owner' = NoMember
  /\ events' = events + 1
  /\ UNCHANGED <<committed, claimVars, workerVars, stopping, handled, lost>>

\* Consume sees the cancelled context between sessions.
Leave(c) ==
  /\ cpc[c] = "off" /\ c \in stopping
  /\ cpc' = [cpc EXCEPT ![c] = "ended"]
  /\ UNCHANGED <<committed, owner, marked, next, workerVars, stopping, handled, lost, events>>

\* Stop cancels the context and closes the group; the workers are not told.
Stop(c) ==
  /\ c \notin stopping /\ events < MaxEvents
  /\ events' = events + 1
  /\ stopping' = stopping \union {c}
  /\ UNCHANGED <<committed, owner, claimVars, workerVars, handled, lost>>

-----------------------------------------------------------------------------
\* The workers: consume(ch)

\* Fault: a message of an unknown topic ends the worker.
ReceiveReturns(w) ==
  /\ wpc[w] = "recv" /\ chs[w] # <<>>
  /\ chs' = [chs EXCEPT ![w] = Tail(@)]
  /\ IF Head(chs[w]) \in Unregistered
     THEN /\ handled' = handled \union {Head(chs[w])}
          /\ wpc' = [wpc EXCEPT ![w] = "returned"]
          /\ UNCHANGED cur
     ELSE /\ wpc' = [wpc EXCEPT ![w] = "handle"]
          /\ cur' = [cur EXCEPT ![w] = Head(chs[w])]
          /\ UNCHANGED handled
  /\ UNCHANGED <<committed, owner, claimVars, stopping, lost, events>>

\* A message of a topic without a handler is dropped.
Receive(w) ==
  /\ wpc[w] = "recv" /\ chs[w] # <<>>
  /\ chs' = [chs EXCEPT ![w] = Tail(@)]
  /\ IF Head(chs[w]) \in Unregistered
     THEN handled' = handled \union {Head(chs[w])} /\ UNCHANGED <<wpc, cur>>
     ELSE /\ wpc' = [wpc EXCEPT ![w] = "handle"]
          /\ cur' = [cur EXCEPT ![w] = Head(chs[w])]
          /\ UNCHANGED handled
  /\ UNCHANGED <<committed, owner, claimVars, stopping, lost, events>>

\* The handler returns; its error is logged and the message not repeated.
Handle(w) ==
  /\ wpc[w] = "handle"
  /\ handled' = handled \union {cur[w]}
  /\ wpc' = [wpc EXCEPT ![w] = "recv"] /\ cur' = [cur EXCEPT ![w] = 0]
  /\ UNCHANGED <<committed, owner, claimVars, chs, stopping, lost, events>>

\* The handler panics: GoSafe recovers, and the worker is gone.
Panic(w) ==
  /\ wpc[w] = "handle" /\ events < MaxEvents
  /\ events' = events + 1
  /\ handled' = handled \union {cur[w]}
  /\ wpc' = [wpc EXCEPT ![w] = "dead"] /\ cur' = [cur EXCEPT ![w] = 0]
  /\ UNCHANGED <<committed, owner, claimVars, chs, stopping, lost>>

\* Committed messages that are not handled and that no other member has: they
\* are not delivered again.
OnlyIn(c) ==
  {e \in 1 .. committed \ (handled \union lost) : \A d \in Members \ {c} : ~Holds(d, e)}

\* A member's process dies and is started again.
Crash(c) ==
  /\ events < MaxEvents
  /\ events' = events + 1
  /\ lost' = lost \union OnlyIn(c)
  /\ owner' = IF owner = c THEN NoMember ELSE owner
  /\ marked' = [marked EXCEPT ![c] = 0] /\ next' = [next EXCEPT ![c] = 1]
  /\ cpc' = [cpc EXCEPT ![c] = "off"]
  /\ chs' = [w \in Workers |-> IF w[1] = c THEN <<>> ELSE chs[w]]
  /\ wpc' = [w \in Workers |-> IF w[1] = c THEN "recv" ELSE wpc[w]]
  /\ cur' = [w \in Workers |-> IF w[1] = c THEN 0 ELSE cur[w]]
  /\ stopping' = stopping \ {c}
  /\ UNCHANGED <<committed, handled>>

Consume(c) == Join(c) \/ RangeMessages(c) \/ Send(c) \/ Mark(c) \/ Leave(c)
Work(w) == Receive(w) \/ Handle(w) \/ Panic(w)

Next ==
  \/ \E c \in Members : Consume(c) \/ Commit(c) \/ EndSession(c) \/ Stop(c) \/ Crash(c)
  \/ Evict
  \/ \E w \in Workers : Work(w)

Spec == Init /\ [][Next]_vars

\* The goroutines run, handlers return, and a session that Stop cancelled or
\* whose member was evicted ends.
Fairness ==
  /\ \A c \in Members :
       WF_vars(Consume(c)) /\ WF_vars((c \in stopping \/ owner # c) /\ EndSession(c))
  /\ \A w \in Workers : WF_vars(Work(w))

FairSpec == Spec /\ Fairness

-----------------------------------------------------------------------------

\* A handler is called with a message only after the earlier ones of its key
\* were handled or lost to a crash, across sessions, redeliveries and restarts,
\* unless the key has moved: an earlier one is committed and still waits in
\* the member that had the partition before, since Cleanup drains nothing.
KeyInOrder ==
  \A w \in Workers : wpc[w] = "handle" =>
    \A e \in 1 .. cur[w] - 1 : Key[e] = Key[cur[w]] =>
      \/ e \in handled \union lost
      \/ e <= committed /\ \E d \in Members \ {w[1]} : Holds(d, e)

\* What the crash of a member can lose: messages are committed before they are
\* handled, but never more of them than its channels hold and its workers have
\* in hand.
LossBound == \A c \in Members : Cardinality(OnlyIn(c)) <= Worker[c] * (Cap + 1)

\* Message e waits in the channel of a worker whose handler panicked.
Behind(e) == \E w \in Workers : wpc[w] = "dead" /\ Waiting(w, e)

\* A claim loop waits for a place in such a channel.
Blocked(c) == cpc[c] = "send" /\ wpc[Shard(c, Msg(c))] = "dead"

\* Nobody goes on with the partition: its owner is blocked, or every member that
\* is not stopped.
Abandoned ==
  \/ \E c \in Members : owner = c /\ Blocked(c)
  \/ \A c \in Members : c \in stopping \/ Blocked(c)

\* Every message is handled or lost to a crash, but for what a panic leaves: the
\* messages behind the dead worker and, once its channel is full and blocks the
\* claim loop, the rest of the partition until another member takes it.
EventuallyHandled ==
  <>[](Abandoned \/ \A e \in Msgs : e \in handled \union lost \/ Behind(e))

=============================================================================
