---------------------------- MODULE KafkaProducer ----------------------------
(***************************************************************************)
(* infra/kafka: the two producers.  sarama.go: SyncSend waits for the       *)
(* broker; AsyncSend returns at once, and two monitor goroutines log what   *)
(* became of the message, if the configuration returns it.  kafka-go.go:    *)
(* Produce adds to a chunk, which a goroutine of the executor writes when   *)
(* it is full or its time has come, or which Close flushes itself; its      *)
(* writer waits for no acknowledgement.                                     *)
(* The messages are sent by goroutines of the application, at any time,     *)
(* also while the producer is closed.                                       *)
(***************************************************************************)
EXTENDS Integers, FiniteSets

CONSTANTS
  Sends,      \* the messages that are sent, at most once each
  ChunkSize   \* messages that fill a chunk

VARIABLES
  lib,       \* which producer it is: "sarama" or "kafka-go"
  conf,      \* ProducerConf: ReturnSuccess, ReturnErrors, whether brokers ack
  kp,        \* pc of the owner: "new", "newAsync", "up", "closing", "closed",
             \* "exited", or "failed" when the constructor did
  st,        \* per message: "idle", "sync", "input", "chunk", "handed", and
             \* "sent" or "failed" as the library sees it
  broker,    \* the messages in the log
  told,      \* per message: what its caller got: "none", "ok", "error", "panic"
  succ, errs,\* the messages in Successes() and Errors()
  report     \* per message: what was logged: "none", "success" or "error"

pVars == <<lib, conf, kp, st, broker, told, succ, errs, report>>

Confs == [success : BOOLEAN, errors : BOOLEAN, acks : BOOLEAN]

Start(l, c, pc) ==
  /\ lib = l /\ conf = c /\ kp = pc
  /\ st = [m \in Sends |-> "idle"] /\ broker = {} /\ told = [m \in Sends |-> "none"]
  /\ succ = {} /\ errs = {} /\ report = [m \in Sends |-> "none"]

\* NewProducer leaves the writer's RequiredAcks at its zero value, RequireNone.
Init ==
  \/ \E c \in Confs : Start("sarama", c, "new")
  \/ Start("kafka-go", [success |-> FALSE, errors |-> TRUE, acks |-> FALSE], "up")

-----------------------------------------------------------------------------
\* sarama.go

\* NewKafkaProducer: either producer may fail to connect.
NewSync ==
  /\ kp = "new"
  /\ kp' \in {"newAsync", "failed"}
  /\ UNCHANGED <<lib, conf, st, broker, told, succ, errs, report>>

NewAsync ==
  /\ kp = "newAsync"
  /\ kp' \in {"up", "failed"}
  /\ UNCHANGED <<lib, conf, st, broker, told, succ, errs, report>>

\* SyncSend enters SendMessage.
SyncSend(m) ==
  /\ lib = "sarama" /\ kp = "up" /\ st[m] = "idle"
  /\ st' = [st EXCEPT ![m] = "sync"]
  /\ UNCHANGED <<lib, conf, kp, broker, told, succ, errs, report>>

\* What becomes of a message: written, or given up after its retries, when the
\* broker may have it nevertheless.  Without acks success is assumed.
Outcome(m, ok) ==
  /\ broker' \in IF ok /\ conf.acks THEN {broker \union {m}} ELSE {broker, broker \union {m}}
  /\ st' = [st EXCEPT ![m] = IF ok THEN "sent" ELSE "failed"]

SyncReturn(m, ok) ==
  /\ st[m] = "sync"
  /\ Outcome(m, ok)
  /\ told' = [told EXCEPT ![m] = IF ok THEN "ok" ELSE "error"]
  /\ UNCHANGED <<lib, conf, kp, succ, errs, report>>

\* SendMessage once Close has begun: sarama answers ErrShuttingDown, or Input is
\* closed already and the caller panics.
SyncRefused(m) ==
  /\ lib = "sarama" /\ kp \in {"closing", "closed"} /\ st[m] = "idle"
  /\ st' = [st EXCEPT ![m] = "failed"]
  /\ \E t \in {"error", "panic"} : told' = [told EXCEPT ![m] = t]
  /\ UNCHANGED <<lib, conf, kp, broker, succ, errs, report>>

\* AsyncSend puts the message into Input and returns nil; Close asks the async
\* producer last, and does not wait until it refuses.
AsyncSend(m) ==
  /\ lib = "sarama" /\ kp \in {"up", "closing", "closed"} /\ st[m] = "idle"
  /\ st' = [st EXCEPT ![m] = "input"]
  /\ told' = [told EXCEPT ![m] = "ok"]
  /\ UNCHANGED <<lib, conf, kp, broker, succ, errs, report>>

\* sarama returns the message on the channel that newAsyncProducer asked for.
AsyncReturn(m, ok) ==
  /\ st[m] = "input" /\ kp # "exited"
  /\ Outcome(m, ok)
  /\ succ' = IF ok /\ conf.success THEN succ \union {m} ELSE succ
  /\ errs' = IF ~ok /\ conf.errors THEN errs \union {m} ELSE errs
  /\ UNCHANGED <<lib, conf, kp, told, report>>

\* After AsyncClose the message comes back as ErrShuttingDown, or Input is closed
\* already and the caller panics.
AsyncRefused(m) ==
  /\ lib = "sarama" /\ kp = "closed" /\ st[m] = "idle"
  /\ st' = [st EXCEPT ![m] = "failed"]
  /\ \/ /\ told' = [told EXCEPT ![m] = "ok"]
        /\ errs' = IF conf.errors THEN errs \union {m} ELSE errs
     \/ /\ told' = [told EXCEPT ![m] = "panic"]
        /\ UNCHANGED errs
  /\ UNCHANGED <<lib, conf, kp, broker, succ, report>>

\* The monitor goroutines log what they receive.
MonitorSuccesses(m) ==
  /\ m \in succ /\ kp # "exited"
  /\ succ' = succ \ {m}
  /\ report' = [report EXCEPT ![m] = "success"]
  /\ UNCHANGED <<lib, conf, kp, st, broker, told, errs>>

\* Fault: a message without an error of its own is skipped.
MonitorErrorsSkip(m) ==
  /\ m \in errs /\ kp # "exited"
  /\ errs' = errs \ {m}
  /\ UNCHANGED <<lib, conf, kp, st, broker, told, succ, report>>

MonitorErrors(m) ==
  /\ m \in errs /\ kp # "exited"
  /\ errs' = errs \ {m}
  /\ report' = [report EXCEPT ![m] = "error"]
  /\ UNCHANGED <<lib, conf, kp, st, broker, told, succ>>

\* Close waits for the sync producer, and only asks the async one to close.
Close ==
  /\ lib = "sarama"
  /\ \/ kp = "up" /\ kp' = "closing"
     \/ kp = "closing" /\ kp' = "closed" /\ \A m \in Sends : st[m] # "sync"
  /\ UNCHANGED <<lib, conf, st, broker, told, succ, errs, report>>

\* The process ends after Close.
Exit ==
  /\ kp = "closed" /\ kp' = "exited"
  /\ UNCHANGED <<lib, conf, st, broker, told, succ, errs, report>>

-----------------------------------------------------------------------------
\* kafka-go.go

Chunk == {m \in Sends : st[m] = "chunk"}
Handed == {m \in Sends : st[m] = "handed"}

\* Produce: Add hands a full chunk to the executor's goroutine.
Produce(m) ==
  /\ lib = "kafka-go" /\ kp # "exited" /\ st[m] = "idle"
  /\ LET chunk == Chunk \union {m}
         full == Cardinality(chunk) >= ChunkSize
     IN /\ full => Handed = {}
        /\ st' = [x \in Sends |-> IF x \notin chunk THEN st[x] ELSE IF full THEN "handed" ELSE "chunk"]
  /\ told' = [told EXCEPT ![m] = "ok"]
  /\ UNCHANGED <<lib, conf, kp, broker, succ, errs, report>>

\* The interval: the executor's goroutine takes the chunk.
FlushInterval ==
  /\ Chunk # {} /\ Handed = {} /\ kp # "exited"
  /\ st' = [m \in Sends |-> IF m \in Chunk THEN "handed" ELSE st[m]]
  /\ UNCHANGED <<lib, conf, kp, broker, told, succ, errs, report>>

\* f: WriteMessages; a failure is logged, and what was written before it stays.
\* A closed writer refuses.  Without acks nothing but the sending is known.
Write(ms) ==
  \/ /\ kp # "closed"
     /\ st' = [m \in Sends |-> IF m \in ms THEN "sent" ELSE st[m]]
     /\ \E sub \in IF conf.acks THEN {ms} ELSE SUBSET ms : broker' = broker \union sub
     /\ UNCHANGED report
  \/ /\ st' = [m \in Sends |-> IF m \in ms THEN "failed" ELSE st[m]]
     /\ \E sub \in IF kp = "closed" THEN {{}} ELSE SUBSET ms : broker' = broker \union sub
     /\ report' = [m \in Sends |-> IF m \in ms THEN "error" ELSE report[m]]

Execute ==
  /\ Handed # {} /\ kp # "exited"
  /\ Write(Handed)
  /\ UNCHANGED <<lib, conf, kp, told, succ, errs>>

\* Close: Flush writes the chunk here ...
CloseFlush ==
  /\ lib = "kafka-go" /\ kp = "up"
  /\ kp' = "closing"
  /\ Write(Chunk)
  /\ UNCHANGED <<lib, conf, told, succ, errs>>

\* ... and the writer is closed, whatever the executor's goroutine has in hand.
CloseWriter ==
  /\ lib = "kafka-go" /\ kp = "closing"
  /\ kp' = "closed"
  /\ UNCHANGED <<lib, conf, st, broker, told, succ, errs, report>>

-----------------------------------------------------------------------------

Sarama(m) ==
  \/ \E ok \in BOOLEAN : SyncReturn(m, ok) \/ AsyncReturn(m, ok)
  \/ MonitorSuccesses(m) \/ MonitorErrors(m)

Next ==
  \/ NewSync \/ NewAsync \/ Close \/ Exit
  \/ \E m \in Sends : \/ SyncSend(m) \/ SyncRefused(m) \/ AsyncSend(m) \/ AsyncRefused(m)
                      \/ Produce(m) \/ Sarama(m)
  \/ FlushInterval \/ Execute \/ CloseFlush \/ CloseWriter

\* The goroutines of the libraries and the monitors run; nobody has to close.
Fairness ==
  /\ \A m \in Sends : WF_pVars(Sarama(m))
  /\ WF_pVars(FlushInterval) /\ WF_pVars(Execute)

-----------------------------------------------------------------------------

\* Every message that a producer was given is in the log in the end, or its
\* failure was returned or logged, also when Close comes at any moment.  Not so
\* if brokers do not acknowledge, when all that is known is that it was sent (for
\* kafka-go always), if the configuration keeps errors from the producer, or if
\* the process exits on the heels of a Close that did not wait.
Accounted ==
  \A m \in Sends :
    st[m] # "idle" ~> \/ m \in broker \/ told[m] \in {"error", "panic"} \/ report[m] = "error"
                      \/ ~conf.acks /\ st[m] = "sent"
                      \/ ~conf.errors /\ st[m] = "failed"
                      \/ kp = "exited"

=============================================================================
