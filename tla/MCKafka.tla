------------------------------ MODULE MCKafka ------------------------------
(***************************************************************************)
(* Instances of KafkaConsumer and KafkaProducer for TLC: a behaviour is     *)
(* one of a consumer, while the producer is not created, or of a producer,  *)
(* while the consumer has ended.                                            *)
(***************************************************************************)
EXTENDS KafkaConsumer

CONSTANTS Sends, ChunkSize

VARIABLES part, lib, conf, kp, st, broker, told, succ, errs, report

producerVars == <<lib, conf, kp, st, broker, told, succ, errs, report>>

Producer == INSTANCE KafkaProducer

ASSUME ProducerAssumption == IsFiniteSet(Sends) /\ ChunkSize \in Nat \ {0}

CONSTANTS c1, c2
MCMembers == {c1, c2}
MCWorker == [c \in Members |-> IF c = c1 THEN 2 ELSE 1]

\* A message of the second worker comes before those of the first.
MCKey == [m \in Msgs |-> IF m = 1 THEN 1 ELSE 0]

NoProducer == Producer!Start("sarama", [success |-> TRUE, errors |-> TRUE, acks |-> TRUE], "failed")

NoConsumer ==
  /\ committed = 0 /\ owner = NoMember
  /\ marked = [c \in Members |-> 0] /\ next = [c \in Members |-> 1]
  /\ cpc = [c \in Members |-> "ended"]
  /\ chs = [w \in Workers |-> <<>>] /\ wpc = [w \in Workers |-> "recv"]
  /\ cur = [w \in Workers |-> 0]
  /\ stopping = Members /\ handled = {} /\ lost = {}
  /\ events = 0

MCInit ==
  \/ part = "consumer" /\ Init /\ NoProducer
  \/ part = "producer" /\ Producer!Init /\ NoConsumer

MCNext ==
  \/ part = "consumer" /\ Next /\ UNCHANGED <<part, producerVars>>
  \/ part = "producer" /\ Producer!Next /\ UNCHANGED <<part, vars>>

MCSpec ==
  MCInit /\ [][MCNext]_<<part, vars, producerVars>> /\ Fairness /\ Producer!Fairness

\* The producers' properties; see KafkaProducer.
Accounted == Producer!Accounted

=============================================================================
