------------------------------ MODULE EventTopic ------------------------------
(* The Kafka topic sandbox.lifecycle: a few partitions, each an append-only    *)
(* sequence.  KafkaProducer.publish (kafka/producer.ts) keys every message     *)
(* with a fresh uuid, so nothing ties two messages to the same partition.      *)
EXTENDS Naturals, Sequences

CONSTANTS Runs,         \* executions requested by POST /execute
          Partitions    \* partitions of the topic (three in kafka/topics.ts)

ASSUME SomePartition == Partitions # {}

\* The eventTypes runSandbox publishes.
Types == {"SANDBOX_CREATED", "SANDBOX_DESTROYED", "ANOMALY_DETECTED"}

Event == [run : Runs, type : Types]

VARIABLE log            \* log[p]: the messages of partition p

TopicInit == log = [p \in Partitions |-> << >>]

\* The send is acknowledged: the message is in some partition.
Publish(r, t) ==
    \E p \in Partitions :
        log' = [log EXCEPT ![p] = Append(@, [run |-> r, type |-> t])]

\* The send throws.  The broker may have appended the message all the same.
PublishThrows(r, t) == Publish(r, t) \/ UNCHANGED log

\* The types announced for run r so far.
Announced(r) ==
    {t \in Types : \E p \in Partitions : \E i \in DOMAIN log[p] :
                       log[p][i] = [run |-> r, type |-> t]}
===============================================================================
