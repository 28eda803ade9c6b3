------------------------------- MODULE KafkaOut -------------------------------
(***************************************************************************)
(* The kafka output of xport_kafka.go and the topic it publishes to: the   *)
(* log of a partition is the sequence of the messages the brokers hold.    *)
(***************************************************************************)
EXTENDS Naturals, Sequences

CONSTANTS
  Source,        \* producers of telemetry, the key of a message
  Partition,     \* partitions of the topic
  PartitionOf,   \* the partition of a key: sarama's hash partitioner
  ODepth,        \* capacity of the output's data channel
  MaxOut         \* bound: messages handed to the output

ASSUME KafkaOutAssumption ==
  PartitionOf \in [Source -> Partition] /\ ODepth \in Nat /\ MaxOut \in Nat

VARIABLES
  log,       \* [Partition -> Seq(message)]
  outq,      \* the data channel
  offered,   \* messages handed to the output so far
  kout,      \* "setup", "wait" (to try again), "loop", "acked"
  outAsked   \* "yes" once SHUTDOWN was sent

outVars == <<log, outq, offered, kout, outAsked>>

OutInit ==
  /\ log = [p \in Partition |-> << >>] /\ outq = << >> /\ offered = 0
  /\ kout = "setup" /\ outAsked = "no"

(* An input sends a message of source s, in an encoding that the consumer *)
(* is set up to decode or not.                                            *)
OutOffer(s, d) ==
  /\ offered < MaxOut /\ Len(outq) < ODepth
  /\ offered' = offered + 1 /\ outq' = Append(outq, [src |-> s, num |-> offered + 1, decodes |-> d])
  /\ UNCHANGED <<log, kout, outAsked>>

(* kafkaFeederLoopSticky: NewSyncProducer, until it succeeds *)
OutSetup ==
  /\ kout = "setup" /\ kout' \in {"loop", "wait"}
  /\ UNCHANGED <<log, outq, offered, outAsked>>
OutRetry ==
  /\ kout = "wait" /\ kout' = "setup"
  /\ UNCHANGED <<log, outq, offered, outAsked>>

OutTake == kout = "loop" /\ outq # << >> /\ outq' = Tail(outq)

(* dataMsgToKafkaMessage: no stream of the type asked for, or an empty one *)
OutSkip ==
  /\ OutTake
  /\ UNCHANGED <<log, offered, kout, outAsked>>

(* Faulty: the key is forgotten. *)
OutSendKeyless ==
  /\ OutTake
  /\ \E p \in Partition : log' = [log EXCEPT ![p] = Append(@, Head(outq))]
  /\ UNCHANGED <<offered, kout, outAsked>>

(* SendMessage succeeds. *)
OutSend ==
  /\ OutTake
  /\ log' = [log EXCEPT ![PartitionOf[Head(outq).src]] = Append(@, Head(outq))]
  /\ UNCHANGED <<offered, kout, outAsked>>

(* SendMessage fails: the message may have been written all the same. *)
OutSendFails ==
  /\ OutTake
  /\ \/ log' = [log EXCEPT ![PartitionOf[Head(outq).src]] = Append(@, Head(outq))]
     \/ UNCHANGED log
  /\ UNCHANGED <<offered, kout, outAsked>>

OutAsk ==
  /\ outAsked = "no" /\ outAsked' = "yes"
  /\ UNCHANGED <<log, outq, offered, kout>>

(* SHUTDOWN: acknowledge and leave; what is queued is not sent. *)
OutAck ==
  /\ kout \in {"wait", "loop"} /\ outAsked = "yes" /\ kout' = "acked"
  /\ UNCHANGED <<log, outq, offered, outAsked>>

OutNext ==
  \/ \E s \in Source, d \in {"yes", "no"} : OutOffer(s, d)
  \/ OutSetup \/ OutRetry \/ OutSkip \/ OutSend \/ OutSendFails \/ OutAsk \/ OutAck

OutFairness == /\ WF_outVars(OutSetup) /\ WF_outVars(OutRetry) /\ SF_outVars(OutAck)
               /\ WF_outVars(OutSkip \/ OutSend \/ OutSendFails)

OutTypeOK ==
  /\ \A p \in Partition : \A k \in DOMAIN log[p] : log[p][k] \in [src : Source, num : 1 .. MaxOut, decodes : {"yes", "no"}]
  /\ Len(outq) <= ODepth /\ offered \in 0 .. MaxOut
  /\ kout \in {"setup", "wait", "loop", "acked"}
=============================================================================
