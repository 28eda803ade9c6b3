---------------------------- MODULE MCKafkaLink ----------------------------
(* KafkaLink with two sources, each with a partition of its own. *)
EXTENDS KafkaLink

CONSTANTS p1, p2, s1

MCPartitionOf == [s \in Source |-> IF s = s1 THEN p1 ELSE p2]
=============================================================================
