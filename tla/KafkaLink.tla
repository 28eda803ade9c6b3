------------------------------ MODULE KafkaLink ------------------------------
(* A pipeline that publishes to a kafka topic and one that consumes it. *)
EXTENDS KafkaIn

sideVars == <<inVars, chanVars>>
linkVars == <<outVars, sideVars>>

Init == OutInit /\ InInit /\ ChanInit

Out     == OutNext /\ UNCHANGED <<inVars, chanVars>>
In      == InNext /\ UNCHANGED outVars
Outputs == /\ \E o \in Output : Take(o) \/ OutputDies(o)
           /\ UNCHANGED <<outVars, inVars>>

Next == Out \/ In \/ Outputs

(* Goroutines run, timers expire, and a select whose cases stay ready      *)
(* takes each in the end.  Nothing is assumed of the brokers but that      *)
(* SendMessage returns and that a message at hand is handed out.           *)
Fairness ==
  /\ OutFairness
  /\ WF_sideVars(InConnect \/ InConnectFails) /\ WF_sideVars(InRestart) /\ WF_sideVars(InPush)
  /\ SF_sideVars(InFlush) /\ SF_sideVars(InAck)
  /\ \A o \in Output : WF_chanVars(Take(o))

Spec == Init /\ [][Next]_linkVars /\ Fairness

-----------------------------------------------------------------------------
TypeOK == OutTypeOK /\ InTypeOK

InLog(p, k)      == [part |-> p, off |-> k]
SentTo(o, m, j)  == \E i \in 1 .. j : put[o][i] = m
MessageOf(m)     == log[m.part][m.off]
Undecoded(m)     == MessageOf(m).decodes = "no"

Skipped(o, m)    == m.off <= skipped[m.part] /\ ~SentTo(o, m, Len(put[o]))

(* An offset is marked, and so committed, only when every message up to it *)
(* that a consumer of the group could get has been passed to all the       *)
(* outputs, or was no message to the codec: a SHUTDOWN in the middle of a  *)
(* push and the timer of the checkpoint lose nothing, nor does a kill once *)
(* an offset of the partition is committed.  A consumer that finds no      *)
(* committed offset starts at the newest message: what is in the log then, *)
(* at the first connection or after a kill that came before the first      *)
(* commit, is skipped.                                                     *)
MarkedWasDelivered ==
  \A p \in Partition : \A k \in skipped[p] + 1 .. marked[p] :
    \/ Undecoded(InLog(p, k))
    \/ \A o \in Output : SentTo(o, InLog(p, k), Len(put[o]))

(* Telemetry of one source is delivered in the order in which the          *)
(* publishing pipeline received it: one partition per key, one after the   *)
(* other through the feeder loop, in order through the consumer.  What a   *)
(* start at the newest message skipped never comes up later.               *)
SourceInOrder ==
  \A o \in Output : \A j \in DOMAIN put[o] : \A p \in Partition : \A k \in DOMAIN log[p] :
    /\ log[p][k].src = MessageOf(put[o][j]).src
    /\ log[p][k].num < MessageOf(put[o][j]).num
    => Undecoded(InLog(p, k)) \/ SentTo(o, InLog(p, k), j) \/ Skipped(o, InLog(p, k))

(* Both ends answer SHUTDOWN: the output while it tries to reach the       *)
(* brokers, the input also while an output that has died blocks its push.  *)
(* An input whose encoding has no codec is the exception: it has returned, *)
(* and nobody reads its control channel.                                   *)
ShutdownAcked ==
  /\ outAsked = "yes" ~> kout = "acked"
  /\ inAsked = "yes" /\ kin \notin {"off", "fatal"} ~> kin \in {"acked", "off"}

=============================================================================
