------------------------------- MODULE KafkaIn -------------------------------
(***************************************************************************)
(* The kafka input of xport_kafka.go: maintainKafkaConsumerConnection      *)
(* consumes the partitions of a topic, feeds all the data channels and     *)
(* every second marks the offset of the last message it has consumed.      *)
(* The consumer commits marked offsets to the brokers; a new consumer of   *)
(* the group starts behind the committed ones, and where none is committed *)
(* yet at the newest message: Consumer.Offsets.Initial is left alone.      *)
(***************************************************************************)
EXTENDS DataChannels, KafkaOut

CONSTANT MaxLife   \* bound: processes that run the input, one after another

ASSUME KafkaInAssumption == MaxLife \in Nat /\ NumOut > 0

VARIABLES
  committed, marked,  \* offsets per partition, as counts of messages; 0: none
  skipped,   \* history: the newest offset of the last start without a committed one
  kin,       \* "off", "connect", "wait", "select", "push", "acked", "fatal"
  inAsked,   \* "yes" once SHUTDOWN was sent
  life,      \* processes started so far
  pos,       \* messages the consumer has handed out, per partition
  checkpoint,\* checkpointMsg: [part, off], or NoMsg
  flush,     \* checkpoint_flush: "no" or "scheduled" (any time now)
  cur, chan  \* the message in hand and the next channel it goes to

inVars == <<committed, marked, skipped, kin, inAsked, life, pos, checkpoint, flush, cur, chan>>

NoMsg == [part |-> "none", off |-> 0]

InInit ==
  /\ committed = [p \in Partition |-> 0] /\ marked = committed /\ pos = committed
  /\ skipped = committed
  /\ kin = "off" /\ inAsked = "no" /\ life = 0
  /\ checkpoint = NoMsg /\ flush = "no" /\ cur = NoMsg /\ chan = 1

(* The process starts; getCodec may not know the encoding, for good. *)
InStart ==
  /\ kin = "off" /\ life < MaxLife
  /\ kin' \in {"connect", "fatal"} /\ life' = life + 1
  /\ UNCHANGED <<committed, marked, skipped, inAsked, pos, checkpoint, flush, cur, chan, chanVars>>

(* NewClient and NewConsumerFromClient *)
InConnect ==
  LET Newest(p) == committed[p] = 0
  IN  /\ kin = "connect" /\ kin' = "select"
      /\ pos' = [p \in Partition |-> IF Newest(p) THEN Len(log[p]) ELSE committed[p]]
      /\ skipped' = [p \in Partition |-> IF Newest(p) THEN Len(log[p]) ELSE skipped[p]]
      /\ marked' = committed
      /\ UNCHANGED <<committed, inAsked, life, checkpoint, flush, cur, chan, chanVars>>

(* ... one of which fails: retry after a while. *)
InConnectFails ==
  /\ kin = "connect" /\ kin' = "wait"
  /\ UNCHANGED <<committed, marked, skipped, inAsked, life, pos, checkpoint, flush, cur, chan, chanVars>>

(* The timeout: close what there is of a consumer and start over. *)
InRestart ==
  /\ kin = "wait" /\ kin' = "connect" /\ checkpoint' = NoMsg
  /\ UNCHANGED <<committed, marked, skipped, inAsked, life, pos, flush, cur, chan, chanVars>>

(* A message of partition p: remember it, schedule a flush, decode it. *)
InMessage(p) ==
  /\ kin = "select" /\ pos[p] < Len(log[p])
  /\ pos' = [pos EXCEPT ![p] = @ + 1]
  /\ LET m == [part |-> p, off |-> pos[p] + 1]
     IN  /\ checkpoint' = m
         /\ flush' = IF flush = "no" THEN "scheduled" ELSE flush
         /\ IF log[p][m.off].decodes = "yes" THEN kin' = "push" /\ cur' = m /\ chan' = 1
            ELSE UNCHANGED <<kin, cur, chan>>
  /\ UNCHANGED <<committed, marked, skipped, inAsked, life, chanVars>>

(* Send to one channel after the other, or block. *)
InPush ==
  /\ kin = "push" /\ Put(chan, cur)
  /\ IF chan < NumOut THEN chan' = chan + 1 /\ UNCHANGED <<kin, cur>>
     ELSE kin' = "select" /\ cur' = NoMsg /\ chan' = 1
  /\ UNCHANGED <<committed, marked, skipped, inAsked, life, pos, checkpoint, flush>>

Mark(m) == marked' = [marked EXCEPT ![m.part] = IF @ < m.off THEN m.off ELSE @]

(* Faulty: the offset is marked although the message is still in hand. *)
InFlushEarly ==
  /\ kin \in {"select", "push"} /\ flush = "scheduled" /\ flush' = "no"
  /\ IF checkpoint # NoMsg THEN Mark(checkpoint) ELSE UNCHANGED marked
  /\ checkpoint' = NoMsg
  /\ UNCHANGED <<committed, skipped, kin, inAsked, life, pos, cur, chan, chanVars>>

(* <-checkpoint_flush, sent by a goroutine that slept for a second *)
InFlush ==
  /\ kin = "select" /\ flush = "scheduled" /\ flush' = "no"
  /\ IF checkpoint # NoMsg THEN Mark(checkpoint) ELSE UNCHANGED marked
  /\ checkpoint' = NoMsg
  /\ UNCHANGED <<committed, skipped, kin, inAsked, life, pos, cur, chan, chanVars>>

(* The consumer commits what was marked. *)
InCommit ==
  /\ kin \in {"select", "push"} /\ committed # marked /\ committed' = marked
  /\ UNCHANGED <<marked, skipped, kin, inAsked, life, pos, checkpoint, flush, cur, chan, chanVars>>

(* The consumer and the variables of the loop are no more. *)
Gone == /\ marked' = committed' /\ pos' = committed'
        /\ checkpoint' = NoMsg /\ flush' = "no" /\ cur' = NoMsg /\ chan' = 1

InAsk ==
  /\ kin # "off" /\ inAsked = "no" /\ inAsked' = "yes"
  /\ UNCHANGED <<committed, marked, skipped, kin, life, pos, checkpoint, flush, cur, chan, chanVars>>

(* Faulty: a blocked push does not look at the control channel. *)
InAckIdle ==
  /\ kin \in {"wait", "select"} /\ inAsked = "yes" /\ kin' = "acked"
  /\ committed' = marked /\ Gone
  /\ UNCHANGED <<skipped, inAsked, life, chanVars>>

(* SHUTDOWN, also while a send is blocked: Close commits what was marked, *)
(* the checkpoint is given up.                                            *)
InAck ==
  /\ kin \in {"wait", "select", "push"} /\ inAsked = "yes" /\ kin' = "acked"
  /\ committed' = marked /\ Gone
  /\ UNCHANGED <<skipped, inAsked, life, chanVars>>

(* The process ends, or is killed at any time. *)
InProcessEnds ==
  /\ kin # "off" /\ kin' = "off" /\ inAsked' = "no"
  /\ committed' = committed /\ Gone
  /\ UNCHANGED <<skipped, life, chanVars>>

InNext ==
  \/ InStart \/ InConnect \/ InConnectFails \/ InRestart \/ InPush \/ InFlush
  \/ InCommit \/ InAsk \/ InAck \/ InProcessEnds
  \/ \E p \in Partition : InMessage(p)

InTypeOK ==
  /\ \A p \in Partition : committed[p] \in 0 .. Len(log[p])
  /\ \A p \in Partition : marked[p] \in 0 .. Len(log[p]) /\ pos[p] \in 0 .. Len(log[p])
  /\ kin \in {"off", "connect", "wait", "select", "push", "acked", "fatal"}
  /\ \A p \in Partition : skipped[p] \in 0 .. Len(log[p])
  /\ flush \in {"no", "scheduled"} /\ chan \in 1 .. NumOut
  /\ \A o \in Output : Queued(o) \in 0 .. Depth
=============================================================================
