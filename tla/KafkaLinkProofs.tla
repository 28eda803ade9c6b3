-------------------------- MODULE KafkaLinkProofs --------------------------
(***************************************************************************)
(* MarkedWasDelivered and SourceInOrder of the kafka link, for any         *)
(* sources, partitions, outputs, depths and numbers of messages and        *)
(* restarts.                                                               *)
(***************************************************************************)
EXTENDS KafkaLink, TLAPS

Msg == [src : Source, num : Nat, decodes : {"yes", "no"}]
Rec == [part : Partition, off : Nat \ {0}]

TypeInv ==
  /\ log \in [Partition -> Seq(Msg)] /\ outq \in Seq(Msg) /\ offered \in Nat
  /\ put \in [Output -> Seq(Rec)]
  /\ committed \in [Partition -> Nat] /\ marked \in [Partition -> Nat]
  /\ pos \in [Partition -> Nat] /\ skipped \in [Partition -> Nat]
  /\ checkpoint \in Rec \union {NoMsg}
  /\ kin = "push" => cur \in Rec
  /\ chan \in Output

(* The publisher numbers what it is offered, keeps the order in its        *)
(* channel and in every partition, and gives a source one partition.       *)
PublishInv ==
  /\ \A i, j \in 1 .. Len(outq) : i < j => outq[i].num < outq[j].num
  /\ \A j \in 1 .. Len(outq) : outq[j].num <= offered
  /\ \A p \in Partition : \A i \in 1 .. Len(log[p]) :
       /\ PartitionOf[log[p][i].src] = p
       /\ log[p][i].num <= offered
       /\ \A j \in 1 .. Len(outq) : log[p][i].num < outq[j].num
       /\ \A j \in 1 .. Len(log[p]) : i < j => log[p][i].num < log[p][j].num

(* Offsets stay within the log; a checkpoint belongs to the consumer that  *)
(* is connected and was handed out by it.                                  *)
OffsetInv ==
  /\ \A p \in Partition :
       pos[p] <= Len(log[p]) /\ committed[p] <= Len(log[p]) /\ marked[p] <= Len(log[p])
  /\ checkpoint # NoMsg =>
       /\ kin \in {"select", "push"}
       /\ checkpoint \in Rec /\ checkpoint.off <= pos[checkpoint.part]
  /\ kin = "push" => cur.off <= pos[cur.part]

(* A consumer has handed out, and marks and commits, nothing that was      *)
(* skipped.                                                                *)
SkipInv ==
  /\ \A p \in Partition :
       /\ skipped[p] <= Len(log[p])
       /\ committed[p] = 0 \/ skipped[p] <= committed[p]
       /\ marked[p] = 0 \/ skipped[p] <= marked[p]
       /\ kin \in {"select", "push"} => skipped[p] <= pos[p]
  /\ checkpoint # NoMsg => skipped[checkpoint.part] <= checkpoint.off
  /\ kin = "push" => skipped[cur.part] < cur.off

(* Message k of partition p needs no delivery to o, or has had it. *)
Done(p, k, o) ==
  k <= skipped[p] \/ Undecoded(InLog(p, k)) \/ SentTo(o, InLog(p, k), Len(put[o]))

(* What is marked or committed is done; of what the consumer has handed    *)
(* out all is done but the message in hand, for the outputs still ahead.   *)
DoneInv ==
  \A p \in Partition, o \in Output :
    /\ \A k \in 1 .. committed[p] : Done(p, k, o)
    /\ \A k \in 1 .. marked[p] : Done(p, k, o)
    /\ \A k \in 1 .. pos[p] : Done(p, k, o) \/ (kin = "push" /\ cur = InLog(p, k) /\ chan <= o)

(* Message k of partition p was skipped by o for good. *)
Lost(p, k, o) == k <= skipped[p] /\ ~SentTo(o, InLog(p, k), Len(put[o]))

(* What was sent to an output comes after all there is before it in its    *)
(* partition, also when it is sent again after a restart.                  *)
OrderInv ==
  \A o \in Output : \A j \in 1 .. Len(put[o]) :
    /\ put[o][j].off <= Len(log[put[o][j].part])
    /\ \A k \in 1 .. put[o][j].off - 1 :
         \/ Undecoded(InLog(put[o][j].part, k)) \/ SentTo(o, InLog(put[o][j].part, k), j)
         \/ Lost(put[o][j].part, k, o)

LinkInv == TypeInv /\ PublishInv /\ OffsetInv /\ SkipInv /\ DoneInv /\ OrderInv

USE KafkaOutAssumption, KafkaInAssumption, DataChannelsAssumption
USE DEF Output, outVars, inVars, chanVars, sideVars, linkVars

(* What Append does, element by element. *)
LEMMA AppendFacts ==
  ASSUME NEW S, NEW s \in Seq(S), NEW e \in S
  PROVE  /\ Append(s, e) \in Seq(S) /\ Len(Append(s, e)) = Len(s) + 1 /\ Len(s) \in Nat
         /\ \A i \in 1 .. Len(s) : Append(s, e)[i] = s[i]
         /\ Append(s, e)[Len(s) + 1] = e
OBVIOUS

(* An element of a sequence over S is in S. *)
LEMMA ElementFacts ==
  ASSUME NEW S, NEW s \in Seq(S), NEW i \in 1 .. Len(s)
  PROVE  s[i] \in S
OBVIOUS

(* What Head and Tail are, element by element. *)
LEMMA TailFacts ==
  ASSUME NEW S, NEW s \in Seq(S), s # << >>
  PROVE  /\ Tail(s) \in Seq(S) /\ Len(Tail(s)) = Len(s) - 1 /\ Len(s) \in Nat /\ Len(s) >= 1
         /\ Head(s) = s[1] /\ s[1] \in S
         /\ \A i \in 1 .. Len(s) - 1 : Tail(s)[i] = s[i + 1]
OBVIOUS

(* The partition of the message in hand. *)
Home == PartitionOf[outq[1].src]

(* SendMessage writes the message in hand to the partition of its source,  *)
(* and nothing else touches a log.                                         *)
LEMMA LogStep ==
  ASSUME TypeInv, [Next]_linkVars, log' # log
  PROVE  /\ outq # << >> /\ outq' = Tail(outq) /\ Home \in Partition /\ outq[1] \in Msg
         /\ log' = [log EXCEPT ![Home] = Append(log[Home], outq[1])]
         /\ offered' = offered /\ UNCHANGED <<inVars, chanVars>>
<1>1. Out /\ (OutSend \/ OutSendFails)
  BY Zenon DEF Next, Out, In, Outputs, OutNext, OutOffer, OutSetup, OutRetry, OutSkip, OutAsk, OutAck
<1>2. outq # << >> /\ outq' = Tail(outq) /\ offered' = offered /\ UNCHANGED <<inVars, chanVars>>
  BY <1>1, Zenon DEF Out, OutSend, OutSendFails, OutTake
<1>3. Head(outq) = outq[1] /\ outq[1] \in Msg
  BY <1>2, TailFacts DEF TypeInv
<1>4. Home \in Partition
  BY <1>3, Zenon DEF Home, Msg
<1>5. log' = [log EXCEPT ![Home] = Append(log[Home], outq[1])]
  BY <1>1, <1>3, Zenon DEF OutSend, OutSendFails, Home
<1> QED
  BY <1>2, <1>3, <1>4, <1>5

(* So logs only grow. *)
LEMMA LogGrows ==
  ASSUME TypeInv, [Next]_linkVars
  PROVE  /\ log' \in [Partition -> Seq(Msg)]
         /\ \A p \in Partition : /\ Len(log[p]) \in Nat /\ Len(log'[p]) \in Nat
                                 /\ Len(log[p]) <= Len(log'[p])
                                 /\ \A k \in 1 .. Len(log[p]) : log'[p][k] = log[p][k]
<1>1. CASE log' = log
  BY <1>1 DEF TypeInv
<1>2. CASE log' # log
  <2>1. /\ log' = [log EXCEPT ![Home] = Append(log[Home], outq[1])]
        /\ Home \in Partition /\ outq[1] \in Msg
    BY <1>2, LogStep
  <2>2. log \in [Partition -> Seq(Msg)]
    BY DEF TypeInv
  <2>3. /\ Append(log[Home], outq[1]) \in Seq(Msg)
        /\ Len(Append(log[Home], outq[1])) = Len(log[Home]) + 1
        /\ \A i \in 1 .. Len(log[Home]) : Append(log[Home], outq[1])[i] = log[Home][i]
    BY <2>1, <2>2, AppendFacts
  <2>4. \A p \in Partition : log'[p] = IF p = Home THEN Append(log[Home], outq[1]) ELSE log[p]
    BY <2>1, <2>2
  <2>5. log' \in [Partition -> Seq(Msg)]
    BY <2>1, <2>2, <2>3
  <2>6. \A p \in Partition : Len(log[p]) \in Nat /\ Len(log'[p]) \in Nat
    BY <2>2, <2>5
  <2>7. ASSUME NEW p \in Partition
        PROVE  Len(log[p]) <= Len(log'[p]) /\ \A k \in 1 .. Len(log[p]) : log'[p][k] = log[p][k]
    <3>1. CASE p = Home
      <4>1. log'[p] = Append(log[Home], outq[1])
        BY <2>4, <3>1, Zenon
      <4> QED
        BY <2>3, <2>6, <3>1, <4>1
    <3>2. CASE p # Home
      BY <2>4, <2>6, <3>2
    <3> QED
      BY <3>1, <3>2
  <2> QED
    BY <2>5, <2>6, <2>7
<1> QED
  BY <1>1, <1>2

(* Only a push of the kafka input adds to the channels. *)
LEMMA PutStep ==
  ASSUME TypeInv, [Next]_linkVars, put' # put
  PROVE  /\ InPush /\ UNCHANGED outVars /\ kin = "push" /\ chan \in Output /\ cur \in Rec
         /\ put' = [put EXCEPT ![chan] = Append(put[chan], cur)]
<1>1. InPush /\ UNCHANGED outVars
  BY DEF Next, Out, In, Outputs, InNext, InStart, InConnect, InConnectFails, InRestart, InFlush, InCommit,
         InAsk, InAck, InProcessEnds, InMessage, Take, OutputDies
<1> QED
  BY <1>1 DEF InPush, Put, TypeInv

(* So what was sent to an output stays there. *)
LEMMA PutGrows ==
  ASSUME TypeInv, [Next]_linkVars
  PROVE  /\ put' \in [Output -> Seq(Rec)]
         /\ \A o \in Output : /\ Len(put[o]) \in Nat /\ Len(put'[o]) \in Nat
                              /\ Len(put[o]) <= Len(put'[o])
                              /\ \A j \in 1 .. Len(put[o]) : put'[o][j] = put[o][j]
<1>1. CASE put' = put
  BY <1>1 DEF TypeInv
<1>2. CASE put' # put
  <2>1. put' = [put EXCEPT ![chan] = Append(put[chan], cur)] /\ chan \in Output /\ cur \in Rec
    BY <1>2, PutStep
  <2>2. put \in [Output -> Seq(Rec)]
    BY DEF TypeInv
  <2>3. /\ Append(put[chan], cur) \in Seq(Rec)
        /\ Len(Append(put[chan], cur)) = Len(put[chan]) + 1
        /\ \A i \in 1 .. Len(put[chan]) : Append(put[chan], cur)[i] = put[chan][i]
    BY <2>1, <2>2, AppendFacts
  <2>4. \A o \in Output : put'[o] = IF o = chan THEN Append(put[chan], cur) ELSE put[o]
    BY <2>1, <2>2
  <2>5. put' \in [Output -> Seq(Rec)]
    BY <2>1, <2>2, <2>3
  <2>6. \A o \in Output : Len(put[o]) \in Nat /\ Len(put'[o]) \in Nat
    BY <2>2, <2>5
  <2>7. ASSUME NEW o \in Output
        PROVE  Len(put[o]) <= Len(put'[o]) /\ \A j \in 1 .. Len(put[o]) : put'[o][j] = put[o][j]
    <3>1. CASE o = chan
      <4>1. put'[o] = Append(put[chan], cur)
        BY <2>4, <3>1, Zenon
      <4> QED
        BY <2>3, <2>6, <3>1, <4>1
    <3>2. CASE o # chan
      BY <2>4, <2>6, <3>2
    <3> QED
      BY <3>1, <3>2
  <2> QED
    BY <2>5, <2>6, <2>7
<1> QED
  BY <1>1, <1>2

(* What a consumer skips when it connects lies within the log, and is at   *)
(* least what was skipped before; nothing else touches it.                 *)
LEMMA SkipGrows ==
  ASSUME TypeInv, SkipInv, [Next]_linkVars
  PROVE  /\ skipped' \in [Partition -> Nat]
         /\ \A p \in Partition : /\ skipped[p] \in Nat /\ skipped'[p] \in Nat
                                 /\ skipped[p] <= skipped'[p] /\ skipped'[p] <= Len(log'[p])
<1>0. \A p \in Partition : /\ Len(log[p]) \in Nat /\ Len(log'[p]) \in Nat
                          /\ Len(log[p]) <= Len(log'[p])
  BY LogGrows
<1>1. skipped \in [Partition -> Nat] /\ \A p \in Partition : skipped[p] <= Len(log[p])
  BY Zenon DEF TypeInv, SkipInv
<1>2. CASE skipped' = skipped
  BY <1>0, <1>1, <1>2
<1>3. CASE skipped' # skipped
  <2>1. InConnect /\ UNCHANGED outVars
    BY <1>3, Zenon DEF Next, Out, In, Outputs, InNext, InStart, InConnectFails, InRestart, InPush, InFlush,
       InCommit, InAsk, InAck, InProcessEnds, InMessage
  <2>2. /\ log' = log
        /\ skipped' = [p \in Partition |-> IF committed[p] = 0 THEN Len(log[p]) ELSE skipped[p]]
    BY <2>1, Zenon DEF InConnect
  <2> QED
    BY <1>0, <1>1, <2>2
<1> QED
  BY <1>2, <1>3

(* So what is done stays done, and what was skipped is not sent later. *)
LEMMA DoneStable ==
  ASSUME TypeInv, SkipInv, [Next]_linkVars, NEW p \in Partition, NEW o \in Output,
         NEW k \in 1 .. Len(log[p])
  PROVE  /\ Undecoded(InLog(p, k)) => Undecoded(InLog(p, k))'
         /\ \A j \in 1 .. Len(put[o]) : SentTo(o, InLog(p, k), j) => SentTo(o, InLog(p, k), j)'
         /\ Done(p, k, o) => Done(p, k, o)'
         /\ Lost(p, k, o) => Lost(p, k, o)'
<1>1. log'[p][k] = log[p][k]
  BY LogGrows
<1>2. InLog(p, k)' = InLog(p, k)
  BY DEF InLog
<1>3. Undecoded(InLog(p, k)) => Undecoded(InLog(p, k))'
  BY <1>1 DEF Undecoded, MessageOf, InLog
<1>4. /\ Len(put[o]) \in Nat /\ Len(put'[o]) \in Nat /\ Len(put[o]) <= Len(put'[o])
      /\ \A j \in 1 .. Len(put[o]) : put'[o][j] = put[o][j]
  BY PutGrows
<1>5. \A j \in 1 .. Len(put[o]) : SentTo(o, InLog(p, k), j) => SentTo(o, InLog(p, k), j)'
  BY <1>2, <1>4, SMTT(30) DEF SentTo
<1>6. SentTo(o, InLog(p, k), Len(put[o])) => SentTo(o, InLog(p, k), Len(put[o]))'
  BY <1>2, <1>4 DEF SentTo
<1>7. k <= skipped[p] => k <= skipped'[p]
  <2>1. skipped[p] \in Nat /\ skipped'[p] \in Nat /\ skipped[p] <= skipped'[p] /\ k \in Nat
    BY SkipGrows
  <2> QED
    BY <2>1
<1>8. Lost(p, k, o) => Lost(p, k, o)'
  <2> SUFFICES ASSUME k <= skipped[p], ~SentTo(o, InLog(p, k), Len(put[o])),
                      NEW i \in 1 .. Len(put'[o]), put'[o][i] = InLog(p, k)
               PROVE  FALSE
    BY <1>2, <1>7, Zenon DEF Lost, SentTo
  <2>1. i \notin 1 .. Len(put[o])
    BY <1>4, Zenon DEF SentTo
  <2>2. /\ kin = "push" /\ chan \in Output /\ cur \in Rec
        /\ put' = [put EXCEPT ![chan] = Append(put[chan], cur)]
    <3>1. put' # put
      BY <2>1
    <3> QED
      BY <3>1, PutStep, Zenon
  <2>3. o = chan
    BY <2>1, <2>2 DEF TypeInv
  <2>4. put[o] \in Seq(Rec) /\ put'[o] = Append(put[o], cur)
    BY <2>2, <2>3 DEF TypeInv
  <2>5. Len(put'[o]) = Len(put[o]) + 1 /\ put'[o][Len(put[o]) + 1] = cur
    BY <2>2, <2>4, AppendFacts
  <2>6. i = Len(put[o]) + 1
    BY <1>4, <2>1, <2>5
  <2>7. cur.part = p /\ cur.off = k
    BY <2>5, <2>6 DEF InLog
  <2>8. skipped[p] < k
    BY <2>2, <2>7, Zenon DEF SkipInv
  <2>9. skipped[p] \in Nat /\ k \in Nat
    BY DEF TypeInv
  <2> QED
    BY <2>8, <2>9
<1> QED
  BY <1>3, <1>5, <1>6, <1>7, <1>8, Zenon DEF Done

-----------------------------------------------------------------------------
(* The invariant holds before either pipeline has started. *)
LEMMA LinkInit == Init => LinkInv
<1> SUFFICES ASSUME Init PROVE LinkInv
  OBVIOUS
<1>1. /\ log = [p \in Partition |-> << >>] /\ outq = << >> /\ offered = 0
      /\ put = [o \in Output |-> << >>] /\ chan = 1 /\ kin = "off" /\ checkpoint = NoMsg
      /\ committed = [p \in Partition |-> 0] /\ marked = committed /\ pos = committed
      /\ skipped = committed
  BY DEF Init, OutInit, InInit, ChanInit
<1>2. \A S : << >> \in Seq(S) /\ Len(<< >>) = 0
  OBVIOUS
<1>3. TypeInv
  BY <1>1, <1>2 DEF TypeInv
<1>4. PublishInv /\ OffsetInv /\ SkipInv
  BY <1>1, <1>2 DEF PublishInv, OffsetInv, SkipInv
<1>5. DoneInv /\ OrderInv
  BY <1>1, <1>2 DEF DoneInv, OrderInv
<1> QED
  BY <1>3, <1>4, <1>5 DEF LinkInv

(* Types are kept. *)
LEMMA LinkType ==
  ASSUME LinkInv, [Next]_linkVars PROVE TypeInv'
<1>1. /\ log' \in [Partition -> Seq(Msg)] /\ put' \in [Output -> Seq(Rec)]
      /\ skipped' \in [Partition -> Nat]
  BY LogGrows, PutGrows, SkipGrows DEF LinkInv
<1> USE DEF LinkInv, TypeInv
<1>2. CASE Out
  <2>1. UNCHANGED inVars
    BY <1>2, SMTT(30) DEF Out
  <2>2. outq' \in Seq(Msg) /\ offered' \in Nat
    <3>1. CASE \E s \in Source, d \in {"yes", "no"} : OutOffer(s, d)
      <4> PICK s \in Source, d \in {"yes", "no"} : OutOffer(s, d)
        BY <3>1
      <4> DEFINE m == [src |-> s, num |-> offered + 1, decodes |-> d]
      <4>1. m \in Msg
        BY DEF Msg
      <4>2. outq' = Append(outq, m) /\ offered' = offered + 1
        BY DEF OutOffer
      <4> QED
        BY <4>1, <4>2, AppendFacts
    <3>2. CASE OutTake /\ offered' = offered
      BY <3>2, TailFacts DEF OutTake
    <3>3. CASE OutSetup \/ OutRetry \/ OutAsk \/ OutAck
      BY <3>3 DEF OutSetup, OutRetry, OutAsk, OutAck
    <3> QED
      BY <1>2, <3>1, <3>2, <3>3, Zenon DEF Out, OutNext, OutSkip, OutSend, OutSendFails
  <2> QED
    BY <1>1, <2>1, <2>2, Zenon
<1>3. CASE In
  <2>1. UNCHANGED outVars
    BY <1>3 DEF In
  <2>2. CASE InStart \/ InConnectFails \/ InRestart \/ InCommit \/ InAsk
    BY <1>1, <2>1, <2>2, Zenon DEF InStart, InConnectFails, InRestart, InCommit, InAsk
  <2>7. CASE InConnect
    <3>1. pos' = [p \in Partition |-> IF committed[p] = 0 THEN Len(log[p]) ELSE committed[p]]
      BY <2>7, Zenon DEF InConnect
    <3>2. pos' \in [Partition -> Nat]
      BY <3>1
    <3> QED
      BY <1>1, <2>1, <2>7, <3>2, Zenon DEF InConnect
  <2>3. CASE InPush
    BY <1>1, <2>1, <2>3 DEF InPush
  <2>4. CASE InFlush
    <3>1. marked' \in [Partition -> Nat]
      <4>1. CASE checkpoint = NoMsg
        BY <2>4, <4>1 DEF InFlush
      <4>2. CASE checkpoint # NoMsg
        BY <2>4, <4>2, Zenon DEF InFlush, Mark, Rec
      <4> QED
        BY <4>1, <4>2
    <3> QED
      BY <1>1, <2>1, <2>4, <3>1 DEF InFlush
  <2>5. CASE InAck \/ InProcessEnds
    BY <1>1, <2>1, <2>5 DEF InAck, InProcessEnds, Gone
  <2>6. CASE \E p \in Partition : InMessage(p)
    <3> PICK p \in Partition : InMessage(p)
      BY <2>6
    <3> DEFINE m == [part |-> p, off |-> pos[p] + 1]
    <3>1. m \in Rec
      BY DEF Rec
    <3>2. /\ checkpoint' = m /\ pos' = [pos EXCEPT ![p] = @ + 1]
          /\ UNCHANGED <<committed, marked>>
          /\ \/ kin' = "push" /\ cur' = m /\ chan' = 1
             \/ UNCHANGED <<kin, cur, chan>>
      BY DEF InMessage
    <3> HIDE DEF m
    <3>3. pos' \in [Partition -> Nat]
      BY <3>2
    <3>4. (kin' = "push" => cur' \in Rec) /\ chan' \in Output
      BY <3>1, <3>2
    <3> QED
      BY <1>1, <2>1, <3>1, <3>2, <3>3, <3>4, Zenon
  <2> QED
    BY <1>3, <2>2, <2>3, <2>4, <2>5, <2>6, <2>7, Zenon DEF In, InNext
<1>4. CASE Outputs \/ UNCHANGED linkVars
  BY <1>1, <1>4, Zenon DEF Outputs
<1> QED
  BY <1>2, <1>3, <1>4, Zenon DEF Next

(* The publisher keeps its order. *)
LEMMA LinkPublish ==
  ASSUME LinkInv, [Next]_linkVars PROVE PublishInv'
<1>0. outq \in Seq(Msg) /\ log \in [Partition -> Seq(Msg)] /\ offered \in Nat /\ TypeInv /\ PublishInv
  BY DEF LinkInv, TypeInv
<1>a. \A j \in 1 .. Len(outq) : outq[j] \in Msg /\ outq[j].num \in Nat
  <2> TAKE j \in 1 .. Len(outq)
  <2>1. outq[j] \in Msg
    BY <1>0, ElementFacts
  <2> QED
    BY <2>1 DEF Msg
<1>b. \A p \in Partition : \A i \in 1 .. Len(log[p]) : log[p][i].num \in Nat
  <2> TAKE p \in Partition
  <2> TAKE i \in 1 .. Len(log[p])
  <2>1. log[p][i] \in Msg
    BY <1>0, ElementFacts
  <2> QED
    BY <2>1 DEF Msg
<1>c. /\ \A i, j \in 1 .. Len(outq) : i < j => outq[i].num < outq[j].num
      /\ \A j \in 1 .. Len(outq) : outq[j].num <= offered
  BY <1>0 DEF PublishInv
<1>d. \A p \in Partition : \A i \in 1 .. Len(log[p]) :
        /\ PartitionOf[log[p][i].src] = p
        /\ log[p][i].num <= offered
        /\ \A j \in 1 .. Len(outq) : log[p][i].num < outq[j].num
        /\ \A j \in 1 .. Len(log[p]) : i < j => log[p][i].num < log[p][j].num
  BY <1>0 DEF PublishInv
<1>1. CASE log' # log
  <2>1. /\ outq # << >> /\ outq' = Tail(outq) /\ Home \in Partition /\ outq[1] \in Msg
        /\ log' = [log EXCEPT ![Home] = Append(log[Home], outq[1])]
        /\ offered' = offered
    BY <1>0, <1>1, LogStep
  <2>2. Len(outq') = Len(outq) - 1 /\ Len(outq) \in Nat /\ Len(outq) >= 1
    BY <1>0, <2>1, TailFacts
  <2>3. \A i \in 1 .. Len(outq') : i + 1 \in 1 .. Len(outq) /\ outq'[i] = outq[i + 1]
    <3>1. \A i \in 1 .. Len(outq) - 1 : outq'[i] = outq[i + 1]
      BY <1>0, <2>1, TailFacts
    <3> QED
      BY <2>2, <3>1
  <2>4. /\ Len(log'[Home]) = Len(log[Home]) + 1 /\ Len(log[Home]) \in Nat
        /\ \A i \in 1 .. Len(log[Home]) : log'[Home][i] = log[Home][i]
        /\ log'[Home][Len(log[Home]) + 1] = outq[1]
    BY <1>0, <2>1, AppendFacts
  <2>5. \A p \in Partition : p # Home => log'[p] = log[p]
    BY <1>0, <2>1
  <2>6. /\ \A i, j \in 1 .. Len(outq') : i < j => outq'[i].num < outq'[j].num
        /\ \A j \in 1 .. Len(outq') : outq'[j].num <= offered /\ outq[1].num < outq'[j].num
    <3>1. ASSUME NEW i \in 1 .. Len(outq'), NEW j \in 1 .. Len(outq'), i < j
          PROVE  outq'[i].num < outq'[j].num
      <4>1. /\ i + 1 \in 1 .. Len(outq) /\ j + 1 \in 1 .. Len(outq) /\ i + 1 < j + 1
            /\ outq'[i] = outq[i + 1] /\ outq'[j] = outq[j + 1]
        BY <2>2, <2>3, <3>1
      <4> QED
        BY <1>c, <4>1
    <3>2. ASSUME NEW j \in 1 .. Len(outq')
          PROVE  outq'[j].num <= offered /\ outq[1].num < outq'[j].num
      <4>1. /\ j + 1 \in 1 .. Len(outq) /\ 1 \in 1 .. Len(outq) /\ 1 < j + 1
            /\ outq'[j] = outq[j + 1]
        BY <2>2, <2>3
      <4> QED
        BY <1>c, <4>1
    <3> QED
      BY <3>1, <3>2
  <2>7. ASSUME NEW p \in Partition, NEW i \in 1 .. Len(log'[p])
        PROVE  /\ PartitionOf[log'[p][i].src] = p
               /\ log'[p][i].num <= offered
               /\ \A j \in 1 .. Len(outq') : log'[p][i].num < outq'[j].num
               /\ \A j \in 1 .. Len(log'[p]) : i < j => log'[p][i].num < log'[p][j].num
    <3>1. CASE p # Home
      BY <1>d, <2>3, <2>5, <3>1, ZenonT(30)
    <3>2. CASE p = Home /\ i = Len(log[Home]) + 1
      <4>1. log'[p][i] = outq[1] /\ \A j \in 1 .. Len(log'[p]) : ~(i < j)
        BY <2>4, <3>2
      <4>2. PartitionOf[outq[1].src] = p /\ outq[1].num <= offered
        BY <1>c, <2>2, <3>2 DEF Home
      <4> QED
        BY <2>6, <4>1, <4>2
    <3>3. CASE p = Home /\ i # Len(log[Home]) + 1
      <4>1. i \in 1 .. Len(log[p]) /\ log'[p][i] = log[p][i]
        BY <2>4, <3>3
      <4>2. log[p][i].num < outq[1].num
        BY <1>d, <2>2, <4>1
      <4>3. \A j \in 1 .. Len(outq') : log[p][i].num < outq'[j].num
        BY <1>d, <2>3, <4>1
      <4>4. ASSUME NEW j \in 1 .. Len(log'[p]), i < j PROVE log[p][i].num < log'[p][j].num
        <5>1. CASE j = Len(log[Home]) + 1
          BY <2>4, <3>3, <4>2, <5>1
        <5>2. CASE j # Len(log[Home]) + 1
          <6>1. j \in 1 .. Len(log[p]) /\ log'[p][j] = log[p][j]
            BY <2>4, <3>3, <5>2
          <6> QED
            BY <1>d, <4>1, <4>4, <6>1
        <5> QED
          BY <5>1, <5>2
      <4> QED
        BY <1>d, <4>1, <4>3, <4>4
    <3> QED
      BY <3>1, <3>2, <3>3
  <2> QED
    BY <2>1, <2>6, <2>7 DEF PublishInv
<1>2. CASE log' = log /\ \E s \in Source, d \in {"yes", "no"} : OutOffer(s, d)
  <2> PICK s \in Source, d \in {"yes", "no"} : OutOffer(s, d)
    BY <1>2
  <2> DEFINE m == [src |-> s, num |-> offered + 1, decodes |-> d]
  <2>1. m \in Msg /\ m.num = offered + 1
    BY <1>0 DEF Msg
  <2>2. outq' = Append(outq, m) /\ offered' = offered + 1
    BY DEF OutOffer
  <2> HIDE DEF m
  <2>3. /\ Len(outq') = Len(outq) + 1 /\ Len(outq) \in Nat
        /\ \A i \in 1 .. Len(outq) : outq'[i] = outq[i]
        /\ outq'[Len(outq) + 1] = m
    BY <1>0, <2>1, <2>2, AppendFacts
  <2>4. ASSUME NEW j \in 1 .. Len(outq') PROVE outq'[j] = m \/ (j \in 1 .. Len(outq) /\ outq'[j] = outq[j])
    BY <2>3
  <2>5. \A i, j \in 1 .. Len(outq') : i < j => i \in 1 .. Len(outq)
    BY <2>3
  <2> QED
    BY <1>0, <1>a, <1>b, <1>c, <1>d, <1>2, <2>1, <2>2, <2>3, <2>4, <2>5, SMTT(30) DEF PublishInv
<1>3. CASE log' = log /\ OutTake /\ offered' = offered
  <2>1. /\ Len(outq') = Len(outq) - 1 /\ Len(outq) \in Nat /\ Len(outq) >= 1
        /\ \A i \in 1 .. Len(outq) - 1 : outq'[i] = outq[i + 1]
    BY <1>0, <1>3, TailFacts DEF OutTake
  <2>2. \A i \in 1 .. Len(outq') : i + 1 \in 1 .. Len(outq) /\ outq'[i] = outq[i + 1]
    BY <2>1
  <2>3. /\ \A i, j \in 1 .. Len(outq') : i < j => outq'[i].num < outq'[j].num
        /\ \A j \in 1 .. Len(outq') : outq'[j].num <= offered
    <3>1. ASSUME NEW i \in 1 .. Len(outq'), NEW j \in 1 .. Len(outq'), i < j
          PROVE  outq'[i].num < outq'[j].num
      <4>1. /\ i + 1 \in 1 .. Len(outq) /\ outq'[i] = outq[i + 1]
            /\ j + 1 \in 1 .. Len(outq) /\ outq'[j] = outq[j + 1]
        BY <2>2
      <4>2. i + 1 < j + 1
        BY <3>1
      <4>3. outq[i + 1].num < outq[j + 1].num
        BY <1>c, <4>1, <4>2
      <4> QED
        BY <4>1, <4>3
    <3>2. \A j \in 1 .. Len(outq') : outq'[j].num <= offered
      BY <1>c, <2>2
    <3> QED
      BY <3>1, <3>2
  <2>4. \A p \in Partition : \A i \in 1 .. Len(log[p]) : \A j \in 1 .. Len(outq') :
          log[p][i].num < outq'[j].num
    BY <1>d, <2>2, ZenonT(30)
  <2> QED
    BY <1>d, <1>3, <2>3, <2>4 DEF PublishInv
<1>4. CASE UNCHANGED <<log, outq, offered>>
  BY <1>0, <1>4 DEF PublishInv
<1> QED
  BY <1>1, <1>2, <1>3, <1>4, Zenon DEF Next, Out, In, Outputs, OutNext, OutSetup, OutRetry, OutSkip,
     OutSend, OutSendFails, OutAsk, OutAck

(* Offsets stay within the log, which only grows. *)
LEMMA LinkOffset ==
  ASSUME LinkInv, [Next]_linkVars PROVE OffsetInv'
<1>0. /\ committed \in [Partition -> Nat] /\ marked \in [Partition -> Nat] /\ pos \in [Partition -> Nat]
      /\ TypeInv /\ OffsetInv
  BY DEF LinkInv, TypeInv
<1>1. \A p \in Partition : Len(log[p]) \in Nat /\ Len(log'[p]) \in Nat /\ Len(log[p]) <= Len(log'[p])
  BY <1>0, LogGrows
<1>2. CASE UNCHANGED <<inVars, chanVars>>
  BY <1>0, <1>1, <1>2 DEF OffsetInv
<1>3. CASE In
  <2>1. UNCHANGED log
    BY <1>3 DEF In, outVars
  <2>2. CASE InStart \/ InConnectFails \/ InRestart \/ InCommit \/ InAsk
    BY <1>0, <2>1, <2>2, Zenon DEF InStart, InConnectFails, InRestart, InCommit, InAsk, OffsetInv
  <2>7. CASE InConnect
    <3>1. /\ pos' = [p \in Partition |-> IF committed[p] = 0 THEN Len(log[p]) ELSE committed[p]]
          /\ marked' = committed /\ kin' = "select" /\ kin = "connect"
          /\ UNCHANGED <<committed, checkpoint, cur>>
      BY <2>7, Zenon DEF InConnect
    <3>2. \A p \in Partition : pos'[p] <= Len(log[p])
      BY <1>0, <1>1, <3>1 DEF OffsetInv
    <3> QED
      BY <1>0, <2>1, <3>1, <3>2, Zenon DEF OffsetInv
  <2>3. CASE InPush
    BY <1>0, <2>1, <2>3 DEF InPush, OffsetInv
  <2>4. CASE InFlush
    <3>1. /\ kin = "select" /\ kin' = "select" /\ checkpoint' = NoMsg
          /\ committed' = committed /\ pos' = pos
      BY <2>4 DEF InFlush
    <3>2. ASSUME NEW p \in Partition PROVE marked'[p] <= Len(log[p])
      <4>1. marked[p] <= Len(log[p]) /\ pos[p] <= Len(log[p])
        BY <1>0 DEF OffsetInv
      <4>2. CASE checkpoint = NoMsg
        BY <2>4, <4>1, <4>2 DEF InFlush
      <4>3. CASE checkpoint # NoMsg
        <5>1. /\ marked' = [marked EXCEPT ![checkpoint.part] = IF @ < checkpoint.off THEN checkpoint.off ELSE @]
              /\ checkpoint.off <= pos[checkpoint.part] /\ checkpoint.off \in Nat
          BY <1>0, <2>4, <4>3 DEF InFlush, Mark, OffsetInv, Rec
        <5> QED
          BY <1>0, <1>1, <4>1, <5>1
      <4> QED
        BY <4>2, <4>3
    <3> QED
      BY <1>0, <2>1, <3>1, <3>2 DEF OffsetInv
  <2>5. CASE InAck \/ InProcessEnds
    BY <1>0, <2>1, <2>5 DEF InAck, InProcessEnds, Gone, OffsetInv
  <2>6. CASE \E p \in Partition : InMessage(p)
    <3> PICK p \in Partition : InMessage(p)
      BY <2>6
    <3> DEFINE m == [part |-> p, off |-> pos[p] + 1]
    <3>1. m \in Rec /\ m.part = p /\ m.off = pos[p] + 1
      BY <1>0 DEF Rec
    <3>2. /\ kin = "select" /\ pos[p] < Len(log[p])
          /\ checkpoint' = m /\ pos' = [pos EXCEPT ![p] = @ + 1]
          /\ UNCHANGED <<committed, marked>>
          /\ \/ kin' = "push" /\ cur' = m
             \/ UNCHANGED <<kin, cur>>
      BY DEF InMessage
    <3> HIDE DEF m
    <3>3. pos'[p] = pos[p] + 1 /\ \A q \in Partition : q # p => pos'[q] = pos[q]
      BY <1>0, <3>2
    <3>4. \A q \in Partition :
            pos'[q] <= Len(log[q]) /\ committed'[q] <= Len(log[q]) /\ marked'[q] <= Len(log[q])
      BY <1>0, <1>1, <3>2, <3>3 DEF OffsetInv
    <3>5. kin' \in {"select", "push"} /\ checkpoint'.off <= pos'[checkpoint'.part]
      BY <1>0, <3>1, <3>2, <3>3
    <3>6. kin' = "push" => cur'.off <= pos'[cur'.part]
      BY <1>0, <3>1, <3>2, <3>3
    <3> QED
      BY <2>1, <3>1, <3>2, <3>4, <3>5, <3>6 DEF OffsetInv
  <2> QED
    BY <1>3, <2>2, <2>3, <2>4, <2>5, <2>6, <2>7 DEF In, InNext
<1>4. CASE Outputs
  BY <1>0, <1>1, <1>4, SMTT(30) DEF Outputs, OffsetInv
<1> QED
  BY <1>2, <1>3, <1>4 DEF Next, Out

(* Nothing that was skipped is handed out, marked or committed later. *)
LEMMA LinkSkip ==
  ASSUME LinkInv, [Next]_linkVars PROVE SkipInv'
<1>0. /\ committed \in [Partition -> Nat] /\ marked \in [Partition -> Nat] /\ pos \in [Partition -> Nat]
      /\ skipped \in [Partition -> Nat] /\ TypeInv /\ OffsetInv /\ SkipInv
  BY Zenon DEF LinkInv, TypeInv
<1>1. \A p \in Partition : skipped'[p] <= Len(log'[p])
  BY <1>0, SkipGrows, Zenon
<1>2. CASE UNCHANGED inVars
  BY <1>0, <1>1, <1>2, Zenon DEF SkipInv
<1>3. CASE In
  <2>2. CASE InStart \/ InConnectFails \/ InRestart \/ InCommit \/ InAsk
    BY <1>0, <1>1, <2>2, Zenon DEF InStart, InConnectFails, InRestart, InCommit, InAsk, SkipInv
  <2>3. CASE InConnect
    <3>1. /\ pos' = [p \in Partition |-> IF committed[p] = 0 THEN Len(log[p]) ELSE committed[p]]
          /\ skipped' = [p \in Partition |-> IF committed[p] = 0 THEN Len(log[p]) ELSE skipped[p]]
          /\ marked' = committed /\ kin' = "select" /\ kin = "connect"
          /\ UNCHANGED <<committed, checkpoint>>
      BY <2>3, Zenon DEF InConnect
    <3>2. \A p \in Partition : Len(log[p]) \in Nat
      BY <1>0, LogGrows, Zenon
    <3>3. ASSUME NEW p \in Partition
          PROVE  /\ committed[p] = 0 \/ skipped'[p] <= committed[p]
                 /\ skipped'[p] <= pos'[p]
      <4>1. committed[p] = 0 \/ skipped[p] <= committed[p]
        BY <1>0, Zenon DEF SkipInv
      <4> QED
        BY <3>1, <3>2, <4>1
    <3>4. checkpoint = NoMsg
      BY <1>0, <3>1 DEF OffsetInv
    <3> QED
      BY <1>1, <3>1, <3>3, <3>4 DEF SkipInv
  <2>4. CASE InPush
    BY <1>0, <1>1, <2>4 DEF InPush, SkipInv
  <2>5. CASE InFlush
    <3>1. /\ kin = "select" /\ kin' = "select" /\ checkpoint' = NoMsg
          /\ UNCHANGED <<committed, pos, skipped>>
      BY <2>5, Zenon DEF InFlush
    <3>2. ASSUME NEW p \in Partition PROVE marked'[p] = 0 \/ skipped[p] <= marked'[p]
      <4>1. marked[p] = 0 \/ skipped[p] <= marked[p]
        BY <1>0, Zenon DEF SkipInv
      <4>2. CASE checkpoint = NoMsg
        BY <2>5, <4>1, <4>2, Zenon DEF InFlush
      <4>3. CASE checkpoint # NoMsg
        <5>1. /\ marked' = [marked EXCEPT ![checkpoint.part] = IF @ < checkpoint.off THEN checkpoint.off ELSE @]
              /\ skipped[checkpoint.part] <= checkpoint.off /\ checkpoint.off \in Nat
          BY <1>0, <2>5, <4>3 DEF InFlush, Mark, SkipInv, OffsetInv, Rec
        <5> QED
          BY <1>0, <4>1, <5>1
      <4> QED
        BY <4>2, <4>3
    <3> QED
      BY <1>0, <1>1, <3>1, <3>2 DEF SkipInv
  <2>6. CASE InAck \/ InProcessEnds
    BY <1>0, <1>1, <2>6 DEF InAck, InProcessEnds, Gone, SkipInv
  <2>7. CASE \E p \in Partition : InMessage(p)
    <3> PICK p \in Partition : InMessage(p)
      BY <2>7
    <3> DEFINE m == [part |-> p, off |-> pos[p] + 1]
    <3>1. m.part = p /\ m.off = pos[p] + 1
      OBVIOUS
    <3>2. /\ kin = "select" /\ checkpoint' = m /\ pos' = [pos EXCEPT ![p] = @ + 1]
          /\ UNCHANGED <<committed, marked, skipped>>
          /\ \/ kin' = "push" /\ cur' = m
             \/ UNCHANGED <<kin, cur>>
      BY DEF InMessage
    <3> HIDE DEF m
    <3>3. pos'[p] = pos[p] + 1 /\ \A q \in Partition : q # p => pos'[q] = pos[q]
      BY <1>0, <3>2
    <3>4. \A q \in Partition : skipped[q] <= pos[q]
      BY <1>0, <3>2 DEF SkipInv
    <3>5. \A q \in Partition : skipped[q] <= pos'[q]
      BY <1>0, <3>3, <3>4
    <3>6. skipped[p] < m.off
      BY <1>0, <3>1, <3>4
    <3>7. skipped[checkpoint'.part] <= checkpoint'.off
      BY <1>0, <3>1, <3>2, <3>6
    <3>8. kin' = "push" => skipped[cur'.part] < cur'.off
      BY <3>1, <3>2, <3>6
    <3> QED
      BY <1>0, <1>1, <3>2, <3>5, <3>7, <3>8, Zenon DEF SkipInv
  <2> QED
    BY <1>3, <2>2, <2>3, <2>4, <2>5, <2>6, <2>7, Zenon DEF In, InNext
<1> QED
  BY <1>2, <1>3, Zenon DEF Next, Out, Outputs

(* What is handed out is done once the push is over; only then is it marked. *)
LEMMA LinkDone ==
  ASSUME LinkInv, [Next]_linkVars PROVE DoneInv'
<1>0. /\ committed \in [Partition -> Nat] /\ marked \in [Partition -> Nat] /\ pos \in [Partition -> Nat]
      /\ TypeInv /\ OffsetInv /\ SkipInv /\ DoneInv
  BY Zenon DEF LinkInv, TypeInv
<1>1. ASSUME NEW p \in Partition
      PROVE  /\ pos[p] \in Nat /\ committed[p] \in Nat /\ marked[p] \in Nat /\ Len(log[p]) \in Nat
             /\ pos[p] <= Len(log[p]) /\ committed[p] <= Len(log[p]) /\ marked[p] <= Len(log[p])
  BY <1>0, LogGrows, Zenon DEF OffsetInv
<1> SUFFICES ASSUME NEW p \in Partition, NEW o \in Output
             PROVE  /\ \A k \in 1 .. committed'[p] : Done(p, k, o)'
                    /\ \A k \in 1 .. marked'[p] : Done(p, k, o)'
                    /\ \A k \in 1 .. pos'[p] :
                         \/ Done(p, k, o)'
                         \/ (kin' = "push" /\ cur' = InLog(p, k)' /\ chan' <= o)
  BY DEF DoneInv
<1>2. \A k \in 1 .. Len(log[p]) : Done(p, k, o) => Done(p, k, o)'
  BY <1>0, DoneStable
<1>3. /\ \A k \in 1 .. committed[p] : Done(p, k, o)'
      /\ \A k \in 1 .. marked[p] : Done(p, k, o)'
  BY <1>0, <1>1, <1>2 DEF DoneInv
<1>4. \A k \in 1 .. pos[p] : Done(p, k, o)' \/ (kin = "push" /\ cur = InLog(p, k) /\ chan <= o)
  BY <1>0, <1>1, <1>2 DEF DoneInv
<1>5. CASE UNCHANGED <<committed, marked, pos, kin, cur, chan>>
  BY <1>3, <1>4, <1>5 DEF InLog
<1>6. CASE InStart \/ InRestart \/ InCommit \/ InAsk \/ InConnectFails
  BY <1>3, <1>4, <1>6, SMTT(30) DEF InStart, InRestart, InCommit, InAsk, InConnectFails, InLog
<1>11. CASE InConnect /\ UNCHANGED outVars
  <2>1. /\ pos' = [q \in Partition |-> IF committed[q] = 0 THEN Len(log[q]) ELSE committed[q]]
        /\ skipped' = [q \in Partition |-> IF committed[q] = 0 THEN Len(log[q]) ELSE skipped[q]]
        /\ marked' = committed /\ UNCHANGED committed
    BY <1>11, Zenon DEF InConnect
  <2>2. ASSUME NEW k \in 1 .. pos'[p] PROVE Done(p, k, o)'
    <3>1. CASE committed[p] = 0
      <4>1. k <= skipped'[p]
        BY <1>1, <2>1, <3>1
      <4> QED
        BY <4>1 DEF Done
    <3>2. CASE committed[p] # 0
      <4>1. pos'[p] = committed[p]
        BY <2>1, <3>2
      <4> QED
        BY <1>3, <4>1
    <3> QED
      BY <3>1, <3>2
  <2> QED
    BY <1>3, <2>1, <2>2
<1>7. CASE InFlush
  <2>1. /\ kin = "select" /\ kin' = "select" /\ committed' = committed /\ pos' = pos
    BY <1>7 DEF InFlush
  <2>2. \A k \in 1 .. pos[p] : Done(p, k, o)'
    BY <1>4, <2>1
  <2>3. marked'[p] = marked[p] \/ marked'[p] <= pos[p]
    <3>1. CASE checkpoint = NoMsg
      BY <1>7, <3>1 DEF InFlush
    <3>2. CASE checkpoint # NoMsg
      <4>1. /\ marked' = [marked EXCEPT ![checkpoint.part] = IF @ < checkpoint.off THEN checkpoint.off ELSE @]
            /\ checkpoint.off <= pos[checkpoint.part]
        BY <1>0, <1>7, <3>2 DEF InFlush, Mark, OffsetInv
      <4> QED
        BY <1>0, <4>1
    <3> QED
      BY <3>1, <3>2
  <2>4. marked'[p] \in Nat
    BY LinkType DEF TypeInv
  <2>5. \A k \in 1 .. marked'[p] : Done(p, k, o)'
    BY <1>1, <1>3, <2>2, <2>3, <2>4
  <2> QED
    BY <1>3, <2>1, <2>2, <2>5
<1>8. CASE InAck \/ InProcessEnds
  BY <1>3, <1>8, SMTT(30) DEF InAck, InProcessEnds, Gone
<1>9. CASE InPush
  <2>1. /\ kin = "push" /\ UNCHANGED <<committed, marked, pos>>
        /\ put' = [put EXCEPT ![chan] = Append(put[chan], cur)]
        /\ chan \in Output /\ cur \in Rec /\ put \in [Output -> Seq(Rec)]
    BY <1>0, <1>9 DEF InPush, Put, TypeInv
  <2>2. \/ kin' = "push" /\ cur' = cur /\ chan' = chan + 1
        \/ chan = NumOut
    BY <1>9, <2>1 DEF InPush
  <2>3. ASSUME NEW k \in 1 .. pos[p], cur = InLog(p, k), chan = o PROVE Done(p, k, o)'
    <3>1. /\ put'[o] = Append(put[o], cur) /\ put[o] \in Seq(Rec)
      BY <2>1, <2>3
    <3>2. Len(put'[o]) = Len(put[o]) + 1 /\ Len(put[o]) \in Nat /\ put'[o][Len(put[o]) + 1] = cur
      BY <2>1, <3>1, AppendFacts
    <3>3. SentTo(o, InLog(p, k), Len(put[o]))'
      BY <2>3, <3>2 DEF SentTo, InLog
    <3> QED
      BY <3>3 DEF Done
  <2>4. \A k \in 1 .. pos[p] :
          \/ Done(p, k, o)'
          \/ kin' = "push" /\ cur' = InLog(p, k) /\ chan' <= o
    BY <1>4, <2>1, <2>2, <2>3, SMTT(30)
  <2> QED
    BY <1>3, <2>1, <2>4, Zenon DEF InLog
<1>10. CASE In /\ \E q \in Partition : InMessage(q)
  <2> PICK q \in Partition : InMessage(q)
    BY <1>10
  <2>1. /\ kin = "select" /\ pos[q] < Len(log[q]) /\ pos' = [pos EXCEPT ![q] = @ + 1]
        /\ UNCHANGED <<committed, marked, log>>
    BY <1>10 DEF InMessage, In
  <2>2. \A k \in 1 .. pos[p] : Done(p, k, o)'
    BY <1>4, <2>1
  <2>3. CASE p # q
    BY <1>0, <1>3, <2>1, <2>2, <2>3, SMTT(30)
  <2>4. CASE p = q
    <3> PICK n \in Nat : n = pos[p] + 1
      BY <1>1
    <3>1. pos'[p] = n /\ n \in 1 .. Len(log[p])
      BY <1>0, <1>1, <2>1, <2>4
    <3>2. \/ kin' = "push" /\ cur' = InLog(p, n) /\ chan' = 1
          \/ Undecoded(InLog(p, n))
      <4>1. CASE log[q][pos[q] + 1].decodes = "yes"
        BY <2>4, <4>1 DEF InMessage, InLog
      <4>2. CASE log[q][pos[q] + 1].decodes # "yes"
        <5>1. log[q][pos[q] + 1] \in Msg
          <6>1. log[q] \in Seq(Msg) /\ pos[q] + 1 \in 1 .. Len(log[q])
            BY <1>0, <2>4, <3>1 DEF TypeInv
          <6> QED
            BY <6>1, ElementFacts
        <5>2. log[q][pos[q] + 1].decodes = "no"
          BY <4>2, <5>1 DEF Msg
        <5> QED
          BY <2>4, <5>2 DEF Undecoded, MessageOf, InLog
      <4> QED
        BY <4>1, <4>2
    <3>3. Undecoded(InLog(p, n)) => Done(p, n, o)'
      BY <1>2, <3>1 DEF Done
    <3>4. 1 <= o
      OBVIOUS
    <3>5. \A k \in 1 .. pos'[p] : k \in 1 .. pos[p] \/ k = n
      BY <1>1, <3>1, SMTT(30)
    <3> QED
      BY <1>3, <2>1, <2>2, <3>2, <3>3, <3>4, <3>5, SMTT(30) DEF InLog
  <2> QED
    BY <2>3, <2>4
<1> QED
  BY <1>5, <1>6, <1>7, <1>8, <1>9, <1>10, <1>11, Zenon DEF Next, Out, In, InNext, Outputs

(* What is sent comes after what is before it in its partition. *)
LEMMA LinkOrder ==
  ASSUME LinkInv, [Next]_linkVars PROVE OrderInv'
<1>0. put \in [Output -> Seq(Rec)] /\ TypeInv /\ OffsetInv /\ SkipInv /\ DoneInv /\ OrderInv
  BY Zenon DEF LinkInv, TypeInv
<1> SUFFICES ASSUME NEW o \in Output, NEW j \in 1 .. Len(put'[o]),
                    NEW p \in Partition, NEW f \in Nat \ {0}, put'[o][j] = InLog(p, f)
             PROVE  /\ f <= Len(log'[p])
                    /\ \A k \in 1 .. f - 1 :
                         Undecoded(InLog(p, k))' \/ SentTo(o, InLog(p, k), j)' \/ Lost(p, k, o)'
  <2> SUFFICES ASSUME NEW o \in Output, NEW j \in 1 .. Len(put'[o])
               PROVE  /\ put'[o][j].off <= Len(log'[put'[o][j].part])
                      /\ \A k \in 1 .. put'[o][j].off - 1 :
                           \/ log'[put'[o][j].part][k].decodes = "no"
                           \/ \E i \in 1 .. j : put'[o][i] = [part |-> put'[o][j].part, off |-> k]
                           \/ /\ k <= skipped'[put'[o][j].part]
                              /\ ~\E i \in 1 .. Len(put'[o]) :
                                    put'[o][i] = [part |-> put'[o][j].part, off |-> k]
    BY ZenonT(60) DEF OrderInv, Lost, Undecoded, MessageOf, SentTo, InLog
  <2>1. put'[o] \in Seq(Rec)
    BY <1>0, PutGrows
  <2>2. put'[o][j] \in Rec
    BY <2>1, ElementFacts
  <2>3. PICK p \in Partition, f \in Nat \ {0} : put'[o][j] = InLog(p, f)
    BY <2>2 DEF Rec, InLog
  <2>4. put'[o][j].part = p /\ put'[o][j].off = f
    BY <2>3 DEF InLog
  <2>5. /\ f <= Len(log'[p])
        /\ \A k \in 1 .. f - 1 :
             Undecoded(InLog(p, k))' \/ SentTo(o, InLog(p, k), j)' \/ Lost(p, k, o)'
    BY <2>3, Zenon
  <2>6. \A k \in 1 .. f - 1 :
          \/ log'[p][k].decodes = "no" \/ \E i \in 1 .. j : put'[o][i] = [part |-> p, off |-> k]
          \/ /\ k <= skipped'[p]
             /\ ~\E i \in 1 .. Len(put'[o]) : put'[o][i] = [part |-> p, off |-> k]
    BY <2>5, Zenon DEF Lost, Undecoded, MessageOf, SentTo, InLog
  <2> QED
    BY <2>4, <2>5, <2>6
<1>1. Len(log[p]) \in Nat /\ Len(log'[p]) \in Nat /\ Len(log[p]) <= Len(log'[p])
  BY <1>0, LogGrows, Zenon
<1>2. CASE j \in 1 .. Len(put[o])
  <2>1. put[o][j] = InLog(p, f)
    BY <1>0, <1>2, PutGrows, Zenon
  <2>2. put[o][j].part = p /\ put[o][j].off = f
    BY <2>1 DEF InLog
  <2>3. /\ f <= Len(log[p])
        /\ \A k \in 1 .. f - 1 : Undecoded(InLog(p, k)) \/ SentTo(o, InLog(p, k), j) \/ Lost(p, k, o)
    BY <1>0, <1>2, <2>2, ZenonT(30) DEF OrderInv
  <2>4. \A k \in 1 .. f - 1 : k \in 1 .. Len(log[p])
    BY <1>1, <2>3
  <2>5. \A k \in 1 .. f - 1 :
          Undecoded(InLog(p, k))' \/ SentTo(o, InLog(p, k), j)' \/ Lost(p, k, o)'
    BY <1>0, <1>2, <2>3, <2>4, DoneStable, Zenon
  <2> QED
    BY <1>1, <2>3, <2>5
<1>3. CASE j \notin 1 .. Len(put[o])
  <2>1. put' # put
    BY <1>3
  <2>2. /\ InPush /\ UNCHANGED outVars /\ kin = "push" /\ chan \in Output /\ cur \in Rec
        /\ put' = [put EXCEPT ![chan] = Append(put[chan], cur)]
    BY <1>0, <2>1, PutStep
  <2>3. o = chan
    BY <1>0, <1>3, <2>2
  <2>4. put'[o] = Append(put[o], cur) /\ put[o] \in Seq(Rec)
    BY <1>0, <2>2, <2>3
  <2>5. /\ Len(put'[o]) = Len(put[o]) + 1 /\ Len(put[o]) \in Nat /\ put'[o][Len(put[o]) + 1] = cur
        /\ \A i \in 1 .. Len(put[o]) : put'[o][i] = put[o][i]
    BY <2>2, <2>4, AppendFacts
  <2>6. j = Len(put[o]) + 1 /\ cur = InLog(p, f)
    BY <1>3, <2>5
  <2>7. cur.part = p /\ cur.off = f /\ pos[p] \in Nat
    BY <1>0, <2>6, Zenon DEF InLog, TypeInv
  <2>8. f <= pos[p] /\ pos[p] <= Len(log[p])
    BY <1>0, <2>2, <2>7, Zenon DEF OffsetInv
  <2>9. ASSUME NEW k \in 1 .. f - 1 
        PROVE  Undecoded(InLog(p, k))' \/ SentTo(o, InLog(p, k), j)' \/ Lost(p, k, o)'
    <3>1. k \in 1 .. pos[p] /\ k # f /\ k \in 1 .. Len(log[p])
      BY <1>1, <2>7, <2>8
    <3>2. InLog(p, k) # InLog(p, f)
      BY <3>1 DEF InLog
    <3>3. Done(p, k, o)
      BY <1>0, <2>6, <3>1, <3>2 DEF DoneInv
    <3>4. /\ Undecoded(InLog(p, k)) => Undecoded(InLog(p, k))'
          /\ Lost(p, k, o) => Lost(p, k, o)'
      BY <1>0, <3>1, DoneStable, Zenon
    <3>5. ASSUME SentTo(o, InLog(p, k), Len(put[o])) PROVE SentTo(o, InLog(p, k), j)'
      <4>1. PICK i \in 1 .. Len(put[o]) : put[o][i] = InLog(p, k)
        BY <3>5 DEF SentTo
      <4>2. i \in 1 .. j /\ put'[o][i] = InLog(p, k)
        BY <2>5, <2>6, <4>1, SMTT(30)
      <4> QED
        BY <4>2, Zenon DEF SentTo, InLog
    <3> QED
      BY <3>3, <3>4, <3>5, Zenon DEF Done, Lost
  <2>10. f <= Len(log'[p])
    BY <1>1, <2>7, <2>8
  <2> QED
    BY <2>9, <2>10
<1> QED
  BY <1>2, <1>3

(* The invariant holds of every behaviour of the two pipelines. *)
THEOREM KafkaInvariant == Spec => []LinkInv
<1>1. LinkInv /\ [Next]_linkVars => LinkInv'
  BY LinkType, LinkPublish, LinkOffset, LinkSkip, LinkDone, LinkOrder DEF LinkInv
<1> QED
  BY LinkInit, <1>1, PTL DEF Spec

(* A SHUTDOWN in the middle of a push, the checkpoint timer and, once an   *)
(* offset is committed, a kill lose nothing: what the kafka input has      *)
(* marked was passed to all the outputs, or was no message to the codec,   *)
(* or was there before a start at the newest message.                      *)
THEOREM KafkaMarkedWasDelivered == Spec => []MarkedWasDelivered
<1>1. ASSUME LinkInv PROVE MarkedWasDelivered
  <2> SUFFICES ASSUME NEW p \in Partition, NEW k \in skipped[p] + 1 .. marked[p], NEW o \in Output
               PROVE  Undecoded(InLog(p, k)) \/ SentTo(o, InLog(p, k), Len(put[o]))
    BY DEF MarkedWasDelivered
  <2>1. skipped[p] \in Nat /\ marked[p] \in Nat
    BY <1>1 DEF LinkInv, TypeInv
  <2>2. k \in 1 .. marked[p] /\ ~(k <= skipped[p])
    BY <2>1
  <2>3. Done(p, k, o)
    BY <1>1, <2>2, Zenon DEF LinkInv, DoneInv
  <2> QED
    BY <2>2, <2>3, Zenon DEF Done
<1> QED
  BY KafkaInvariant, <1>1, PTL

(* The telemetry of one source reaches every output of the consuming       *)
(* pipeline in the order in which the publishing one received it; what a   *)
(* start at the newest message skipped never reaches it.                   *)
THEOREM KafkaSourceInOrder == Spec => []SourceInOrder
<1>1. ASSUME LinkInv PROVE SourceInOrder
  <2>0. put \in [Output -> Seq(Rec)] /\ log \in [Partition -> Seq(Msg)] /\ OrderInv /\ PublishInv
    BY <1>1 DEF LinkInv, TypeInv
  <2> SUFFICES ASSUME NEW o \in Output, NEW j \in DOMAIN put[o], NEW p \in Partition,
                      NEW k \in DOMAIN log[p],
                      log[p][k].src = MessageOf(put[o][j]).src,
                      log[p][k].num < MessageOf(put[o][j]).num
               PROVE  Undecoded(InLog(p, k)) \/ SentTo(o, InLog(p, k), j) \/ Lost(p, k, o)
    <3>1. \A p \in Partition : \A k, o : Lost(p, k, o) => Skipped(o, InLog(p, k))
      BY DEF Lost, Skipped, InLog
    <3> QED
      BY <3>1, Zenon DEF SourceInOrder
  <2> DEFINE q == put[o][j].part
             f == put[o][j].off
  <2>1. j \in 1 .. Len(put[o]) /\ k \in 1 .. Len(log[p]) /\ Len(log[p]) \in Nat
    BY <2>0
  <2>2. put[o][j] \in Rec
    BY <2>0, <2>1, ElementFacts, SMTT(30)
  <2>3. q \in Partition /\ f \in Nat \ {0} /\ MessageOf(put[o][j]) = log[q][f]
    BY <2>2, Zenon DEF Rec, MessageOf
  <2>4. /\ f <= Len(log[q])
        /\ \A i \in 1 .. f - 1 : Undecoded(InLog(q, i)) \/ SentTo(o, InLog(q, i), j) \/ Lost(q, i, o)
    BY <2>0, <2>1, Zenon DEF OrderInv
  <2> HIDE DEF q, f
  <2>5. f \in 1 .. Len(log[q]) /\ Len(log[q]) \in Nat
    BY <2>0, <2>3, <2>4
  <2>6. p = q
    <3>1. PartitionOf[log[p][k].src] = p /\ PartitionOf[log[q][f].src] = q
      BY <2>0, <2>1, <2>3, <2>5 DEF PublishInv
    <3>2. log[p][k].src = log[q][f].src
      BY <2>3
    <3> QED
      BY <3>1, <3>2
  <2>7. log[q][k].num \in Nat /\ log[q][f].num \in Nat
    <3>1. log[q][k] \in Msg /\ log[q][f] \in Msg
      BY <2>0, <2>1, <2>3, <2>5, <2>6, ElementFacts, Zenon
    <3> QED
      BY <3>1 DEF Msg
  <2>8. ~(f < k) /\ f # k
    BY <2>0, <2>1, <2>3, <2>5, <2>6, <2>7, SMTT(30) DEF PublishInv
  <2>9. k \in 1 .. f - 1
    BY <2>1, <2>5, <2>8
  <2> QED
    BY <2>4, <2>6, <2>9
<1> QED
  BY KafkaInvariant, <1>1, PTL

=============================================================================
