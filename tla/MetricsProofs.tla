---------------------------- MODULE MetricsProofs ----------------------------
(***************************************************************************)
(* What is around the workers of the metrics output, for any number of     *)
(* them: whoever uses one of the double-checked caches of the GPB codec    *)
(* finds it complete, and it is filled once; and how messages reach them,  *)
(* the properties of MessageRouter, for any capacities and any number of   *)
(* messages, that it implements RouterContract, and, on top of its         *)
(* invariant, those of the metrics/Influx composition.                     *)
(***************************************************************************)
EXTENDS MetricsInflux, LazyCache, TLAPS

(* The caches *)

(* Readers that look things up over and over, in any order. *)
LazyNext ==
  \E r \in Reader :
    \/ \E x \in Lazy : LazyLoad(r, x)
    \/ LazyStep(r)
    \/ look[r].at \in {"use", "nil"} /\ LazyLeave(r)

LazySpec == LazyInit /\ [][LazyNext]_lazyVars

(* Whoever fills a cache, or is about to look again, holds its lock alone. *)
HolderAlone ==
  \A r \in Reader : look[r].at \in {"again", "fill"} => lockedBy[look[r].x] = {r}

(* A cache is filled by somebody for the first time, or published and full, *)
(* or nobody has begun.                                                     *)
FullOrFirst ==
  /\ \A x \in Lazy : published[x] => filled[x] = Len(Pieces(x)) /\ fills[x] = 1
  /\ \A x \in Lazy : ~published[x] =>
       fills[x] = 0 \/ \E r \in Reader : look[r].at = "fill" /\ look[r].x = x

(* Who fills has the first fill, and who uses uses what is published. *)
InStep ==
  \A r \in Reader :
    /\ look[r].at = "fill" => ~published[look[r].x] /\ fills[look[r].x] = 1
    /\ look[r].at = "use" => published[look[r].x]

LazyInv == LazyTypeOK /\ HolderAlone /\ FullOrFirst /\ InStep

(* Initially nothing is cached and nobody looks. *)
LEMMA LazyInitInv == LazyInit => LazyInv
BY DEF LazyInit, LazyInv, LazyTypeOK, HolderAlone, FullOrFirst, InStep, Idle

(* A reader that is not idle looks up one of the caches. *)
LEMMA LooksUpLazy ==
  ASSUME LazyTypeOK, NEW r \in Reader, look[r] # Idle
  PROVE  look[r].x \in Lazy
BY DEF LazyTypeOK, Idle

(* Each step of a reader keeps the invariant. *)
LEMMA LazyNextInv == LazyInv /\ [LazyNext]_lazyVars => LazyInv'
<1> SUFFICES ASSUME LazyInv, [LazyNext]_lazyVars PROVE LazyInv'
    OBVIOUS
<1> USE LazyAssumption DEF At, Unlock
<1>0. LazyTypeOK /\ HolderAlone /\ FullOrFirst /\ InStep
      BY DEF LazyInv
<1>t. \A q \in Reader : look[q].at \in {"lock", "again", "fill", "use", "nil"} => look[q].x \in Lazy
      BY <1>0, LooksUpLazy DEF Idle
<1>1. ASSUME NEW r \in Reader, NEW x \in Lazy, LazyLoad(r, x) PROVE LazyInv'
  <2>1. LazyTypeOK'
        BY <1>0, <1>1 DEF LazyLoad, LazyTypeOK, Idle
  <2>2. \A q \in Reader : q # r => look'[q] = look[q]
        BY <1>0, <1>1 DEF LazyLoad, LazyTypeOK
  <2>3. HolderAlone'
        BY <1>0, <1>1, <2>2 DEF LazyLoad, HolderAlone, LazyTypeOK, Idle
  <2>4. FullOrFirst'
        BY <1>0, <1>1, <2>2 DEF LazyLoad, FullOrFirst, InStep, LazyTypeOK, Idle
  <2>5. InStep'
        BY <1>0, <1>1, <2>2 DEF LazyLoad, InStep, HolderAlone, FullOrFirst, LazyTypeOK, Idle
  <2> QED BY <2>1, <2>3, <2>4, <2>5 DEF LazyInv
<1>2. ASSUME NEW r \in Reader, LazyLock(r) PROVE LazyInv'
  <2>1. LazyTypeOK'
        BY <1>0, <1>2 DEF LazyLock, LazyTypeOK, Idle
  <2>2. \A q \in Reader : q # r => look'[q] = look[q]
        BY <1>0, <1>2 DEF LazyLock, LazyTypeOK
  <2>3. HolderAlone'
    <3> SUFFICES ASSUME NEW q \in Reader, look'[q].at \in {"again", "fill"}
                 PROVE  lockedBy'[look'[q].x] = {q}
        BY DEF HolderAlone
    <3>1. look[r].x \in Lazy
          BY <1>2, <1>t DEF LazyLock
    <3>2. CASE q = r
          BY <1>0, <1>2, <3>1, <3>2 DEF LazyLock, LazyTypeOK, HolderAlone
    <3>3. CASE q # r
      <4>1. look[q].x \in Lazy /\ lockedBy[look[q].x] = {q} /\ look'[q] = look[q]
            BY <1>0, <1>t, <2>2, <3>3 DEF HolderAlone
      <4>2. look[q].x # look[r].x
            BY <1>0, <1>2, <3>3, <4>1 DEF LazyLock, HolderAlone
      <4> QED BY <1>0, <1>2, <3>1, <4>1, <4>2 DEF LazyLock, LazyTypeOK
    <3> QED BY <3>2, <3>3
  <2>4. FullOrFirst'
        BY <1>0, <1>2, <2>2 DEF LazyLock, FullOrFirst, InStep, LazyTypeOK, Idle
  <2>5. InStep'
        BY <1>0, <1>2, <2>2 DEF LazyLock, InStep, HolderAlone, FullOrFirst, LazyTypeOK, Idle
  <2> QED BY <2>1, <2>3, <2>4, <2>5 DEF LazyInv
<1>3. ASSUME NEW r \in Reader, LazyRecheck(r) PROVE LazyInv'
  <2> DEFINE x == look[r].x
  <2>a. look[r].at = "again" /\ published' = published
        BY <1>3 DEF LazyRecheck
  <2>b. x \in Lazy /\ lockedBy[x] = {r} /\ published \in [Lazy -> BOOLEAN]
        BY <1>0, <1>t, <2>a DEF HolderAlone, LazyTypeOK
  <2>c. ASSUME NEW q \in Reader, look[q].at \in {"again", "fill"}, q # r PROVE look[q].x # x
        BY <1>0, <2>b, <2>c, Zenon DEF HolderAlone
  <2>0. /\ x \in Lazy /\ look[r].at = "again" /\ lockedBy[x] = {r} /\ published' = published
        /\ published \in [Lazy -> BOOLEAN]
        /\ \A q \in Reader : look[q].at \in {"again", "fill"} /\ q # r => look[q].x # x
        BY <2>a, <2>b, <2>c
  <2>1. ASSUME NEW to \in {"use", "nil"}, to = "use" => published[x],
               Unlock(r, x), At(r, x, to), UNCHANGED <<filled, fills>>
        PROVE  LazyInv'
    <3>1. LazyTypeOK'
          BY <1>0, <2>0, <2>1 DEF LazyTypeOK
    <3>2. look'[r] = [at |-> to, x |-> x] /\ \A q \in Reader : q # r => look'[q] = look[q]
          BY <1>0, <2>1 DEF LazyTypeOK
    <3>3. \A y \in Lazy : y # x => lockedBy'[y] = lockedBy[y]
          BY <1>0, <2>1 DEF LazyTypeOK
    <3> HIDE DEF x
    <3>4. HolderAlone'
      <4> SUFFICES ASSUME NEW q \in Reader, look'[q].at \in {"again", "fill"}
                   PROVE  lockedBy'[look'[q].x] = {q}
          BY DEF HolderAlone
      <4>1. q # r /\ look'[q] = look[q]
            BY <2>1, <3>2
      <4> QED BY <1>0, <1>t, <2>0, <3>3, <4>1 DEF HolderAlone
    <3>5. FullOrFirst'
          BY <1>0, <2>0, <2>1, <3>2 DEF FullOrFirst
    <3>6. InStep'
          BY <1>0, <2>0, <2>1, <3>2 DEF InStep
    <3> QED BY <3>1, <3>4, <3>5, <3>6 DEF LazyInv
  <2>2. ASSUME ~published[x], fills' = [fills EXCEPT ![x] = @ + 1],
               filled' = [filled EXCEPT ![x] = 0], At(r, x, "fill"), UNCHANGED lockedBy
        PROVE  LazyInv'
    <3>1. LazyTypeOK'
          BY <1>0, <2>0, <2>2 DEF LazyTypeOK
    <3>2. look'[r] = [at |-> "fill", x |-> x] /\ \A q \in Reader : q # r => look'[q] = look[q]
          BY <1>0, <2>2 DEF LazyTypeOK
    <3>3. /\ \A y \in Lazy : y # x => fills'[y] = fills[y] /\ filled'[y] = filled[y]
          /\ fills'[x] = fills[x] + 1
          BY <1>0, <2>0, <2>2 DEF LazyTypeOK
    <3>4. fills[x] = 0
          BY <1>0, <2>0, <2>2 DEF FullOrFirst
    <3> HIDE DEF x
    <3>5. HolderAlone'
          BY <1>0, <2>0, <2>2, <3>2, SMTT(30) DEF HolderAlone
    <3>6. FullOrFirst'
      <4>1. ASSUME NEW y \in Lazy, published[y]
            PROVE  filled'[y] = Len(Pieces(y)) /\ fills'[y] = 1
            BY <1>0, <2>2, <3>3, <4>1 DEF FullOrFirst
      <4>2. ASSUME NEW y \in Lazy, ~published[y], fills'[y] # 0
            PROVE  \E q \in Reader : look'[q].at = "fill" /\ look'[q].x = y
        <5>1. CASE y = x
              BY <3>2, <5>1
        <5>2. CASE y # x
          <6>1. PICK q \in Reader : look[q].at = "fill" /\ look[q].x = y
                BY <1>0, <3>3, <4>2, <5>2 DEF FullOrFirst
          <6> QED BY <2>0, <3>2, <6>1
        <5> QED BY <5>1, <5>2
      <4> QED BY <2>0, <4>1, <4>2 DEF FullOrFirst
    <3>7. InStep'
      <4> SUFFICES ASSUME NEW q \in Reader
                   PROVE  /\ look'[q].at = "fill" => ~published[look'[q].x] /\ fills'[look'[q].x] = 1
                          /\ look'[q].at = "use" => published[look'[q].x]
          BY <2>0 DEF InStep
      <4>1. CASE q = r
            BY <2>2, <3>2, <3>3, <3>4, <4>1
      <4>2. CASE q # r
            BY <1>0, <1>t, <2>0, <3>2, <3>3, <4>2 DEF InStep
      <4> QED BY <4>1, <4>2
    <3> QED BY <3>1, <3>5, <3>6, <3>7 DEF LazyInv
  <2> QED BY <1>3, <2>1, <2>2 DEF LazyRecheck
<1>4. ASSUME NEW r \in Reader, LazyFill(r) PROVE LazyInv'
  <2>1. LazyTypeOK'
        BY <1>0, <1>4 DEF LazyFill, LazyTypeOK, Idle
  <2>2. \A q \in Reader : q # r => look'[q] = look[q]
        BY <1>0, <1>4 DEF LazyFill, LazyTypeOK
  <2>3. HolderAlone'
        BY <1>0, <1>4, <2>2 DEF LazyFill, HolderAlone, LazyTypeOK, Idle
  <2>4. FullOrFirst'
        BY <1>0, <1>4, <2>2 DEF LazyFill, FullOrFirst, InStep, LazyTypeOK, Idle
  <2>5. InStep'
        BY <1>0, <1>4, <2>2 DEF LazyFill, InStep, HolderAlone, FullOrFirst, LazyTypeOK, Idle
  <2> QED BY <2>1, <2>3, <2>4, <2>5 DEF LazyInv
<1>5. ASSUME NEW r \in Reader, LazyStore(r) PROVE LazyInv'
  <2>1. LazyTypeOK'
        BY <1>0, <1>5 DEF LazyStore, LazyTypeOK, Idle
  <2>2. \A q \in Reader : q # r => look'[q] = look[q]
        BY <1>0, <1>5 DEF LazyStore, LazyTypeOK
  <2>3. HolderAlone'
    <3> SUFFICES ASSUME NEW q \in Reader, look'[q].at \in {"again", "fill"}
                 PROVE  lockedBy'[look'[q].x] = {q}
        BY DEF HolderAlone
    <3>1. look[r].x \in Lazy
          BY <1>5, <1>t DEF LazyStore
    <3>2. CASE q = r
          BY <1>0, <1>5, <3>1, <3>2 DEF LazyStore, LazyTypeOK, HolderAlone
    <3>3. CASE q # r
      <4>1. look[q].x \in Lazy /\ lockedBy[look[q].x] = {q} /\ look'[q] = look[q]
            BY <1>0, <1>t, <2>2, <3>3 DEF HolderAlone
      <4>2. look[q].x # look[r].x
            BY <1>0, <1>5, <3>3, <4>1 DEF LazyStore, HolderAlone
      <4> QED BY <1>0, <1>5, <3>1, <4>1, <4>2 DEF LazyStore, LazyTypeOK
    <3> QED BY <3>2, <3>3
  <2>4. FullOrFirst'
        BY <1>0, <1>5, <2>2 DEF LazyStore, FullOrFirst, InStep, LazyTypeOK, Idle
  <2>5. InStep'
    <3> SUFFICES ASSUME NEW q \in Reader
                 PROVE  /\ look'[q].at = "fill" => ~published'[look'[q].x] /\ fills'[look'[q].x] = 1
                        /\ look'[q].at = "use" => published'[look'[q].x]
        BY DEF InStep
    <3>1. look[r].x \in Lazy /\ look[r].at = "fill" /\ lockedBy[look[r].x] = {r} /\ fills' = fills
          BY <1>0, <1>5, <1>t, Zenon DEF LazyStore, HolderAlone
    <3>2. CASE q = r
          BY <1>0, <1>5, <3>1, <3>2 DEF LazyStore, LazyTypeOK
    <3>3. CASE q # r
      <4>1. look'[q] = look[q]
            BY <2>2, <3>3
      <4>2. look[q].at = "fill" => look[q].x # look[r].x
            BY <1>0, <3>1, <3>3 DEF HolderAlone
      <4> QED BY <1>0, <1>5, <1>t, <3>1, <4>1, <4>2 DEF LazyStore, InStep, LazyTypeOK
    <3> QED BY <3>2, <3>3
  <2> QED BY <2>1, <2>3, <2>4, <2>5 DEF LazyInv
<1>6. ASSUME NEW r \in Reader, look[r].at \in {"use", "nil"}, LazyLeave(r) PROVE LazyInv'
  <2>1. LazyTypeOK'
        BY <1>0, <1>6 DEF LazyLeave, LazyTypeOK, Idle
  <2>2. \A q \in Reader : q # r => look'[q] = look[q]
        BY <1>0, <1>6 DEF LazyLeave, LazyTypeOK
  <2>3. HolderAlone'
        BY <1>0, <1>6, <2>2 DEF LazyLeave, HolderAlone, LazyTypeOK, Idle
  <2>4. FullOrFirst'
        BY <1>0, <1>6, <2>2 DEF LazyLeave, FullOrFirst, InStep, LazyTypeOK, Idle
  <2>5. InStep'
        BY <1>0, <1>6, <2>2 DEF LazyLeave, InStep, HolderAlone, FullOrFirst, LazyTypeOK, Idle
  <2> QED BY <2>1, <2>3, <2>4, <2>5 DEF LazyInv
<1>7. CASE UNCHANGED lazyVars
      BY <1>0, <1>7 DEF lazyVars, LazyInv, LazyTypeOK, HolderAlone, FullOrFirst, InStep
<1> QED BY <1>1, <1>2, <1>3, <1>4, <1>5, <1>6, <1>7 DEF LazyNext, LazyStep

(* "once cached, internal names are never updated so we don't need to take *)
(* a lock": for any readers and caches.                                    *)
THEOREM LazyFilledOnce == LazySpec => []FilledOnce
<1>1. ASSUME LazyInv PROVE FilledOnce
  <2>1. ASSUME NEW x \in Lazy PROVE fills[x] <= 1
    <3>1. CASE published[x]
          BY <1>1, <3>1 DEF LazyInv, FullOrFirst
    <3>2. CASE ~published[x]
      <4>1. fills[x] = 0 \/ \E r \in Reader : look[r].at = "fill" /\ look[r].x = x
            BY <1>1, <3>2 DEF LazyInv, FullOrFirst
      <4>2. ASSUME NEW r \in Reader, look[r].at = "fill", look[r].x = x PROVE fills[x] = 1
            BY <1>1, <4>2 DEF LazyInv, InStep
      <4> QED BY <4>1, <4>2
    <3> QED BY <3>1, <3>2
  <2>2. ASSUME NEW r \in Reader, look[r].at = "use"
        PROVE  published[look[r].x] /\ filled[look[r].x] = Len(Pieces(look[r].x))
    <3>1. look[r].x \in Lazy
          BY <1>1, <2>2, LooksUpLazy DEF LazyInv, Idle
    <3> QED BY <1>1, <2>2, <3>1 DEF LazyInv, InStep, FullOrFirst
  <2> QED BY <2>1, <2>2 DEF FilledOnce
<1> QED BY LazyInitInv, LazyNextInv, <1>1, PTL DEF LazySpec

-----------------------------------------------------------------------------
(* The router of messages *)

(* How far the router is, told from where its goroutine is: shutdown was   *)
(* seen iff drain has a value; output channels are closed only after the   *)
(* queue was serviced; the timer is in use only inside SEND_AND_BLOCK.     *)
PcInv ==
  /\ pc = "select" => drain = NotDraining
  /\ pc \in {"drain", "close", "done"} => drain # NotDraining
  /\ pc \in {"close", "done"} => drain = 0
  /\ pc \notin {"close", "done"} => closed = 0
  /\ pc = "close" => closed < NumOut
  /\ pc \notin {"block", "stop"} => timer = "stopped"
  /\ pc = "send" => HasRoom(out)

(* What shutdown guarantees about the counters of dataChanIn. *)
DrainInv ==
  /\ taken <= arrived /\ atShutdown <= arrived
  /\ pc \in HandlePc => taken > 0
  /\ drain # NotDraining =>
       /\ shutdownChan
       /\ atShutdown <= taken + drain /\ taken + drain <= arrived

(* Everything but the contents of the output channels. *)
CtrlInv ==
  /\ RouterTypeOK /\ PcInv /\ DrainInv
  /\ \A k \in Out : rcvd[k] <= Len(sent[k])

USE RouterAssumption
USE DEF envVars, loopVars, msgVars, routerVars, Out, RunPc, HandlePc, NotDraining

(* What a send does to the output channels. *)
LEMMA PutMsgEffect ==
  ASSUME RouterTypeOK, PutMsg, taken \in 1 .. MaxMsg
  PROVE  /\ sent' \in [Out -> Seq(1 .. MaxMsg)]
         /\ Len(sent'[out]) = Len(sent[out]) + 1
         /\ sent'[out][Len(sent[out]) + 1] = taken
         /\ \A i \in 1 .. Len(sent[out]) : sent'[out][i] = sent[out][i]
         /\ \A k \in Out \ {out} : sent'[k] = sent[k]
  <1>1. sent[out] \in Seq(1 .. MaxMsg) /\ out \in Out
    BY DEF RouterTypeOK
  <1>2. sent' = [sent EXCEPT ![out] = Append(sent[out], taken)]
    BY DEF PutMsg
  <1>3. sent'[out] = Append(sent[out], taken)
    BY <1>1, <1>2 DEF RouterTypeOK
  <1>4. \A k \in Out \ {out} : sent'[k] = sent[k]
    BY <1>2 DEF RouterTypeOK
  <1>5. sent' \in [Out -> Seq(1 .. MaxMsg)]
    BY <1>1, <1>2 DEF RouterTypeOK
  <1> QED
    BY <1>1, <1>3, <1>4, <1>5

(* A send grows the channel it is made on and leaves the others alone, so  *)
(* a consumer that was not ahead of its channel still is not.              *)
LEMMA PutKeepsUp ==
  ASSUME CtrlInv, PutMsg, pc \in HandlePc
  PROVE  /\ sent' \in [Out -> Seq(1 .. MaxMsg)]
         /\ \A k \in Out : rcvd'[k] <= Len(sent'[k])
         /\ UNCHANGED <<envVars, loopVars, dropped, out, timer>>
  <1>1. RouterTypeOK /\ taken \in 1 .. MaxMsg
    BY DEF CtrlInv, RouterTypeOK, DrainInv
  <1>2. UNCHANGED <<envVars, loopVars, dropped, out, timer>>
    BY DEF PutMsg
  <1>3. \A k \in Out : rcvd[k] \in Nat /\ Len(sent[k]) \in Nat /\ rcvd[k] <= Len(sent[k])
    BY <1>1 DEF CtrlInv, RouterTypeOK
  <1>4. \A k \in Out : Len(sent'[k]) = Len(sent[k]) \/ Len(sent'[k]) = Len(sent[k]) + 1
    BY <1>1, PutMsgEffect, Zenon DEF RouterTypeOK
  <1>5. \A k \in Out : rcvd[k] <= Len(sent'[k])
    BY <1>3, <1>4
  <1>6. sent' \in [Out -> Seq(1 .. MaxMsg)]
    BY <1>1, PutMsgEffect
  <1>7. rcvd' = rcvd
    BY <1>2
  <1> QED
    BY <1>2, <1>5, <1>6, <1>7

(* The control part of the invariant holds initially and is preserved. *)
LEMMA CtrlInit == RouterInit => CtrlInv
  BY DEF RouterInit, CtrlInv, RouterTypeOK, PcInv, DrainInv, HasRoom

(* Every step preserves the control part, whatever the policy answers. *)
LEMMA CtrlStep == CtrlInv /\ [RouterNext]_routerVars => CtrlInv'
  <1> SUFFICES ASSUME CtrlInv, [RouterNext]_routerVars
               PROVE  CtrlInv'
    OBVIOUS
  <1> USE DEF CtrlInv, RouterTypeOK, PcInv, DrainInv, InFlight, HasRoom
  <1>1. CASE Arrive
    BY <1>1 DEF Arrive
  <1>2. CASE CloseShutdownChan
    BY <1>2 DEF CloseShutdownChan
  <1>3. ASSUME NEW c \in Out, Consume(c)
        PROVE  CtrlInv'
    <2>1. /\ rcvd' \in [Out -> Nat]
          /\ \A k \in Out : rcvd[k] <= rcvd'[k] /\ rcvd'[k] <= Len(sent[k])
      <3>1. Len(sent[c]) \in Nat /\ rcvd[c] \in Nat /\ rcvd[c] < Len(sent[c])
        BY <1>3 DEF Consume
      <3>2. rcvd' = [rcvd EXCEPT ![c] = rcvd[c] + 1]
        BY <1>3 DEF Consume
      <3>3. rcvd \in [Out -> Nat] /\ \A k \in Out : rcvd[k] <= Len(sent[k])
        BY Zenon
      <3> HIDE DEF CtrlInv
      <3> QED
        BY <3>1, <3>2, <3>3
    <2>2. Len(sent[out]) \in Nat /\ rcvd[out] \in Nat /\ rcvd'[out] \in Nat
      BY <2>1
    <2>3. UNCHANGED <<arrived, shutdownChan, atShutdown, loopVars, msgVars, pc, out, timer>>
      BY <1>3 DEF Consume
    <2>4. pc' = "send" => HasRoom(out)'
      BY <2>1, <2>2, <2>3
    <2> QED
      BY <2>1, <2>3, <2>4
  <1>4. CASE TakeMsg
    BY <1>4 DEF TakeMsg
  <1>5. CASE SeeShutdown
    BY <1>5 DEF SeeShutdown
  <1>6. CASE DrainMsg
    BY <1>6 DEF DrainMsg
  <1>7. CASE DrainDone
    BY <1>7 DEF DrainDone
  <1>8. CASE CloseNext
    BY <1>8 DEF CloseNext
  <1>9. ASSUME NEW c \in Out, Route(c)
        PROVE  CtrlInv'
    BY <1>9 DEF Route
  <1>10. CASE Send
    <2>1. PutMsg /\ pc \in {"send", "block"}
      BY <1>10 DEF Send
    <2>2. /\ sent' \in [Out -> Seq(1 .. MaxMsg)]
          /\ \A k \in Out : rcvd'[k] <= Len(sent'[k])
          /\ UNCHANGED <<envVars, loopVars, dropped, out, timer>>
      BY <2>1, PutKeepsUp, Zenon
    <2>3. pc' \in {"select", "drain", "stop"} /\ (pc' = "select" => drain = NotDraining)
          /\ (pc' = "drain" => drain # NotDraining)
          /\ (pc' # "stop" => timer = "stopped")
      BY <1>10 DEF Send, ReturnPc
    <2> QED
      BY <2>1, <2>2, <2>3, Zenon
  <1>11. CASE Reroute
    BY <1>11 DEF Reroute
  <1>12. CASE Drop
    BY <1>12 DEF Drop, ReturnPc
  <1>13. CASE SendAndBlock
    BY <1>13 DEF SendAndBlock
  <1>14. CASE BlockedSend
    <2>1. PutMsg /\ pc \in {"send", "block"}
      BY <1>14 DEF BlockedSend
    <2>2. /\ sent' \in [Out -> Seq(1 .. MaxMsg)]
          /\ \A k \in Out : rcvd'[k] <= Len(sent'[k])
          /\ UNCHANGED <<envVars, loopVars, dropped, out, timer>>
      BY <2>1, PutKeepsUp, Zenon
    <2>3. pc' \in {"select", "drain", "stop"} /\ (pc' = "select" => drain = NotDraining)
          /\ (pc' = "drain" => drain # NotDraining)
          /\ (pc' # "stop" => timer = "stopped")
      BY <1>14 DEF BlockedSend
    <2> QED
      BY <2>1, <2>2, <2>3, Zenon
  <1>15. CASE StopTimer
    BY <1>15 DEF StopTimer, ReturnPc
  <1>16. CASE BlockedTimeout
    BY <1>16 DEF BlockedTimeout
  <1>17. CASE TimerFires
    BY <1>17 DEF TimerFires
  <1>18. CASE UNCHANGED routerVars
    BY <1>18
  <1> QED
    BY <1>1, <1>2, <1>3, <1>4, <1>5, <1>6, <1>7, <1>8, <1>9, <1>10, <1>11,
       <1>12, <1>13, <1>14, <1>15, <1>16, <1>17, <1>18, Zenon
       DEF RouterNext, RouterStep

-----------------------------------------------------------------------------
(* A step settles the message in hand, by a send or by a drop, or leaves   *)
(* the outputs alone.                                                      *)
SettleStep == Settled = taken - 1 /\ Settled' = taken /\ taken \in 1 .. MaxMsg
              /\ closed = 0 /\ UNCHANGED <<taken, closed, arrived>>
PutStep    == SettleStep /\ PutMsg
DropStep   == SettleStep /\ dropped' = dropped \union {taken} /\ UNCHANGED sent
QuietStep  == UNCHANGED <<sent, dropped, Settled>>
              /\ \/ arrived' = arrived + 1 /\ UNCHANGED closed
                 \/ arrived' = arrived /\ (closed' = closed \/ closed' = closed + 1)

(* There is no other kind of step. *)
LEMMA StepKinds ==
  CtrlInv /\ [RouterNext]_routerVars => PutStep \/ DropStep \/ QuietStep
  <1> SUFFICES ASSUME CtrlInv, [RouterNext]_routerVars
               PROVE  PutStep \/ DropStep \/ QuietStep
    OBVIOUS
  <1> USE DEF CtrlInv, RouterTypeOK, PcInv, DrainInv, Settled, InHand
  <1>1. CASE Send \/ BlockedSend
    <2>1. PutMsg /\ pc \in {"send", "block"} /\ pc' \in {"select", "drain", "stop"}
      BY <1>1 DEF Send, BlockedSend, ReturnPc
    <2>2. UNCHANGED <<taken, closed, arrived>>
      BY <2>1 DEF PutMsg
    <2> QED
      BY <2>1, <2>2 DEF PutStep, SettleStep
  <1>2. CASE Drop
    BY <1>2 DEF Drop, DropStep, SettleStep, ReturnPc
  <1>3. CASE Arrive \/ CloseShutdownChan \/ \E c \in Out : Consume(c)
    BY <1>3, Zenon DEF Arrive, CloseShutdownChan, Consume, QuietStep
  <1>4. CASE TakeMsg \/ DrainMsg
    <2>1. taken' = taken + 1 /\ pc \in {"select", "drain"} /\ pc' = "route"
          /\ UNCHANGED <<sent, dropped, arrived, closed>>
      BY <1>4 DEF TakeMsg, DrainMsg
    <2> QED
      BY <2>1 DEF QuietStep
  <1>8. CASE SeeShutdown \/ DrainDone \/ CloseNext
    BY <1>8, Zenon DEF SeeShutdown, DrainDone, CloseNext, QuietStep
  <1>5. CASE \E c \in Out : Route(c)
    BY <1>5 DEF Route, QuietStep
  <1>6. CASE Reroute \/ SendAndBlock \/ StopTimer \/ BlockedTimeout \/ TimerFires
    BY <1>6, Zenon DEF Reroute, SendAndBlock, StopTimer, BlockedTimeout, TimerFires,
                QuietStep, ReturnPc
  <1>7. CASE UNCHANGED routerVars
    BY <1>7 DEF QuietStep
  <1> QED
    BY <1>1, <1>2, <1>3, <1>4, <1>5, <1>6, <1>7, <1>8 DEF RouterNext, RouterStep

(* The number of settled messages. *)
LEMMA SettledType == CtrlInv => Settled \in 0 .. MaxMsg
  BY DEF CtrlInv, RouterTypeOK, DrainInv, Settled, InHand

(* No message is lost, duplicated or reordered. *)
LEMMA MsgInit == RouterInit => ExactlyOnce /\ InOrder
  BY DEF RouterInit, ExactlyOnce, InOrder, Settled, InHand

(* Every step keeps each settled message in one place. *)
LEMMA MsgStep ==
  ASSUME CtrlInv, ExactlyOnce, InOrder, [RouterNext]_routerVars
  PROVE  ExactlyOnce' /\ InOrder'
  <1> DEFINE d(k) == 1 .. Len(sent[k])
  <1>0. /\ Settled \in 0 .. MaxMsg
        /\ sent \in [Out -> Seq(1 .. MaxMsg)] /\ out \in Out
        /\ \A k \in Out : Len(sent[k]) \in Nat
    <2>1. sent \in [Out -> Seq(1 .. MaxMsg)] /\ out \in Out
      BY DEF CtrlInv, RouterTypeOK
    <2>2. \A k \in Out : sent[k] \in Seq(1 .. MaxMsg)
      BY <2>1
    <2> QED
      BY <2>1, <2>2, SettledType
  <1>1. CASE QuietStep
    BY <1>1 DEF QuietStep, ExactlyOnce, InOrder
  <1>2. CASE DropStep
    <2>1. /\ sent' = sent /\ dropped' = dropped \union {taken}
          /\ Settled = taken - 1 /\ Settled' = taken /\ taken \in 1 .. MaxMsg
      BY <1>2 DEF DropStep, SettleStep
    <2>2. ExactlyOnce'
      <3>1. dropped \subseteq 1 .. Settled
        BY Zenon DEF ExactlyOnce
      <3>2. /\ dropped' \subseteq 1 .. Settled'
            /\ (1 .. Settled') \ dropped' = (1 .. Settled) \ dropped
        BY <1>0, <2>1, <3>1
      <3> QED
        BY <2>1, <3>2 DEF ExactlyOnce
    <2>3. InOrder'
      BY <2>1, Zenon DEF InOrder
    <2> QED
      BY <2>2, <2>3
  <1>3. CASE PutStep
    <2>1. /\ Settled = taken - 1 /\ Settled' = taken /\ taken \in 1 .. MaxMsg
          /\ dropped' = dropped
      BY <1>3 DEF PutStep, SettleStep, PutMsg
    <2>2. /\ Len(sent'[out]) = Len(sent[out]) + 1
          /\ sent'[out][Len(sent[out]) + 1] = taken
          /\ \A i \in d(out) : sent'[out][i] = sent[out][i]
          /\ \A k \in Out \ {out} : sent'[k] = sent[k]
      BY <1>3, PutMsgEffect DEF PutStep, SettleStep, CtrlInv
    <2>3. \A k \in Out : \A i \in d(k) : sent[k][i] \in (1 .. (taken - 1)) \ dropped
      BY <2>1 DEF ExactlyOnce
    <2>4. \A k \in Out : \A i \in 1 .. Len(sent'[k]) :
             \/ i \in d(k) /\ sent'[k][i] = sent[k][i]
             \/ k = out /\ i = Len(sent[out]) + 1 /\ sent'[k][i] = taken
      <3> SUFFICES ASSUME NEW k \in Out, NEW i \in 1 .. Len(sent'[k])
                   PROVE  \/ i \in d(k) /\ sent'[k][i] = sent[k][i]
                          \/ k = out /\ i = Len(sent[out]) + 1 /\ sent'[k][i] = taken
        OBVIOUS
      <3>1. CASE k # out
        BY <2>2, <3>1
      <3>2. CASE k = out
        <4>1. i \in d(out) \/ i = Len(sent[out]) + 1
          BY <1>0, <2>2, <3>2
        <4> QED
          BY <2>2, <3>2, <4>1
      <3> QED
        BY <3>1, <3>2
    <2>5. \A k \in Out : \A i \in d(k) :
             i \in 1 .. Len(sent'[k]) /\ sent'[k][i] = sent[k][i]
      <3> SUFFICES ASSUME NEW k \in Out, NEW i \in d(k)
                   PROVE  i \in 1 .. Len(sent'[k]) /\ sent'[k][i] = sent[k][i]
        OBVIOUS
      <3>1. CASE k # out
        BY <2>2, <3>1
      <3>2. CASE k = out
        BY <1>0, <2>2, <3>2
      <3> QED
        BY <3>1, <3>2
    <2>6. dropped \subseteq 1 .. (taken - 1)
      BY <2>1 DEF ExactlyOnce
    <2>7. \A k \in Out : \A i \in 1 .. Len(sent'[k]) : sent'[k][i] \in (1 .. taken) \ dropped
      <3> SUFFICES ASSUME NEW k \in Out, NEW i \in 1 .. Len(sent'[k])
                   PROVE  sent'[k][i] \in (1 .. taken) \ dropped
        OBVIOUS
      <3>1. CASE sent'[k][i] = taken
        BY <2>1, <2>6, <3>1
      <3>2. CASE i \in d(k) /\ sent'[k][i] = sent[k][i]
        BY <2>1, <2>3, <3>2
      <3> QED
        BY <2>4, <3>1, <3>2
    <2>8. \A m \in (1 .. taken) \ dropped :
             \E k \in Out : \E i \in 1 .. Len(sent'[k]) : sent'[k][i] = m
      <3> SUFFICES ASSUME NEW m \in (1 .. taken) \ dropped
                   PROVE  \E k \in Out : \E i \in 1 .. Len(sent'[k]) : sent'[k][i] = m
        OBVIOUS
      <3>1. CASE m = taken
        BY <1>0, <2>2, <3>1
      <3>2. CASE m # taken
        <4>1. m \in (1 .. Settled) \ dropped
          BY <2>1, <3>2
        <4>2. PICK k \in Out : \E i \in d(k) : sent[k][i] = m
          BY <4>1 DEF ExactlyOnce
        <4> QED
          BY <2>5, <4>2
      <3> QED
        BY <3>1, <3>2
    <2>9. \A k, l \in Out : \A i \in 1 .. Len(sent'[k]), j \in 1 .. Len(sent'[l]) :
             sent'[k][i] = sent'[l][j] => k = l /\ i = j
      <3>1. \A k, l \in Out : \A i \in d(k), j \in d(l) :
               sent[k][i] = sent[l][j] => k = l /\ i = j
        BY DEF ExactlyOnce
      <3>2. \A k \in Out : \A i \in d(k) : sent[k][i] # taken
        BY <2>1, <2>3
      <3> SUFFICES ASSUME NEW k \in Out, NEW l \in Out,
                          NEW i \in 1 .. Len(sent'[k]), NEW j \in 1 .. Len(sent'[l]),
                          sent'[k][i] = sent'[l][j]
                   PROVE  k = l /\ i = j
        OBVIOUS
      <3>3. \/ i \in d(k) /\ sent'[k][i] = sent[k][i]
            \/ k = out /\ i = Len(sent[out]) + 1 /\ sent'[k][i] = taken
        BY <2>4
      <3>4. \/ j \in d(l) /\ sent'[l][j] = sent[l][j]
            \/ l = out /\ j = Len(sent[out]) + 1 /\ sent'[l][j] = taken
        BY <2>4
      <3> HIDE DEF d
      <3> QED
        BY <3>1, <3>2, <3>3, <3>4
    <2>10. InOrder'
      <3>1. \A k \in Out : \A i, j \in d(k) : i < j => sent[k][i] < sent[k][j]
        BY DEF InOrder
      <3>2. \A k \in Out : \A i \in d(k) : sent[k][i] < taken
        BY <2>1, <2>3
      <3> SUFFICES ASSUME NEW k \in Out, NEW i \in 1 .. Len(sent'[k]),
                          NEW j \in 1 .. Len(sent'[k]), i < j
                   PROVE  sent'[k][i] < sent'[k][j]
        BY DEF InOrder
      <3>3. j <= Len(sent[k]) + 1
        <4>1. j \in d(k) \/ (k = out /\ j = Len(sent[out]) + 1)
          BY <2>4
        <4> QED
          BY <1>0, <4>1
      <3>4. i \in d(k)
        BY <1>0, <3>3
      <3>5. sent'[k][i] = sent[k][i]
        BY <2>5, <3>4
      <3>6. \/ j \in d(k) /\ sent'[k][j] = sent[k][j]
            \/ sent'[k][j] = taken
        BY <2>4
      <3> QED
        BY <3>1, <3>2, <3>4, <3>5, <3>6
    <2> QED
      BY <2>1, <2>6, <2>7, <2>8, <2>9, <2>10 DEF ExactlyOnce
  <1> QED
    BY <1>1, <1>2, <1>3, StepKinds

(* The router's invariant, from which the properties follow. *)
THEOREM RouterInvariant == RouterSpec => [](CtrlInv /\ ExactlyOnce /\ InOrder)
  <1>1. RouterInit => CtrlInv /\ ExactlyOnce /\ InOrder
    BY CtrlInit, MsgInit
  <1>2. CtrlInv /\ ExactlyOnce /\ InOrder /\ [RouterNext]_routerVars
          => (CtrlInv /\ ExactlyOnce /\ InOrder)'
    BY CtrlStep, MsgStep
  <1> QED
    BY <1>1, <1>2, PTL DEF RouterSpec

(* Type correctness. *)
THEOREM RouterTyping == RouterSpec => []RouterTypeOK
  BY RouterInvariant, PTL DEF CtrlInv

(* handleMsg() neither loses nor duplicates nor reorders messages, for any *)
(* policy of the owner.                                                    *)
THEOREM RouterExactlyOnce == RouterSpec => [](ExactlyOnce /\ InOrder)
  BY RouterInvariant, PTL

(* The easy path never blocks, nothing is sent on a closed channel, and    *)
(* no tick of an earlier blocked send is left behind.                      *)
THEOREM RouterSendSafe == RouterSpec => []SendSafe
  <1>1. CtrlInv => SendSafe
    BY DEF CtrlInv, PcInv, SendSafe, InHand
  <1> QED
    BY <1>1, RouterInvariant, PTL

(* What was queued when the owner closed shutdownChan is handled before    *)
(* the output channels are closed.                                         *)
THEOREM RouterDrainsQueue == RouterSpec => []DrainsQueue
  <1>1. CtrlInv => DrainsQueue
    BY DEF CtrlInv, RouterTypeOK, PcInv, DrainInv, DrainsQueue
  <1> QED
    BY <1>1, RouterInvariant, PTL

-----------------------------------------------------------------------------
(* The router implements its contract: the mapping settles a message at    *)
(* its send or drop, all other steps but Arrive and the first close leave  *)
(* the mapped state alone.                                                 *)
THEOREM RouterImplementsContract == RouterSpec => ImplementsContract
  <1>1. RouterInit => Contract!Init
    BY DEF RouterInit, Contract!Init, Settled, InHand
  <1>2. CtrlInv /\ [RouterNext]_routerVars => [Contract!Next]_(Contract!contractVars)
    <2> SUFFICES ASSUME CtrlInv, [RouterNext]_routerVars
                 PROVE  [Contract!Next]_(Contract!contractVars)
      OBVIOUS
    <2>0. closed \in Nat /\ closed' \in Nat /\ arrived \in Nat /\ Settled \in Nat
          /\ taken <= arrived /\ out \in Out
      <3>1. RouterTypeOK /\ RouterTypeOK' /\ DrainInv
        BY CtrlStep, Zenon DEF CtrlInv
      <3>2. Settled \in 0 .. MaxMsg
        BY SettledType, Zenon
      <3> QED
        BY <3>1, <3>2 DEF RouterTypeOK, DrainInv
    <2>1. CASE PutStep
      <3>1. Contract!Settle
        BY <2>0, <2>1 DEF PutStep, SettleStep, Contract!Settle
      <3>2. Contract!Deliver(out)
        BY <2>0, <2>1, <3>1 DEF PutStep, SettleStep, PutMsg, Contract!Deliver
      <3> QED
        BY <2>0, <3>2 DEF Contract!Next
    <2>2. CASE DropStep
      <3>1. Contract!Settle
        BY <2>0, <2>2 DEF DropStep, SettleStep, Contract!Settle
      <3> QED
        BY <2>0, <2>2, <3>1 DEF DropStep, SettleStep, Contract!Discard, Contract!Next
    <2>3. CASE QuietStep
      BY <2>0, <2>3 DEF QuietStep, Contract!Accept, Contract!Close, Contract!Next,
                        Contract!contractVars
    <2> QED
      BY <2>1, <2>2, <2>3, StepKinds
  <1> QED
    BY <1>1, <1>2, RouterInvariant, PTL DEF RouterSpec, ImplementsContract, Contract!Spec

-----------------------------------------------------------------------------
(* The metrics output to Influx *)

(* How many round-robin moves ago worker k was last tried. *)
Dist(k) == IF k <= lastWorker THEN lastWorker - k ELSE lastWorker + NumOut - k

(* After n failed attempts the n workers tried last were all found full. *)
PolicyInv ==
  /\ lastWorker \in Out /\ attempts \in 0 .. NumOut /\ seenFull \subseteq Out
  /\ pc = "route" => \A k \in Out : Dist(k) < attempts => k \in seenFull
  /\ pc = "congested" => \A k \in Out : Dist(k) <= attempts => k \in seenFull
  /\ pc \notin {"block", "stop"}

(* A worker returns only when its channel is closed and empty; the control *)
(* loop answers only when all workers have returned.                       *)
WorkerInv ==
  /\ wk \in [Out -> {"connect", "recv", "write", "gone"}]
  /\ ctrl \in {"run", "wait", "acked"}
  /\ \A k \in Out : wk[k] = "gone" => k < closed /\ InFlight(k) = 0
  /\ ctrl = "acked" => \A k \in Out : wk[k] = "gone"

InfluxInv == CtrlInv /\ PolicyInv /\ WorkerInv

USE DEF policyVars, influxVars

(* One step of the round robin, with and without wrapping around. *)
LEMMA ModWrap ==
  ASSUME NEW n \in Nat \ {0}, NEW x \in 0 .. n - 1
  PROVE  (x + 1) % n = IF x + 1 = n THEN 0 ELSE x + 1
  <1>1. CASE x + 1 = n
    BY <1>1
  <1>2. CASE x + 1 < n
    BY <1>2
  <1> QED
    BY <1>1, <1>2

(* Under its policy the router takes router steps only. *)
LEMMA NextIsRouterNext ==
  PolicyInv /\ [Next]_influxVars => [RouterNext]_routerVars
  <1> SUFFICES ASSUME PolicyInv, [Next]_influxVars
               PROVE  [RouterNext]_routerVars
    OBVIOUS
  <1> USE DEF RouterNext, RouterStep
  <1>1. CASE RoundRobin
    <2>1. (lastWorker + 1) % NumOut \in Out
      BY ModWrap DEF PolicyInv
    <2> QED
      BY <1>1, <2>1 DEF RoundRobin
  <1>2. CASE NewMsg \/ HuntOrDrop \/ SeeShutdown \/ DrainDone \/ CloseNext \/ Send
    BY <1>2 DEF NewMsg, HuntOrDrop
  <1>3. ASSUME NEW k \in Out, Worker(k)
        PROVE  [RouterNext]_routerVars
    BY <1>3 DEF Worker, WorkerOnItsOwn, WorkerConnect, WorkerRecv, WorkerWrite, WorkerWriteFails,
                WorkerClosed
  <1>4. CASE InputArrives \/ Shutdown \/ Ack
    BY <1>4 DEF InputArrives, Shutdown, Ack
  <1> QED
    BY <1>1, <1>2, <1>3, <1>4 DEF Next, Router

(* The invariant holds when setupWorkers() has started the goroutines. *)
LEMMA InfluxInit == Init => InfluxInv
  <1>1. Init => CtrlInv
    BY CtrlInit DEF Init
  <1>2. Init => PolicyInv /\ WorkerInv
    BY DEF Init, RouterInit, PolicyInv, WorkerInv
  <1> QED
    BY <1>1, <1>2 DEF InfluxInv

(* seenFull is the last `attempts' workers of the round robin. *)
LEMMA PolicyStep ==
  ASSUME CtrlInv, PolicyInv, [Next]_influxVars
  PROVE  PolicyInv'
  <1> USE DEF PolicyInv, Dist
  <1>1. CASE NewMsg
    BY <1>1 DEF NewMsg, TakeMsg, DrainMsg
  <1>2. CASE RoundRobin
    <2> DEFINE w == (lastWorker + 1) % NumOut
    <2>1. w = IF lastWorker + 1 = NumOut THEN 0 ELSE lastWorker + 1
      BY ModWrap
    <2>2. /\ pc = "route" /\ lastWorker' = w /\ attempts' = attempts
          /\ pc' = IF HasRoom(w) THEN "send" ELSE "congested"
          /\ seenFull' = IF HasRoom(w) THEN seenFull ELSE seenFull \union {w}
      BY <1>2 DEF RoundRobin, Route
    <2> HIDE DEF w
    <2>3. w \in Out
      BY <2>1
    <2>4. ASSUME NEW k \in Out
          PROVE  Dist(k)' = IF k = w THEN 0 ELSE Dist(k) + 1
      BY <2>1, <2>2
    <2>5. pc' = "congested" => \A k \in Out : Dist(k)' <= attempts' => k \in seenFull'
      <3> SUFFICES ASSUME pc' = "congested", NEW k \in Out, Dist(k)' <= attempts'
                   PROVE  k \in seenFull'
        OBVIOUS
      <3>1. seenFull' = seenFull \union {w}
        BY <2>2
      <3>2. k # w => Dist(k) < attempts
        BY <2>2, <2>4
      <3> QED
        BY <2>2, <3>1, <3>2
    <2> QED
      BY <2>2, <2>3, <2>5
  <1>3. CASE HuntOrDrop
    BY <1>3 DEF HuntOrDrop, Reroute, Drop, ReturnPc
  <1>4. CASE (SeeShutdown \/ DrainDone \/ CloseNext \/ Send) /\ UNCHANGED <<policyVars, wk, ctrl>>
    BY <1>4 DEF SeeShutdown, DrainDone, CloseNext, Send, ReturnPc
  <1>5. ASSUME NEW k \in Out, Worker(k)
        PROVE  PolicyInv'
    BY <1>5, Zenon DEF Worker, WorkerOnItsOwn, WorkerConnect, WorkerRecv, WorkerWrite, WorkerWriteFails,
                WorkerClosed, Consume
  <1>6. CASE InputArrives \/ Shutdown \/ Ack
    BY <1>6, Zenon DEF InputArrives, Arrive, Shutdown, CloseShutdownChan, Ack
  <1>7. CASE UNCHANGED influxVars
    BY <1>7
  <1> QED
    BY <1>1, <1>2, <1>3, <1>4, <1>5, <1>6, <1>7 DEF Next, Router

(* Once a worker may have returned, the router can no longer send. *)
LEMMA WorkerStep ==
  ASSUME CtrlInv, PolicyInv, WorkerInv, [Next]_influxVars
  PROVE  WorkerInv'
  <1>0. /\ sent \in [Out -> Seq(1 .. MaxMsg)] /\ rcvd \in [Out -> Nat]
        /\ closed \in 0 .. NumOut
        /\ \A k \in Out : Len(sent[k]) \in Nat
    <2>1. sent \in [Out -> Seq(1 .. MaxMsg)] /\ rcvd \in [Out -> Nat] /\ closed \in 0 .. NumOut
      BY DEF CtrlInv, RouterTypeOK
    <2>2. \A k \in Out : sent[k] \in Seq(1 .. MaxMsg)
      BY <2>1
    <2> QED
      BY <2>1, <2>2
  <1> USE DEF WorkerInv, InFlight
  <1>1. CASE Router
    <2>1. wk' = wk /\ ctrl' = ctrl /\ rcvd' = rcvd
      BY <1>1 DEF Router, NewMsg, TakeMsg, DrainMsg, RoundRobin, Route, HuntOrDrop,
                  Reroute, Drop, SeeShutdown, DrainDone, CloseNext, Send, PutMsg
    <2>2. CASE Send
      <3>1. closed = 0
        BY <2>2 DEF Send, CtrlInv, PcInv
      <3>2. \A k \in Out : wk[k] # "gone"
        BY <1>0, <3>1
      <3> QED
        BY <2>1, <3>2
    <2>3. CASE ~Send
      <3>1. sent' = sent /\ (closed' = closed \/ closed' = closed + 1)
        BY <1>1, <2>3 DEF Router, NewMsg, TakeMsg, DrainMsg, RoundRobin, Route,
             HuntOrDrop, Reroute, Drop, SeeShutdown, DrainDone, CloseNext
      <3> QED
        BY <1>0, <2>1, <3>1
    <2> QED
      BY <2>2, <2>3
  <1>2. ASSUME NEW w \in Out, Worker(w)
        PROVE  WorkerInv'
    <2>1. /\ sent' = sent /\ closed' = closed /\ ctrl' = ctrl
          /\ wk[w] # "gone"
          /\ \A k \in Out \ {w} : wk'[k] = wk[k] /\ rcvd'[k] = rcvd[k]
          /\ wk' \in [Out -> {"connect", "recv", "write", "gone"}]
      BY <1>0, <1>2, Zenon DEF Worker, WorkerOnItsOwn, WorkerConnect, WorkerRecv, WorkerWrite, WorkerWriteFails,
                  WorkerClosed, Consume
    <2>2. wk'[w] = "gone" => w < closed /\ InFlight(w) = 0 /\ rcvd' = rcvd
      BY <1>2 DEF Worker, WorkerOnItsOwn, WorkerConnect, WorkerRecv, WorkerWrite, WorkerWriteFails,
                  WorkerClosed, Consume
    <2> QED
      BY <2>1, <2>2
  <1>3. CASE InputArrives
    BY <1>3 DEF InputArrives, Arrive
  <1>4. CASE Shutdown
    BY <1>4 DEF Shutdown, CloseShutdownChan
  <1>5. CASE Ack
    BY <1>5 DEF Ack
  <1>6. CASE UNCHANGED influxVars
    BY <1>6
  <1> QED
    BY <1>1, <1>2, <1>3, <1>4, <1>5, <1>6 DEF Next

(* Every step of router, workers and control loop preserves the invariant. *)
LEMMA InfluxStep == InfluxInv /\ [Next]_influxVars => InfluxInv'
  BY NextIsRouterNext, CtrlStep, PolicyStep, WorkerStep DEF InfluxInv

(* The inductive invariant of the Influx output module. *)
THEOREM InfluxInvariant == Spec => []InfluxInv
  BY InfluxInit, InfluxStep, PTL DEF Spec

(* SHUTDOWN is acknowledged only when the router has returned, all workers *)
(* have returned, and all that was queued has been handled.                *)
THEOREM InfluxAckMeansDrained == Spec => []AckMeansDrained
  <1>1. InfluxInv => AckMeansDrained
    <2> SUFFICES ASSUME InfluxInv, ctrl = "acked"
                 PROVE  /\ pc = "done" /\ taken >= atShutdown
                        /\ \A k \in Out : InFlight(k) = 0 /\ wk[k] = "gone"
      BY DEF AckMeansDrained
    <2>1. \A k \in Out : wk[k] = "gone" /\ k < closed /\ InFlight(k) = 0
      BY DEF InfluxInv, WorkerInv
    <2>2. NumOut - 1 \in Out
      OBVIOUS
    <2>3. closed = NumOut
      BY <2>1, <2>2 DEF InfluxInv, CtrlInv, RouterTypeOK
    <2>4. pc = "done"
      BY <2>3 DEF InfluxInv, CtrlInv, RouterTypeOK, PcInv
    <2>5. taken >= atShutdown
      BY <2>4 DEF InfluxInv, CtrlInv, RouterTypeOK, PcInv, DrainInv
    <2> QED
      BY <2>1, <2>4, <2>5
  <1> QED
    BY <1>1, InfluxInvariant, PTL

(* A message is dropped only after a full round of congested workers. *)
THEOREM InfluxDropAfterFullRound == Spec => DropAfterFullRound
  <1>1. InfluxInv /\ [Next]_influxVars => [dropped' # dropped => seenFull = Out]_influxVars
    <2> SUFFICES ASSUME InfluxInv, Next, dropped' # dropped
                 PROVE  seenFull = Out
      BY Zenon
    <2>1. HuntOrDrop /\ attempts >= NumOut /\ pc = "congested"
      BY Zenon DEF Next, Router, NewMsg, TakeMsg, DrainMsg, RoundRobin, Route, HuntOrDrop,
             Reroute, Drop, SeeShutdown, DrainDone, CloseNext, Send, PutMsg, Worker, WorkerOnItsOwn,
             WorkerConnect, WorkerRecv, WorkerWrite, WorkerWriteFails, WorkerClosed,
             Consume, InputArrives, Arrive, Shutdown, CloseShutdownChan, Ack
    <2>2. \A k \in Out : Dist(k) <= attempts
      BY <2>1 DEF InfluxInv, PolicyInv, Dist
    <2> QED
      BY <2>1, <2>2, Zenon DEF InfluxInv, PolicyInv
  <1> QED
    BY <1>1, InfluxInvariant, PTL DEF Spec, DropAfterFullRound

=============================================================================
