-------------------------- MODULE RpcInputsProofs --------------------------
(***************************************************************************)
(* WholeSpray and OneLoop of the gRPC and gNMI inputs, for any streams,    *)
(* outputs, depth and numbers of contexts and messages.                    *)
(***************************************************************************)
EXTENDS RpcInputs, TLAPS

Msg == [from : Stream, num : Nat]

TypeInv ==
  /\ kind \in {"dialin", "dialout", "gnmi"}
  /\ ctx \in Nat /\ controlCtx \in Nat
  /\ stream \in [Stream -> {"none", "recv", "push", "over"}]
  /\ born \in [Stream -> Nat] /\ watch \in [Stream -> Nat]
  /\ at \in [Stream -> 1 .. NumOut + 1] /\ msgs \in [Stream -> Nat]
  /\ put \in [Output -> Seq(Msg)]

(* run() is told that the sticky loop is over by the loop itself; where    *)
(* pipeline is the client there are streams only while the loop serves,    *)
(* and in the gNMI input only the loop's own.                              *)
LoopInv ==
  /\ done = "closed" => loop = "none"
  /\ kind # "dialout" => \A s \in Stream : Live(s) => loop \in {"serving", "panic"}
  /\ kind = "gnmi" => \A s \in Stream : Live(s) => s = Gnmi

(* Only the last context is ever cancelled, by a run() that starts no      *)
(* other; a loop that starts has a context nobody has looked at.           *)
CtxInv ==
  /\ cancelled # {} => block \in {"wait", "acked"} /\ cancelled = {ctx}
  /\ controlCtx <= ctx /\ \A s \in Stream : born[s] <= ctx /\ watch[s] <= ctx
  /\ loop = "start" => controlCtx < ctx /\ \A s \in Stream : born[s] < ctx /\ watch[s] < ctx

(* A stream that may receive has no message in hand. *)
HandInv ==
  \A s \in Stream :
    /\ at[s] <= NumOut => msgs[s] > 0
    /\ stream[s] = "push" => at[s] <= NumOut
    /\ stream[s] \in {"none", "recv"} => at[s] = NumOut + 1

RpcInv == TypeInv /\ LoopInv /\ CtxInv /\ HandInv /\ WholeSpray

USE RpcAssumption, DataChannelsAssumption
USE DEF Output, runVars, loopVars, streamVars, rpcVars, grpcVars, gnmiVars, chanVars, vars

(* The loop of the gNMI input is one of the streams. *)
LEMMA GnmiStream == Gnmi \in Stream
BY DEF Gnmi

(* The actions, by what they do to the streams. *)
SetUp ==
  \/ \E ok \in SUBSET Stream : Dial(ok)
  \/ \E s \in Stream : Dialout(s)
  \/ GnmiSubscribed

Ends ==
  \E s \in Stream :
    /\ stream[s] = "recv" \/ (stream[s] = "push" /\ watch[s] \in cancelled)
    /\ End(s)

Receives ==
  \E s \in Stream : \E c \in {born[s], controlCtx} :
    Received(s, c) /\ UNCHANGED controlCtx

Pushes ==
  \E s \in Stream : \E c \in {born[s], controlCtx} :
    Pushed(s, c) /\ UNCHANGED controlCtx

(* The bound on the messages aside, a message in hand is this. *)
LEMMA InHand ==
  ASSUME NEW s, NEW c, TakeInHand(s, c)
  PROVE  /\ msgs' = [msgs EXCEPT ![s] = @ + 1]
         /\ at' = [at EXCEPT ![s] = 1]
         /\ watch' = [watch EXCEPT ![s] = c]
         /\ stream' = [stream EXCEPT ![s] = "push"]
BY Zenon DEF TakeInHand

(* Every step is one of these, or leaves streams and channels alone. *)
LEMMA StreamStep ==
  ASSUME [Next]_vars
  PROVE  /\ kind' = kind /\ cancelled \subseteq cancelled'
         /\ \/ UNCHANGED <<streamVars, put>>
            \/ SetUp /\ UNCHANGED put
            \/ Ends /\ UNCHANGED put
            \/ Receives /\ UNCHANGED put
            \/ Pushes
<1>1. CASE GrpcRun \/ GnmiRun
  BY <1>1 DEF GrpcRun, GnmiRun, Prime, Retry, SleepOver, Ask, GrpcShutdown, GrpcAck, GnmiShutdown
<1>2. CASE GrpcFatal \/ DialFails \/ AllClosed \/ ListenFails \/ Listen \/ AcceptFailed
  BY <1>2 DEF GrpcFatal, DialFails, AllClosed, ListenFails, Listen, AcceptFailed, StopServer, CloseDone
<1>3. CASE GnmiSetupFails \/ GnmiPathPanics \/ GnmiPrefixPanics
  BY <1>3 DEF GnmiSetupFails, GnmiPathPanics, GnmiPrefixPanics, CloseDone
<1>4. CASE SetUp
  BY <1>4 DEF SetUp, Dial, Dialout, GnmiSubscribed
<1>5. CASE \E s \in Stream : SubReceived(s) \/ OutReceived(s)
  BY <1>5 DEF SubReceived, OutReceived, Receives, Received
<1>6. CASE GnmiReceived /\ UNCHANGED grpcVars
  BY <1>6, GnmiStream DEF GnmiReceived, Receives, Received
<1>7. CASE \E s \in Stream : SubFailed(s) \/ OutFailed(s) \/ SubCancelled(s) \/ OutCancelled(s)
  BY <1>7 DEF SubFailed, OutFailed, SubCancelled, OutCancelled, Failed, PushCancelled, Ends
<1>8. CASE GnmiFailed \/ GnmiCancelled
  BY <1>8, GnmiStream DEF GnmiFailed, GnmiCancelled, CloseDone, Ends
<1>9. CASE \E s \in Stream : SubPushed(s) \/ OutPushed(s)
  BY <1>9 DEF SubPushed, OutPushed, Pushes, Pushed
<1>10. CASE GnmiPushed /\ UNCHANGED grpcVars
  BY <1>10, GnmiStream DEF GnmiPushed, Pushes, Pushed
<1>11. CASE Outputs /\ UNCHANGED <<rpcVars, grpcVars, gnmiVars>>
  BY <1>11 DEF Outputs, Take, OutputDies
<1>12. CASE UNCHANGED vars
  BY <1>12
<1> QED
  BY <1>1, <1>2, <1>3, <1>4, <1>5, <1>6, <1>7, <1>8, <1>9, <1>10, <1>11, <1>12
     DEF Next, GrpcNext, GnmiNext, SetUp

(* ... and by what they do to the contexts: only Retry makes one, only     *)
(* SHUTDOWN cancels one, and who looks at a new one has left "start".      *)
LEMMA ContextStep ==
  ASSUME [Next]_vars
  PROVE  /\ Retry \/ (ctx' = ctx /\ loop' \in {loop, "none", "serving", "fatal", "panic"})
         /\ controlCtx' = controlCtx \/ (controlCtx' = ctx /\ ctx' = ctx /\ loop' # "start")
         /\ \/ /\ cancelled' = cancelled
               /\ block \in {"wait", "acked"} => ctx' = ctx /\ block' \in {"wait", "acked"}
            \/ /\ block = "select" /\ block' \in {"wait", "acked"}
               /\ cancelled' = cancelled \union {ctx} /\ ctx' = ctx
<1>1. CASE GrpcRun \/ (GnmiRun /\ UNCHANGED grpcVars)
  BY <1>1 DEF GrpcRun, GnmiRun, Prime, Retry, SleepOver, Ask, GrpcShutdown, GrpcAck, GnmiShutdown
<1>2. CASE GrpcFatal \/ DialFails \/ AllClosed \/ ListenFails \/ Listen \/ AcceptFailed
  BY <1>2 DEF GrpcFatal, DialFails, AllClosed, ListenFails, Listen, AcceptFailed, StopServer, CloseDone
<1>3. CASE (GnmiSetupFails \/ GnmiPathPanics \/ GnmiPrefixPanics) /\ UNCHANGED grpcVars
  BY <1>3 DEF GnmiSetupFails, GnmiPathPanics, GnmiPrefixPanics, CloseDone
<1>4. CASE \/ \E ok \in SUBSET Stream : Dial(ok)
           \/ \E s \in Stream : Dialout(s)
           \/ GnmiSubscribed /\ UNCHANGED grpcVars
  BY <1>4 DEF Dial, Dialout, GnmiSubscribed
<1>5. CASE \/ \E s \in Stream : SubReceived(s) \/ OutReceived(s) \/ SubPushed(s) \/ OutPushed(s)
           \/ (GnmiReceived \/ GnmiPushed) /\ UNCHANGED grpcVars
  BY <1>5, Zenon DEF SubReceived, OutReceived, GnmiReceived, Received, SubPushed, OutPushed, GnmiPushed, Pushed
<1>6. CASE \/ \E s \in Stream : SubFailed(s) \/ OutFailed(s) \/ SubCancelled(s) \/ OutCancelled(s)
           \/ (GnmiFailed \/ GnmiCancelled) /\ UNCHANGED grpcVars
  BY <1>6 DEF SubFailed, OutFailed, SubCancelled, OutCancelled, Failed, PushCancelled,
              GnmiFailed, GnmiCancelled, CloseDone
<1>7. CASE (Outputs /\ UNCHANGED <<rpcVars, grpcVars, gnmiVars>>) \/ UNCHANGED vars
  BY <1>7
<1> QED
  BY <1>1, <1>2, <1>3, <1>4, <1>5, <1>6, <1>7 DEF Next, GrpcNext, GnmiNext

-----------------------------------------------------------------------------
(* The invariant holds when the input starts. *)
LEMMA RpcInitInv == Init => RpcInv
<1> SUFFICES ASSUME Init PROVE RpcInv
  OBVIOUS
<1> USE DEF Init, ChanInit, RpcInit, GrpcInit, GnmiInit
<1>1. TypeInv
  <2>1. << >> \in Seq(Msg)
    OBVIOUS
  <2> QED
    BY <2>1 DEF TypeInv
<1>2. LoopInv /\ CtxInv /\ HandInv
  BY DEF LoopInv, CtxInv, HandInv, Live
<1>3. WholeSpray
  <2> SUFFICES ASSUME NEW s \in Stream
               PROVE  /\ \A o \in Output : OnceInOrder(put[o], s, IF o >= at[s] THEN msgs[s] - 1 ELSE msgs[s])
                      /\ ~(at[s] <= NumOut)
    BY DEF WholeSpray
  <2>1. at[s] = NumOut + 1 /\ msgs[s] = 0 /\ \A o \in Output : put[o] = << >>
    OBVIOUS
  <2>2. OnceInOrder(<< >>, s, 0)
    BY DEF OnceInOrder, Numbers, InOrder
  <2> QED
    BY <2>1, <2>2
<1> QED
  BY <1>1, <1>2, <1>3 DEF RpcInv

(* Types are kept. *)
LEMMA RpcType ==
  ASSUME RpcInv, [Next]_vars PROVE TypeInv'
<1> USE DEF RpcInv, TypeInv
<1>1. kind' = kind
  BY StreamStep
<1>2. ctx' \in Nat /\ controlCtx' \in Nat
  BY ContextStep DEF Retry
<1>3. CASE UNCHANGED <<streamVars, put>>
  BY <1>1, <1>2, <1>3
<1>4. CASE SetUp /\ UNCHANGED put
  BY <1>1, <1>2, <1>4, GnmiStream, Zenon DEF SetUp, Dial, Dialout, GnmiSubscribed
<1>5. CASE Ends /\ UNCHANGED put
  BY <1>1, <1>2, <1>5, Zenon DEF Ends, End
<1>6. CASE Receives /\ UNCHANGED put
  <2> PICK s \in Stream : \E c \in {born[s], controlCtx} : Received(s, c)
    BY <1>6 DEF Receives
  <2> PICK c \in {born[s], controlCtx} : Received(s, c)
    OBVIOUS
  <2>1. /\ msgs' = [msgs EXCEPT ![s] = @ + 1] /\ at' = [at EXCEPT ![s] = 1]
        /\ watch' = [watch EXCEPT ![s] = c] /\ stream' = [stream EXCEPT ![s] = "push"]
        /\ born' = born
    BY InHand DEF Received
  <2>2. c \in Nat
    OBVIOUS
  <2>3. stream' \in [Stream -> {"none", "recv", "push", "over"}] /\ born' \in [Stream -> Nat]
    BY <2>1
  <2>4. watch' \in [Stream -> Nat]
    BY <2>1, <2>2
  <2>5. at' \in [Stream -> 1 .. NumOut + 1]
    BY <2>1
  <2>6. msgs' \in [Stream -> Nat]
    BY <2>1
  <2>7. put' \in [Output -> Seq(Msg)]
    BY <1>6
  <2> QED
    BY <1>1, <1>2, <2>3, <2>4, <2>5, <2>6, <2>7, Zenon
<1>7. CASE Pushes
  <2> PICK s \in Stream : \E c \in {born[s], controlCtx} : Pushed(s, c)
    BY <1>7 DEF Pushes
  <2> PICK c \in {born[s], controlCtx} : Pushed(s, c)
    OBVIOUS
  <2>1. /\ stream' \in [Stream -> {"none", "recv", "push", "over"}]
        /\ born' \in [Stream -> Nat] /\ watch' \in [Stream -> Nat]
        /\ at' \in [Stream -> 1 .. NumOut + 1] /\ msgs' \in [Stream -> Nat]
    <3>1. \/ /\ at[s] < NumOut /\ at' = [at EXCEPT ![s] = @ + 1]
             /\ watch' = [watch EXCEPT ![s] = c] /\ UNCHANGED <<stream, msgs>>
          \/ TakeInHand(s, c)
          \/ /\ at' = [at EXCEPT ![s] = NumOut + 1] /\ stream' = [stream EXCEPT ![s] = "recv"]
             /\ UNCHANGED <<watch, msgs>>
      BY Zenon DEF Pushed
    <3>2. born' = born
      BY DEF Pushed
    <3>3. c \in Nat
      OBVIOUS
    <3>4. CASE TakeInHand(s, c)
      <4>1. /\ msgs' = [msgs EXCEPT ![s] = @ + 1] /\ at' = [at EXCEPT ![s] = 1]
            /\ watch' = [watch EXCEPT ![s] = c] /\ stream' = [stream EXCEPT ![s] = "push"]
        BY <3>4, InHand, Zenon
      <4>2. stream' \in [Stream -> {"none", "recv", "push", "over"}] /\ born' \in [Stream -> Nat]
        BY <3>2, <4>1, Zenon
      <4>3. watch' \in [Stream -> Nat]
        BY <3>3, <4>1
      <4>4. at' \in [Stream -> 1 .. NumOut + 1]
        BY <4>1
      <4>5. msgs' \in [Stream -> Nat]
        BY <4>1
      <4> QED
        BY <4>2, <4>3, <4>4, <4>5, Zenon
    <3>5. CASE /\ at[s] < NumOut /\ at' = [at EXCEPT ![s] = @ + 1]
               /\ watch' = [watch EXCEPT ![s] = c] /\ UNCHANGED <<stream, msgs>>
      <4>1. at[s] + 1 \in 1 .. NumOut + 1
        BY <3>5, SMTT(30)
      <4>2. at' \in [Stream -> 1 .. NumOut + 1]
        BY <3>5, <4>1
      <4>3. watch' \in [Stream -> Nat]
        BY <3>3, <3>5
      <4> QED
        BY <3>2, <3>5, <4>2, <4>3, Zenon
    <3>6. CASE /\ at' = [at EXCEPT ![s] = NumOut + 1] /\ stream' = [stream EXCEPT ![s] = "recv"]
               /\ UNCHANGED <<watch, msgs>>
      BY <3>2, <3>6
    <3> QED
      BY <3>1, <3>4, <3>5, <3>6, Zenon
  <2>2. put' \in [Output -> Seq(Msg)]
    <3> DEFINE m == [from |-> s, num |-> msgs[s]]
    <3>1. put' = [put EXCEPT ![at[s]] = Append(@, m)] /\ m \in Msg
      BY DEF Pushed, Put, Msg
    <3> HIDE DEF m
    <3>2. \A o \in Output : put[o] \in Seq(Msg) /\ Append(put[o], m) \in Seq(Msg)
      BY <3>1
    <3> QED
      BY <3>1, <3>2, Zenon
  <2> QED
    BY <1>1, <1>2, <2>1, <2>2, Zenon
<1> QED
  BY <1>3, <1>4, <1>5, <1>6, <1>7, StreamStep, Zenon

(* What a stream may look at. *)
LEMMA WatchStep ==
  ASSUME RpcInv, [Next]_vars, NEW s \in Stream
  PROVE  /\ born'[s] = born[s] \/ (born'[s] = ctx /\ ctx' = ctx /\ loop' = "serving")
         /\ watch'[s] \in {watch[s], born[s], controlCtx}
<1> USE DEF RpcInv, TypeInv
<1>1. CASE UNCHANGED <<streamVars, put>>
  BY <1>1
<1>2. CASE SetUp
  BY <1>2 DEF SetUp, Dial, Dialout, GnmiSubscribed
<1>3. CASE Ends
  BY <1>3 DEF Ends, End
<1>4. CASE Receives \/ Pushes
  <2> PICK t \in Stream : \E c \in {born[t], controlCtx} : Received(t, c) \/ Pushed(t, c)
    BY <1>4 DEF Receives, Pushes
  <2> PICK c \in {born[t], controlCtx} : Received(t, c) \/ Pushed(t, c)
    BY Zenon
  <2>1. born' = born /\ (watch' = watch \/ watch' = [watch EXCEPT ![t] = c])
    BY InHand, Zenon DEF Received, Pushed
  <2> QED
    BY <2>1, Zenon
<1> QED
  BY <1>1, <1>2, <1>3, <1>4, StreamStep

(* Only the last context is cancelled, and a loop starts with a new one. *)
LEMMA RpcCtx ==
  ASSUME RpcInv, [Next]_vars PROVE CtxInv'
<1>0. /\ ctx \in Nat /\ controlCtx \in Nat /\ CtxInv
      /\ \A s \in Stream : born[s] \in Nat /\ watch[s] \in Nat
  BY DEF RpcInv, TypeInv
<1>1. cancelled' # {} => block' \in {"wait", "acked"} /\ cancelled' = {ctx'}
  BY <1>0, ContextStep DEF CtxInv
<1>2. CASE Retry
  <2>1. ctx' = ctx + 1
    BY <1>2 DEF Retry
  <2>2. controlCtx' <= ctx
    BY <1>0, <2>1, ContextStep DEF CtxInv
  <2>3. \A s \in Stream : born'[s] <= ctx /\ watch'[s] <= ctx
    BY <1>0, WatchStep DEF CtxInv
  <2>4. ctx' \in Nat /\ controlCtx' \in Nat /\ \A s \in Stream : born'[s] \in Nat /\ watch'[s] \in Nat
    BY RpcType DEF TypeInv
  <2> QED
    BY <1>0, <1>1, <2>1, <2>2, <2>3, <2>4 DEF CtxInv
<1>3. CASE ~Retry
  <2>1. ctx' = ctx /\ (loop' = "start" => loop = "start" /\ controlCtx' = controlCtx)
    BY <1>3, ContextStep
  <2>2. controlCtx' <= ctx
    BY <1>0, ContextStep DEF CtxInv
  <2>3. \A s \in Stream : born'[s] <= ctx /\ watch'[s] <= ctx
    BY <1>0, WatchStep DEF CtxInv
  <2>4. loop' = "start" => controlCtx' < ctx /\ \A s \in Stream : born'[s] < ctx /\ watch'[s] < ctx
    BY <1>0, <2>1, WatchStep DEF CtxInv
  <2> QED
    BY <1>1, <2>1, <2>2, <2>3, <2>4 DEF CtxInv
<1> QED
  BY <1>2, <1>3

(* The sticky loop and its streams. *)
LEMMA RpcLoop ==
  ASSUME RpcInv, [Next]_vars PROVE LoopInv'
<1>0. /\ kind \in {"dialin", "dialout", "gnmi"} /\ LoopInv
      /\ stream \in [Stream -> {"none", "recv", "push", "over"}]
  BY DEF RpcInv, TypeInv
<1> USE DEF LoopInv, Live
<1>1. CASE GrpcRun \/ GnmiRun
  BY <1>0, <1>1 DEF GrpcRun, GnmiRun, Prime, Retry, SleepOver, Ask, GrpcShutdown, GrpcAck, GnmiShutdown
<1>2. CASE GrpcFatal \/ DialFails \/ AllClosed \/ ListenFails \/ Listen \/ AcceptFailed
  BY <1>0, <1>2 DEF GrpcFatal, DialFails, AllClosed, ListenFails, Listen, AcceptFailed, StopServer, CloseDone
<1>3. CASE GnmiSetupFails \/ GnmiPathPanics \/ GnmiPrefixPanics
  BY <1>0, <1>3, GnmiStream DEF GnmiSetupFails, GnmiPathPanics, GnmiPrefixPanics, CloseDone
<1>4. CASE SetUp
  BY <1>0, <1>4, GnmiStream DEF SetUp, Dial, Dialout, GnmiSubscribed
<1>5. CASE \E s \in Stream : SubReceived(s) \/ OutReceived(s) \/ SubPushed(s) \/ OutPushed(s)
  <2> PICK s \in Stream : SubReceived(s) \/ OutReceived(s) \/ SubPushed(s) \/ OutPushed(s)
    BY <1>5
  <2>1. /\ UNCHANGED <<kind, done, loop>> /\ Live(s) /\ kind # "gnmi"
        /\ \A t \in Stream : t # s => stream'[t] = stream[t]
    BY <1>0, InHand DEF SubReceived, OutReceived, Received, SubPushed, OutPushed, Pushed
  <2> QED
    BY <1>0, <2>1
<1>6. CASE GnmiReceived \/ GnmiPushed
  <2>1. /\ UNCHANGED <<kind, done, loop>> /\ Live(Gnmi) /\ kind = "gnmi"
        /\ \A t \in Stream : t # Gnmi => stream'[t] = stream[t]
    BY <1>0, <1>6, InHand DEF GnmiReceived, Received, GnmiPushed, Pushed
  <2> QED
    BY <1>0, <2>1, GnmiStream
<1>7. CASE \E s \in Stream : SubFailed(s) \/ OutFailed(s) \/ SubCancelled(s) \/ OutCancelled(s)
  BY <1>0, <1>7 DEF SubFailed, OutFailed, SubCancelled, OutCancelled, Failed, PushCancelled, End
<1>8. CASE GnmiFailed \/ GnmiCancelled
  BY <1>0, <1>8, GnmiStream DEF GnmiFailed, GnmiCancelled, CloseDone, End
<1>9. CASE (Outputs /\ UNCHANGED <<rpcVars, grpcVars, gnmiVars>>) \/ UNCHANGED vars
  BY <1>0, <1>9
<1> QED
  BY <1>1, <1>2, <1>3, <1>4, <1>5, <1>6, <1>7, <1>8, <1>9 DEF Next, GrpcNext, GnmiNext, SetUp

(* A stream that is set up has no message in hand: what a cancelled push   *)
(* has left behind belongs to the last context.                            *)
LEMMA SetUpIdle ==
  ASSUME RpcInv, SetUp, NEW s \in Stream, stream'[s] = "recv"
  PROVE  at[s] = NumOut + 1
<1>0. /\ stream \in [Stream -> {"none", "recv", "push", "over"}] /\ at[s] \in 1 .. NumOut + 1
      /\ LoopInv /\ CtxInv /\ HandInv /\ WholeSpray /\ ctx \in Nat /\ watch[s] \in Nat
  BY DEF RpcInv, TypeInv
<1>1. CASE loop = "start" /\ kind # "dialout"
  <2>1. ~Live(s) /\ watch[s] < ctx
    BY <1>0, <1>1 DEF LoopInv, CtxInv
  <2>2. watch[s] \notin cancelled
    BY <1>0, <2>1 DEF CtxInv
  <2> QED
    BY <1>0, <2>1, <2>2 DEF WholeSpray, Live
<1>2. CASE stream[s] \in {"none", "recv"}
  BY <1>0, <1>2 DEF HandInv
<1> QED
  BY <1>0, <1>1, <1>2, GnmiStream DEF SetUp, Dial, Dialout, GnmiSubscribed

(* What a push makes of the stream: the message is on its way to the next  *)
(* output, or another one is in hand, or none.                             *)
LEMMA PushStep ==
  ASSUME RpcInv, NEW s \in Stream, NEW c, Pushed(s, c)
  PROVE  /\ stream[s] = "push" /\ at[s] \in Output
         /\ put' = [put EXCEPT ![at[s]] = Append(@, [from |-> s, num |-> msgs[s]])]
         /\ \A t \in Stream : t # s => /\ stream'[t] = stream[t] /\ watch'[t] = watch[t]
                                       /\ at'[t] = at[t] /\ msgs'[t] = msgs[t]
         /\ \/ at[s] < NumOut /\ at'[s] = at[s] + 1 /\ msgs'[s] = msgs[s] /\ stream'[s] = "push"
            \/ at[s] = NumOut /\ at'[s] = 1 /\ msgs'[s] = msgs[s] + 1 /\ stream'[s] = "push"
            \/ at[s] = NumOut /\ at'[s] = NumOut + 1 /\ msgs'[s] = msgs[s] /\ stream'[s] = "recv"
<1>0. /\ stream \in [Stream -> {"none", "recv", "push", "over"}] /\ watch \in [Stream -> Nat]
      /\ at \in [Stream -> 1 .. NumOut + 1] /\ msgs \in [Stream -> Nat] /\ HandInv
  BY DEF RpcInv, TypeInv
<1>1. /\ stream[s] = "push" /\ at[s] \in Output
      /\ put' = [put EXCEPT ![at[s]] = Append(@, [from |-> s, num |-> msgs[s]])]
  BY <1>0 DEF Pushed, Put, HandInv
<1>2. CASE /\ at[s] < NumOut /\ at' = [at EXCEPT ![s] = @ + 1]
           /\ watch' = [watch EXCEPT ![s] = c] /\ UNCHANGED <<stream, msgs>>
  BY <1>0, <1>1, <1>2
<1>3. CASE at[s] = NumOut /\ TakeInHand(s, c)
  BY <1>0, <1>1, <1>3, InHand
<1>4. CASE /\ at[s] = NumOut /\ at' = [at EXCEPT ![s] = NumOut + 1]
           /\ stream' = [stream EXCEPT ![s] = "recv"] /\ UNCHANGED <<watch, msgs>>
  BY <1>0, <1>1, <1>4
<1> QED
  BY <1>2, <1>3, <1>4 DEF Pushed

(* A stream that may receive has no message in hand. *)
LEMMA RpcHand ==
  ASSUME RpcInv, [Next]_vars PROVE HandInv'
<1>0. /\ stream \in [Stream -> {"none", "recv", "push", "over"}]
      /\ at \in [Stream -> 1 .. NumOut + 1] /\ msgs \in [Stream -> Nat] /\ HandInv
  BY DEF RpcInv, TypeInv
<1>1. CASE UNCHANGED <<streamVars, put>>
  BY <1>0, <1>1 DEF HandInv
<1>2. CASE SetUp
  <2>1. /\ UNCHANGED <<at, msgs>>
        /\ \A s \in Stream : stream'[s] \in {stream[s], "recv", "over"}
    BY <1>0, <1>2, GnmiStream DEF SetUp, Dial, Dialout, GnmiSubscribed
  <2> QED
    BY <1>0, <1>2, <2>1, SetUpIdle DEF HandInv
<1>3. CASE Ends
  BY <1>0, <1>3 DEF Ends, End, HandInv
<1>4. CASE Receives
  <2> PICK s \in Stream : \E c \in {born[s], controlCtx} : Received(s, c)
    BY <1>4 DEF Receives
  <2>1. /\ msgs' = [msgs EXCEPT ![s] = @ + 1] /\ at' = [at EXCEPT ![s] = 1]
        /\ stream' = [stream EXCEPT ![s] = "push"]
    BY InHand DEF Received
  <2> QED
    BY <1>0, <2>1 DEF HandInv
<1>5. CASE Pushes
  <2> PICK s \in Stream : \E c \in {born[s], controlCtx} : Pushed(s, c)
    BY <1>5 DEF Pushes
  <2>1. /\ stream[s] = "push" /\ at[s] \in Output
        /\ \A t \in Stream : t # s => /\ stream'[t] = stream[t]
                                      /\ at'[t] = at[t] /\ msgs'[t] = msgs[t]
        /\ \/ at[s] < NumOut /\ at'[s] = at[s] + 1 /\ msgs'[s] = msgs[s] /\ stream'[s] = "push"
           \/ at[s] = NumOut /\ at'[s] = 1 /\ msgs'[s] = msgs[s] + 1 /\ stream'[s] = "push"
           \/ at[s] = NumOut /\ at'[s] = NumOut + 1 /\ msgs'[s] = msgs[s] /\ stream'[s] = "recv"
    BY PushStep, Zenon
  <2> QED
    BY <1>0, <2>1 DEF HandInv
<1> QED
  BY <1>1, <1>2, <1>3, <1>4, <1>5, StreamStep

(* Adding the next message of a sender, or one of another sender. *)
LEMMA OnceAppend ==
  ASSUME NEW q \in Seq(Msg), NEW m \in Msg, NEW s, NEW n \in Nat, OnceInOrder(q, s, n)
  PROVE  /\ m.from = s /\ m.num = n + 1 => OnceInOrder(Append(q, m), s, n + 1)
         /\ m.from # s => OnceInOrder(Append(q, m), s, n)
<1> DEFINE r == Append(q, m)
<1>1. /\ Len(q) \in Nat /\ DOMAIN q = 1 .. Len(q) /\ DOMAIN r = 1 .. Len(q) + 1
      /\ \A i \in 1 .. Len(q) : r[i] = q[i]
      /\ r[Len(q) + 1] = m
  OBVIOUS
<1>2. /\ {q[i].num : i \in {j \in DOMAIN q : q[j].from = s}} = 1 .. n
      /\ \A i, j \in DOMAIN q : i < j /\ q[i].from = s /\ q[j].from = s => q[i].num < q[j].num
  BY DEF OnceInOrder, Numbers, InOrder
<1> HIDE DEF r
<1>3. \A i \in DOMAIN r : i \in DOMAIN q \/ i = Len(q) + 1
  BY <1>1
<1>4. \A i \in DOMAIN q : i \in DOMAIN r /\ r[i] = q[i] /\ i < Len(q) + 1 /\ i \in Nat
  BY <1>1
<1>5. \A i \in DOMAIN q : q[i].from = s => q[i].num \in 1 .. n
  BY <1>2
<1>6. ASSUME m.from = s, m.num = n + 1 PROVE OnceInOrder(r, s, n + 1)
  <2>1. Numbers(r, s) = 1 .. n + 1
    <3>1. ASSUME NEW k \in 1 .. n + 1 PROVE k \in Numbers(r, s)
      <4>1. CASE k = n + 1
        BY <1>1, <1>6, <4>1 DEF Numbers
      <4>2. CASE k # n + 1
        <5>1. k \in 1 .. n
          BY <4>2
        <5>2. PICK i \in DOMAIN q : q[i].from = s /\ q[i].num = k
          BY <1>2, <5>1, Zenon
        <5> QED
          BY <1>4, <5>2 DEF Numbers
      <4> QED
        BY <4>1, <4>2
    <3>2. ASSUME NEW k \in Numbers(r, s) PROVE k \in 1 .. n + 1
      <4>1. PICK i \in DOMAIN r : r[i].from = s /\ r[i].num = k
        BY DEF Numbers
      <4> QED
        BY <1>1, <1>3, <1>4, <1>5, <1>6, <4>1
    <3> QED
      BY <3>1, <3>2, Zenon
  <2>2. ASSUME NEW i \in DOMAIN r, NEW j \in DOMAIN r, i < j, r[i].from = s, r[j].from = s
        PROVE  r[i].num < r[j].num
    <3>1. i \in DOMAIN q
      BY <1>1, <2>2
    <3>2. CASE j \in DOMAIN q
      BY <1>2, <1>4, <2>2, <3>1, <3>2
    <3>3. CASE j = Len(q) + 1
      BY <1>1, <1>4, <1>5, <1>6, <2>2, <3>1, <3>3
    <3> QED
      BY <1>3, <3>2, <3>3
  <2> QED
    BY <2>1, <2>2 DEF OnceInOrder, InOrder
<1>7. ASSUME m.from # s PROVE OnceInOrder(r, s, n)
  <2>1. \A i \in DOMAIN r : r[i].from = s => i \in DOMAIN q
    BY <1>1, <1>3, <1>7
  <2>2. Numbers(r, s) = 1 .. n
    <3>1. ASSUME NEW k \in 1 .. n PROVE k \in Numbers(r, s)
      <4>1. PICK i \in DOMAIN q : q[i].from = s /\ q[i].num = k
        BY <1>2, Zenon
      <4> QED
        BY <1>4, <4>1 DEF Numbers
    <3>2. ASSUME NEW k \in Numbers(r, s) PROVE k \in 1 .. n
      <4>1. PICK i \in DOMAIN r : r[i].from = s /\ r[i].num = k
        BY DEF Numbers
      <4> QED
        BY <1>4, <1>5, <2>1, <4>1
    <3> QED
      BY <3>1, <3>2, Zenon
  <2>3. InOrder(r, s)
    BY <1>2, <1>4, <2>1 DEF InOrder
  <2> QED
    BY <2>2, <2>3 DEF OnceInOrder
<1> QED
  BY <1>6, <1>7 DEF r

(* The messages of stream s that output o has, and what a stream that has *)
(* not finished its spray is.                                              *)
Sent(o, s) == IF o >= at[s] THEN msgs[s] - 1 ELSE msgs[s]
CutShort(s) == at[s] <= NumOut => stream[s] = "push" \/ watch[s] \in cancelled

(* The spray is kept whole. *)
LEMMA RpcSpray ==
  ASSUME RpcInv, [Next]_vars PROVE WholeSpray'
<1>0. /\ stream \in [Stream -> {"none", "recv", "push", "over"}] /\ watch \in [Stream -> Nat]
      /\ at \in [Stream -> 1 .. NumOut + 1] /\ msgs \in [Stream -> Nat] /\ put \in [Output -> Seq(Msg)]
      /\ HandInv
      /\ \A s \in Stream : CutShort(s) /\ \A o \in Output : OnceInOrder(put[o], s, Sent(o, s))
  BY DEF RpcInv, TypeInv, WholeSpray, CutShort, Sent
<1>1. kind' = kind /\ cancelled \subseteq cancelled'
  BY StreamStep
<1> SUFFICES ASSUME NEW s \in Stream
             PROVE  CutShort(s)' /\ \A o \in Output : OnceInOrder(put'[o], s, Sent(o, s)')
  BY DEF WholeSpray, CutShort, Sent
<1>2. CASE UNCHANGED <<streamVars, put>>
  BY <1>0, <1>1, <1>2 DEF CutShort, Sent
<1>3. CASE SetUp /\ UNCHANGED put
  <2>1. /\ UNCHANGED <<at, msgs, watch>>
        /\ \A t \in Stream : stream'[t] = stream[t] \/ (stream'[t] \in {"recv", "over"} /\ ~Live(t))
    <3>1. CASE \E ok \in SUBSET Stream : Dial(ok)
      BY <1>0, <3>1 DEF Dial, RpcInv, LoopInv
    <3>2. CASE \E t \in Stream : Dialout(t)
      BY <1>0, <3>2 DEF Dialout, Live
    <3>3. CASE GnmiSubscribed
      BY <1>0, <3>3, GnmiStream DEF GnmiSubscribed, RpcInv, LoopInv
    <3> QED
      BY <1>3, <3>1, <3>2, <3>3 DEF SetUp
  <2>2. CutShort(s)'
    BY <1>0, <1>1, <2>1 DEF CutShort, Live
  <2>3. \A o \in Output : Sent(o, s)' = Sent(o, s) /\ put'[o] = put[o]
    BY <1>3, <2>1 DEF Sent
  <2> QED
    BY <1>0, <2>2, <2>3
<1>4. CASE Ends /\ UNCHANGED put
  <2>1. CutShort(s)'
    BY <1>0, <1>1, <1>4 DEF Ends, End, CutShort, HandInv
  <2>2. \A o \in Output : Sent(o, s)' = Sent(o, s) /\ put'[o] = put[o]
    BY <1>4 DEF Sent, Ends, End
  <2> QED
    BY <1>0, <2>1, <2>2
<1>5. CASE Receives /\ UNCHANGED put
  <2> PICK t \in Stream : \E c \in {born[t], controlCtx} : Received(t, c)
    BY <1>5 DEF Receives
  <2> PICK c \in {born[t], controlCtx} : Received(t, c)
    OBVIOUS
  <2>1. /\ msgs' = [msgs EXCEPT ![t] = @ + 1] /\ at' = [at EXCEPT ![t] = 1]
        /\ stream' = [stream EXCEPT ![t] = "push"] /\ watch' = [watch EXCEPT ![t] = c]
        /\ at[t] = NumOut + 1
    BY <1>0, InHand DEF Received, HandInv
  <2>2. CutShort(s)'
    BY <1>0, <1>1, <2>1 DEF CutShort
  <2>3. \A o \in Output : Sent(o, s)' = Sent(o, s) /\ put'[o] = put[o]
    BY <1>0, <1>5, <2>1, SMTT(30) DEF Sent
  <2> QED
    BY <1>0, <2>2, <2>3, Zenon
<1>6. CASE Pushes
  <2> PICK t \in Stream : \E c \in {born[t], controlCtx} : Pushed(t, c)
    BY <1>6 DEF Pushes
  <2> DEFINE m == [from |-> t, num |-> msgs[t]]
  <2>1. /\ stream[t] = "push" /\ at[t] \in Output
        /\ put' = [put EXCEPT ![at[t]] = Append(@, m)]
        /\ \A u \in Stream : u # t => /\ stream'[u] = stream[u] /\ watch'[u] = watch[u]
                                      /\ at'[u] = at[u] /\ msgs'[u] = msgs[u]
        /\ \/ at[t] < NumOut /\ at'[t] = at[t] + 1 /\ msgs'[t] = msgs[t] /\ stream'[t] = "push"
           \/ at[t] = NumOut /\ at'[t] = 1 /\ msgs'[t] = msgs[t] + 1 /\ stream'[t] = "push"
           \/ at[t] = NumOut /\ at'[t] = NumOut + 1 /\ msgs'[t] = msgs[t] /\ stream'[t] = "recv"
    BY PushStep
  <2>2. m \in Msg /\ m.from = t /\ m.num = msgs[t] /\ msgs[t] \in Nat /\ msgs[t] > 0 /\ at[t] \in Nat
    BY <1>0, <2>1 DEF Msg, HandInv
  <2> HIDE DEF m
  <2>3. CutShort(s)'
    <3>1. CASE s = t
      <4>1. stream'[t] = "push" \/ at'[t] = NumOut + 1
        BY <2>1
      <4> QED
        BY <3>1, <4>1 DEF CutShort
    <3>2. CASE s # t
      <4>1. CutShort(s) /\ stream'[s] = stream[s] /\ watch'[s] = watch[s] /\ at'[s] = at[s]
        BY <1>0, <2>1, <3>2, Zenon
      <4> QED
        BY <1>1, <4>1 DEF CutShort
    <3> QED
      BY <3>1, <3>2
  <2>4. ASSUME NEW o \in Output PROVE OnceInOrder(put'[o], s, Sent(o, s)')
    <3>1. /\ put[o] \in Seq(Msg) /\ OnceInOrder(put[o], s, Sent(o, s))
          /\ put'[o] = IF o = at[t] THEN Append(put[o], m) ELSE put[o]
      BY <1>0, <2>1, Zenon
    <3>2. Sent(o, s) \in Nat
      <4>1. at[s] \in 1 .. NumOut + 1 /\ msgs[s] \in Nat /\ (at[s] <= NumOut => msgs[s] > 0)
        BY <1>0 DEF HandInv
      <4>2. CASE o >= at[s]
        <5>1. msgs[s] > 0
          BY <4>1, <4>2
        <5>2. Sent(o, s) = msgs[s] - 1
          BY <4>2 DEF Sent
        <5> QED
          BY <4>1, <5>1, <5>2
      <4>3. CASE ~(o >= at[s])
        BY <4>1, <4>3 DEF Sent
      <4> QED
        BY <4>2, <4>3
    <3>3. CASE o = at[t] /\ s = t
      <4>1. Sent(o, s)' = msgs[t] /\ Sent(o, s) = msgs[t] - 1
        BY <2>1, <2>2, <3>3 DEF Sent
      <4>2. m.num = Sent(o, s) + 1 /\ Sent(o, s)' = Sent(o, s) + 1
        BY <2>2, <4>1
      <4> QED
        BY <2>2, <3>1, <3>2, <3>3, <4>2, OnceAppend
    <3>4. CASE o = at[t] /\ s # t
      <4>1. Sent(o, s)' = Sent(o, s)
        BY <2>1, <3>4, Zenon DEF Sent
      <4> QED
        BY <2>2, <3>1, <3>2, <3>4, <4>1, OnceAppend, Zenon
    <3>5. CASE o # at[t]
      <4>1. Sent(o, s)' = Sent(o, s)
        BY <2>1, <2>2, <3>5 DEF Sent
      <4> QED
        BY <3>1, <3>5, <4>1
    <3> QED
      BY <3>3, <3>4, <3>5
  <2> QED
    BY <2>3, <2>4
<1> QED
  BY <1>2, <1>3, <1>4, <1>5, <1>6, StreamStep

(* The invariant holds of every behaviour of the input, of any kind. *)
THEOREM RpcInvariant == Spec => []RpcInv
<1>1. RpcInv /\ [Next]_vars => RpcInv'
  BY RpcType, RpcLoop, RpcCtx, RpcHand, RpcSpray DEF RpcInv
<1> QED
  BY RpcInitInv, <1>1, PTL DEF Spec

(* Every message of a stream of the gRPC and gNMI inputs goes to every     *)
(* output, once and in order, over all the reconnections.                  *)
THEOREM RpcWholeSpray == Spec => []WholeSpray
<1>1. RpcInv => WholeSpray
  BY DEF RpcInv
<1> QED
  BY RpcInvariant, <1>1, PTL

(* run() starts a sticky loop only when the last one has returned and, as  *)
(* a client, has no goroutine left for a subscription.                     *)
THEOREM RpcOneLoop == Spec => OneLoop
<1>1. ASSUME RpcInv, [Next]_vars
      PROVE  ctx' # ctx => /\ loop = "none"
                           /\ kind # "dialout" => \A s \in Stream : ~Live(s)
  <2>1. ctx' # ctx => Retry
    BY <1>1, ContextStep
  <2> QED
    BY <1>1, <2>1 DEF Retry, RpcInv, LoopInv
<1> QED
  BY RpcInvariant, <1>1, PTL DEF Spec, OneLoop

=============================================================================
