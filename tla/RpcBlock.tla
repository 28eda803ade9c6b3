------------------------------ MODULE RpcBlock ------------------------------
(***************************************************************************)
(* What the gRPC and the gNMI inputs share (xport_grpc.go, xport_gnmi.go): *)
(* run(), the control loop that starts a sticky loop under a context of    *)
(* its own and starts another when that one has closed childrenDone        *)
(* (clientDone in the gNMI input); and the streams the messages come from. *)
(***************************************************************************)
EXTENDS DataChannels
LOCAL INSTANCE Functions

CONSTANTS
  Kinds,    \* "dialin", "dialout" (gRPC roles) and "gnmi": those considered
  Stream,   \* subscriptions (dialin) or dialout streams
  MaxCtx,   \* bound: sticky loops started
  MaxMsg    \* bound: messages received, by all streams

ASSUME RpcAssumption ==
  /\ NumOut > 0 /\ Stream # {}
  /\ Kinds \subseteq {"dialin", "dialout", "gnmi"}
  /\ MaxCtx \in Nat /\ MaxMsg \in Nat

VARIABLES
  kind,      \* which input this is
  asked,     \* the conductor is sending, or has sent, SHUTDOWN: "no", "yes"
  block,     \* run(): "select", "sleep", "wait" for the children, "acked"
  done,      \* childrenDone: "open", "closed"
  ctx,       \* the current context, 0 before the first (cancel is nil)
  cancelled, \* contexts that have been cancelled
  loop,      \* "prime" the goroutine that closes childrenDone first; the
             \* sticky loop: "start", "serving", "none" returned, "fatal"
             \* returned without closing childrenDone; "panic"
  stream,    \* per stream: "none", "recv", "push", "over"
  born,      \* per stream: the context it was set up under
  watch,     \* per stream: the context its blocked select looks at
  at,        \* per stream: the output the message in hand goes to next
  msgs       \* per stream: messages received so far

runVars    == <<asked, block>>
loopVars   == <<done, ctx, cancelled, loop>>
streamVars == <<stream, born, watch, at, msgs>>
rpcVars    == <<kind, runVars, loopVars, streamVars>>

Live(s) == stream[s] \in {"recv", "push"}

RpcInit ==
  /\ kind \in Kinds
  /\ asked = "no" /\ block = "select" /\ done = "open"
  /\ ctx = 0 /\ cancelled = {} /\ loop = "prime"
  /\ stream = [s \in Stream |-> "none"]
  /\ born = [s \in Stream |-> 0] /\ watch = [s \in Stream |-> 0]
  /\ at = [s \in Stream |-> NumOut + 1] /\ msgs = [s \in Stream |-> 0]

-----------------------------------------------------------------------------
(* run() *)

(* Prime the pump. *)
Prime ==
  /\ loop = "prime"
  /\ loop' = "none" /\ done' = "closed"
  /\ UNCHANGED <<kind, runVars, ctx, cancelled, streamVars, chanVars>>

(* childrenDone is closed: a new context, a new channel, a new sticky loop *)
(* and a pause.  The cancel function of the last context is forgotten.     *)
Retry ==
  /\ block = "select" /\ done = "closed" /\ ctx < MaxCtx
  /\ ctx' = ctx + 1 /\ done' = "open"
  /\ loop' = "start" /\ block' = "sleep"
  /\ UNCHANGED <<kind, asked, cancelled, streamVars, chanVars>>

SleepOver ==
  /\ block = "sleep"
  /\ block' = "select"
  /\ UNCHANGED <<kind, asked, loopVars, streamVars, chanVars>>

(* The conductor sends SHUTDOWN; the control channel is not buffered. *)
Ask ==
  /\ asked = "no"
  /\ asked' = "yes"
  /\ UNCHANGED <<kind, block, loopVars, streamVars, chanVars>>

-----------------------------------------------------------------------------
(* The sticky loop returns and run() is told. *)
CloseDone ==
  /\ loop' = "none" /\ done' = "closed"
  /\ UNCHANGED <<ctx, cancelled>>

-----------------------------------------------------------------------------
(* The streams: singleSubscription, MdtDialout, and the loop of gNMI. *)

(* A message is in hand, to be sent to every output.  control is the       *)
(* context that the select statements on the way look at.                  *)
TakeInHand(s, control) ==
  /\ FoldFunction(+, 0, msgs) < MaxMsg
  /\ msgs' = [msgs EXCEPT ![s] = @ + 1]
  /\ at' = [at EXCEPT ![s] = 1]
  /\ watch' = [watch EXCEPT ![s] = control]
  /\ stream' = [stream EXCEPT ![s] = "push"]

End(s) ==
  /\ stream' = [stream EXCEPT ![s] = "over"]
  /\ UNCHANGED <<born, watch, at, msgs>>

(* Recv returns a block of which at least one message is made.  (A block   *)
(* of none changes nothing.)                                               *)
Received(s, control) ==
  /\ stream[s] = "recv"
  /\ TakeInHand(s, control)
  /\ UNCHANGED <<kind, runVars, loopVars, born, chanVars>>

(* Recv returns an error, a block that says so, or one that does not       *)
(* decode.                                                                 *)
Failed(s) ==
  /\ stream[s] = "recv"
  /\ End(s)
  /\ UNCHANGED <<kind, runVars, loopVars, chanVars>>

(* Faulty: does not wait for room in a channel. *)
PushedOrSkipped(s, control) ==
  /\ stream[s] = "push"
  /\ IF Full(at[s]) THEN UNCHANGED chanVars ELSE Put(at[s], [from |-> s, num |-> msgs[s]])
  /\ at' = [at EXCEPT ![s] = @ + 1]
  /\ stream' = [stream EXCEPT ![s] = IF at[s] < NumOut THEN "push" ELSE "recv"]
  /\ watch' = [watch EXCEPT ![s] = control]
  /\ UNCHANGED <<kind, runVars, loopVars, born, msgs>>

(* A push goes through: the message goes to the next output; or it was     *)
(* the last one, and another message of the block or the next Recv follows. *)
Pushed(s, control) ==
  /\ stream[s] = "push"
  /\ Put(at[s], [from |-> s, num |-> msgs[s]])
  /\ \/ /\ at[s] < NumOut
        /\ at' = [at EXCEPT ![s] = @ + 1]
        /\ watch' = [watch EXCEPT ![s] = control]
        /\ UNCHANGED <<stream, msgs>>
     \/ /\ at[s] = NumOut
        /\ TakeInHand(s, control)
     \/ /\ at[s] = NumOut
        /\ at' = [at EXCEPT ![s] = NumOut + 1]
        /\ stream' = [stream EXCEPT ![s] = "recv"]
        /\ UNCHANGED <<watch, msgs>>
  /\ UNCHANGED <<kind, runVars, loopVars, born>>

(* Faulty: a blocked push does not see the context. *)
PushCancelledNever(s) ==
  /\ FALSE
  /\ UNCHANGED <<kind, runVars, loopVars, streamVars, chanVars>>

PushCancelled(s) ==
  /\ stream[s] = "push" /\ watch[s] \in cancelled
  /\ End(s)
  /\ UNCHANGED <<kind, runVars, loopVars, chanVars>>

=============================================================================
