------------------------------- MODULE GrpcIn -------------------------------
(***************************************************************************)
(* The gRPC input (xport_grpc.go) in its two roles: dialin, where it is    *)
(* the client of a router and each subscription has a goroutine, and       *)
(* dialout, where it is the server that routers stream to.                 *)
(***************************************************************************)
EXTENDS RpcBlock

VARIABLE controlCtx  \* control_ctx of the dialout server

grpcVars == controlCtx

GrpcInit == controlCtx = 0

(* Faulty: waits for the children and does not cancel them. *)
GrpcShutdownNoCancel ==
  /\ block = "select" /\ asked = "yes"
  /\ block' = IF ctx = 0 THEN "acked" ELSE "wait"
  /\ UNCHANGED <<kind, asked, loopVars, streamVars, controlCtx, chanVars>>

(* SHUTDOWN: cancel(), if there is one, and wait for the children. *)
GrpcShutdown ==
  /\ block = "select" /\ asked = "yes"
  /\ cancelled' = IF ctx = 0 THEN cancelled ELSE cancelled \union {ctx}
  /\ block' = IF ctx = 0 THEN "acked" ELSE "wait"
  /\ UNCHANGED <<kind, asked, done, ctx, loop, streamVars, controlCtx, chanVars>>

(* <-c.childrenDone, then ACK. *)
GrpcAck ==
  /\ block = "wait" /\ done = "closed"
  /\ block' = "acked"
  /\ UNCHANGED <<kind, asked, loopVars, streamVars, controlCtx, chanVars>>

GrpcRun ==
  /\ kind # "gnmi"
  /\ \/ (Prime \/ Retry \/ SleepOver \/ Ask) /\ UNCHANGED controlCtx
     \/ GrpcShutdown \/ GrpcAck

-----------------------------------------------------------------------------
(* Either stickyLoop: an encoding that cannot be requested, no codec, TLS  *)
(* credentials that do not load.  "fatal, no retry".  The dialout server   *)
(* looks for the codec before it sets control_ctx and at TLS after.        *)
GrpcFatal ==
  /\ kind # "gnmi" /\ loop = "start"
  /\ loop' = "fatal"
  /\ controlCtx' \in IF kind = "dialout" THEN {controlCtx, ctx} ELSE {controlCtx}
  /\ UNCHANGED <<kind, runVars, done, ctx, cancelled, streamVars, chanVars>>

-----------------------------------------------------------------------------
DialFails ==
  /\ kind = "dialin" /\ loop = "start"
  /\ CloseDone
  /\ UNCHANGED <<kind, runVars, streamVars, controlCtx, chanVars>>

(* Dial succeeds; CreateSubs may fail for some of the subscriptions, and   *)
(* the others get a goroutine.                                             *)
Dial(ok) ==
  /\ kind = "dialin" /\ loop = "start"
  /\ loop' = "serving"
  /\ stream' = [s \in Stream |-> IF s \in ok THEN "recv" ELSE "over"]
  /\ born' = [s \in Stream |-> IF s \in ok THEN ctx ELSE born[s]]
  /\ UNCHANGED <<kind, runVars, done, ctx, cancelled, watch, at, msgs, controlCtx, chanVars>>

(* singleSubscription looks at the context when Recv has returned. *)
SubReceived(s) ==
  /\ kind = "dialin"
  /\ born[s] \notin cancelled
  /\ Received(s, born[s])
  /\ UNCHANGED controlCtx

SubFailed(s) ==
  /\ kind = "dialin"
  /\ Failed(s)
  /\ UNCHANGED controlCtx

(* When the context is cancelled Recv returns, and what is left is drained. *)
SubDrained(s) == born[s] \in cancelled /\ SubFailed(s)

SubPushed(s) == kind = "dialin" /\ Pushed(s, born[s]) /\ UNCHANGED controlCtx

SubCancelled(s) == kind = "dialin" /\ PushCancelled(s) /\ UNCHANGED controlCtx

(* Faulty: closes childrenDone while subscriptions are being served. *)
AllClosedNoWait ==
  /\ kind = "dialin" /\ loop = "serving"
  /\ CloseDone
  /\ UNCHANGED <<kind, runVars, streamVars, controlCtx, chanVars>>

(* wg.Wait() returns. *)
AllClosed ==
  /\ kind = "dialin" /\ loop = "serving"
  /\ \A s \in Stream : ~Live(s)
  /\ CloseDone
  /\ UNCHANGED <<kind, runVars, streamVars, controlCtx, chanVars>>

-----------------------------------------------------------------------------
ListenFails ==
  /\ kind = "dialout" /\ loop = "start"
  /\ controlCtx' = ctx
  /\ CloseDone
  /\ UNCHANGED <<kind, runVars, streamVars, chanVars>>

Listen ==
  /\ kind = "dialout" /\ loop = "start"
  /\ controlCtx' = ctx
  /\ loop' = "serving"
  /\ UNCHANGED <<kind, runVars, done, ctx, cancelled, streamVars, chanVars>>

(* A router opens a stream. *)
Dialout(s) ==
  /\ kind = "dialout" /\ loop = "serving" /\ stream[s] = "none"
  /\ stream' = [stream EXCEPT ![s] = "recv"]
  /\ born' = [born EXCEPT ![s] = ctx]
  /\ UNCHANGED <<kind, runVars, loopVars, watch, at, msgs, controlCtx, chanVars>>

(* MdtDialout does not look at a context here.  (Even when the server has  *)
(* been stopped a message that was already in may come first.)             *)
OutReceived(s) == kind = "dialout" /\ Received(s, controlCtx) /\ UNCHANGED controlCtx

OutFailed(s) == kind = "dialout" /\ Failed(s) /\ UNCHANGED controlCtx

(* "Recv will error out if server is stopped" *)
Stopped(s)  == loop # "serving" \/ born[s] # ctx
OutEnded(s) == Stopped(s) /\ OutFailed(s)

OutPushed(s) == kind = "dialout" /\ Pushed(s, controlCtx) /\ UNCHANGED controlCtx

OutCancelled(s) == kind = "dialout" /\ PushCancelled(s) /\ UNCHANGED controlCtx

(* Cancelled, or Serve has returned because accept failed: grpcServer      *)
(* .Stop(), which closes the connections and does not wait for handlers.   *)
StopServer ==
  /\ kind = "dialout" /\ loop = "serving"
  /\ CloseDone
  /\ UNCHANGED <<kind, runVars, streamVars, controlCtx, chanVars>>

SeeCancel    == ctx \in cancelled /\ StopServer
AcceptFailed == StopServer

-----------------------------------------------------------------------------
GrpcNext ==
  \/ GrpcRun
  \/ GrpcFatal \/ DialFails \/ (\E ok \in SUBSET Stream : Dial(ok)) \/ AllClosed
  \/ \E s \in Stream : SubReceived(s) \/ SubFailed(s) \/ SubPushed(s) \/ SubCancelled(s)
  \/ ListenFails \/ Listen \/ AcceptFailed
  \/ \E s \in Stream : Dialout(s) \/ OutReceived(s) \/ OutFailed(s) \/ OutPushed(s) \/ OutCancelled(s)

=============================================================================
