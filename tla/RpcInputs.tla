------------------------------ MODULE RpcInputs ------------------------------
(***************************************************************************)
(* A gRPC or gNMI input, in any of its kinds, feeding the outputs.         *)
(***************************************************************************)
EXTENDS GrpcIn, GnmiIn

vars == <<rpcVars, grpcVars, gnmiVars, chanVars>>

Init == ChanInit /\ RpcInit /\ GrpcInit /\ GnmiInit

Outputs == \E o \in Output : Take(o) \/ OutputDies(o)

(* A panic ends the process. *)
Next ==
  /\ loop # "panic"
  /\ \/ GrpcNext /\ UNCHANGED gnmiVars
     \/ GnmiNext /\ UNCHANGED grpcVars
     \/ Outputs /\ UNCHANGED <<rpcVars, grpcVars, gnmiVars>>

(* What a goroutine does without help from the peer: setting up ends, one  *)
(* way or another; a cancelled context, or a stopped server, ends Recv.    *)
SetsUp ==
  \/ DialFails \/ (\E ok \in SUBSET Stream : Dial(ok)) \/ GrpcFatal
  \/ Listen \/ ListenFails

(* Goroutines that can run do run, and a select that is offered SHUTDOWN   *)
(* again and again takes it.  Outputs need not service their channels.     *)
Fairness ==
  /\ WF_vars((Prime \/ Retry \/ SleepOver) /\ UNCHANGED <<grpcVars, gnmiVars>>)
  /\ SF_vars(GrpcRun /\ GrpcShutdown /\ UNCHANGED gnmiVars)
  /\ SF_vars(GnmiRun /\ GnmiShutdown /\ UNCHANGED grpcVars)
  /\ WF_vars((GrpcAck \/ SetsUp \/ AllClosed \/ SeeCancel) /\ UNCHANGED gnmiVars)
  /\ WF_vars((GnmiSetupFails \/ GnmiPathPanics \/ GnmiSubscribed) /\ UNCHANGED grpcVars)
  /\ WF_vars((GnmiDrained \/ GnmiCancelled) /\ UNCHANGED grpcVars)
  /\ \A s \in Stream :
       WF_vars((SubDrained(s) \/ SubCancelled(s) \/ OutEnded(s) \/ OutCancelled(s)) /\ UNCHANGED gnmiVars)

Spec == Init /\ [][Next]_vars /\ Fairness

-----------------------------------------------------------------------------
TypeOK ==
  /\ kind \in Kinds /\ asked \in {"no", "yes"}
  /\ block \in {"select", "sleep", "wait", "acked"} /\ done \in {"open", "closed"}
  /\ ctx \in 0 .. MaxCtx /\ cancelled \subseteq 1 .. MaxCtx
  /\ loop \in {"prime", "none", "start", "serving", "fatal", "panic"}
  /\ stream \in [Stream -> {"none", "recv", "push", "over"}]
  /\ born \in [Stream -> 0 .. MaxCtx] /\ watch \in [Stream -> 0 .. MaxCtx]
  /\ at \in [Stream -> 1 .. NumOut + 1] /\ msgs \in [Stream -> 0 .. MaxMsg]
  /\ controlCtx \in 0 .. MaxCtx /\ filters \in {"none", "some"}
  /\ \A o \in Output : Queued(o) \in 0 .. Depth

(* Every message of a stream goes to every output, once and in order, over *)
(* all the reconnections: only a push in progress when the input is being  *)
(* shut down is cut short.                                                 *)
WholeSpray ==
  \A s \in Stream :
    /\ \A o \in Output :
         OnceInOrder(put[o], s, IF o >= at[s] THEN msgs[s] - 1 ELSE msgs[s])
    /\ at[s] <= NumOut => stream[s] = "push" \/ watch[s] \in cancelled

(* "wait for cancellation to complete synchronously": when run() has       *)
(* acknowledged SHUTDOWN nothing feeds the outputs any more.               *)
AckMeansQuiet == [][block = "acked" => put' = put]_vars

(* A sticky loop is started only when the last one has returned and, where *)
(* pipeline is the client, none of its subscriptions is served any more:   *)
(* there are never two goroutines for the same subscription.               *)
OneLoop ==
  [][ctx' # ctx =>
       /\ loop = "none"
       /\ kind # "dialout" => \A s \in Stream : ~Live(s)]_vars

(* SHUTDOWN is acknowledged even when the outputs are full and have        *)
(* stopped, or no peer can be reached; except by a gRPC input that has     *)
(* given up, which waits for childrenDone for ever.                        *)
ShutdownAcked == asked = "yes" ~> block = "acked" \/ loop \in {"fatal", "panic"}

(* Cancelling the context ends every stream, blocked in Recv or in a push, *)
(* other than a dialout stream whose push looks at an earlier context.     *)
CancelEndsStreams ==
  \A s \in Stream :
    ctx \in cancelled /\ Live(s) ~>
      \/ ~Live(s) \/ loop = "panic"
      \/ kind = "dialout" /\ stream[s] = "push" /\ watch[s] < ctx

=============================================================================
