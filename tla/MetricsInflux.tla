--------------------------- MODULE MetricsInflux ---------------------------
(***************************************************************************)
(* The metrics output module with its Influx back end: the control loop    *)
(* (metrics.go), the router with the policy setupWorkers() gives it, and   *)
(* one worker per output channel (metrics_influx.go).                      *)
(***************************************************************************)
EXTENDS MessageRouter

CONSTANT ClientOK    \* getUP() and NewHTTPClient() succeed, or are not called
                     \* (standalone); both depend on the configuration only,
                     \* so they always succeed or never do

VARIABLES
  lastWorker,  \* o.lastWorker
  attempts,    \* handleMsg()'s loop counter, passed to the policy
  seenFull,    \* history: channels this message was found not to fit in
  wk,          \* per worker: where its goroutine is
  ctrl         \* the control loop: "run", "wait" in shutdownSyncPoint.Wait(),
               \* "acked" after it has answered SHUTDOWN and returned

policyVars == <<lastWorker, attempts, seenFull>>
influxVars == <<routerVars, policyVars, wk, ctrl>>

Init ==
  /\ RouterInit
  /\ lastWorker = 0 /\ attempts = 0 /\ seenFull = {}
  /\ wk = [k \in Out |-> "connect"]
  /\ ctrl = "run"

-----------------------------------------------------------------------------
(* The router under the policy of setupWorkers(). *)

NewMsg ==
  /\ TakeMsg \/ DrainMsg
  /\ attempts' = 0 /\ seenFull' = {}
  /\ UNCHANGED <<lastWorker, wk, ctrl>>

(* Faulty: the worker index is not advanced, so that a congested worker is *)
(* tried over and over.                                                    *)
StickyRoute ==
  /\ Route(lastWorker)
  /\ seenFull' = IF HasRoom(lastWorker) THEN seenFull ELSE seenFull \union {lastWorker}
  /\ UNCHANGED <<lastWorker, attempts, wk, ctrl>>

(* route: round robin, one worker on at every attempt *)
RoundRobin ==
  LET k == (lastWorker + 1) % NumOut IN
  /\ Route(k)
  /\ lastWorker' = k
  /\ seenFull' = IF HasRoom(k) THEN seenFull ELSE seenFull \union {k}
  /\ UNCHANGED <<attempts, wk, ctrl>>

(* handleCongested: reroute while attempts < workers, then give up *)
HuntOrDrop ==
  /\ \/ attempts < NumOut /\ Reroute /\ attempts' = attempts + 1
     \/ attempts >= NumOut /\ Drop /\ UNCHANGED attempts
  /\ UNCHANGED <<lastWorker, seenFull, wk, ctrl>>

Router ==
  \/ NewMsg \/ RoundRobin \/ HuntOrDrop
  \/ (SeeShutdown \/ DrainDone \/ CloseNext \/ Send) /\ UNCHANGED <<policyVars, wk, ctrl>>

-----------------------------------------------------------------------------
(* A worker.  "connect" is the loop that sets up the client, retrying      *)
(* every two seconds; "recv" waits for a message, "write" has a batch in   *)
(* hand; "gone" has returned, after shutdownSyncPoint.Done().              *)

WorkerConnect(k) ==
  /\ wk[k] = "connect"
  /\ ClientOK
  /\ wk' = [wk EXCEPT ![k] = "recv"]
  /\ UNCHANGED <<routerVars, policyVars, ctrl>>

WorkerRecv(k) ==
  /\ wk[k] = "recv"
  /\ Consume(k)
  /\ wk' = [wk EXCEPT ![k] = "write"]
  /\ UNCHANGED <<policyVars, ctrl>>

(* produceMetrics() fails, there are no points, or the points are written  *)
(* (dumped, in standalone mode).  The client is made without a timeout:    *)
(* Write() may also never return.                                          *)
WorkerWrite(k) ==
  /\ wk[k] = "write"
  /\ wk' = [wk EXCEPT ![k] = "recv"]
  /\ UNCHANGED <<routerVars, policyVars, ctrl>>

(* Write() fails: the batch is counted and forgotten, and the worker goes  *)
(* back to set up a new client.                                            *)
WorkerWriteFails(k) ==
  /\ wk[k] = "write"
  /\ wk' = [wk EXCEPT ![k] = "connect"]
  /\ UNCHANGED <<routerVars, policyVars, ctrl>>

(* msg, ok := <-w.dataChan; !ok only when the channel is closed and empty *)
WorkerClosed(k) ==
  /\ wk[k] = "recv"
  /\ InFlight(k) = 0 /\ k < closed
  /\ wk' = [wk EXCEPT ![k] = "gone"]
  /\ UNCHANGED <<routerVars, policyVars, ctrl>>

WorkerOnItsOwn(k) == WorkerConnect(k) \/ WorkerRecv(k) \/ WorkerClosed(k)

Worker(k) == WorkerOnItsOwn(k) \/ WorkerWrite(k) \/ WorkerWriteFails(k)

-----------------------------------------------------------------------------
(* The control loop, and the input stages. *)

InputArrives == Arrive /\ UNCHANGED <<policyVars, wk, ctrl>>

Shutdown ==
  /\ ctrl = "run"
  /\ CloseShutdownChan
  /\ ctrl' = "wait"
  /\ UNCHANGED <<policyVars, wk>>

(* Faulty: answers without waiting for the workers. *)
AckAtOnce ==
  /\ ctrl = "wait"
  /\ ctrl' = "acked"
  /\ UNCHANGED <<routerVars, policyVars, wk>>

(* m.shutdownSyncPoint.Wait(), then ACK *)
Ack ==
  /\ ctrl = "wait"
  /\ \A k \in Out : wk[k] = "gone"
  /\ ctrl' = "acked"
  /\ UNCHANGED <<routerVars, policyVars, wk>>

Next == Router \/ (\E k \in Out : Worker(k)) \/ InputArrives \/ Shutdown \/ Ack

(* Goroutines that can run do run.  Nothing is assumed of the server, and  *)
(* so of Write().                                                          *)
Fairness ==
  /\ WF_influxVars(Router)
  /\ \A k \in Out : WF_influxVars(WorkerOnItsOwn(k))
  /\ WF_influxVars(Ack)

Spec == Init /\ [][Next]_influxVars /\ Fairness

-----------------------------------------------------------------------------
(* Properties *)

TypeOK ==
  /\ RouterTypeOK
  /\ lastWorker \in Out /\ attempts \in 0 .. NumOut /\ seenFull \subseteq Out
  /\ wk \in [Out -> {"connect", "recv", "write", "gone"}]
  /\ ctrl \in {"run", "wait", "acked"}

(* The policy "hunts for a worker which can take the message": a message   *)
(* is dropped only after every worker's channel was found full while this  *)
(* message was being routed, whichever worker the round robin started at   *)
(* and whatever the workers consumed in the meantime.                      *)
DropAfterFullRound == [][dropped' # dropped => seenFull = Out]_influxVars

(* When the module acknowledges SHUTDOWN it is quiet: the router has       *)
(* returned, no worker has anything left to consume or to write, and every *)
(* message that was queued when SHUTDOWN came has been dropped as          *)
(* congestion or consumed by a worker.                                     *)
AckMeansDrained ==
  ctrl = "acked" =>
    /\ pc = "done" /\ taken >= atShutdown
    /\ \A k \in Out : InFlight(k) = 0 /\ wk[k] = "gone"

(* SHUTDOWN is acknowledged, whatever is queued and however often writes   *)
(* fail, unless some worker waits for ever for a server that does not      *)
(* answer.  One such worker is enough: shutdownSyncPoint waits for all.    *)
ShutdownAcked ==
  ctrl = "wait" ~> (ctrl = "acked" \/ \E k \in Out : [](wk[k] = "write"))

=============================================================================
