----------------------------- MODULE Conductor -----------------------------
(***************************************************************************)
(* The conductor (pipeline.go): loadConfig sets up the output nodes, then  *)
(* the input nodes, and hands every input the data channels of all the     *)
(* outputs; run() waits for a signal and shuts the nodes down one by one,  *)
(* inputs first.  A node is modelled by what the conductor sees of it: its *)
(* control loop, and its end of the data channels.                         *)
(***************************************************************************)
EXTENDS Naturals, Sequences, FiniteSets

CONSTANTS
  Inputs, Outputs,  \* the sections of the configuration
  Async,            \* inputs that ACK a SHUTDOWN before their workers stop (tcp, gnmi)
  Draining,         \* outputs that service what is queued at SHUTDOWN (dataMsgRouter)
  Ends,             \* nodes whose control loop may return on its own (replay at EOF, ...)
  Mute,             \* nodes that may take SHUTDOWN and never answer it (a grpc node
                    \* whose loop has returned for good, a metrics module whose
                    \* worker waits for its server or cannot make its client)
  Nil,              \* outputs configured without error and without channels (tap)
  Depth,            \* depth of the data channels
  MaxMsg,           \* bound: messages per input
  MaxSignal         \* bound: signals

Node == Inputs \union Outputs

ASSUME ConductorAssumption ==
  /\ Inputs \intersect Outputs = {}
  /\ Async \subseteq Inputs /\ Draining \subseteq Outputs
  /\ Ends \subseteq Node /\ Mute \subseteq Node /\ Nil \subseteq Outputs
  /\ Depth \in Nat /\ MaxMsg \in Nat /\ MaxSignal \in Nat

VARIABLES
  main,       \* main(): "load", "run", "done" (cleanupDone received), "exit", "failed"
  dataChans,  \* the outputs whose channels were collected, in order
  node,       \* per node: "todo", "off", "serve", "closing", "acked", "ended"
  msgs,       \* per input: messages it has begun to spray
  at,         \* per input: position in dataChans of the spray in progress, 0 if none
  worker,     \* per input: its workers are "on" or "gone"
  queue,      \* per output: messages in its data channel
  left,       \* per output: messages it is still to service before the ACK
  pc,         \* the signal goroutine: "idle", "pick", "send", "wait", "cleanup"
  stage,      \* the nodes it is going through: "inputs", "outputs"
  todo,       \* those it has still to stop in this stage
  cur,        \* the node it is stopping
  closed,     \* nodes whose ctrlChan is closed
  pending,    \* signalChan holds a signal (its buffer is 1)
  signals     \* signals so far

nodeVars == <<node, dataChans, closed>>
dataVars == <<msgs, at, worker, queue, left>>
runVars  == <<pc, stage, todo, cur, pending>>
vars == <<main, nodeVars, dataVars, runVars, signals>>

Alive == main \in {"load", "run", "done"}
None  == "none"

Init ==
  /\ main = "load" /\ dataChans = << >>
  /\ node = [n \in Node |-> "todo"] /\ closed = {}
  /\ msgs = [i \in Inputs |-> 0] /\ at = [i \in Inputs |-> 0]
  /\ worker = [i \in Inputs |-> "gone"]
  /\ queue = [o \in Outputs |-> 0] /\ left = [o \in Outputs |-> 0]
  /\ pc = "idle" /\ stage = "inputs" /\ todo = {} /\ cur = None
  /\ pending = 0 /\ signals = 0

-----------------------------------------------------------------------------
(* loadConfig *)

(* A section that fails to configure is logged and left out. *)
ConfigureOutput(o) ==
  /\ main = "load" /\ node[o] = "todo"
  /\ \/ /\ node' = [node EXCEPT ![o] = "serve"]
        /\ dataChans' = Append(dataChans, o)
     \/ node' = [node EXCEPT ![o] = "off"] /\ UNCHANGED dataChans
  /\ UNCHANGED <<main, closed, dataVars, runVars, signals>>

(* Faulty: does not wait for the outputs. *)
ConfigureInputEarly(i) ==
  /\ main = "load" /\ node[i] = "todo"
  /\ node' = [node EXCEPT ![i] = "serve"] /\ worker' = [worker EXCEPT ![i] = "on"]
  /\ UNCHANGED <<main, dataChans, closed, msgs, at, queue, left, runVars, signals>>

ConfigureInput(i) ==
  /\ main = "load" /\ node[i] = "todo"
  /\ \A o \in Outputs : node[o] # "todo"
  /\ \/ /\ node' = [node EXCEPT ![i] = "serve"]
        /\ worker' = [worker EXCEPT ![i] = "on"]
     \/ node' = [node EXCEPT ![i] = "off"] /\ UNCHANGED worker
  /\ UNCHANGED <<main, dataChans, closed, msgs, at, queue, left, runVars, signals>>

(* No stage, no type or an unknown type: main() exits. *)
LoadFails ==
  /\ main = "load" /\ \E n \in Node : node[n] = "todo"
  /\ main' = "failed"
  /\ UNCHANGED <<nodeVars, dataVars, runVars, signals>>

LoadDone ==
  /\ main = "load" /\ \A n \in Node : node[n] # "todo"
  /\ main' = "run"
  /\ UNCHANGED <<nodeVars, dataVars, runVars, signals>>

-----------------------------------------------------------------------------
(* Input workers: a message is sprayed across dataChans, in order, with a  *)
(* blocking send to each.                                                  *)
BeginMsg(i) ==
  /\ Alive /\ worker[i] = "on" /\ at[i] = 0
  /\ msgs[i] < MaxMsg /\ dataChans # << >>
  /\ msgs' = [msgs EXCEPT ![i] = @ + 1]
  /\ at' = [at EXCEPT ![i] = 1]
  /\ UNCHANGED <<main, nodeVars, worker, queue, left, runVars, signals>>

Push(i) ==
  /\ Alive /\ worker[i] = "on" /\ at[i] > 0
  /\ LET o == dataChans[at[i]]
     IN o \notin Nil /\ queue[o] < Depth /\ queue' = [queue EXCEPT ![o] = @ + 1]
  /\ at' = [at EXCEPT ![i] = IF @ = Len(dataChans) THEN 0 ELSE @ + 1]
  /\ UNCHANGED <<main, nodeVars, msgs, worker, left, runVars, signals>>

(* Faulty: a blocked send is not given up when the input is cancelled. *)
WorkerStopsBetween(i) ==
  /\ Alive /\ worker[i] = "on" /\ node[i] \in {"closing", "acked"}
  /\ at[i] = 0
  /\ worker' = [worker EXCEPT ![i] = "gone"]
  /\ UNCHANGED <<main, nodeVars, msgs, at, queue, left, runVars, signals>>

(* Cancelled workers stop: those of an asynchronous input only between two *)
(* messages, the others also while they are blocked on a channel.          *)
WorkerStops(i) ==
  /\ Alive /\ worker[i] = "on" /\ node[i] \in {"closing", "acked"}
  /\ i \in Async => at[i] = 0
  /\ worker' = [worker EXCEPT ![i] = "gone"]
  /\ at' = [at EXCEPT ![i] = 0]
  /\ UNCHANGED <<main, nodeVars, msgs, queue, left, runVars, signals>>

(* Outputs service their channel; after SHUTDOWN a draining one services   *)
(* what was queued when it arrived.                                        *)
Consume(o) ==
  /\ Alive /\ queue[o] > 0
  /\ \/ node[o] = "serve" /\ UNCHANGED left
     \/ node[o] = "closing" /\ left[o] > 0 /\ left' = [left EXCEPT ![o] = @ - 1]
  /\ queue' = [queue EXCEPT ![o] = @ - 1]
  /\ UNCHANGED <<main, nodeVars, msgs, at, worker, runVars, signals>>

(* The goroutine that serves ctrlChan, and an output's channel, returns. *)
NodeEnds(n) ==
  /\ Alive /\ n \in Ends /\ node[n] = "serve"
  /\ node' = [node EXCEPT ![n] = "ended"]
  /\ worker' = [i \in Inputs |-> IF i = n THEN "gone" ELSE worker[i]]
  /\ at' = [i \in Inputs |-> IF i = n THEN 0 ELSE at[i]]
  /\ UNCHANGED <<main, dataChans, closed, msgs, queue, left, runVars, signals>>

-----------------------------------------------------------------------------
(* run(): the signal goroutine *)

(* signal.Notify drops a signal when the buffer is full. *)
Signal ==
  /\ main \in {"run", "done"} /\ signals < MaxSignal
  /\ signals' = signals + 1
  /\ pending' = 1
  /\ UNCHANGED <<main, nodeVars, dataVars, pc, stage, todo, cur>>

Configured(S) == {n \in S : node[n] # "off"}
Running == main \in {"run", "done"}

(* Faulty: a signal is handled also while the one before is. *)
TakeSignalAtOnce ==
  /\ Running /\ pending = 1
  /\ pending' = 0
  /\ pc' = "pick" /\ stage' = "inputs" /\ todo' = Configured(Inputs)
  /\ UNCHANGED <<main, nodeVars, dataVars, cur, signals>>

TakeSignal ==
  /\ Running /\ pc = "idle" /\ pending = 1
  /\ pending' = 0
  /\ pc' = "pick" /\ stage' = "inputs" /\ todo' = Configured(Inputs)
  /\ UNCHANGED <<main, nodeVars, dataVars, cur, signals>>

PickNode(n) ==
  /\ Running /\ pc = "pick" /\ n \in todo
  /\ cur' = n /\ todo' = todo \ {n} /\ pc' = "send"
  /\ UNCHANGED <<main, nodeVars, dataVars, stage, pending, signals>>

(* node.ctrlChan <- request: the node's control loop takes it. *)
SendShutdown ==
  /\ Running /\ pc = "send"
  /\ node[cur] = "serve" /\ cur \notin Nil
  /\ node' = [node EXCEPT ![cur] = "closing"]
  /\ left' = [o \in Outputs |-> IF o = cur /\ o \in Draining THEN queue[o] ELSE left[o]]
  /\ pc' = "wait"
  /\ UNCHANGED <<main, dataChans, closed, msgs, at, worker, queue, stage, cur, todo,
                 pending, signals>>

(* <-respChan and close(node.ctrlChan): an input answers when its workers  *)
(* are gone, unless it is asynchronous, an output when it has drained.     *)
RecvAck ==
  /\ Running /\ pc = "wait" /\ node[cur] = "closing"
  /\ cur \in Inputs \ Async => worker[cur] = "gone"
  /\ cur \in Outputs => left[cur] = 0
  /\ node' = [node EXCEPT ![cur] = "acked"]
  /\ closed' = closed \union {cur}
  /\ pc' = "pick"
  /\ UNCHANGED <<main, dataChans, dataVars, stage, cur, todo, pending, signals>>

(* Faulty: the outputs are forgotten. *)
StageDoneInputsOnly ==
  /\ Running /\ pc = "pick" /\ todo = {}
  /\ pc' = "cleanup"
  /\ UNCHANGED <<main, nodeVars, dataVars, stage, todo, cur, pending, signals>>

StageDone ==
  /\ Running /\ pc = "pick" /\ todo = {}
  /\ IF stage = "inputs"
       THEN stage' = "outputs" /\ todo' = Configured(Outputs) /\ UNCHANGED pc
       ELSE pc' = "cleanup" /\ UNCHANGED <<stage, todo>>
  /\ UNCHANGED <<main, nodeVars, dataVars, cur, pending, signals>>

(* cleanupDone <- true meets <-cleanupDone; the goroutine goes back to     *)
(* range over signalChan until main() has exited.                          *)
Cleanup ==
  /\ main = "run" /\ pc = "cleanup"
  /\ main' = "done" /\ pc' = "idle"
  /\ UNCHANGED <<nodeVars, dataVars, stage, cur, todo, pending, signals>>

Exit ==
  /\ main = "done"
  /\ main' = "exit"
  /\ UNCHANGED <<nodeVars, dataVars, runVars, signals>>

-----------------------------------------------------------------------------
Load == \/ (\E o \in Outputs : ConfigureOutput(o)) \/ (\E i \in Inputs : ConfigureInput(i))
        \/ LoadDone
InputWorker(i) == Push(i) \/ WorkerStops(i)
SignalLoop == \/ TakeSignal \/ (\E n \in Node : PickNode(n)) \/ SendShutdown \/ RecvAck
              \/ StageDone \/ Cleanup

Next ==
  \/ Load \/ LoadFails \/ SignalLoop \/ Signal \/ Exit
  \/ \E i \in Inputs : InputWorker(i) \/ BeginMsg(i)
  \/ \E o \in Outputs : Consume(o)
  \/ \E n \in Node : NodeEnds(n)

(* Every goroutine that can run does; signals, messages and failures need  *)
(* not come, and a node in Mute need neither answer nor service its        *)
(* channel.                                                                *)
Fairness ==
  /\ WF_vars(Load) /\ WF_vars(Exit)
  /\ WF_vars(SignalLoop /\ ~(pc = "wait" /\ cur \in Mute))
  /\ \A i \in Inputs : WF_vars(InputWorker(i))
  /\ \A o \in Outputs \ Mute : WF_vars(Consume(o))

Spec == Init /\ [][Next]_vars /\ Fairness

-----------------------------------------------------------------------------
(* README-PIPELINE: all inputs are connected to all outputs, and "We do     *)
(* unhook input stages".  An input that runs has the channels of every     *)
(* output that was configured, each once; and once an output has been told *)
(* to shut down no worker of an input feeds it any more, except those of   *)
(* an input that does not wait for them before it answers.                 *)
InputsHooked ==
  /\ (\E i \in Inputs : node[i] \notin {"todo", "off"}) =>
       /\ {dataChans[k] : k \in DOMAIN dataChans} = {o \in Outputs : node[o] # "off"}
       /\ Len(dataChans) = Cardinality({o \in Outputs : node[o] # "off"})
  /\ (\E o \in Outputs : node[o] \in {"closing", "acked"}) =>
       \A i \in Inputs \ Async : worker[i] = "gone"

(* main() exits cleanly only when every node that was set up has answered  *)
(* its SHUTDOWN, and leaves nothing in the channel of an output that       *)
(* drains, unless there is an input that does not wait for its workers.    *)
CleanExit ==
  main \in {"done", "exit"} =>
    /\ \A n \in Node : node[n] \in {"acked", "off"}
    /\ (\A i \in Async : node[i] = "off") =>
         \A o \in Draining : node[o] # "off" => queue[o] = 0

(* The conductor sends on a control channel it has closed only for a       *)
(* second signal taken between the end of the clean up and main()'s exit,  *)
(* since it goes on to range over signalChan.                              *)
NoSendOnClosed == pc = "send" /\ cur \in closed => main # "run" /\ signals > 1

(* A node the conductor cannot reach: its control loop has returned, or it *)
(* never had a control channel.                                            *)
Unreachable(n) == node[n] = "ended" \/ (n \in Nil /\ node[n] = "serve")

(* A signal makes the process exit, whatever is queued and whoever is      *)
(* blocked, also on the channel of an output that services it no more,     *)
(* unless there is a node the conductor cannot reach, when it waits for    *)
(* ever at node.ctrlChan <- request, or one that never answers, when it    *)
(* waits for ever at <-respChan.                                           *)
SignalStops ==
  signals > 0 ~> \/ main = "exit"
                 \/ \E n \in Node : Unreachable(n)
                 \/ \E n \in Mute : [](node[n] = "closing")

(* A signal makes the process exit. *)
SignalAlwaysStops == signals > 0 ~> main = "exit"

=============================================================================
