-------------------------- MODULE ConductorProofs --------------------------
(***************************************************************************)
(* InputsHooked, CleanExit and NoSendOnClosed of the conductor, for any    *)
(* inputs, outputs, depth and number of messages and signals.              *)
(***************************************************************************)
EXTENDS Conductor, TLAPS

TypeInv ==
  /\ main \in {"load", "run", "done", "exit", "failed"}
  /\ dataChans \in Seq(Outputs)
  /\ node \in [Node -> {"todo", "off", "serve", "closing", "acked", "ended"}]
  /\ closed \subseteq Node
  /\ worker \in [Inputs -> {"on", "gone"}]
  /\ queue \in [Outputs -> Nat] /\ left \in [Outputs -> Nat]
  /\ pc \in {"idle", "pick", "send", "wait", "cleanup"}
  /\ stage \in {"inputs", "outputs"}
  /\ todo \subseteq Node
  /\ pc \in {"send", "wait"} => cur \in Node
  /\ pending \in {0, 1} /\ signals \in Nat

(* The channels collected are those of the outputs set up so far, and no   *)
(* input is set up before all the outputs have been tried.                 *)
On == {o \in Outputs : node[o] \notin {"todo", "off"}}

HookInv ==
  /\ (\E i \in Inputs : node[i] # "todo") => \A o \in Outputs : node[o] # "todo"
  /\ main \in {"run", "done", "exit"} => \A n \in Node : node[n] # "todo"
  /\ IsFiniteSet(On) /\ Len(dataChans) = Cardinality(On)
  /\ {dataChans[k] : k \in DOMAIN dataChans} = On

(* How far the shutdown has come: the node being stopped, those of the     *)
(* stage that are left, and those that have answered.                      *)
Stage(s) == IF s = "inputs" THEN Inputs ELSE Outputs
Going    == pc \in {"pick", "send", "wait"}
Over(n)  == node[n] \in {"off", "acked"}

CurInv ==
  /\ pc = "wait" => node[cur] = "closing"
  /\ \A n \in Node : node[n] = "closing" => pc = "wait" /\ n = cur
  /\ \A n \in closed : node[n] = "acked"
  /\ main \in {"load", "failed"} =>
       /\ pc = "idle" /\ pending = 0 /\ signals = 0
       /\ \A n \in Node : node[n] # "acked"

StageInv ==
  /\ Going =>
       /\ todo \subseteq Stage(stage)
       /\ pc # "pick" => cur \in Stage(stage) /\ cur \notin todo
       /\ \A n \in Stage(stage) : Over(n) \/ n \in todo \/ (pc # "pick" /\ n = cur)
       /\ stage = "outputs" => \A i \in Inputs : Over(i)
  /\ pc = "cleanup" \/ main \in {"done", "exit"} => \A n \in Node : Over(n)
  /\ (\E o \in Outputs : node[o] \in {"closing", "acked"}) => \A i \in Inputs : Over(i)

(* The first signal finds no node that has answered; a node is asked again *)
(* only for a second one.                                                  *)
FirstInv ==
  /\ main = "run" =>
       /\ pc = "idle" => \A n \in Node : node[n] # "acked"
       /\ Going => \A n \in todo : node[n] # "acked"
       /\ pc = "send" => node[cur] # "acked"
       /\ Going /\ stage = "inputs" => \A o \in Outputs : node[o] # "acked"
       /\ signals >= pending + (IF pc = "idle" THEN 0 ELSE 1)
  /\ main = "done" => signals >= pending + (IF pc = "idle" THEN 1 ELSE 2)
  /\ main = "exit" /\ pc # "idle" => signals >= 2

(* Only an asynchronous input has workers left when it has answered. *)
WorkInv ==
  \A i \in Inputs :
    worker[i] = "on" =>
      node[i] \in {"serve", "closing"} \/ (node[i] = "acked" /\ i \in Async)

(* Without such an input nothing is added to the channel of an output that *)
(* is being shut down.                                                     *)
QueueInv ==
  (\A i \in Async : node[i] = "off") =>
    \A o \in Draining :
      /\ node[o] = "closing" => left[o] = queue[o]
      /\ node[o] = "acked" => queue[o] = 0

CondInv == TypeInv /\ HookInv /\ CurInv /\ StageInv /\ FirstInv /\ WorkInv /\ QueueInv

USE ConductorAssumption
USE DEF Node, nodeVars, dataVars, runVars

(* Types are kept. *)
LEMMA ConductorType == CondInv /\ [Next]_vars => TypeInv'
<1> SUFFICES ASSUME CondInv, [Next]_vars PROVE TypeInv'
  OBVIOUS
<1> USE DEF CondInv, TypeInv, Alive, Running
<1>1. CASE \E o \in Outputs : ConfigureOutput(o)
  <2> PICK o \in Outputs : ConfigureOutput(o)
    BY <1>1
  <2>1. Append(dataChans, o) \in Seq(Outputs)
    OBVIOUS
  <2>2. dataChans' \in Seq(Outputs)
    BY <2>1, Zenon DEF ConfigureOutput
  <2> QED
    BY <2>2, Zenon DEF ConfigureOutput
<1>2. CASE \E i \in Inputs : ConfigureInput(i)
  BY <1>2, ZenonT(60) DEF ConfigureInput
<1>3. CASE LoadDone \/ LoadFails \/ Exit
  BY <1>3 DEF LoadDone, LoadFails, Exit
<1>4. CASE \E i \in Inputs : BeginMsg(i) \/ Push(i) \/ WorkerStops(i)
  <2> PICK i \in Inputs : BeginMsg(i) \/ Push(i) \/ WorkerStops(i)
    BY <1>4
  <2>1. CASE BeginMsg(i)
    BY <2>1 DEF BeginMsg
  <2>2. CASE Push(i)
    <3>1. queue' = [queue EXCEPT ![dataChans[at[i]]] = @ + 1]
      BY <2>2 DEF Push
    <3>2. queue' \in [Outputs -> Nat]
      <4> DEFINE o == dataChans[at[i]]
      <4>1. \A x \in Outputs : queue'[x] = IF x = o THEN queue[x] + 1 ELSE queue[x]
        BY <3>1
      <4>2. queue \in [Outputs -> Nat] /\ queue' = [x \in Outputs |-> queue'[x]]
        BY <3>1, Zenon
      <4> HIDE DEF o, CondInv, TypeInv
      <4>3. \A x \in Outputs : queue'[x] \in Nat
        BY <4>1, <4>2
      <4> QED
        BY <4>2, <4>3
    <3> QED
      BY <2>2, <3>2, Zenon DEF Push
  <2>3. CASE WorkerStops(i)
    BY <2>3 DEF WorkerStops
  <2> QED
    BY <2>1, <2>2, <2>3
<1>5. CASE \E o \in Outputs : Consume(o)
  BY <1>5 DEF Consume
<1>6. CASE \E n \in Node : NodeEnds(n)
  BY <1>6 DEF NodeEnds
<1>7. CASE Signal
  BY <1>7 DEF Signal
<1>8. CASE TakeSignal
  BY <1>8 DEF TakeSignal, Configured
<1>9. CASE \E n \in Node : PickNode(n)
  BY <1>9 DEF PickNode
<1>10. CASE SendShutdown
  BY <1>10 DEF SendShutdown
<1>11. CASE RecvAck
  BY <1>11 DEF RecvAck
<1>12. CASE StageDone
  BY <1>12 DEF StageDone, Configured
<1>13. CASE Cleanup
  BY <1>13 DEF Cleanup
<1>14. CASE UNCHANGED vars
  BY <1>14, Zenon DEF vars
<1> QED
  BY <1>1, <1>2, <1>3, <1>4, <1>5, <1>6, <1>7, <1>8, <1>9, <1>10, <1>11, <1>12, <1>13, <1>14 DEF Next, Load, SignalLoop, InputWorker

(* Only the node being stopped is closing, and only nodes that answered   *)
(* have their control channel closed.                                      *)
LEMMA ConductorCur == CondInv /\ [Next]_vars => CurInv'
<1> SUFFICES ASSUME CondInv, [Next]_vars PROVE CurInv'
  OBVIOUS
<1> USE DEF CondInv, TypeInv, CurInv, Alive, Running
<1>1. CASE \E o \in Outputs : ConfigureOutput(o)
  BY <1>1 DEF ConfigureOutput
<1>2. CASE \E i \in Inputs : ConfigureInput(i)
  BY <1>2 DEF ConfigureInput
<1>3. CASE LoadDone \/ LoadFails \/ Exit
  BY <1>3 DEF LoadDone, LoadFails, Exit
<1>4. CASE \E i \in Inputs : BeginMsg(i) \/ Push(i) \/ WorkerStops(i)
  BY <1>4 DEF BeginMsg, Push, WorkerStops
<1>5. CASE \E o \in Outputs : Consume(o)
  BY <1>5 DEF Consume
<1>6. CASE \E n \in Node : NodeEnds(n)
  BY <1>6 DEF NodeEnds
<1>7. CASE Signal
  BY <1>7 DEF Signal
<1>8. CASE TakeSignal
  BY <1>8 DEF TakeSignal, Configured
<1>9. CASE \E n \in Node : PickNode(n)
  BY <1>9 DEF PickNode
<1>10. CASE SendShutdown
  BY <1>10 DEF SendShutdown
<1>11. CASE RecvAck
  BY <1>11 DEF RecvAck
<1>12. CASE StageDone
  BY <1>12 DEF StageDone, Configured
<1>13. CASE Cleanup
  BY <1>13 DEF Cleanup
<1>14. CASE UNCHANGED vars
  BY <1>14 DEF vars
<1> QED
  BY <1>1, <1>2, <1>3, <1>4, <1>5, <1>6, <1>7, <1>8, <1>9, <1>10, <1>11, <1>12, <1>13, <1>14 DEF Next, Load, SignalLoop, InputWorker

(* The stages are gone through in order, and completely. *)
LEMMA ConductorStage == CondInv /\ [Next]_vars => StageInv'
<1> SUFFICES ASSUME CondInv, [Next]_vars PROVE StageInv'
  OBVIOUS
<1> USE DEF CondInv, TypeInv, HookInv, CurInv, StageInv, Going, Over, Stage, Alive, Running
<1>1. CASE \E o \in Outputs : ConfigureOutput(o)
  BY <1>1 DEF ConfigureOutput
<1>2. CASE \E i \in Inputs : ConfigureInput(i)
  BY <1>2 DEF ConfigureInput
<1>3. CASE LoadDone \/ LoadFails \/ Exit
  BY <1>3 DEF LoadDone, LoadFails, Exit
<1>4. CASE \E i \in Inputs : BeginMsg(i) \/ Push(i) \/ WorkerStops(i)
  BY <1>4 DEF BeginMsg, Push, WorkerStops
<1>5. CASE \E o \in Outputs : Consume(o)
  BY <1>5 DEF Consume
<1>6. CASE \E n \in Node : NodeEnds(n)
  BY <1>6 DEF NodeEnds
<1>7. CASE Signal
  BY <1>7 DEF Signal
<1>8. CASE TakeSignal
  BY <1>8 DEF TakeSignal, Configured
<1>9. CASE \E n \in Node : PickNode(n)
  BY <1>9 DEF PickNode
<1>10. CASE SendShutdown
  BY <1>10 DEF SendShutdown
<1>11. CASE RecvAck
  BY <1>11 DEF RecvAck
<1>12. CASE StageDone
  BY <1>12 DEF StageDone, Configured
<1>13. CASE Cleanup
  BY <1>13 DEF Cleanup
<1>14. CASE UNCHANGED vars
  BY <1>14, Zenon DEF vars
<1> QED
  BY <1>1, <1>2, <1>3, <1>4, <1>5, <1>6, <1>7, <1>8, <1>9, <1>10, <1>11, <1>12, <1>13, <1>14, Zenon DEF Next, Load, SignalLoop, InputWorker

(* The first signal asks nobody twice. *)
LEMMA ConductorFirst == CondInv /\ [Next]_vars => FirstInv'
<1> SUFFICES ASSUME CondInv, [Next]_vars PROVE FirstInv'
  OBVIOUS
<1> USE DEF CondInv, TypeInv, CurInv, StageInv, FirstInv, Going, Over, Stage, Alive, Running
<1>1. CASE \E o \in Outputs : ConfigureOutput(o)
  BY <1>1 DEF ConfigureOutput
<1>2. CASE \E i \in Inputs : ConfigureInput(i)
  BY <1>2 DEF ConfigureInput
<1>3. CASE LoadDone \/ LoadFails \/ Exit
  BY <1>3 DEF LoadDone, LoadFails, Exit
<1>4. CASE \E i \in Inputs : BeginMsg(i) \/ Push(i) \/ WorkerStops(i)
  BY <1>4 DEF BeginMsg, Push, WorkerStops
<1>5. CASE \E o \in Outputs : Consume(o)
  BY <1>5 DEF Consume
<1>6. CASE \E n \in Node : NodeEnds(n)
  BY <1>6 DEF NodeEnds
<1>7. CASE Signal
  BY <1>7 DEF Signal
<1>8. CASE TakeSignal
  BY <1>8 DEF TakeSignal, Configured
<1>9. CASE \E n \in Node : PickNode(n)
  BY <1>9 DEF PickNode
<1>10. CASE SendShutdown
  BY <1>10 DEF SendShutdown
<1>11. CASE RecvAck
  BY <1>11 DEF RecvAck
<1>12. CASE StageDone
  BY <1>12 DEF StageDone, Configured
<1>13. CASE Cleanup
  BY <1>13 DEF Cleanup
<1>14. CASE UNCHANGED vars
  BY <1>14, Zenon DEF vars
<1> QED
  BY <1>1, <1>2, <1>3, <1>4, <1>5, <1>6, <1>7, <1>8, <1>9, <1>10, <1>11, <1>12, <1>13, <1>14, Zenon DEF Next, Load, SignalLoop, InputWorker

(* Workers are gone before a synchronous input answers. *)
LEMMA ConductorWork == CondInv /\ [Next]_vars => WorkInv'
<1> SUFFICES ASSUME CondInv, [Next]_vars PROVE WorkInv'
  OBVIOUS
<1> USE DEF CondInv, TypeInv, CurInv, WorkInv, Alive, Running
<1>1. CASE \E o \in Outputs : ConfigureOutput(o)
  BY <1>1 DEF ConfigureOutput
<1>2. CASE \E i \in Inputs : ConfigureInput(i)
  BY <1>2 DEF ConfigureInput
<1>3. CASE LoadDone \/ LoadFails \/ Exit
  BY <1>3 DEF LoadDone, LoadFails, Exit
<1>4. CASE \E i \in Inputs : BeginMsg(i) \/ Push(i) \/ WorkerStops(i)
  BY <1>4 DEF BeginMsg, Push, WorkerStops
<1>5. CASE \E o \in Outputs : Consume(o)
  BY <1>5 DEF Consume
<1>6. CASE \E n \in Node : NodeEnds(n)
  BY <1>6 DEF NodeEnds
<1>7. CASE Signal
  BY <1>7 DEF Signal
<1>8. CASE TakeSignal
  BY <1>8 DEF TakeSignal, Configured
<1>9. CASE \E n \in Node : PickNode(n)
  BY <1>9 DEF PickNode
<1>10. CASE SendShutdown
  BY <1>10 DEF SendShutdown
<1>11. CASE RecvAck
  BY <1>11 DEF RecvAck
<1>12. CASE StageDone
  BY <1>12 DEF StageDone, Configured
<1>13. CASE Cleanup
  BY <1>13 DEF Cleanup
<1>14. CASE UNCHANGED vars
  BY <1>14, Zenon DEF vars
<1> QED
  BY <1>1, <1>2, <1>3, <1>4, <1>5, <1>6, <1>7, <1>8, <1>9, <1>10, <1>11, <1>12, <1>13, <1>14 DEF Next, Load, SignalLoop, InputWorker

(* A draining output services what was queued. *)
LEMMA ConductorQueue == CondInv /\ [Next]_vars => QueueInv'
<1> SUFFICES ASSUME CondInv, [Next]_vars PROVE QueueInv'
  OBVIOUS
<1> USE DEF CondInv, TypeInv, CurInv, StageInv, WorkInv, QueueInv, Over, Alive, Running
<1>1. CASE \E o \in Outputs : ConfigureOutput(o)
  BY <1>1 DEF ConfigureOutput
<1>2. CASE \E i \in Inputs : ConfigureInput(i)
  BY <1>2 DEF ConfigureInput
<1>3. CASE LoadDone \/ LoadFails \/ Exit
  BY <1>3, Zenon DEF LoadDone, LoadFails, Exit
<1>4. CASE \E i \in Inputs : BeginMsg(i) \/ Push(i) \/ WorkerStops(i)
  BY <1>4 DEF BeginMsg, Push, WorkerStops
<1>5. CASE \E o \in Outputs : Consume(o)
  BY <1>5 DEF Consume
<1>6. CASE \E n \in Node : NodeEnds(n)
  BY <1>6 DEF NodeEnds
<1>7. CASE Signal
  BY <1>7 DEF Signal
<1>8. CASE TakeSignal
  BY <1>8 DEF TakeSignal, Configured
<1>9. CASE \E n \in Node : PickNode(n)
  BY <1>9 DEF PickNode
<1>10. CASE SendShutdown
  BY <1>10, Zenon DEF SendShutdown
<1>11. CASE RecvAck
  BY <1>11 DEF RecvAck
<1>12. CASE StageDone
  BY <1>12 DEF StageDone, Configured
<1>13. CASE Cleanup
  BY <1>13 DEF Cleanup
<1>14. CASE UNCHANGED vars
  BY <1>14 DEF vars
<1> QED
  BY <1>1, <1>2, <1>3, <1>4, <1>5, <1>6, <1>7, <1>8, <1>9, <1>10, <1>11, <1>12, <1>13, <1>14, Zenon DEF Next, Load, SignalLoop, InputWorker

(* What is left needs the library's facts about finite sets. *)
INSTANCE FiniteSetTheorems

(* The invariant holds when main() starts. *)
LEMMA ConductorInit == Init => CondInv
<1> SUFFICES ASSUME Init PROVE CondInv
  OBVIOUS
<1>1. On = {}
  BY DEF Init, On
<1>2. IsFiniteSet({}) /\ Cardinality({}) = 0
  BY FS_EmptySet
<1>3. HookInv
  BY <1>1, <1>2 DEF Init, HookInv
<1> QED
  BY <1>3 DEF Init, CondInv, TypeInv, CurInv, StageInv, FirstInv, WorkInv, QueueInv, Going, Over, Stage

(* Only an output that is set up adds to the channels and to On. *)
LEMMA ConductorHook == CondInv /\ [Next]_vars => HookInv'
<1> SUFFICES ASSUME CondInv, [Next]_vars PROVE HookInv'
  OBVIOUS
<1> USE DEF CondInv, TypeInv, HookInv
<1>1. ASSUME NEW o \in Outputs, ConfigureOutput(o) PROVE HookInv'
  <2>1. CASE node' = [node EXCEPT ![o] = "off"] /\ UNCHANGED dataChans
    <3>1. On' = On
      BY <1>1, <2>1 DEF ConfigureOutput, On
    <3> QED
      BY <1>1, <2>1, <3>1 DEF ConfigureOutput
  <2>2. CASE node' = [node EXCEPT ![o] = "serve"] /\ dataChans' = Append(dataChans, o)
    <3>1. o \notin On /\ On' = On \union {o}
      BY <1>1, <2>2 DEF ConfigureOutput, On
    <3>2. IsFiniteSet(On') /\ Cardinality(On') = Cardinality(On) + 1
      BY <3>1, FS_AddElement
    <3>3. Len(dataChans') = Len(dataChans) + 1
      BY <2>2
    <3>4. {dataChans'[k] : k \in DOMAIN dataChans'} =
            {dataChans[k] : k \in DOMAIN dataChans} \union {o}
      <4>1. DOMAIN dataChans = 1 .. Len(dataChans) /\ DOMAIN dataChans' = 1 .. (Len(dataChans) + 1)
        BY <2>2
      <4>2. \A k \in 1 .. Len(dataChans) : dataChans'[k] = dataChans[k]
        BY <2>2
      <4>3. dataChans'[Len(dataChans) + 1] = o
        BY <2>2
      <4>4. Len(dataChans) \in Nat
        OBVIOUS
      <4> HIDE DEF CondInv, TypeInv, HookInv
      <4> QED
        BY <4>1, <4>2, <4>3, <4>4
    <3>5. \A n \in Node : n # o => node'[n] = node[n]
      BY <2>2
    <3>6. node'[o] = "serve" /\ main' = "load"
      BY <1>1, <2>2 DEF ConfigureOutput
    <3> QED
      BY <3>1, <3>2, <3>3, <3>4, <3>5, <3>6, Zenon
  <2> QED
    BY <1>1, <2>1, <2>2, Zenon DEF ConfigureOutput
<1>2. ASSUME UNCHANGED dataChans, On' = On,
             main' \in {"run", "done", "exit"} => \A n \in Node : node'[n] # "todo",
             (\E i \in Inputs : node'[i] # "todo") => \A o \in Outputs : node'[o] # "todo"
      PROVE  HookInv'
  BY <1>2
<1>3. CASE \E i \in Inputs : ConfigureInput(i)
  <2> PICK i \in Inputs : ConfigureInput(i)
    BY <1>3
  <2>1. /\ main' = "load" /\ UNCHANGED dataChans
        /\ \A o \in Outputs : node[o] # "todo" /\ node'[o] = node[o]
    BY DEF ConfigureInput
  <2>2. On' = On
    BY <2>1 DEF On
  <2> QED
    BY <1>2, <2>1, <2>2
<1>4. CASE \E n \in Node : NodeEnds(n)
  BY <1>2, <1>4, ZenonT(60) DEF NodeEnds, On, Alive
<1>5. CASE SendShutdown \/ RecvAck
  BY <1>2, <1>5 DEF SendShutdown, RecvAck, On, Running, CurInv
<1>6. CASE LoadDone \/ LoadFails \/ Exit \/ Cleanup
  BY <1>2, <1>6 DEF LoadDone, LoadFails, Exit, Cleanup, On
<1>7. CASE UNCHANGED <<main, node, dataChans>>
  BY <1>2, <1>7, ZenonT(30) DEF On
<1>8. [Next]_vars =>
        \/ \E o \in Outputs : ConfigureOutput(o)
        \/ \E i \in Inputs : ConfigureInput(i)
        \/ \E n \in Node : NodeEnds(n)
        \/ SendShutdown \/ RecvAck \/ LoadDone \/ LoadFails \/ Exit \/ Cleanup
        \/ UNCHANGED <<main, node, dataChans>>
  BY ZenonT(30) DEF Next, vars, Load, SignalLoop, InputWorker, BeginMsg, Push, WorkerStops, Consume,
         Signal, TakeSignal, PickNode, StageDone
<1> QED
  BY <1>1, <1>3, <1>4, <1>5, <1>6, <1>7, <1>8

(* Every step keeps the invariant. *)
LEMMA ConductorStep == CondInv /\ [Next]_vars => CondInv'
  BY ConductorType, ConductorHook, ConductorCur, ConductorStage, ConductorFirst,
     ConductorWork, ConductorQueue DEF CondInv

(* What the invariant says of the properties. *)
LEMMA ConductorProps == CondInv => InputsHooked /\ CleanExit /\ NoSendOnClosed
<1> SUFFICES ASSUME CondInv PROVE InputsHooked /\ CleanExit /\ NoSendOnClosed
  OBVIOUS
<1> USE DEF CondInv, TypeInv
<1>1. ASSUME \E i \in Inputs : node[i] \notin {"todo", "off"}
      PROVE  On = {o \in Outputs : node[o] # "off"}
  BY <1>1 DEF HookInv, On
<1>2. InputsHooked
  BY <1>1, Zenon DEF InputsHooked, HookInv, StageInv, WorkInv, Over
<1>3. CleanExit
  BY DEF CleanExit, StageInv, QueueInv, Over
<1>4. NoSendOnClosed
  BY DEF NoSendOnClosed, CurInv, FirstInv
<1> QED
  BY <1>2, <1>3, <1>4

(* Every input has the channels of all the outputs that were set up, and   *)
(* none but an asynchronous one feeds an output that is being shut down.   *)
THEOREM ConductorInputsHooked == Spec => []InputsHooked
  BY ConductorInit, ConductorStep, ConductorProps, PTL DEF Spec

(* main() exits only when every node has answered, with nothing left in a  *)
(* draining output unless an asynchronous input was configured.            *)
THEOREM ConductorCleanExit == Spec => []CleanExit
  BY ConductorInit, ConductorStep, ConductorProps, PTL DEF Spec

(* Only a second signal makes the conductor send on a channel it closed. *)
THEOREM ConductorNoSendOnClosed == Spec => []NoSendOnClosed
  BY ConductorInit, ConductorStep, ConductorProps, PTL DEF Spec

=============================================================================
