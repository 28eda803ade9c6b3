----------------------------- MODULE OutputProofs -----------------------------
(***************************************************************************)
(* Two outputs.  The gRPC output server's safety, for any finite set of    *)
(* clients, any channel depth and any number of messages and failures.     *)
(* The table of statistics of the metrics output, for any number of        *)
(* workers, any keys and timestamps and of any size, keeps to its bound,   *)
(* accounts for time once, and drops only what is stale.                   *)
(***************************************************************************)
EXTENDS GrpcOut, StatTable, TLAPS

(* The gRPC output *)

(* Pull handlers that childrenWG counts. *)
Active == {c \in Client : pull[c] \in {"run", "send", "out", "left"}}

Fresh(c) == pull[c] \in {"idle", "called"}

(* What outermostLoop and stickyLoop tell each other. *)
LifeInv ==
  /\ outer \in {"select", "cancel", "acked"}
  /\ cancel \in {"nil", "set", "called"} /\ childrenDone \in {"open", "closed"}
  /\ loop \in Loops /\ server \in {"down", "up", "failed"}
  /\ drainTimer \in {"pending", "fired"} /\ fails \in 0..MaxFail
  /\ childrenDone = "closed" => loop \in {"none", "end"}
  /\ cancel = "nil" => loop = "none"
  /\ server # "down" => loop \in {"serve", "feed", "remove", "wait", "stop"}
  /\ AckMeansStopped

(* The map holds the handlers whose channels are open. *)
MapInv ==
  /\ children \subseteq Client /\ todo \subseteq children
  /\ closed \subseteq Client /\ streamDone \subseteq Client
  /\ pull \in [Client -> {"idle", "called", "run", "send", "out", "left", "done"}]
  /\ loop # "feed" => todo = {}
  /\ children \intersect closed = {}
  /\ \A c \in children : pull[c] \in {"run", "send", "out"}
  /\ \A c \in closed : ~Fresh(c)

(* What the channels have been given. *)
DataInv ==
  /\ fed \in 0..MaxMsg /\ put \in [Client -> Seq(1..MaxMsg)] /\ taken \in [Client -> Nat]
  /\ drops \in [Client -> SUBSET (1..MaxMsg)] /\ joined \in [Client -> 0..MaxMsg]
  /\ \A c \in Client : Queued(c) \in 0..Depth
  /\ \A c \in Client : Fresh(c) => put[c] = << >> /\ taken[c] = 0 /\ drops[c] = {}
  /\ \A c \in children : joined[c] <= fed
  /\ \A c \in todo : joined[c] < fed
  /\ NoSilentGap

(* A handler out of its loop has an empty channel, or its stream is over. *)
LeaverDrained ==
  \A c \in Client : pull[c] \in {"out", "left", "done"} /\ c \notin streamDone =>
                     c \in closed /\ Queued(c) = 0

(* What a Wait() that was woken says of the channels closed before. *)
WaitSays ==
  /\ wait \in Seq({"starting", "waiting", "woken", "returned", "panicked"})
  /\ loop \in {"wait", "stop"} => Len(wait) > 0
  /\ loop \in {"wait", "stop"} /\ wait[Len(wait)] \in {"woken", "returned"} =>
       \A c \in closed \ streamDone : pull[c] = "done"
  /\ loop = "stop" /\ drainTimer = "pending" => wait[Len(wait)] = "returned"

DrainInv == wg = Cardinality(Active) /\ LeaverDrained /\ WaitSays

Inv == LifeInv /\ MapInv /\ DataInv /\ DrainInv

USE GrpcOutAssumption
USE DEF ctrlVars, srvVars, dataVars, pullVars, wgVars, Loops, MutexFree, Fresh, Move

(* Every kind of step, by name. *)
LEMMA StepCases ==
  ASSUME [Next]_vars
  PROVE  \/ Restart \/ RecvShutdown \/ AckShutdown \/ TLSFails \/ ListenFails \/ Listen
         \/ AcceptFails \/ FeedStart \/ FeedDone \/ LeaveServe \/ RemoveAllChildren
         \/ DrainTimeout \/ WaitOver \/ Stop
         \/ \E c \in Client : \/ FeedChild(c) \/ ClientCalls(c) \/ AddChild(c) \/ PullMsg(c)
                              \/ SendReturns(c) \/ PullEnds(c) \/ RemoveChild(c)
                              \/ WGDone(c) \/ ClientCancels(c)
         \/ \E i \in DOMAIN wait : WaitStarts(i) \/ WaitReturns(i)
         \/ UNCHANGED vars
  BY DEF Next, Outermost, StickyLoop, Pull, Waiter

(* What the loops do between two messages does not touch the children. *)
LEMMA QuietSteps ==
  ASSUME \/ Restart \/ RecvShutdown \/ AckShutdown \/ TLSFails \/ ListenFails \/ Listen
         \/ AcceptFails \/ FeedDone \/ LeaveServe \/ DrainTimeout \/ WaitOver \/ UNCHANGED vars
  PROVE  UNCHANGED <<fed, todo, drops, children, put, taken, joined, pull, closed, streamDone, wg>>
  <1>1. CASE Restart \/ RecvShutdown \/ AckShutdown \/ UNCHANGED vars
    BY <1>1 DEF Restart, RecvShutdown, AckShutdown, vars
  <1>2. CASE TLSFails \/ ListenFails \/ Listen \/ AcceptFails
    BY <1>2 DEF TLSFails, ListenFails, Listen, AcceptFails
  <1>3. CASE FeedDone \/ LeaveServe \/ DrainTimeout \/ WaitOver
    BY <1>3 DEF FeedDone, LeaveServe, DrainTimeout, WaitOver
  <1> QED
    BY <1>1, <1>2, <1>3

(* stickyLoop and outermostLoop keep their agreement. *)
LEMMA LifeStep == LifeInv /\ [Next]_vars => LifeInv'
  <1> SUFFICES ASSUME LifeInv, [Next]_vars PROVE LifeInv'
    OBVIOUS
  <1> USE DEF LifeInv, AckMeansStopped
  <1>1. CASE Restart \/ RecvShutdown \/ AckShutdown
    BY <1>1 DEF Restart, RecvShutdown, AckShutdown
  <1>2. CASE TLSFails \/ ListenFails \/ Listen \/ AcceptFails
    BY <1>2 DEF TLSFails, ListenFails, Listen, AcceptFails
  <1>3. CASE FeedStart \/ FeedDone \/ LeaveServe \/ RemoveAllChildren
    BY <1>3 DEF FeedStart, FeedDone, LeaveServe, RemoveAllChildren
  <1>4. CASE DrainTimeout \/ WaitOver \/ Stop
    BY <1>4 DEF DrainTimeout, WaitOver, Stop
  <1>5. ASSUME NEW c \in Client,
               \/ FeedChild(c) \/ ClientCalls(c) \/ AddChild(c) \/ PullMsg(c)
               \/ SendReturns(c) \/ PullEnds(c) \/ RemoveChild(c) \/ WGDone(c)
               \/ ClientCancels(c)
        PROVE  LifeInv'
    <2>1. CASE FeedChild(c) \/ ClientCalls(c) \/ AddChild(c) \/ PullMsg(c)
      BY <2>1 DEF FeedChild, ClientCalls, AddChild, PullMsg
    <2>2. CASE SendReturns(c) \/ PullEnds(c) \/ RemoveChild(c) \/ WGDone(c) \/ ClientCancels(c)
      BY <2>2 DEF SendReturns, PullEnds, RemoveChild, WGDone, ClientCancels
    <2> QED
      BY <1>5, <2>1, <2>2
  <1>6. ASSUME NEW i \in DOMAIN wait, WaitStarts(i) \/ WaitReturns(i)
        PROVE  LifeInv'
    BY <1>6 DEF WaitStarts, WaitReturns
  <1>7. CASE UNCHANGED vars
    BY <1>7 DEF vars
  <1> QED
    BY StepCases, <1>1, <1>2, <1>3, <1>4, <1>5, <1>6, <1>7

(* The map and the channels change together. *)
LEMMA MapStep == LifeInv /\ MapInv /\ [Next]_vars => MapInv'
  <1> SUFFICES ASSUME LifeInv, MapInv, [Next]_vars PROVE MapInv'
    OBVIOUS
  <1> USE DEF MapInv
  <1>1. CASE Restart \/ RecvShutdown \/ AckShutdown
    BY <1>1 DEF Restart, RecvShutdown, AckShutdown, LifeInv
  <1>2. CASE TLSFails \/ ListenFails \/ Listen \/ AcceptFails
    BY <1>2 DEF TLSFails, ListenFails, Listen, AcceptFails
  <1>3. CASE FeedStart \/ FeedDone \/ LeaveServe
    BY <1>3 DEF FeedStart, FeedDone, LeaveServe
  <1>4. CASE RemoveAllChildren
    BY <1>4 DEF RemoveAllChildren
  <1>5. CASE DrainTimeout \/ WaitOver \/ Stop
    BY <1>5 DEF DrainTimeout, WaitOver, Stop
  <1>6. ASSUME NEW c \in Client, FeedChild(c) \/ ClientCalls(c) \/ AddChild(c)
        PROVE  MapInv'
    BY <1>6 DEF FeedChild, ClientCalls, AddChild
  <1>7. ASSUME NEW c \in Client, PullMsg(c) \/ SendReturns(c) \/ PullEnds(c)
        PROVE  MapInv'
    BY <1>7 DEF PullMsg, SendReturns, PullEnds
  <1>8. ASSUME NEW c \in Client, RemoveChild(c) \/ WGDone(c) \/ ClientCancels(c)
        PROVE  MapInv'
    BY <1>8 DEF RemoveChild, WGDone, ClientCancels
  <1>9. ASSUME NEW i \in DOMAIN wait, WaitStarts(i) \/ WaitReturns(i)
        PROVE  MapInv'
    BY <1>9 DEF WaitStarts, WaitReturns
  <1>10. CASE UNCHANGED vars
    BY <1>10 DEF vars
  <1> QED
    BY StepCases, <1>1, <1>2, <1>3, <1>4, <1>5, <1>6, <1>7, <1>8, <1>9, <1>10

(* What Append does to the elements of a sequence. *)
LEMMA AppendElems ==
  ASSUME NEW S, NEW s \in Seq(S), NEW x \in S
  PROVE  /\ Append(s, x) \in Seq(S)
         /\ Len(Append(s, x)) = Len(s) + 1
         /\ DOMAIN Append(s, x) = DOMAIN s \union {Len(s) + 1}
         /\ \A i \in DOMAIN s : Append(s, x)[i] = s[i] /\ i <= Len(s)
         /\ Append(s, x)[Len(s) + 1] = x
         /\ Elems(Append(s, x)) = Elems(s) \union {x}
  <1>1. /\ Append(s, x) \in Seq(S)
        /\ Len(Append(s, x)) = Len(s) + 1
        /\ DOMAIN Append(s, x) = DOMAIN s \union {Len(s) + 1}
        /\ \A i \in DOMAIN s : Append(s, x)[i] = s[i] /\ i <= Len(s)
        /\ Append(s, x)[Len(s) + 1] = x
    OBVIOUS
  <1> QED
    BY <1>1 DEF Elems

(* Feeding one child extends what it was offered by exactly the message    *)
(* that is being broadcast.                                                *)
LEMMA FeedChildStep ==
  ASSUME MapInv, DataInv, NEW c \in Client, FeedChild(c)
  PROVE  DataInv'
  <1> USE DEF FeedChild, MapInv
  <1>0. /\ c \in children /\ c \in todo /\ joined[c] < fed /\ fed \in 1..MaxMsg
        /\ put[c] \in Seq(1..MaxMsg) /\ drops[c] \in SUBSET (1..MaxMsg)
        /\ joined[c] \in Nat /\ taken[c] \in Nat /\ Queued(c) \in 0..Depth
    BY DEF DataInv
  <1>1. /\ \A i, j \in DOMAIN put[c] : i < j => put[c][i] < put[c][j]
        /\ Elems(put[c]) \union drops[c] = (joined[c] + 1) .. (fed - 1)
        /\ Elems(put[c]) \intersect drops[c] = {}
    BY <1>0 DEF DataInv, NoSilentGap
  <1>2. fed \notin Elems(put[c]) \union drops[c]
    BY <1>0, <1>1
  <1>3. (joined[c] + 1) .. fed = ((joined[c] + 1) .. (fed - 1)) \union {fed}
    BY <1>0
  <1>4. /\ put' \in [Client -> Seq(1..MaxMsg)] /\ drops' \in [Client -> SUBSET (1..MaxMsg)]
        /\ \A d \in Client : Queued(d)' \in 0..Depth
        /\ \A d \in Client \ {c} : put'[d] = put[d] /\ drops'[d] = drops[d]
    <2>1. CASE Queued(c) = Depth
      <3>1. /\ UNCHANGED <<put, taken>> /\ drops' = [drops EXCEPT ![c] = @ \union {fed}]
            /\ drops[c] \union {fed} \in SUBSET (1..MaxMsg)
        BY <1>0, <2>1
      <3>2. \A d \in Client : Queued(d)' = Queued(d)
        BY <3>1 DEF Queued
      <3> QED
        BY <3>1, <3>2 DEF DataInv
    <2>2. CASE Queued(c) # Depth
      <3>1. /\ put' = [put EXCEPT ![c] = Append(@, fed)] /\ UNCHANGED <<drops, taken>>
            /\ Len(Append(put[c], fed)) = Len(put[c]) + 1
            /\ Append(put[c], fed) \in Seq(1..MaxMsg)
        BY <1>0, <2>2, AppendElems
      <3>2. /\ put'[c] = Append(put[c], fed) /\ \A d \in Client \ {c} : put'[d] = put[d]
            /\ put' \in [Client -> Seq(1..MaxMsg)]
        BY <3>1 DEF DataInv
      <3>3. Queued(c)' \in 0..Depth
        BY <1>0, <2>2, <3>1, <3>2 DEF Queued
      <3> QED
        BY <3>1, <3>2, <3>3 DEF DataInv, Queued
    <2> QED
      BY <2>1, <2>2
  <1>5. /\ \A i, j \in DOMAIN put'[c] : i < j => put'[c][i] < put'[c][j]
        /\ Elems(put'[c]) \union drops'[c] = (joined[c] + 1) .. fed
        /\ Elems(put'[c]) \intersect drops'[c] = {}
    <2>1. CASE Queued(c) = Depth
      <3>1. put' = put /\ drops'[c] = drops[c] \union {fed}
        BY <2>1 DEF DataInv
      <3> QED
        BY <1>1, <1>2, <1>3, <3>1
    <2>2. CASE Queued(c) # Depth
      <3>1. put'[c] = Append(put[c], fed) /\ drops' = drops
        BY <2>2 DEF DataInv
      <3>2. \A i \in DOMAIN put[c] : put[c][i] \in Elems(put[c])
        BY DEF Elems
      <3>3. \A i \in DOMAIN put[c] : put[c][i] < fed
        BY <1>0, <1>1, <3>2
      <3>4. /\ Elems(put'[c]) = Elems(put[c]) \union {fed}
            /\ DOMAIN put'[c] = DOMAIN put[c] \union {Len(put[c]) + 1}
            /\ \A i \in DOMAIN put[c] : put'[c][i] = put[c][i] /\ i <= Len(put[c])
            /\ put'[c][Len(put[c]) + 1] = fed
        <4>1. fed \in 1..MaxMsg /\ put[c] \in Seq(1..MaxMsg)
          BY <1>0
        <4> QED
          BY <4>1, <3>1, AppendElems
      <3>5. ASSUME NEW i \in DOMAIN put'[c], NEW j \in DOMAIN put'[c], i < j
            PROVE  put'[c][i] < put'[c][j]
        <4>1. Len(put[c]) \in Nat /\ DOMAIN put[c] = 1 .. Len(put[c])
          BY <1>0
        <4>2. i \in DOMAIN put[c]
          BY <3>4, <3>5, <4>1
        <4> QED
          BY <1>1, <3>3, <3>4, <3>5, <4>1, <4>2
      <3> QED
        BY <1>1, <1>2, <1>3, <3>1, <3>4, <3>5
    <2> QED
      BY <2>1, <2>2
  <1>6. NoSilentGap'
    BY <1>0, <1>4, <1>5, Zenon DEF DataInv, NoSilentGap
  <1> QED
    BY <1>0, <1>4, <1>6, Zenon DEF DataInv

(* No step makes a gap in what a child was offered. *)
LEMMA DataStep == LifeInv /\ MapInv /\ DataInv /\ [Next]_vars => DataInv'
  <1> SUFFICES ASSUME LifeInv, MapInv, DataInv, [Next]_vars PROVE DataInv'
    OBVIOUS
  <1>1. CASE UNCHANGED <<fed, todo, drops, children, put, taken, joined, pull>>
    BY <1>1 DEF DataInv, NoSilentGap, Queued
  <1>2. CASE FeedStart
    <2>1. \A c \in children : c \notin todo
      BY <1>2 DEF FeedStart, MapInv
    <2>2. NoSilentGap'
      BY <1>2, <2>1 DEF FeedStart, DataInv, NoSilentGap
    <2> QED
      BY <1>2, <2>2 DEF FeedStart, DataInv, MapInv, Queued
  <1>3. CASE RemoveAllChildren
    BY <1>3 DEF RemoveAllChildren, DataInv, MapInv, NoSilentGap, Queued
  <1>4. ASSUME NEW c \in Client, AddChild(c)
        PROVE  DataInv'
    <2>1. /\ put[c] = << >> /\ drops[c] = {} /\ joined'[c] = fed /\ fed \in Nat
          /\ c \notin todo /\ children' = children \union {c}
      BY <1>4 DEF AddChild, DataInv, MapInv
    <2>2. Elems(put[c]) = {} /\ (fed + 1) .. fed = {}
      BY <2>1 DEF Elems
    <2>3. NoSilentGap'
      BY <1>4, <2>1, <2>2 DEF AddChild, DataInv, NoSilentGap
    <2> QED
      BY <1>4, <2>1, <2>3 DEF AddChild, DataInv, MapInv, Queued
  <1>5. ASSUME NEW c \in Client, PullMsg(c)
        PROVE  DataInv'
    <2>1. /\ Queued(c) > 0 /\ taken' = [taken EXCEPT ![c] = @ + 1] /\ put' = put
          /\ pull[c] = "run" /\ pull' = [pull EXCEPT ![c] = "send"]
      BY <1>5 DEF PullMsg
    <2>2. \A d \in Client : Queued(d)' \in 0..Depth
      BY <2>1 DEF DataInv, Queued
    <2>3. NoSilentGap'
      BY <1>5 DEF PullMsg, DataInv, NoSilentGap
    <2> QED
      BY <1>5, <2>1, <2>2, <2>3 DEF PullMsg, DataInv, MapInv
  <1>6. ASSUME NEW c \in Client, ClientCalls(c) \/ SendReturns(c) \/ PullEnds(c) \/ WGDone(c)
        PROVE  DataInv'
    <2>1. /\ UNCHANGED <<fed, todo, drops, children, put, taken, joined>>
          /\ \A d \in Client : Fresh(d)' => Fresh(d)
      BY <1>6 DEF ClientCalls, SendReturns, PullEnds, WGDone, MapInv
    <2> QED
      BY <2>1, Zenon DEF DataInv, NoSilentGap, Queued
  <1>7. ASSUME NEW c \in Client, RemoveChild(c)
        PROVE  DataInv'
    <2>1. /\ UNCHANGED <<fed, todo, drops, put, taken, joined>>
          /\ children' \subseteq children
          /\ \A d \in Client : Fresh(d)' => Fresh(d)
      BY <1>7 DEF RemoveChild, MapInv
    <2> QED
      BY <2>1, Zenon DEF DataInv, NoSilentGap, Queued
  <1>8. ASSUME NEW c \in Client, FeedChild(c)
        PROVE  DataInv'
    BY <1>8, FeedChildStep, Zenon
  <1>9. CASE \/ Restart \/ RecvShutdown \/ AckShutdown \/ TLSFails \/ ListenFails \/ Listen
             \/ AcceptFails \/ FeedDone \/ LeaveServe \/ DrainTimeout \/ WaitOver
             \/ UNCHANGED vars
    BY <1>1, <1>9, QuietSteps
  <1>10. ASSUME NEW c \in Client, ClientCancels(c)
         PROVE  DataInv'
    BY <1>1, <1>10 DEF ClientCancels
  <1>11. ASSUME NEW i \in DOMAIN wait, WaitStarts(i) \/ WaitReturns(i)
         PROVE  DataInv'
    BY <1>1, <1>11 DEF WaitStarts, WaitReturns
  <1>12. CASE Stop
    BY <1>1, <1>12 DEF Stop
  <1> QED
    BY StepCases, <1>2, <1>3, <1>4, <1>5, <1>6, <1>7, <1>8, <1>9, <1>10, <1>11, <1>12

(* A handler leaves its loop with its channel empty, or its stream over. *)
LEMMA LeaverStep == MapInv /\ DataInv /\ LeaverDrained /\ [Next]_vars => LeaverDrained'
  <1> SUFFICES ASSUME MapInv, DataInv, LeaverDrained, [Next]_vars PROVE LeaverDrained'
    OBVIOUS
  <1> USE DEF LeaverDrained
  <1>1. CASE UNCHANGED <<pull, streamDone, closed, put, taken>>
    BY <1>1 DEF Queued
  <1>2. ASSUME NEW c \in Client, FeedChild(c)
        PROVE  LeaverDrained'
    <2>1. /\ c \in children /\ c \notin closed
          /\ \A d \in Client \ {c} : put'[d] = put[d]
          /\ UNCHANGED <<pull, streamDone, closed, taken>>
      BY <1>2 DEF FeedChild, MapInv, DataInv
    <2> QED
      BY <2>1 DEF Queued
  <1>3. ASSUME NEW c \in Client, ClientCalls(c) \/ AddChild(c) \/ SendReturns(c)
                                  \/ PullEnds(c) \/ WGDone(c) \/ ClientCancels(c)
        PROVE  LeaverDrained'
    <2>1. UNCHANGED <<closed, put, taken>>
      BY <1>3 DEF ClientCalls, AddChild, SendReturns, PullEnds, WGDone, ClientCancels
    <2>2. \A d \in Client : Queued(d)' = Queued(d)
      BY <2>1 DEF Queued
    <2>3. CASE ClientCalls(c) \/ AddChild(c) \/ ClientCancels(c)
      BY <2>1, <2>2, <2>3 DEF ClientCalls, AddChild, ClientCancels, MapInv
    <2>4. CASE SendReturns(c) \/ PullEnds(c) \/ WGDone(c)
      BY <2>1, <2>2, <2>4 DEF SendReturns, PullEnds, WGDone, MapInv
    <2> QED
      BY <1>3, <2>3, <2>4
  <1>4. ASSUME NEW c \in Client, PullMsg(c)
        PROVE  LeaverDrained'
    <2>1. /\ pull'[c] = "send" /\ UNCHANGED <<streamDone, closed, put>>
          /\ \A d \in Client \ {c} : pull'[d] = pull[d] /\ taken'[d] = taken[d]
      BY <1>4 DEF PullMsg, MapInv, DataInv
    <2> QED
      BY <2>1 DEF Queued
  <1>5. ASSUME NEW c \in Client, RemoveChild(c)
        PROVE  LeaverDrained'
    <2>1. UNCHANGED <<streamDone, put, taken>> /\ closed \subseteq closed'
      BY <1>5 DEF RemoveChild
    <2>2. \A d \in Client : Queued(d)' = Queued(d)
      BY <2>1 DEF Queued
    <2> QED
      BY <1>5, <2>1, <2>2 DEF RemoveChild, MapInv
  <1>6. CASE RemoveAllChildren \/ Stop
    <2>1. /\ UNCHANGED <<pull, put, taken>>
          /\ closed \subseteq closed' /\ streamDone \subseteq streamDone'
      BY <1>6 DEF RemoveAllChildren, Stop
    <2> QED
      BY <2>1 DEF Queued
  <1>7. ASSUME NEW i \in DOMAIN wait, WaitStarts(i) \/ WaitReturns(i)
        PROVE  LeaverDrained'
    BY <1>1, <1>7 DEF WaitStarts, WaitReturns
  <1>8. CASE \/ Restart \/ RecvShutdown \/ AckShutdown \/ TLSFails \/ ListenFails \/ Listen
             \/ AcceptFails \/ FeedDone \/ LeaveServe \/ DrainTimeout
             \/ WaitOver \/ UNCHANGED vars
    BY <1>1, <1>8, QuietSteps
  <1>9. CASE FeedStart
    BY <1>1, <1>9 DEF FeedStart
  <1> QED
    BY StepCases, <1>2, <1>3, <1>4, <1>5, <1>6, <1>7, <1>8, <1>9

(* addChild and Done() move a handler in and out of Active one at a time,  *)
(* and childrenWG with it.                                                 *)
LEMMA ActiveStep ==
  ASSUME MapInv, [Next]_vars
  PROVE  \/ Active' = Active /\ wg' = wg
         \/ \E c : c \notin Active /\ Active' = Active \union {c} /\ wg' = wg + 1
         \/ \E c \in Active : Active' = Active \ {c} /\ wg' = wg - 1
  <1> DEFINE Same == Active' = Active /\ wg' = wg
  <1>1. ASSUME UNCHANGED <<wg, pull>>
        PROVE  Same
    BY <1>1 DEF Active
  <1>2. ASSUME NEW c \in Client, AddChild(c)
        PROVE  c \notin Active /\ Active' = Active \union {c} /\ wg' = wg + 1
    BY <1>2 DEF AddChild, Active, MapInv
  <1>3. ASSUME NEW c \in Client, WGDone(c)
        PROVE  c \in Active /\ Active' = Active \ {c} /\ wg' = wg - 1
    BY <1>3 DEF WGDone, Active, MapInv
  <1>4. ASSUME NEW c \in Client, ClientCalls(c) \/ PullMsg(c) \/ SendReturns(c)
                                  \/ PullEnds(c) \/ RemoveChild(c)
        PROVE  Same
    <2>1. CASE ClientCalls(c) \/ PullMsg(c) \/ SendReturns(c)
      BY <2>1 DEF ClientCalls, PullMsg, SendReturns, Active, MapInv
    <2>2. CASE PullEnds(c) \/ RemoveChild(c)
      BY <2>2 DEF PullEnds, RemoveChild, Active, MapInv
    <2> QED
      BY <1>4, <2>1, <2>2
  <1>5. ASSUME NEW c \in Client, FeedChild(c) \/ ClientCancels(c)
        PROVE  Same
    BY <1>1, <1>5 DEF FeedChild, ClientCancels
  <1>6. ASSUME NEW i \in DOMAIN wait, WaitStarts(i) \/ WaitReturns(i)
        PROVE  Same
    BY <1>1, <1>6 DEF WaitStarts, WaitReturns
  <1>7. CASE FeedStart \/ RemoveAllChildren \/ Stop
    BY <1>1, <1>7 DEF FeedStart, RemoveAllChildren, Stop
  <1>8. CASE \/ Restart \/ RecvShutdown \/ AckShutdown \/ TLSFails \/ ListenFails \/ Listen
             \/ AcceptFails \/ FeedDone \/ LeaveServe \/ DrainTimeout \/ WaitOver
             \/ UNCHANGED vars
    BY <1>1, <1>8, QuietSteps
  <1> QED
    BY StepCases, <1>2, <1>3, <1>4, <1>5, <1>6, <1>7, <1>8

(* Only a Wait() that found childrenWG at 0 is woken or returns. *)
LEMMA WaitStep ==
  ASSUME LifeInv, MapInv, MapInv', LeaverDrained, WaitSays, [Next]_vars,
         wg = 0 => Active = {}, wg' = 0 => Active' = {}
  PROVE  WaitSays'
  <1>0. /\ wg = 0 => \A c \in closed : pull[c] = "done"
        /\ wg' = 0 => \A c \in closed' : pull'[c] = "done"
    BY DEF MapInv, Active
  <1>1. CASE UNCHANGED <<loop, drainTimer, wait, closed, streamDone, pull>>
    BY <1>1 DEF WaitSays
  <1>2. CASE wait' = wait /\ loop' \notin {"wait", "stop"}
    BY <1>2 DEF WaitSays
  <1>3. CASE RemoveAllChildren
    BY <1>3 DEF RemoveAllChildren, WaitSays
  <1>4. CASE DrainTimeout \/ WaitOver
    BY <1>4 DEF DrainTimeout, WaitOver, WaitSays
  <1>5. ASSUME NEW c \in Client, ClientCalls(c) \/ AddChild(c) \/ PullMsg(c) \/ SendReturns(c)
                                  \/ PullEnds(c) \/ ClientCancels(c)
        PROVE  WaitSays'
    <2>1. /\ UNCHANGED <<loop, drainTimer, wait, closed>> /\ streamDone \subseteq streamDone'
          /\ \A d \in closed \ streamDone' : pull[d] = "done" => pull'[d] = "done"
      <3>1. CASE ClientCalls(c) \/ AddChild(c) \/ ClientCancels(c)
        BY <3>1 DEF ClientCalls, AddChild, ClientCancels, MapInv
      <3>2. CASE PullMsg(c) \/ SendReturns(c) \/ PullEnds(c)
        BY <3>2 DEF PullMsg, SendReturns, PullEnds, MapInv
      <3> QED
        BY <1>5, <3>1, <3>2
    <2> QED
      BY <2>1 DEF WaitSays
  <1>6. ASSUME NEW c \in Client, RemoveChild(c)
        PROVE  WaitSays'
    <2>1. /\ UNCHANGED <<loop, drainTimer, wait, streamDone>> /\ closed' = closed \union {c}
          /\ pull[c] = "out" /\ \A d \in Client \ {c} : pull'[d] = pull[d]
      BY <1>6 DEF RemoveChild, MapInv
    <2>2. c \in closed \/ c \in streamDone
      BY <2>1 DEF LeaverDrained
    <2> QED
      BY <2>1, <2>2 DEF MapInv, WaitSays
  <1>7. ASSUME NEW c \in Client, WGDone(c)
        PROVE  WaitSays'
    <2>1. /\ UNCHANGED <<loop, drainTimer, closed, streamDone>> /\ wg' = wg - 1
          /\ \A d \in closed : pull[d] = "done" => pull'[d] = "done"
      BY <1>7 DEF WGDone, MapInv
    <2>2. CASE wg = 1
      <3>1. \A d \in closed : pull'[d] = "done"
        BY <1>0, <2>1, <2>2
      <3>2. wait' = [i \in DOMAIN wait |-> IF wait[i] = "waiting" THEN "woken" ELSE wait[i]]
        BY <1>7, <2>2 DEF WGDone
      <3>3. /\ wait' \in Seq({"starting", "waiting", "woken", "returned", "panicked"})
            /\ Len(wait') = Len(wait)
            /\ \A i \in DOMAIN wait : wait[i] = "returned" => wait'[i] = "returned"
        BY <3>2 DEF WaitSays
      <3> QED
        BY <2>1, <3>1, <3>3 DEF WaitSays
    <2>3. CASE wg # 1
      BY <1>7, <2>1, <2>3 DEF WGDone, WaitSays
    <2> QED
      BY <2>2, <2>3
  <1>8. ASSUME NEW i \in DOMAIN wait, WaitStarts(i)
        PROVE  WaitSays'
    <2>1. /\ UNCHANGED <<loop, drainTimer, closed, streamDone, pull>> /\ wait[i] = "starting"
          /\ wait' = [wait EXCEPT ![i] = IF wg = 0 THEN "returned" ELSE "waiting"]
      BY <1>8 DEF WaitStarts
    <2>2. /\ wait' \in Seq({"starting", "waiting", "woken", "returned", "panicked"})
          /\ Len(wait') = Len(wait)
          /\ \A j \in DOMAIN wait : j # i => wait'[j] = wait[j]
          /\ wait'[i] = IF wg = 0 THEN "returned" ELSE "waiting"
      BY <2>1 DEF WaitSays
    <2>3. CASE i = Len(wait)
      BY <1>0, <2>1, <2>2, <2>3 DEF WaitSays
    <2>4. CASE i # Len(wait)
      BY <2>1, <2>2, <2>4 DEF WaitSays
    <2> QED
      BY <2>3, <2>4
  <1>9. ASSUME NEW i \in DOMAIN wait, WaitReturns(i)
        PROVE  WaitSays'
    <2> PICK v \in {"returned", "panicked"} : wait' = [wait EXCEPT ![i] = v]
      BY <1>9 DEF WaitReturns
    <2>1. UNCHANGED <<loop, drainTimer, closed, streamDone, pull>> /\ wait[i] = "woken"
      BY <1>9 DEF WaitReturns
    <2>2. /\ wait' \in Seq({"starting", "waiting", "woken", "returned", "panicked"})
          /\ Len(wait') = Len(wait)
          /\ \A j \in DOMAIN wait : j # i => wait'[j] = wait[j]
          /\ wait'[i] = v
      BY <2>1 DEF WaitSays
    <2>3. CASE i = Len(wait)
      BY <2>1, <2>2, <2>3 DEF WaitSays
    <2>4. CASE i # Len(wait)
      BY <2>1, <2>2, <2>4 DEF WaitSays
    <2> QED
      BY <2>3, <2>4
  <1>10. CASE \/ Restart \/ TLSFails \/ ListenFails \/ Listen \/ FeedStart \/ FeedDone
              \/ LeaveServe \/ Stop
    <2>1. CASE Restart \/ TLSFails \/ ListenFails \/ Listen
      BY <1>2, <2>1 DEF Restart, TLSFails, ListenFails, Listen
    <2>2. CASE FeedStart \/ FeedDone \/ LeaveServe \/ Stop
      BY <1>2, <2>2 DEF FeedStart, FeedDone, LeaveServe, Stop
    <2> QED
      BY <1>10, <2>1, <2>2
  <1>11. CASE RecvShutdown \/ AckShutdown \/ AcceptFails \/ UNCHANGED vars
    BY <1>1, <1>11 DEF RecvShutdown, AckShutdown, AcceptFails, vars
  <1>12. ASSUME NEW c \in Client, FeedChild(c)
         PROVE  WaitSays'
    BY <1>1, <1>12 DEF FeedChild
  <1> QED
    BY StepCases, <1>3, <1>4, <1>5, <1>6, <1>7, <1>8, <1>9, <1>10, <1>11, <1>12

-----------------------------------------------------------------------------
(* The table of statistics *)

HIDE GrpcOutAssumption
HIDE DEF ctrlVars, srvVars, dataVars, pullVars, wgVars, Loops, MutexFree, Fresh, Move

CONSTANT Key   \* what a record may be kept for: a sensor with its tags

StatNext ==
  \/ \E w \in Updater, k \in Key, ts \in 0 .. Wrap - 1 : StatFind(w, k, ts)
  \/ \E w \in Updater : StatUpdate(w)
  \/ Tick \/ EvictDue \/ EvictStart \/ EvictLock
  \/ \E k \in unseen : EvictVisit(k)
  \/ EvictDone

StatSpec == (\E count \in Nat : StatInit(count)) /\ [][StatNext]_statVars

Record == [key : Key, first : 0 .. Wrap - 1, last : 0 .. Wrap - 1, newest : 0 .. Wrap - 1,
           observed : Nat]

(* What statsensorcount promises. *)
Bounded == IsFiniteSet(Tracked) /\ Cardinality(Tracked) <= statSensorCount

StatTypeOK ==
  /\ statSensorCount \in Nat
  /\ heap \in Seq(Record)
  /\ Tracked \subseteq Key
  /\ statRecords \in [Tracked -> 1 .. Len(heap)]
  /\ upd \in [Updater -> [rec : 0 .. Len(heap), ts : 0 .. Wrap - 1]]
  /\ now \in 0 .. Wrap - 1 /\ evictTS \in 0 .. Wrap - 1
  /\ evict \in {"off", "sleep", "token", "time", "scan"}
  /\ unseen \subseteq Key

(* A record's last timestamp is the newest it was updated with. *)
Latest == \A i \in DOMAIN heap : heap[i].newest = heap[i].last

(* evictStale's clock is never ahead of the wall clock, and it has yet to  *)
(* come only to keys that are in the table: nobody else takes them out.    *)
StatInv ==
  /\ StatTypeOK /\ Bounded /\ StatsSound /\ Latest
  /\ evictTS <= now /\ now <= MaxNow
  /\ unseen \subseteq Tracked

(* Unsigned subtraction does not wrap when the later time comes second. *)
LEMMA SinceExact ==
  ASSUME NEW a \in 0 .. Wrap - 1, NEW b \in 0 .. Wrap - 1, b > a
  PROVE  Since(a, b) = b - a
<1>1. b - a \in Nat /\ b - a < Wrap /\ Wrap \in Nat
      BY StatAssumption
<1>2. \A d, m \in Nat : d < m => d % m = d
      BY SMT
<1> QED BY <1>1, <1>2 DEF Since

(* What evictStale takes for stale is so by the wall clock. *)
LEMMA StaleIsStale ==
  ASSUME StatInv, NEW k \in Tracked, IsStale(Rec(k), evictTS)
  PROVE  Rec(k).newest + StaleAfter < now
<1>1. Rec(k) \in Record
      BY DEF StatInv, StatTypeOK, Rec
<1>5. Rec(k).newest = Rec(k).last
      BY DEF StatInv, StatTypeOK, Latest, Rec
<1>2. Rec(k).last \in 0 .. Wrap - 1 /\ evictTS \in 0 .. Wrap - 1 /\ now \in Nat /\ evictTS <= now
      BY <1>1 DEF Record, StatInv, StatTypeOK
<1>3. evictTS > Rec(k).last
      BY DEF IsStale
<1>4. evictTS - Rec(k).last > StaleAfter
      BY <1>2, <1>3, SinceExact DEF IsStale
<1> QED BY <1>2, <1>4, <1>5, StatAssumption

(* Steps that leave records and table alone. *)
LEMMA ClockSteps ==
  ASSUME StatInv, Tick \/ EvictDue \/ EvictStart \/ EvictLock \/ EvictDone \/ UNCHANGED statVars
  PROVE  StatInv'
<1>1. UNCHANGED <<statSensorCount, heap, statRecords, upd>>
      BY DEF Tick, EvictDue, EvictStart, EvictLock, EvictDone, statVars
<1>2. StatsSound' /\ Latest' /\ Bounded' /\ Tracked' = Tracked
      BY <1>1 DEF StatInv, StatsSound, Latest, Bounded, Tracked, Rec
<1>3. /\ now' \in 0 .. Wrap - 1 /\ now' <= MaxNow /\ evictTS' \in 0 .. Wrap - 1 /\ evictTS' <= now'
      /\ evict' \in {"off", "sleep", "token", "time", "scan"} /\ unseen' \subseteq Tracked
      BY StatAssumption
      DEF StatInv, StatTypeOK, Tick, EvictDue, EvictStart, EvictLock, EvictDone, statVars
<1>4. StatTypeOK'
      BY <1>1, <1>2, <1>3 DEF StatInv, StatTypeOK
<1> QED BY <1>2, <1>3, <1>4 DEF StatInv

(* A record is found, made, or refused. *)
LEMMA FindStep ==
  ASSUME StatInv, NEW w \in Updater, NEW k \in Key, NEW ts \in 0 .. Wrap - 1, StatFind(w, k, ts),
         Bounded'
  PROVE  StatInv'
<1>0. UNCHANGED <<statSensorCount, now, evict, evictTS, unseen>>
      BY DEF StatFind
<1>1. CASE UNCHANGED <<heap, statRecords>>
  <2>1. StatsSound' /\ Latest' /\ Tracked' = Tracked
        BY <1>0, <1>1 DEF StatInv, StatsSound, Latest, Tracked, Rec
  <2>2. upd' \in [Updater -> [rec : 0 .. Len(heap), ts : 0 .. Wrap - 1]]
    <3>1. CASE k \in Tracked
      <4>1. statRecords[k] \in 0 .. Len(heap)
            BY <3>1 DEF StatInv, StatTypeOK
      <4>2. upd' = [upd EXCEPT ![w] = [rec |-> statRecords[k], ts |-> ts]]
            BY <3>1 DEF StatFind
      <4> QED BY <4>1, <4>2 DEF StatInv, StatTypeOK
    <3>2. CASE k \notin Tracked
      <4>1. heap' # heap \/ upd' = upd
        <5>1. ASSUME Create(w, k, ts) PROVE heap' # heap
          <6>1. heap \in Seq(Record)
                BY DEF StatInv, StatTypeOK
          <6>2. Len(heap') = Len(heap) + 1 /\ Len(heap) \in Nat
                BY <5>1, <6>1 DEF Create
          <6> QED BY <6>2
        <5> QED BY <3>2, <5>1 DEF StatFind
      <4> QED BY <1>1, <4>1 DEF StatInv, StatTypeOK
    <3> QED BY <3>1, <3>2
  <2>3. StatTypeOK'
        BY <1>0, <1>1, <2>1, <2>2 DEF StatInv, StatTypeOK
  <2> QED BY <1>0, <2>1, <2>3 DEF StatInv
<1>2. CASE k \notin Tracked /\ Cardinality(Tracked) < statSensorCount /\ Create(w, k, ts)
  <2> DEFINE new == [key |-> k, first |-> ts, last |-> ts, newest |-> ts, observed |-> 0]
             n   == Len(heap)
  <2>1. heap \in Seq(Record) /\ n \in Nat /\ new \in Record
        BY DEF StatInv, StatTypeOK, Record
  <2>2. heap' = Append(heap, new)
        BY <1>2 DEF Create
  <2>3. /\ heap' \in Seq(Record) /\ Len(heap') = n + 1 /\ heap'[n + 1] = new
        /\ \A i \in 1 .. n : heap'[i] = heap[i]
        BY <2>1, <2>2
  <2>4. /\ Tracked' = Tracked \union {k} /\ statRecords'[k] = n + 1
        /\ \A j \in Tracked : statRecords'[j] = statRecords[j]
        /\ statRecords' = [j \in Tracked \union {k} |-> IF j = k THEN n + 1 ELSE statRecords[j]]
        BY <1>2 DEF Create, Tracked
  <2>5. upd' = [upd EXCEPT ![w] = [rec |-> n + 1, ts |-> ts]]
        BY <1>2 DEF Create
  <2> HIDE DEF new, n
  <2>6. statRecords' \in [Tracked' -> 1 .. n + 1]
        BY <2>1, <2>4 DEF StatInv, StatTypeOK, n
  <2>7. upd' \in [Updater -> [rec : 0 .. n + 1, ts : 0 .. Wrap - 1]]
        BY <2>1, <2>5 DEF StatInv, StatTypeOK, n
  <2>8. StatTypeOK'
        BY <1>0, <2>3, <2>4, <2>6, <2>7 DEF StatInv, StatTypeOK
  <2>9. StatsSound' /\ Latest'
    <3>1. Cardinality(Tracked') <= statSensorCount'
          BY DEF Bounded
    <3>2. ASSUME NEW j \in Tracked' PROVE statRecords'[j] \in DOMAIN heap' /\ Rec(j)'.key = j
      <4>1. CASE j = k
            BY <2>1, <2>3, <2>4, <4>1 DEF Rec, new
      <4>2. CASE j # k
        <5>1. j \in Tracked /\ statRecords[j] \in 1 .. n /\ heap[statRecords[j]].key = j
              BY <2>4, <4>2 DEF StatInv, StatTypeOK, StatsSound, Rec, n
        <5> QED BY <2>1, <2>3, <2>4, <5>1 DEF Rec
      <4> QED BY <4>1, <4>2
    <3>3. ASSUME NEW i \in DOMAIN heap'
          PROVE  /\ heap'[i].observed = heap'[i].last - heap'[i].first
                 /\ heap'[i].newest = heap'[i].last
      <4>1. CASE i = n + 1
            BY <2>3, <4>1 DEF new
      <4>2. CASE i # n + 1
        <5>1. i \in 1 .. n /\ i \in DOMAIN heap
              BY <2>1, <2>3, <4>2 DEF n
        <5> QED BY <2>3, <5>1 DEF StatInv, StatsSound, Latest
      <4> QED BY <4>1, <4>2
    <3> QED BY <3>1, <3>2, <3>3 DEF StatsSound, Latest
  <2> QED BY <1>0, <2>4, <2>8, <2>9 DEF StatInv
<1> QED BY <1>1, <1>2 DEF StatFind

(* An update moves a record's end to the update's time, and the time it    *)
(* has observed by as much.                                                *)
LEMMA SpanGrows ==
  ASSUME NEW r \in Record, NEW t \in 0 .. Wrap - 1, t > r.last, r.observed = r.last - r.first
  PROVE  LET new == [r EXCEPT !.last = t, !.observed = @ + Since(r.last, t), !.newest = t]
         IN  /\ new \in Record /\ new.key = r.key
             /\ new.observed = new.last - new.first /\ new.newest = new.last
<1> DEFINE new == [r EXCEPT !.last = t, !.observed = @ + Since(r.last, t), !.newest = t]
<1>1. r.last \in 0 .. Wrap - 1 /\ r.first \in 0 .. Wrap - 1 /\ r.observed \in Nat
      BY DEF Record
<1>2. Since(r.last, t) = t - r.last
      BY <1>1, SinceExact
<1>3. /\ new.key = r.key /\ new.first = r.first /\ new.last = t /\ new.newest = t
      /\ new.observed = r.observed + Since(r.last, t)
      BY DEF Record
<1>4. r.observed + Since(r.last, t) \in Nat /\ r.observed + Since(r.last, t) = t - r.first
      BY <1>1, <1>2, StatAssumption
<1>5. new \in Record
      BY <1>4, Zenon DEF Record
<1> QED BY <1>3, <1>4, <1>5

(* A worker updates the record it found, which may have been evicted. *)
LEMMA UpdateStep ==
  ASSUME StatInv, NEW w \in Updater, StatUpdate(w)
  PROVE  StatInv'
<1> DEFINE i == upd[w].rec
           t == upd[w].ts
           r == heap[i]
<1>0. UNCHANGED <<statSensorCount, statRecords, now, evict, evictTS, unseen>> /\ Tracked' = Tracked
      BY DEF StatUpdate, Tracked
<1>1. /\ heap \in Seq(Record) /\ i \in 1 .. Len(heap) /\ t \in 0 .. Wrap - 1
      /\ r \in Record /\ r.observed = r.last - r.first /\ r.newest = r.last
  <2>1. heap \in Seq(Record) /\ upd[w] \in [rec : 0 .. Len(heap), ts : 0 .. Wrap - 1]
        BY DEF StatInv, StatTypeOK
  <2>2. upd[w].rec \in 1 .. Len(heap) /\ upd[w].ts \in 0 .. Wrap - 1
        BY <2>1 DEF StatUpdate
  <2> QED BY <2>1, <2>2 DEF StatInv, StatsSound, Latest
<1>2. upd' \in [Updater -> [rec : 0 .. Len(heap), ts : 0 .. Wrap - 1]]
  <2>1. NoUpdate \in [rec : 0 .. Len(heap), ts : 0 .. Wrap - 1]
        BY <1>1, StatAssumption DEF NoUpdate
  <2> QED BY <2>1 DEF StatUpdate, StatInv, StatTypeOK
<1>3. /\ heap' \in Seq(Record) /\ Len(heap') = Len(heap)
      /\ \A j \in 1 .. Len(heap) :
           /\ heap'[j].key = heap[j].key /\ heap'[j].newest = heap'[j].last
           /\ heap'[j].observed = heap'[j].last - heap'[j].first
  <2> DEFINE Good(new) == /\ new \in Record /\ new.key = r.key /\ new.newest = new.last
                          /\ new.observed = new.last - new.first
  <2>0. \A j \in 1 .. Len(heap) : /\ heap[j].observed = heap[j].last - heap[j].first
                                  /\ heap[j].newest = heap[j].last
        BY <1>1 DEF StatInv, StatsSound, Latest
  <2>1. PICK new : heap' = [heap EXCEPT ![i] = new] /\ Good(new)
    <3>1. CASE t > r.last
      <4> HIDE DEF i, t, r
      <4> DEFINE new == [r EXCEPT !.last = t, !.observed = @ + Since(r.last, t), !.newest = t]
      <4>1. Good(new)
            BY <1>1, <3>1, SpanGrows, Zenon
      <4>2. heap' = [heap EXCEPT ![i] = new]
            BY <1>1, <3>1 DEF StatUpdate, i, t, r
      <4> QED BY <4>1, <4>2
    <3>2. CASE ~(t > r.last)
      <4>1. heap' = [heap EXCEPT ![i] = [r EXCEPT !.last = @, !.observed = @, !.newest = @]]
            BY <1>1, <3>2 DEF StatUpdate
      <4>2. r = [r EXCEPT !.last = @, !.observed = @, !.newest = @]
            BY <1>1 DEF Record
      <4> QED BY <1>1, <4>1, <4>2
    <3> QED BY <3>1, <3>2
  <2> HIDE DEF Good
  <2>3. /\ heap' \in Seq(Record) /\ Len(heap') = Len(heap)
        /\ heap'[i] = new /\ \A j \in 1 .. Len(heap) : j # i => heap'[j] = heap[j]
        BY <1>1, <2>1 DEF Good
  <2>4. ASSUME NEW j \in 1 .. Len(heap)
        PROVE  /\ heap'[j].key = heap[j].key /\ heap'[j].newest = heap'[j].last
               /\ heap'[j].observed = heap'[j].last - heap'[j].first
    <3>1. CASE j = i
          BY <2>1, <2>3, <3>1 DEF Good
    <3>2. CASE j # i
          BY <2>0, <2>3, <3>2
    <3> QED BY <3>1, <3>2
  <2> QED BY <2>3, <2>4
<1> HIDE DEF i, t, r
<1>4. StatTypeOK'
      BY <1>0, <1>2, <1>3 DEF StatInv, StatTypeOK
<1>5. StatsSound' /\ Latest'
  <2>1. ASSUME NEW k \in Tracked PROVE statRecords[k] \in DOMAIN heap' /\ heap'[statRecords[k]].key = k
    <3>1. statRecords[k] \in 1 .. Len(heap) /\ heap[statRecords[k]].key = k
          BY Zenon DEF StatInv, StatTypeOK, StatsSound, Rec
    <3>2. DOMAIN heap' = 1 .. Len(heap')
          BY <1>3
    <3> QED BY <1>3, <3>1, <3>2, Zenon
  <2>2. DOMAIN heap' = 1 .. Len(heap)
        BY <1>3
  <2> QED BY <1>0, <1>3, <2>1, <2>2 DEF StatsSound, Latest, StatInv, Rec
<1> QED BY <1>0, <1>4, <1>5 DEF StatInv, Bounded

(* evictStale drops one key at most. *)
LEMMA VisitStep ==
  ASSUME StatInv, NEW k \in unseen, EvictVisit(k), Bounded'
  PROVE  /\ StatInv'
         /\ \A j \in Tracked : j \notin Tracked' => j = k /\ IsStale(Rec(k), evictTS)
<1>0. UNCHANGED <<statSensorCount, heap, upd, now, evict, evictTS>> /\ unseen' = unseen \ {k}
      BY DEF EvictVisit
<1>1. CASE ~IsStale(Rec(k), evictTS)
  <2>1. statRecords' = statRecords
        BY <1>1 DEF EvictVisit
  <2> QED BY <1>0, <2>1 DEF StatInv, StatTypeOK, StatsSound, Latest, Tracked, Rec
<1>2. CASE IsStale(Rec(k), evictTS)
  <2>1. /\ statRecords' = [j \in Tracked \ {k} |-> statRecords[j]]
        /\ Tracked' = Tracked \ {k}
        BY <1>2 DEF EvictVisit, Tracked
  <2>2. statRecords' \in [Tracked' -> 1 .. Len(heap)] /\ Tracked' \subseteq Key /\ unseen' \subseteq Key
        BY <1>0, <2>1 DEF StatInv, StatTypeOK
  <2>3. StatTypeOK'
        BY <1>0, <2>2 DEF StatInv, StatTypeOK
  <2>4. StatsSound' /\ Latest'
        BY <1>0, <2>1 DEF StatInv, StatsSound, Latest, Bounded, Rec
  <2> QED BY <1>0, <1>2, <2>1, <2>3, <2>4 DEF StatInv
<1> QED BY <1>1, <1>2

-----------------------------------------------------------------------------
(* What is left counts, with the library's facts about finite sets. *)
INSTANCE FiniteSetTheorems

(* The initial state satisfies the invariant. *)
LEMMA InvInit == Init => Inv
  <1> SUFFICES ASSUME Init PROVE Inv
    OBVIOUS
  <1>1. LifeInv /\ MapInv
    BY GrpcOutAssumption DEF Init, LifeInv, MapInv, AckMeansStopped, Loops, Fresh
  <1>2. DataInv
    BY GrpcOutAssumption DEF Init, DataInv, NoSilentGap, Queued, Elems, Fresh
  <1>3. Active = {}
    BY DEF Init, Active
  <1>4. DrainInv
    BY <1>3, FS_EmptySet DEF Init, DrainInv, LeaverDrained, WaitSays
  <1> QED
    BY <1>1, <1>2, <1>4 DEF Inv

(* childrenWG counts the handlers between addChild and Done(). *)
LEMMA CountStep ==
  ASSUME MapInv, wg = Cardinality(Active), [Next]_vars
  PROVE  /\ wg' = Cardinality(Active')
         /\ wg = 0 => Active = {}
         /\ wg' = 0 => Active' = {}
  <1>1. IsFiniteSet(Active) /\ IsFiniteSet(Active')
    BY FS_Subset, GrpcOutAssumption DEF Active
  <1>2. wg' = Cardinality(Active')
    BY <1>1, ActiveStep, FS_AddElement, FS_RemoveElement
  <1> QED
    BY <1>1, <1>2, FS_EmptySet

(* The invariant is inductive. *)
LEMMA InvStep == Inv /\ [Next]_vars => Inv'
  <1> SUFFICES ASSUME Inv, [Next]_vars PROVE Inv'
    OBVIOUS
  <1>1. LifeInv' /\ MapInv' /\ DataInv'
    BY LifeStep, MapStep, DataStep DEF Inv
  <1>2. LeaverDrained'
    BY LeaverStep DEF Inv, DrainInv
  <1>3. wg' = Cardinality(Active') /\ (wg = 0 => Active = {}) /\ (wg' = 0 => Active' = {})
    BY CountStep DEF Inv, DrainInv
  <1>4. WaitSays'
    BY <1>1, <1>3, WaitStep DEF Inv, DrainInv
  <1> QED
    BY <1>1, <1>2, <1>3, <1>4 DEF Inv, DrainInv

(* outermostLoop, stickyLoop and any number of Pull handlers keep the      *)
(* inductive invariant.                                                    *)
THEOREM GrpcOutInvariant == Spec => []Inv
  BY InvInit, InvStep, PTL DEF Spec

(* Every variable keeps its type; in particular no client channel ever     *)
(* holds more than dataChannelDepth messages, so feedAllChildren never     *)
(* blocks while it holds the mutex.                                        *)
THEOREM GrpcOutTyping == Spec => []TypeOK
  <1>1. Inv => TypeOK
    <2>1. ASSUME Inv PROVE wg \in Nat
      BY <2>1, FS_Subset, FS_CardinalityType, GrpcOutAssumption DEF Inv, DrainInv, Active
    <2> QED
      BY <2>1, GrpcOutAssumption DEF Inv, LifeInv, MapInv, DataInv, DrainInv, WaitSays, TypeOK, Loops
  <1> QED
    BY <1>1, GrpcOutInvariant, PTL

(* feedAllChildren never sends on a closed channel, and a client whose     *)
(* Pull is returning has left the map.                                     *)
THEOREM GrpcOutChannels == Spec => [](NoSendOnClosed /\ GoneIsForgotten)
  <1>1. Inv => NoSendOnClosed /\ GoneIsForgotten
    BY DEF Inv, MapInv, NoSendOnClosed, GoneIsForgotten
  <1> QED
    BY <1>1, GrpcOutInvariant, PTL

(* Every message broadcast while a client is in the map is put in its      *)
(* channel, in order, or counted as dropped.                               *)
THEOREM GrpcOutNoSilentGap == Spec => []NoSilentGap
  <1>1. Inv => NoSilentGap
    BY DEF Inv, DataInv
  <1> QED
    BY <1>1, GrpcOutInvariant, PTL

(* Unless DRAINTIMEOUT passes, the server is stopped only after every      *)
(* client whose channel was closed has been sent what was queued.          *)
THEOREM GrpcOutGracefulDrain == Spec => []GracefulDrain
  <1>1. Inv => GracefulDrain
    BY DEF Inv, DrainInv, LeaverDrained, WaitSays, MapInv, GracefulDrain
  <1> QED
    BY <1>1, GrpcOutInvariant, PTL

(* SHUTDOWN is acknowledged only once the server is stopped. *)
THEOREM GrpcOutAckMeansStopped == Spec => []AckMeansStopped
  <1>1. Inv => AckMeansStopped
    BY DEF Inv, LifeInv
  <1> QED
    BY <1>1, GrpcOutInvariant, PTL

(* The table starts empty. *)
LEMMA StatInitInv == ASSUME NEW count \in Nat, StatInit(count) PROVE StatInv
<1>1. Tracked = {}
      BY DEF StatInit, Tracked
<1>2. IsFiniteSet(Tracked) /\ Cardinality(Tracked) = 0
      BY <1>1, FS_EmptySet
<1>3. StatTypeOK
      BY <1>1, <1>2, StatAssumption DEF StatInit, StatTypeOK, NoUpdate, Tracked
<1>4. StatsSound /\ Latest
      BY <1>1, <1>2 DEF StatInit, StatsSound, Latest
<1> QED BY <1>2, <1>3, <1>4, StatAssumption DEF StatInv, StatInit, Bounded

(* statsensorcount bounds the table: a record is only made below it. *)
LEMMA BoundedStep == StatInv /\ [StatNext]_statVars => Bounded'
<1> SUFFICES ASSUME StatInv, [StatNext]_statVars PROVE Bounded'
      OBVIOUS
<1>1. IsFiniteSet(Tracked) /\ Cardinality(Tracked) \in Nat /\ statSensorCount \in Nat
      BY FS_CardinalityType DEF StatInv, StatTypeOK, Bounded
<1>2. CASE statSensorCount' = statSensorCount /\ Tracked' \subseteq Tracked
  <2>1. /\ IsFiniteSet(Tracked') /\ Cardinality(Tracked') \in Nat
        /\ Cardinality(Tracked') <= Cardinality(Tracked)
        BY <1>1, <1>2, FS_Subset, FS_CardinalityType
  <2> QED BY <1>1, <1>2, <2>1 DEF StatInv, Bounded
<1>3. ASSUME NEW w \in Updater, NEW k \in Key, NEW ts \in 0 .. Wrap - 1, StatFind(w, k, ts)
      PROVE  Bounded'
  <2>1. CASE k \notin Tracked /\ Cardinality(Tracked) < statSensorCount /\ Create(w, k, ts)
    <3>1. Tracked' = Tracked \union {k} /\ statSensorCount' = statSensorCount
          BY <1>3, <2>1 DEF StatFind, Create, Tracked
    <3>2. IsFiniteSet(Tracked') /\ Cardinality(Tracked') = Cardinality(Tracked) + 1
          BY <1>1, <2>1, <3>1, FS_AddElement
    <3> QED BY <1>1, <2>1, <3>1, <3>2 DEF Bounded
  <2>2. CASE UNCHANGED <<statSensorCount, statRecords>>
        BY <1>2, <2>2 DEF Tracked
  <2> QED BY <1>3, <2>1, <2>2 DEF StatFind
<1>4. ASSUME NEW k \in unseen, EvictVisit(k) PROVE Bounded'
      BY <1>2, <1>4 DEF EvictVisit, Tracked
<1>5. ASSUME NEW w \in Updater, StatUpdate(w) PROVE Bounded'
      BY <1>2, <1>5 DEF StatUpdate, Tracked
<1>6. CASE Tick \/ EvictDue \/ EvictStart \/ EvictLock \/ EvictDone \/ UNCHANGED statVars
      BY <1>2, <1>6 DEF Tick, EvictDue, EvictStart, EvictLock, EvictDone, Tracked, statVars
<1> QED BY <1>3, <1>4, <1>5, <1>6 DEF StatNext

(* The invariant is inductive. *)
LEMMA StatNextInv == StatInv /\ [StatNext]_statVars => StatInv'
BY BoundedStep, FindStep, UpdateStep, VisitStep, ClockSteps DEF StatNext

(* The table keeps to statsensorcount and accounts for time exactly once,  *)
(* for any workers, keys, timestamps and size.                             *)
THEOREM StatTableSound == StatSpec => []StatsSound
<1>1. (\E count \in Nat : StatInit(count)) => StatInv
      BY StatInitInv
<1>2. StatInv => StatsSound
      BY DEF StatInv
<1> QED BY <1>1, <1>2, StatNextInv, PTL DEF StatSpec

(* evictStale drops only a record none of whose samples, by the device's   *)
(* timestamps, is of the last metricsStatsStaleAfter, for any of them.     *)
THEOREM StatFreshKept == StatSpec => FreshKept
<1> DEFINE Keeps == \A k \in Tracked :
                      k \notin DOMAIN statRecords' => Rec(k).newest + StaleAfter < now
<1>1. (\E count \in Nat : StatInit(count)) => StatInv
      BY StatInitInv
<1>2. ASSUME StatInv, [StatNext]_statVars PROVE [Keeps]_statVars
  <2>1. ASSUME NEW k \in unseen, EvictVisit(k) PROVE Keeps
    <3>1. Bounded'
          BY <1>2, BoundedStep
    <3> QED BY <1>2, <2>1, <3>1, VisitStep, StaleIsStale DEF Tracked, StatInv
  <2>2. ASSUME NEW w \in Updater, NEW k \in Key, NEW ts \in 0 .. Wrap - 1, StatFind(w, k, ts)
        PROVE  Keeps
        BY <2>2 DEF StatFind, Create, Tracked
  <2>3. ASSUME NEW w \in Updater, StatUpdate(w) PROVE Keeps
        BY <2>3 DEF StatUpdate, Tracked
  <2>4. CASE Tick \/ EvictDue \/ EvictStart \/ EvictLock \/ EvictDone
        BY <2>4 DEF Tick, EvictDue, EvictStart, EvictLock, EvictDone, Tracked
  <2> QED BY <1>2, <2>1, <2>2, <2>3, <2>4 DEF StatNext
<1> QED BY <1>1, <1>2, StatNextInv, PTL DEF StatSpec, FreshKept

=============================================================================
