------------------------------ MODULE GrpcOut ------------------------------
(***************************************************************************)
(* The gRPC output server (xport_grpc_out.go).  outermostLoop starts a     *)
(* stickyLoop, and another one whenever the last one has closed            *)
(* childrenDone.  stickyLoop listens, broadcasts every upstream message to *)
(* the channels of the clients that are pulling, and on cancellation or    *)
(* accept failure closes those channels, waits for the Pull handlers, at   *)
(* most DRAINTIMEOUT, and stops the server.  Each Pull handler is a        *)
(* goroutine of its own.                                                   *)
(*                                                                         *)
(* childrenMutex is held by addChild, removeChild and removeAllChildren    *)
(* for one step, and by feedAllChildren while loop = "feed".               *)
(***************************************************************************)
EXTENDS Naturals, Sequences, FiniteSets

CONSTANTS
  Client,   \* Pull calls that may be made
  Depth,    \* cfg.dataChannelDepth
  TLSMayFail, \* TLS is on, and its credentials may fail to load
  MaxMsg,   \* bound: messages broadcast
  MaxFail   \* bound: failures to listen or accept

ASSUME GrpcOutAssumption ==
  /\ IsFiniteSet(Client)
  /\ Depth \in Nat /\ MaxMsg \in Nat /\ MaxFail \in Nat
  /\ TLSMayFail \in BOOLEAN

VARIABLES
  outer,         \* outermostLoop: "select", "cancel" (SHUTDOWN, waiting), "acked"
  loop,          \* stickyLoop: see below
  childrenDone,  \* the current childrenDone channel: "open", "closed"
  cancel,        \* the current context's cancel: "nil", "set", "called"
  server,        \* the gRPC server: "down", "up", "failed" (Serve() returned; its
                 \* connections live on until Stop())
  drainTimer,    \* DRAINTIMEOUT since removeAllChildren: "pending", "fired"
  fails,         \* listen and accept failures so far
  fed,           \* number of messages broadcast so far
  todo,          \* children feedAllChildren has still to look at
  children,      \* the children map
  pull,          \* per client: where its Pull handler is
  put,           \* per client: the messages put in its channel, in order
  taken,         \* per client: how many of them its handler has received
  closed,        \* clients whose channel is closed
  streamDone,    \* clients whose stream is over: cancelled, or a Send failed
  wg,            \* childrenWG's counter
  wait,          \* the Wait() goroutines, one per stickyLoop that got so far
  drops,         \* history, per client: messages counted as dropped
  joined         \* history, per client: fed at the time of addChild

ctrlVars == <<outer, cancel, childrenDone>>
srvVars  == <<server, drainTimer, fails>>
dataVars == <<fed, todo, drops, children, put, closed>>
pullVars == <<pull, streamDone, taken, joined>>
wgVars   == <<wg, wait>>
vars == <<ctrlVars, loop, srvVars, dataVars, pullVars, wgVars>>

(* loop: "none" no stickyLoop yet, "start" before Listen, "serve" in the   *)
(* select, "feed" in feedAllChildren, "remove" at out:, "wait" for the     *)
(* children, "stop" before Stop(), "end" returned having closed            *)
(* childrenDone, "fatal" returned without.                                 *)
Loops == {"none", "start", "serve", "feed", "remove", "wait", "stop", "end", "fatal"}
MutexFree == loop # "feed"
Queued(c) == Len(put[c]) - taken[c]

Init ==
  /\ outer = "select" /\ cancel = "nil" /\ loop = "none"
  /\ childrenDone = "closed"         \* "Prime the pump"
  /\ server = "down" /\ drainTimer = "pending" /\ fails = 0
  /\ fed = 0 /\ todo = {} /\ drops = [c \in Client |-> {}]
  /\ children = {}
  /\ put = [c \in Client |-> << >>] /\ closed = {}
  /\ pull = [c \in Client |-> "idle"] /\ streamDone = {}
  /\ taken = [c \in Client |-> 0] /\ joined = [c \in Client |-> 0]
  /\ wg = 0 /\ wait = << >>

-----------------------------------------------------------------------------
(* outermostLoop *)

Restart ==
  /\ outer = "select"
  /\ childrenDone = "closed"
  /\ childrenDone' = "open"
  /\ cancel' = "set"
  /\ loop' = "start"
  /\ UNCHANGED <<outer, srvVars, dataVars, pullVars, wgVars>>

RecvShutdown ==
  /\ outer = "select"
  /\ IF cancel = "nil" THEN outer' = "acked" /\ UNCHANGED cancel
                       ELSE outer' = "cancel" /\ cancel' = "called"
  /\ UNCHANGED <<childrenDone, loop, srvVars, dataVars, pullVars, wgVars>>

(* <-s.childrenDone, then ACK *)
AckShutdown ==
  /\ outer = "cancel"
  /\ childrenDone = "closed"
  /\ outer' = "acked"
  /\ UNCHANGED <<cancel, childrenDone, loop, srvVars, dataVars, pullVars,
                 wgVars>>

-----------------------------------------------------------------------------
(* stickyLoop *)

TLSFails ==
  /\ loop = "start"
  /\ TLSMayFail
  /\ loop' = "fatal"
  /\ UNCHANGED <<ctrlVars, srvVars, dataVars, pullVars, wgVars>>

ListenFails ==
  /\ loop = "start"
  /\ fails < MaxFail
  /\ fails' = fails + 1
  /\ loop' = "end" /\ childrenDone' = "closed"
  /\ UNCHANGED <<outer, cancel, server, drainTimer, dataVars, pullVars, wgVars>>

Listen ==
  /\ loop = "start"
  /\ loop' = "serve"
  /\ server' = "up" /\ drainTimer' = "pending"
  /\ UNCHANGED <<ctrlVars, fails, dataVars, pullVars, wgVars>>

(* Serve() returns: accept failed. *)
AcceptFails ==
  /\ server = "up"
  /\ fails < MaxFail
  /\ fails' = fails + 1
  /\ server' = "failed"
  /\ UNCHANGED <<ctrlVars, loop, drainTimer, dataVars, pullVars, wgVars>>

(* dM := <-s.dataChan, its encoding produced: feedAllChildren takes the    *)
(* mutex.  (A message that cannot be encoded is only logged.)              *)
FeedStart ==
  /\ loop = "serve"
  /\ fed < MaxMsg
  /\ fed' = fed + 1
  /\ todo' = children
  /\ loop' = "feed"
  /\ UNCHANGED <<ctrlVars, srvVars, drops, children, put, closed, pullVars,
                 wgVars>>

(* Faulty: drops without counting. *)
FeedChildUncounted(c) ==
  /\ loop = "feed" /\ c \in todo
  /\ todo' = todo \ {c}
  /\ put' = IF Queued(c) = Depth THEN put ELSE [put EXCEPT ![c] = Append(@, fed)]
  /\ UNCHANGED <<ctrlVars, loop, srvVars, fed, drops, children, closed,
                 pullVars, wgVars>>

FeedChild(c) ==
  /\ loop = "feed" /\ c \in todo
  /\ todo' = todo \ {c}
  /\ IF Queued(c) = Depth
       THEN drops' = [drops EXCEPT ![c] = @ \union {fed}] /\ UNCHANGED put
       ELSE put' = [put EXCEPT ![c] = Append(@, fed)] /\ UNCHANGED drops
  /\ UNCHANGED <<ctrlVars, loop, srvVars, fed, children, closed, pullVars,
                 wgVars>>

FeedDone ==
  /\ loop = "feed" /\ todo = {}
  /\ loop' = "serve"
  /\ UNCHANGED <<ctrlVars, srvVars, dataVars, pullVars, wgVars>>

LeaveServe ==
  /\ loop = "serve"
  /\ cancel = "called" \/ server = "failed"
  /\ loop' = "remove"
  /\ UNCHANGED <<ctrlVars, srvVars, dataVars, pullVars, wgVars>>

(* removeAllChildren, and the goroutine that is to Wait for the children. *)
RemoveAllChildren ==
  /\ loop = "remove"
  /\ children' = {}
  /\ closed' = closed \union children
  /\ wait' = Append(wait, "starting")
  /\ loop' = "wait"
  /\ UNCHANGED <<ctrlVars, srvVars, fed, todo, drops, put, pullVars, wg>>

DrainTimeout ==
  /\ loop = "wait" /\ drainTimer = "pending"
  /\ drainTimer' = "fired"
  /\ UNCHANGED <<ctrlVars, loop, server, fails, dataVars, pullVars, wgVars>>

(* Faulty: does not wait. *)
WaitOverEarly ==
  /\ loop = "wait"
  /\ loop' = "stop"
  /\ UNCHANGED <<ctrlVars, srvVars, dataVars, pullVars, wgVars>>

WaitOver ==
  /\ loop = "wait"
  /\ drainTimer = "fired" \/ wait[Len(wait)] = "returned"
  /\ loop' = "stop"
  /\ UNCHANGED <<ctrlVars, srvVars, dataVars, pullVars, wgVars>>

(* Faulty: childrenDone is not closed. *)
StopSilent ==
  /\ loop = "stop"
  /\ server' = "down"
  /\ streamDone' = streamDone \union {c \in Client : pull[c] \notin {"idle", "done"}}
  /\ loop' = "end"
  /\ UNCHANGED <<ctrlVars, drainTimer, fails, dataVars, pull, taken, joined,
                 wgVars>>

(* grpcServer.Stop() cancels every open stream; close(s.childrenDone). *)
Stop ==
  /\ loop = "stop"
  /\ server' = "down"
  /\ streamDone' = streamDone \union {c \in Client : pull[c] \notin {"idle", "done"}}
  /\ childrenDone' = "closed"
  /\ loop' = "end"
  /\ UNCHANGED <<outer, cancel, drainTimer, fails, dataVars, pull, taken,
                 joined, wgVars>>

-----------------------------------------------------------------------------
(* Pull, one handler per client: "called" before addChild, "run" in its    *)
(* select, "send" in gs.Send, "out" after the loop, "left" after           *)
(* removeChild, "done" returned.                                           *)

Move(c, from, to) == pull[c] = from /\ pull' = [pull EXCEPT ![c] = to]

ClientCalls(c) ==
  /\ Move(c, "idle", "called")
  /\ server # "down"
  /\ UNCHANGED <<ctrlVars, loop, srvVars, dataVars, streamDone, taken, joined,
                 wgVars>>

AddChild(c) ==
  /\ Move(c, "called", "run")
  /\ MutexFree
  /\ children' = children \union {c}
  /\ joined' = [joined EXCEPT ![c] = fed]
  /\ wg' = wg + 1
  /\ UNCHANGED <<ctrlVars, loop, srvVars, fed, todo, drops, put, closed,
                 streamDone, taken, wait>>

PullMsg(c) ==
  /\ Move(c, "run", "send")
  /\ Queued(c) > 0
  /\ taken' = [taken EXCEPT ![c] = @ + 1]
  /\ UNCHANGED <<ctrlVars, loop, srvVars, dataVars, streamDone, joined, wgVars>>

(* gs.Send returns: the client took the message, or there is an error. *)
SendReturns(c) ==
  /\ \/ Move(c, "send", "run") /\ UNCHANGED streamDone
     \/ Move(c, "send", "out") /\ streamDone' = streamDone \union {c}
  /\ UNCHANGED <<ctrlVars, loop, srvVars, dataVars, taken, joined, wgVars>>

(* The channel is closed and empty, or the stream is cancelled. *)
PullEnds(c) ==
  /\ Move(c, "run", "out")
  /\ (c \in closed /\ Queued(c) = 0) \/ c \in streamDone
  /\ UNCHANGED <<ctrlVars, loop, srvVars, dataVars, streamDone, taken, joined,
                 wgVars>>

(* Faulty: the entry is deleted and the channel closed without the mutex. *)
RemoveChildUnlocked(c) ==
  /\ Move(c, "out", "left")
  /\ children' = children \ {c} /\ closed' = closed \union {c}
  /\ UNCHANGED <<ctrlVars, loop, srvVars, fed, todo, drops, put, streamDone,
                 taken, joined, wgVars>>

(* removeChild: deletes and closes, unless removeAllChildren already did. *)
RemoveChild(c) ==
  /\ Move(c, "out", "left")
  /\ MutexFree
  /\ children' = children \ {c}
  /\ closed' = closed \union {c}
  /\ UNCHANGED <<ctrlVars, loop, srvVars, fed, todo, drops, put, streamDone,
                 taken, joined, wgVars>>

(* childrenWG.Done(): the last one wakes the goroutines in Wait(). *)
WGDone(c) ==
  /\ Move(c, "left", "done")
  /\ wg' = wg - 1
  /\ wait' = IF wg = 1
               THEN [i \in DOMAIN wait |-> IF wait[i] = "waiting" THEN "woken" ELSE wait[i]]
               ELSE wait
  /\ UNCHANGED <<ctrlVars, loop, srvVars, dataVars, streamDone, taken, joined>>

(* Wait() returns at once when the counter is 0. *)
WaitStarts(i) ==
  /\ wait[i] = "starting"
  /\ wait' = [wait EXCEPT ![i] = IF wg = 0 THEN "returned" ELSE "waiting"]
  /\ UNCHANGED <<ctrlVars, loop, srvVars, dataVars, pullVars, wg>>

(* The woken goroutine runs.  Wait() panics, and the process is gone, when *)
(* the counter is in use again: see WaitGroupNotReused.                    *)
WaitReturns(i) ==
  /\ wait[i] = "woken"
  /\ wait' = [wait EXCEPT ![i] = IF wg = 0 THEN "returned" ELSE "panicked"]
  /\ UNCHANGED <<ctrlVars, loop, srvVars, dataVars, pullVars, wg>>

ClientCancels(c) ==
  /\ pull[c] \in {"called", "run", "send"} /\ c \notin streamDone
  /\ streamDone' = streamDone \union {c}
  /\ UNCHANGED <<ctrlVars, loop, srvVars, dataVars, pull, taken, joined,
                 wgVars>>

-----------------------------------------------------------------------------
Outermost  == Restart \/ AckShutdown
StickyLoop == \/ TLSFails \/ Listen \/ ListenFails \/ FeedStart \/ FeedDone
              \/ (\E c \in Client : FeedChild(c))
              \/ LeaveServe \/ RemoveAllChildren \/ WaitOver \/ Stop
Pull(c)    == AddChild(c) \/ PullMsg(c) \/ PullEnds(c) \/ RemoveChild(c) \/ WGDone(c)
Waiter     == \E i \in DOMAIN wait : WaitStarts(i) \/ WaitReturns(i)

(* No goroutine has panicked: a panic ends the process, all of it. *)
Alive == \A i \in DOMAIN wait : wait[i] # "panicked"

Next ==
  /\ Alive
  /\ \/ Outermost \/ StickyLoop \/ Waiter \/ RecvShutdown \/ AcceptFails \/ DrainTimeout
     \/ \E c \in Client : Pull(c) \/ ClientCalls(c) \/ SendReturns(c) \/ ClientCancels(c)

(* Goroutines that can run do run, timers fire, and a select that is often *)
(* enough offered ctx.Done() or acceptFailed takes it.  A client may take  *)
(* for ever to read: gs.Send need not return until its stream is over.     *)
Fairness ==
  /\ WF_vars(Alive /\ Outermost)
  /\ WF_vars(Alive /\ StickyLoop)
  /\ SF_vars(Alive /\ LeaveServe)
  /\ WF_vars(Alive /\ Waiter)
  /\ WF_vars(Alive /\ DrainTimeout)
  /\ \A c \in Client : WF_vars(Alive /\ Pull(c))
  /\ \A c \in Client : WF_vars(Alive /\ c \in streamDone /\ SendReturns(c))

Spec == Init /\ [][Next]_vars /\ Fairness

-----------------------------------------------------------------------------
TypeOK ==
  /\ outer \in {"select", "cancel", "acked"}
  /\ cancel \in {"nil", "set", "called"} /\ childrenDone \in {"open", "closed"}
  /\ loop \in Loops /\ server \in {"down", "up", "failed"}
  /\ drainTimer \in {"pending", "fired"}
  /\ fails \in 0..MaxFail /\ fed \in 0..MaxMsg
  /\ children \subseteq Client /\ todo \subseteq children
  /\ closed \subseteq Client /\ streamDone \subseteq Client
  /\ pull \in [Client -> {"idle", "called", "run", "send", "out", "left", "done"}]
  /\ put \in [Client -> Seq(1..MaxMsg)] /\ taken \in [Client -> Nat]
  /\ \A c \in Client : Queued(c) \in 0..Depth
  /\ drops \in [Client -> SUBSET (1..MaxMsg)] /\ joined \in [Client -> 0..MaxMsg]
  /\ wg \in Nat /\ wait \in Seq({"starting", "waiting", "woken", "returned", "panicked"})

Elems(s) == {s[i] : i \in DOMAIN s}

(* feedAllChildren never sends on a channel removeChild or                 *)
(* removeAllChildren has closed.                                           *)
NoSendOnClosed == todo \intersect closed = {}

(* A Wait() on childrenWG never finds the group in use again: what the     *)
(* sync package demands of a group that is reused, as this one is by the   *)
(* next stickyLoop and by Pull calls that arrive while the loop drains.    *)
WaitGroupNotReused == \A i \in DOMAIN wait : wait[i] = "woken" => wg = 0

(* A client in the map was offered every message broadcast since its       *)
(* addChild: each was put in its channel, in order, or was counted as      *)
(* dropped by feedAllChildren, and never two of these.                     *)
NoSilentGap ==
  \A c \in children :
    LET last == IF c \in todo THEN fed - 1 ELSE fed
    IN /\ \A i, j \in DOMAIN put[c] : i < j => put[c][i] < put[c][j]
       /\ Elems(put[c]) \union drops[c] = (joined[c] + 1) .. last
       /\ Elems(put[c]) \intersect drops[c] = {}

(* A client whose Pull is returning is not fed any more: it has left the   *)
(* map, whoever closed its channel.                                        *)
GoneIsForgotten == \A c \in Client : pull[c] \in {"left", "done"} => c \notin children

(* When the children are done within DRAINTIMEOUT, the server is only      *)
(* stopped after every client whose channel was closed under it has sent   *)
(* all that was queued, unless its stream failed first.                    *)
GracefulDrain ==
  loop = "stop" /\ drainTimer = "pending" =>
    \A c \in closed \ streamDone : Queued(c) = 0 /\ pull[c] = "done"

(* SHUTDOWN is acknowledged only once the server has been stopped and      *)
(* stickyLoop is gone.                                                     *)
AckMeansStopped == outer = "acked" => server = "down" /\ loop \in {"none", "end"}

(* A SHUTDOWN is acknowledged, whatever the clients do, unless TLS failed: *)
(* then stickyLoop has returned without closing childrenDone; or unless a  *)
(* Pull that came while the loop drained makes Wait() panic, and the whole *)
(* process ends.                                                           *)
ShutdownAcked == outer = "cancel" ~> outer = "acked" \/ loop = "fatal" \/ ~Alive

(* After a failure to accept, the server comes back, unless it is being    *)
(* shut down, TLS fails, or Wait() panics as above.                        *)
ServerComesBack ==
  server = "failed" ~> server = "up" \/ outer # "select" \/ loop = "fatal" \/ ~Alive

=============================================================================
