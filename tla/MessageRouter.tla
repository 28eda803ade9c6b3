--------------------------- MODULE MessageRouter ---------------------------
(***************************************************************************)
(* dataMsgRouter (message_router.go): one goroutine that takes messages    *)
(* from dataChanIn and hands each of them to one of NumOut output          *)
(* channels.  Where a message goes and what happens when that channel is   *)
(* full is decided by the owner through route() and handleCongested();     *)
(* here both are an arbitrary choice, so what is stated in this module     *)
(* holds for every owner.                                                  *)
(*                                                                         *)
(* Messages are numbered in the order in which they enter dataChanIn.  The *)
(* channel is a FIFO, so its content is always the interval                *)
(* taken+1 .. arrived, and the message being handled is number `taken'.    *)
(* Output channel k is the sequence sent[k] of everything ever put into it *)
(* together with the number rcvd[k] of messages its consumer has removed.  *)
(***************************************************************************)
EXTENDS Naturals, Sequences

CONSTANTS
  NumOut,    \* number of output channels
  InDepth,   \* cap(dataChanIn)
  Depth,     \* cap of each output channel
  MaxMsg     \* bound: messages that ever enter dataChanIn

ASSUME RouterAssumption ==
  /\ NumOut \in Nat \ {0}
  /\ InDepth \in Nat /\ Depth \in Nat /\ MaxMsg \in Nat

VARIABLES
  arrived,       \* messages that have entered dataChanIn
  rcvd,          \* per output channel: how many its consumer has removed
  shutdownChan,  \* the owner has closed shutdownChan
  atShutdown,    \* history: `arrived' when shutdownChan was closed
  taken,         \* messages the router has removed from dataChanIn
  drain,         \* messages left to service, once shutdown was seen
  closed,        \* number of output channels closed, in index order
  pc,            \* where the router goroutine is
  sent,          \* per output channel: the messages put into it
  dropped,       \* messages dropped on the owner's decision
  out,           \* outChanIndex of the current attempt
  timer          \* the timer of SEND_AND_BLOCK

envVars  == <<arrived, rcvd, shutdownChan, atShutdown>>
loopVars == <<taken, drain, closed>>
msgVars  == <<sent, dropped>>
routerVars == <<envVars, loopVars, msgVars, pc, out, timer>>

Out == 0 .. NumOut - 1

(* Places in run(), and places in handleMsg(). *)
RunPc    == {"select", "drain", "close", "done"}
HandlePc == {"route", "send", "congested", "block", "stop"}

InFlight(k) == Len(sent[k]) - rcvd[k]      \* len(dataChansOut[k])
HasRoom(k)  == InFlight(k) < Depth

(* drain has no value until shutdown was seen.  handleMsg() returns to the *)
(* loop of run() that called it.                                           *)
NotDraining == MaxMsg + 1
ReturnPc    == IF drain = NotDraining THEN "select" ELSE "drain"

RouterInit ==
  /\ arrived = 0 /\ taken = 0
  /\ sent = [k \in Out |-> << >>]
  /\ rcvd = [k \in Out |-> 0]
  /\ dropped = {}
  /\ shutdownChan = FALSE /\ atShutdown = 0
  /\ drain = NotDraining
  /\ closed = 0
  /\ pc = "select" /\ out = 0 /\ timer = "stopped"

-----------------------------------------------------------------------------
(* The surroundings: input stages, the owner, the consumers, the clock.    *)

(* An input stage completes a send on dataChanIn. *)
Arrive ==
  /\ arrived < MaxMsg
  /\ arrived - taken < InDepth
  /\ arrived' = arrived + 1
  /\ UNCHANGED <<rcvd, shutdownChan, atShutdown, loopVars, msgVars, pc, out, timer>>

CloseShutdownChan ==
  /\ ~shutdownChan
  /\ shutdownChan' = TRUE
  /\ atShutdown' = arrived
  /\ UNCHANGED <<arrived, rcvd, loopVars, msgVars, pc, out, timer>>

(* The consumer of channel k receives a message. *)
Consume(k) ==
  /\ InFlight(k) > 0
  /\ rcvd' = [rcvd EXCEPT ![k] = @ + 1]
  /\ UNCHANGED <<arrived, shutdownChan, atShutdown, loopVars, msgVars, pc, out, timer>>

(* The runtime fires the armed timer: a tick sits in timeout.C. *)
TimerFires ==
  /\ timer = "armed"
  /\ timer' = "fired"
  /\ UNCHANGED <<envVars, loopVars, msgVars, pc, out>>

-----------------------------------------------------------------------------
(* run().  With a message waiting and shutdownChan closed, select may take *)
(* either case.                                                            *)

TakeMsg ==
  /\ pc = "select"
  /\ taken < arrived
  /\ taken' = taken + 1
  /\ pc' = "route"
  /\ UNCHANGED <<envVars, drain, closed, msgVars, out, timer>>

(* Faulty: the queue is not looked at when shutdown is seen. *)
SeeShutdownNoDrain ==
  /\ pc = "select" /\ shutdownChan
  /\ drain' = 0 /\ pc' = "drain"
  /\ UNCHANGED <<envVars, taken, closed, msgVars, out, timer>>

(* case <-r.shutdownChan: drain := len(r.dataChanIn) *)
SeeShutdown ==
  /\ pc = "select"
  /\ shutdownChan
  /\ drain' = arrived - taken
  /\ pc' = "drain"
  /\ UNCHANGED <<envVars, taken, closed, msgVars, out, timer>>

DrainMsg ==
  /\ pc = "drain"
  /\ drain > 0
  /\ taken < arrived
  /\ taken' = taken + 1
  /\ drain' = drain - 1
  /\ pc' = "route"
  /\ UNCHANGED <<envVars, closed, msgVars, out, timer>>

DrainDone ==
  /\ pc = "drain"
  /\ drain = 0
  /\ pc' = "close"
  /\ UNCHANGED <<envVars, loopVars, msgVars, out, timer>>

(* Faulty: only the first channel is closed. *)
CloseFirstOnly ==
  /\ pc = "close"
  /\ closed' = closed + 1 /\ pc' = "done"
  /\ UNCHANGED <<envVars, taken, drain, msgVars, out, timer>>

(* for _, c := range r.dataChansOut { close(c) }, then return *)
CloseNext ==
  /\ pc = "close"
  /\ closed' = closed + 1
  /\ pc' = IF closed' = NumOut THEN "done" ELSE "close"
  /\ UNCHANGED <<envVars, taken, drain, msgVars, out, timer>>

-----------------------------------------------------------------------------
(* handleMsg(), for message number `taken'. *)

(* Faulty: the test against the capacity of the channel is off by one. *)
RouteOffByOne(k) ==
  /\ pc = "route"
  /\ out' = k
  /\ pc' = IF InFlight(k) <= Depth THEN "send" ELSE "congested"
  /\ UNCHANGED <<envVars, loopVars, msgVars, timer>>

(* outChanIndex := r.route(msg, i), and the test of len against cap. *)
Route(k) ==
  /\ pc = "route"
  /\ out' = k
  /\ pc' = IF HasRoom(k) THEN "send" ELSE "congested"
  /\ UNCHANGED <<envVars, loopVars, msgVars, timer>>

(* r.dataChansOut[outChanIndex] <- msg *)
PutMsg ==
  /\ HasRoom(out)
  /\ sent' = [sent EXCEPT ![out] = Append(@, taken)]
  /\ UNCHANGED <<envVars, loopVars, dropped, out, timer>>

Send == pc = "send" /\ PutMsg /\ pc' = ReturnPc

(* The three answers of handleCongested(). *)
Reroute ==
  /\ pc = "congested"
  /\ pc' = "route"
  /\ UNCHANGED <<envVars, loopVars, msgVars, out, timer>>

Drop ==
  /\ pc = "congested"
  /\ dropped' = dropped \union {taken}
  /\ pc' = ReturnPc
  /\ UNCHANGED <<envVars, loopVars, sent, out, timer>>

SendAndBlock ==
  /\ pc = "congested"
  /\ timer' = "armed"
  /\ pc' = "block"
  /\ UNCHANGED <<envVars, loopVars, msgVars, out>>

(* Faulty: goes round again once the blocked send has gone through. *)
BlockedSendAgain == pc = "block" /\ PutMsg /\ pc' = "route"

(* The select of SEND_AND_BLOCK: the send goes through ... *)
BlockedSend == pc = "block" /\ PutMsg /\ pc' = "stop"

(* ... and if !timeout.Stop() { <-timeout.C }: a timer that has fired in   *)
(* the meantime has its tick removed ...                                   *)
StopTimer ==
  /\ pc = "stop"
  /\ timer' = "stopped"
  /\ pc' = ReturnPc
  /\ UNCHANGED <<envVars, loopVars, msgVars, out>>

(* ... or the tick is received first and the message goes round again. *)
BlockedTimeout ==
  /\ pc = "block"
  /\ timer = "fired"
  /\ timer' = "stopped"
  /\ pc' = "route"
  /\ UNCHANGED <<envVars, loopVars, msgVars, out>>

-----------------------------------------------------------------------------
RouterStep ==
  \/ TakeMsg \/ SeeShutdown \/ DrainMsg \/ DrainDone \/ CloseNext
  \/ \E k \in Out : Route(k)
  \/ Send \/ Reroute \/ Drop \/ SendAndBlock
  \/ BlockedSend \/ StopTimer \/ BlockedTimeout \/ TimerFires

RouterNext ==
  \/ Arrive \/ CloseShutdownChan
  \/ \E k \in Out : Consume(k)
  \/ RouterStep

RouterSpec == RouterInit /\ [][RouterNext]_routerVars

-----------------------------------------------------------------------------
(* Properties *)

RouterTypeOK ==
  /\ arrived \in 0 .. MaxMsg /\ taken \in 0 .. MaxMsg
  /\ sent \in [Out -> Seq(1 .. MaxMsg)]
  /\ rcvd \in [Out -> Nat]
  /\ dropped \subseteq 1 .. MaxMsg
  /\ shutdownChan \in BOOLEAN /\ atShutdown \in 0 .. MaxMsg
  /\ drain \in 0 .. NotDraining
  /\ closed \in 0 .. NumOut
  /\ pc \in RunPc \union HandlePc
  /\ out \in Out
  /\ timer \in {"stopped", "armed", "fired"}

(* The message in hand, not yet put anywhere: `taken' while handleMsg() is *)
(* before its send or drop.                                                *)
InHand  == pc \in HandlePc \ {"stop"}
Settled == IF InHand THEN taken - 1 ELSE taken

(* Every message the router has finished handling was either dropped on    *)
(* the owner's decision or put into exactly one output channel exactly     *)
(* once; the message in hand and the ones still queued are nowhere yet.    *)
(* No interleaving of reroutes, blocked sends, timeouts and shutdown makes *)
(* handleMsg() lose or duplicate a message.                                *)
ExactlyOnce ==
  /\ dropped \subseteq 1 .. Settled
  /\ \A k \in Out : \A i \in 1 .. Len(sent[k]) : sent[k][i] \in (1 .. Settled) \ dropped
  /\ \A m \in (1 .. Settled) \ dropped :
       \E k \in Out : \E i \in 1 .. Len(sent[k]) : sent[k][i] = m
  /\ \A k, l \in Out : \A i \in 1 .. Len(sent[k]), j \in 1 .. Len(sent[l]) :
       sent[k][i] = sent[l][j] => k = l /\ i = j

(* Each output channel carries messages in the order in which they entered *)
(* dataChanIn, however often they were rerouted or blocked on the way.     *)
InOrder ==
  \A k \in Out : \A i, j \in 1 .. Len(sent[k]) : i < j => sent[k][i] < sent[k][j]

(* The easy path tests len < cap and then sends without select or timer:   *)
(* between the two the channel cannot fill up, because the router is its   *)
(* only sender.  Nothing is ever sent on a closed channel.  And the tick   *)
(* of one blocked send is never seen by a later one: outside               *)
(* SEND_AND_BLOCK the timer is stopped and timeout.C is empty.             *)
SendSafe ==
  /\ pc = "send" => HasRoom(out)
  /\ InHand => closed = 0
  /\ pc \notin {"block", "stop"} => timer = "stopped"

(* "Service as many as there are in queue": once the router closes its     *)
(* outputs, every message that was in dataChanIn when the owner closed     *)
(* shutdownChan has been handled, and receiving them never blocked.        *)
DrainsQueue ==
  /\ pc = "drain" => taken + drain <= arrived
  /\ pc \in {"close", "done"} => taken >= atShutdown

(* The router, with its reroutes, blocking sends and two loops, implements *)
(* the contract: a message is settled at its send or drop.                 *)
Contract == INSTANCE RouterContract WITH
  accepted <- arrived, settled <- Settled, delivered <- sent,
  discarded <- dropped, open <- (closed = 0)

(* Every step of the router is one indivisible step of RouterContract, or  *)
(* changes nothing its owner can see.                                      *)
ImplementsContract == Contract!Spec

=============================================================================
