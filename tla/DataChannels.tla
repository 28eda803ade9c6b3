---------------------------- MODULE DataChannels ----------------------------
(***************************************************************************)
(* The data channels of the outputs: loadConfig (pipeline.go) gives all of *)
(* them to every input.  Channel o is the sequence put[o] of all the       *)
(* messages ever sent to it and the number taken[o] its output has taken.  *)
(***************************************************************************)
EXTENDS Naturals, Sequences

CONSTANTS
  NumOut,   \* number of outputs, numbered in the order of dataChans
  Depth     \* capacity of their data channels

ASSUME DataChannelsAssumption == NumOut \in Nat /\ Depth \in Nat

VARIABLES
  put, taken,
  dead      \* outputs that have stopped for good to service their channel

chanVars == <<put, taken, dead>>

Output    == 1 .. NumOut
Queued(o) == Len(put[o]) - taken[o]
Full(o)   == Queued(o) = Depth

ChanInit ==
  /\ put = [o \in Output |-> << >>] /\ taken = [o \in Output |-> 0]
  /\ dead = {}

(* dataChan <- msg *)
Put(o, m) ==
  /\ Queued(o) < Depth
  /\ put' = [put EXCEPT ![o] = Append(@, m)]
  /\ UNCHANGED <<taken, dead>>

(* The output receives a message. *)
Take(o) ==
  /\ o \notin dead /\ Queued(o) > 0
  /\ taken' = [taken EXCEPT ![o] = @ + 1]
  /\ UNCHANGED <<put, dead>>

(* The output stops to receive: its loop has returned, or is stuck. *)
OutputDies(o) ==
  /\ dead' = dead \union {o}
  /\ dead' # dead
  /\ UNCHANGED <<put, taken>>

(* The messages of sender s in channel q: their numbers, in order, and the *)
(* first n, each once.                                                     *)
Numbers(q, s) == {q[i].num : i \in {j \in DOMAIN q : q[j].from = s}}
InOrder(q, s) ==
  \A i, j \in DOMAIN q : i < j /\ q[i].from = s /\ q[j].from = s => q[i].num < q[j].num
OnceInOrder(q, s, n) == Numbers(q, s) = 1 .. n /\ InOrder(q, s)

=============================================================================
