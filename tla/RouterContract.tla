--------------------------- MODULE RouterContract ---------------------------
(***************************************************************************)
(* What a message router promises its owner: messages, numbered in the     *)
(* order of their acceptance, are settled one by one in that order; each   *)
(* is either appended to one output or discarded, in one indivisible step, *)
(* and nothing is settled any more once the outputs start to be closed.    *)
(***************************************************************************)
EXTENDS Naturals, Sequences

CONSTANT Out

VARIABLES
  accepted,   \* number of messages accepted
  settled,    \* number of messages delivered or discarded
  delivered,  \* per output, the messages delivered to it
  discarded,  \* the messages discarded
  open        \* no output has been closed yet

contractVars == <<accepted, settled, delivered, discarded, open>>

Init ==
  /\ accepted = 0 /\ settled = 0
  /\ delivered = [k \in Out |-> << >>]
  /\ discarded = {}
  /\ open = TRUE

Accept ==
  /\ accepted' = accepted + 1
  /\ UNCHANGED <<settled, delivered, discarded, open>>

Settle ==
  /\ open
  /\ settled < accepted
  /\ settled' = settled + 1
  /\ UNCHANGED <<accepted, open>>

Deliver(k) ==
  /\ Settle
  /\ delivered' = [delivered EXCEPT ![k] = Append(@, settled + 1)]
  /\ UNCHANGED discarded

Discard ==
  /\ Settle
  /\ discarded' = discarded \union {settled + 1}
  /\ UNCHANGED delivered

Close ==
  /\ open
  /\ open' = FALSE
  /\ UNCHANGED <<accepted, settled, delivered, discarded>>

Next == Accept \/ (\E k \in Out : Deliver(k)) \/ Discard \/ Close

Spec == Init /\ [][Next]_contractVars

=============================================================================
