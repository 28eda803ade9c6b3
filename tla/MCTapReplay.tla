---------------------------- MODULE MCTapReplay ----------------------------
(* TapReplay with a message of each type and one without payload. *)
EXTENDS TapReplay

MCMessage == {[kind |-> k, len |-> 1] : k \in MsgKind}
               \union {[kind |-> "gpb", len |-> 0]}
=============================================================================
