------------------------------- MODULE UdpIn -------------------------------
(***************************************************************************)
(* The UDP input (xport_udp.go): startStickyServer binds the port and      *)
(* starts runServer, again whenever the last one has closed                *)
(* closedListener; runServer reads packets and sprays messages across the  *)
(* data channels, dropping what a full channel cannot take.                *)
(***************************************************************************)
EXTENDS DataChannels

CONSTANTS
  MaxUdpMsg,    \* bound: messages
  MaxUdpFail    \* bound: failures to bind, to read, to parse

ASSUME UdpAssumption == MaxUdpMsg \in Nat /\ MaxUdpFail \in Nat

VARIABLES
  sticky,          \* startStickyServer: "select", "wait" (SHUTDOWN), "acked"
  cancelled,       \* "open", "closed"
  listener,        \* s.listener: "nil", "open", "closed"
  closedListener,  \* "open", "closed"
  port,            \* the port is "free", or "held" by a socket
  srv,             \* runServer: "none", "read", "test", "push"
  udpFails,        \* failures so far
  packets,         \* messages parsed so far
  next,            \* the output the current message goes to next
  drops            \* per output: the messages counted as dropped

stickyVars == <<sticky, cancelled>>
bindVars   == <<listener, closedListener, port>>
udpVars    == <<stickyVars, bindVars, srv, udpFails, packets, next, drops>>

Udp == "udp"
Fails == udpFails < MaxUdpFail /\ udpFails' = udpFails + 1

UdpInit ==
  /\ sticky = "select" /\ cancelled = "open"
  /\ listener = "nil" /\ closedListener = "closed"    \* "Prime loop"
  /\ port = "free"
  /\ srv = "none" /\ udpFails = 0
  /\ packets = 0 /\ next = 1 /\ drops = [o \in Output |-> {}]

-----------------------------------------------------------------------------
(* startStickyServer *)

(* runServer starts with a parser, or returns because there is none. *)
UdpBind ==
  /\ sticky = "select" /\ closedListener = "closed"
  /\ port = "free"
  /\ port' = "held" /\ listener' = "open"
  /\ \/ srv' = "read" /\ closedListener' = "open" /\ UNCHANGED udpFails
     \/ Fails /\ UNCHANGED <<srv, closedListener>>
  /\ UNCHANGED <<stickyVars, packets, next, drops, chanVars>>

(* ListenUDP fails, for one because the socket of the last runServer,      *)
(* which it does not close, still holds the port: listener becomes nil.    *)
UdpBindFails ==
  /\ sticky = "select" /\ closedListener = "closed"
  /\ \/ port = "held" /\ UNCHANGED udpFails
     \/ port = "free" /\ Fails
  /\ listener' = "nil"
  /\ UNCHANGED <<stickyVars, closedListener, port, srv, packets, next, drops, chanVars>>

(* The garbage collector finalizes a socket nobody refers to any more. *)
UdpFinalize ==
  /\ port = "held" /\ listener = "nil" /\ srv = "none"
  /\ port' = "free"
  /\ UNCHANGED <<stickyVars, listener, closedListener, srv, udpFails, packets, next, drops,
                 chanVars>>

UdpShutdown ==
  /\ sticky = "select"
  /\ cancelled' = "closed"
  /\ IF listener = "nil" THEN sticky' = "acked" /\ UNCHANGED <<listener, port>>
                         ELSE sticky' = "wait" /\ listener' = "closed" /\ port' = "free"
  /\ UNCHANGED <<closedListener, srv, udpFails, packets, next, drops, chanVars>>

(* <-s.closedListener, then ACK *)
UdpAck ==
  /\ sticky = "wait" /\ closedListener = "closed"
  /\ sticky' = "acked"
  /\ UNCHANGED <<cancelled, bindVars, srv, udpFails, packets, next, drops, chanVars>>

-----------------------------------------------------------------------------
(* runServer *)

(* Faulty: closedListener is not closed. *)
ReturnSilently == srv' = "none" /\ UNCHANGED closedListener

(* The deferred close(s.closedListener); the socket stays open. *)
Return == srv' = "none" /\ closedListener' = "closed"

(* A packet with a message; one without changes nothing. *)
UdpRead ==
  /\ srv = "read" /\ listener = "open"
  /\ packets < MaxUdpMsg /\ NumOut > 0
  /\ packets' = packets + 1 /\ next' = 1
  /\ srv' = "test"
  /\ UNCHANGED <<stickyVars, bindVars, udpFails, drops, chanVars>>

(* The read fails, because the listener was closed or otherwise, or the    *)
(* packet is one the parser does not accept.                               *)
UdpReadFails ==
  /\ srv = "read"
  /\ \/ listener = "closed" /\ UNCHANGED udpFails
     \/ Fails
  /\ Return
  /\ UNCHANGED <<stickyVars, listener, port, packets, next, drops, chanVars>>

(* Done with one channel: on to the next one, or to the next packet. *)
Advance ==
  /\ next' = next + 1
  /\ srv' = IF next = NumOut THEN "read" ELSE "test"

(* Faulty: one full channel ends the spray. *)
UdpTestBreak ==
  /\ srv = "test"
  /\ IF Full(next)
       THEN drops' = [drops EXCEPT ![next] = @ \union {packets}] /\ srv' = "read" /\ UNCHANGED next
       ELSE srv' = "push" /\ UNCHANGED <<next, drops>>
  /\ UNCHANGED <<stickyVars, bindVars, udpFails, packets, chanVars>>

(* if cap(dataChan) == len(dataChan): count and go on *)
UdpTest ==
  /\ srv = "test"
  /\ IF Full(next) THEN drops' = [drops EXCEPT ![next] = @ \union {packets}] /\ Advance
                   ELSE srv' = "push" /\ UNCHANGED <<next, drops>>
  /\ UNCHANGED <<stickyVars, bindVars, udpFails, packets, chanVars>>

UdpPush ==
  /\ srv = "push"
  /\ Put(next, [from |-> Udp, num |-> packets])
  /\ Advance
  /\ UNCHANGED <<stickyVars, bindVars, udpFails, packets, drops>>

(* Faulty: looks at cancelled only when the channel has room. *)
UdpPushCancelledLate ==
  /\ srv = "push" /\ cancelled = "closed" /\ ~Full(next)
  /\ Return
  /\ UNCHANGED <<stickyVars, listener, port, udpFails, packets, next, drops, chanVars>>

UdpPushCancelled ==
  /\ srv = "push" /\ cancelled = "closed"
  /\ Return
  /\ UNCHANGED <<stickyVars, listener, port, udpFails, packets, next, drops, chanVars>>

-----------------------------------------------------------------------------
UdpServer == \/ (listener = "closed" /\ UdpReadFails) \/ UdpTest \/ UdpPush
             \/ UdpPushCancelled
UdpSticky == UdpBind \/ UdpBindFails \/ UdpAck

UdpNext ==
  \/ UdpBind \/ UdpBindFails \/ UdpFinalize \/ UdpShutdown \/ UdpAck
  \/ UdpRead \/ UdpReadFails \/ UdpTest \/ UdpPush \/ UdpPushCancelled

=============================================================================
