---------------------------- MODULE SocketInputs ----------------------------
(***************************************************************************)
(* A TCP and a UDP input feeding the same outputs.                         *)
(***************************************************************************)
EXTENDS TcpIn, UdpIn

(* The UDP input is none of the connections of the TCP input. *)
ASSUME SocketAssumption == Udp \notin Conn

vars == <<tcpVars, udpVars, chanVars>>

Init == ChanInit /\ TcpInit /\ UdpInit

Outputs == \E o \in Output : Take(o) \/ OutputDies(o)

Next ==
  \/ TcpNext /\ UNCHANGED udpVars
  \/ UdpNext /\ UNCHANGED tcpVars
  \/ Outputs /\ UNCHANGED <<tcpVars, udpVars>>

(* Goroutines that can run do run, an output that is not dead services its *)
(* channel, and the runtime finalizes garbage.  Nothing is assumed of      *)
(* those who connect and send, or of failures.                             *)
Fairness ==
  /\ WF_vars((TcpAck \/ TcpAcceptor) /\ UNCHANGED udpVars)
  /\ \A c \in Conn : WF_vars(TcpHandler(c) /\ UNCHANGED udpVars)
  /\ \A c \in Conn : SF_vars(TcpCancelled(c) /\ UNCHANGED udpVars)
  /\ \A c \in Conn : WF_vars(sock[c] = "closed" /\ TcpReaderGets(c, "err") /\ UNCHANGED udpVars)
  /\ WF_vars(UdpSticky /\ UNCHANGED tcpVars)
  /\ WF_vars(UdpServer /\ UNCHANGED tcpVars)
  /\ WF_vars(UdpFinalize /\ UNCHANGED tcpVars)
  /\ \A o \in Output : WF_vars(Take(o) /\ UNCHANGED <<tcpVars, udpVars>>)

Spec == Init /\ [][Next]_vars /\ Fairness

-----------------------------------------------------------------------------
(* A message read from a TCP connection goes to every output, once and in  *)
(* order: handleConnection may be cancelled between two messages and never *)
(* inside one, so when it has returned the outputs agree on what it sent.  *)
TcpWholeSpray ==
  \A c \in Conn, o \in Output :
    OnceInOrder(put[o], c, IF conn[c] = "spray" /\ o >= at[c] THEN msgs[c] - 1 ELSE msgs[c])

(* A message read from the UDP port is, for every output, put in its       *)
(* channel or counted as dropped there, never both and in order; only the  *)
(* message in progress when runServer is cancelled may be cut short.       *)
UdpAccounted ==
  \A o \in Output :
    LET seen == Numbers(put[o], Udp)
        busy == srv \in {"test", "push"} \/ cancelled = "closed"
    IN /\ InOrder(put[o], Udp)
       /\ seen \intersect drops[o] = {}
       /\ 1 .. (IF busy /\ o >= next THEN packets - 1 ELSE packets) \subseteq seen \union drops[o]

(* The UDP input acknowledges SHUTDOWN even if the outputs are full and    *)
(* have stopped to service their channels.                                 *)
UdpShutdownAcked == cancelled = "closed" ~> sticky = "acked"

(* After a failure to bind, to read or to parse the UDP input serves its   *)
(* port again, unless it is shut down: rebinding has to wait until the     *)
(* socket runServer left open is collected.                                *)
UdpComesBack == srv = "none" ~> srv # "none" \/ sticky # "select"

(* Once cancelled, every TCP connection handler returns, if the outputs    *)
(* service their channels, and the goroutine that reads for it ends too:   *)
(* closing the socket ends its read and the result has a place to go.      *)
TcpConnectionsEnd ==
  cancelConn = "closed" ~>
    \/ \A c \in Conn : ~Handling(c) /\ reader[c] = "idle"
    \/ dead # {} \/ accept = "panic"

=============================================================================
