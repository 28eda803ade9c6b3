------------------------------- MODULE TcpIn -------------------------------
(***************************************************************************)
(* The TCP input (xport_tcp.go): the control loop startServer, the         *)
(* goroutine that accepts connections, and for each connection a handler   *)
(* and the goroutine that reads for it, so that the handler can be         *)
(* cancelled while it waits for data.                                      *)
(***************************************************************************)
EXTENDS DataChannels

CONSTANTS
  Conn,         \* connections that may be made
  MaxTcpMsg,    \* bound: messages per connection
  MaxTcpFail    \* bound: failures of Accept()

ASSUME TcpAssumption == MaxTcpMsg \in Nat /\ MaxTcpFail \in Nat

VARIABLES
  tcpCtl,      \* startServer: "run", "closing" (cancelConn closed), "acked"
  cancelConn,  \* "open", "closed"
  accept,      \* acceptTCPConnections: "accept", "wait" for the connections,
               \* "doneCancel" (sending on it, for ever), "panic"
  acceptFails, \* failures of Accept() so far
  conn,        \* per connection: where its handler is
  sock,        \* per connection: the socket is "none", "open" or "closed"
  reader,      \* per connection: the reading goroutine is "idle" or "reading"
  result,      \* per connection: what is in readDone or readErr
  msgs,        \* per connection: messages parsed so far
  at           \* per connection: the output the current message goes to next

tcpCtlVars  == <<tcpCtl, cancelConn>>
acceptVars  == <<accept, acceptFails>>
connVars    == <<conn, sock, reader, result, msgs, at>>
tcpVars     == <<tcpCtlVars, acceptVars, connVars>>

(* conn: "none" nobody has dialled, "select" waiting for the block that is *)
(* being read, "spray" sending a message, "closed" returned; "lost"        *)
(* accepted, and dropped without a handler or a Close().                   *)
Handling(c) == conn[c] \in {"select", "spray"}

TcpInit ==
  /\ tcpCtl = "run" /\ cancelConn = "open"
  /\ accept = "accept" /\ acceptFails = 0
  /\ conn = [c \in Conn |-> "none"] /\ sock = [c \in Conn |-> "none"]
  /\ reader = [c \in Conn |-> "idle"] /\ result = [c \in Conn |-> "none"]
  /\ msgs = [c \in Conn |-> 0] /\ at = [c \in Conn |-> 1]

-----------------------------------------------------------------------------
(* startServer *)

(* SHUTDOWN: close(s.cancelConn) ... *)
TcpShutdown ==
  /\ tcpCtl = "run"
  /\ tcpCtl' = "closing" /\ cancelConn' = "closed"
  /\ UNCHANGED <<acceptVars, connVars, chanVars>>

(* ... s.listener.Close() and ACK. *)
TcpAck ==
  /\ tcpCtl = "closing"
  /\ tcpCtl' = "acked"
  /\ UNCHANGED <<cancelConn, acceptVars, connVars, chanVars>>

ListenerOpen == tcpCtl # "acked"

-----------------------------------------------------------------------------
(* handleConnection returns: the deferred conn.Close() and                 *)
(* connectionGroup.Done().                                                 *)
Leave(c) ==
  /\ conn' = [conn EXCEPT ![c] = "closed"]
  /\ sock' = [sock EXCEPT ![c] = "closed"]

(* The top of its loop: a goroutine reads the block the parser wants next, *)
(* or there is no parser for the encap, or none for the length the last    *)
(* header has announced.                                                   *)
NextBlock(c) ==
  \/ /\ conn' = [conn EXCEPT ![c] = "select"]
     /\ reader' = [reader EXCEPT ![c] = "reading"]
     /\ sock' = [sock EXCEPT ![c] = "open"]
  \/ Leave(c) /\ UNCHANGED reader

-----------------------------------------------------------------------------
(* acceptTCPConnections *)

TcpAccept(c) ==
  /\ accept = "accept" /\ ListenerOpen
  /\ conn[c] = "none"
  /\ IF cancelConn = "open"
       THEN NextBlock(c) /\ UNCHANGED accept
       ELSE /\ accept' = "wait" /\ conn' = [conn EXCEPT ![c] = "lost"]
            /\ sock' = [sock EXCEPT ![c] = "open"] /\ UNCHANGED reader
  /\ UNCHANGED <<tcpCtlVars, acceptFails, result, msgs, at, chanVars>>

(* Accept() fails because the listener was closed ... *)
TcpAcceptCancelled ==
  /\ accept = "accept" /\ ~ListenerOpen
  /\ accept' = "wait"
  /\ UNCHANGED <<tcpCtlVars, acceptFails, connVars, chanVars>>

(* ... or for another reason: unless the server is being cancelled, after  *)
(* the sleep handleConnection is called with a nil connection, and panics. *)
(* What the other goroutines do before that is not constrained.            *)
TcpAcceptFails ==
  /\ accept = "accept" /\ ListenerOpen
  /\ acceptFails < MaxTcpFail
  /\ acceptFails' = acceptFails + 1
  /\ accept' = IF cancelConn = "closed" THEN "wait" ELSE "panic"
  /\ UNCHANGED <<tcpCtlVars, connVars, chanVars>>

(* s.connectionGroup.Wait(), then s.doneCancel <- 1, which nobody receives. *)
TcpWaitOver ==
  /\ accept = "wait"
  /\ \A c \in Conn : ~Handling(c)
  /\ accept' = "doneCancel"
  /\ UNCHANGED <<tcpCtlVars, acceptFails, connVars, chanVars>>

-----------------------------------------------------------------------------
(* handleConnection *)

(* io.ReadFull returns; readDone and readErr hold one result. *)
TcpReaderGets(c, r) ==
  /\ reader[c] = "reading" /\ result[c] = "none"
  /\ sock[c] = "closed" => r = "err"
  /\ reader' = [reader EXCEPT ![c] = "idle"]
  /\ result' = [result EXCEPT ![c] = r]
  /\ UNCHANGED <<tcpCtlVars, acceptVars, conn, sock, msgs, at, chanVars>>

(* Faulty: looks at cancelConn only when a read has returned. *)
TcpCancelledAfterRead(c) ==
  /\ conn[c] = "select" /\ cancelConn = "closed" /\ reader[c] = "idle"
  /\ Leave(c)
  /\ UNCHANGED <<tcpCtlVars, acceptVars, reader, result, msgs, at, chanVars>>

TcpCancelled(c) ==
  /\ conn[c] = "select" /\ cancelConn = "closed"
  /\ Leave(c)
  /\ UNCHANGED <<tcpCtlVars, acceptVars, reader, result, msgs, at, chanVars>>

TcpReadErr(c) ==
  /\ conn[c] = "select" /\ result[c] = "err"
  /\ result' = [result EXCEPT ![c] = "none"]
  /\ Leave(c)
  /\ UNCHANGED <<tcpCtlVars, acceptVars, reader, msgs, at, chanVars>>

(* A block was read: a header, a message, or nothing the parser accepts. *)
TcpReadDone(c) ==
  /\ conn[c] = "select" /\ result[c] = "data"
  /\ result' = [result EXCEPT ![c] = "none"]
  /\ \/ NextBlock(c) /\ UNCHANGED <<msgs, at>>
     \/ Leave(c) /\ UNCHANGED <<reader, msgs, at>>
     \/ /\ msgs[c] < MaxTcpMsg /\ NumOut > 0
        /\ msgs' = [msgs EXCEPT ![c] = @ + 1] /\ at' = [at EXCEPT ![c] = 1]
        /\ conn' = [conn EXCEPT ![c] = "spray"] /\ UNCHANGED <<sock, reader>>
  /\ UNCHANGED <<tcpCtlVars, acceptVars, chanVars>>

(* Faulty: gives up on the current message when cancelled. *)
TcpSprayCancellable(c) ==
  /\ conn[c] = "spray"
  /\ \/ /\ Put(at[c], [from |-> c, num |-> msgs[c]]) /\ at' = [at EXCEPT ![c] = @ + 1]
        /\ IF at[c] = NumOut THEN NextBlock(c) ELSE UNCHANGED <<conn, sock, reader>>
     \/ cancelConn = "closed" /\ Leave(c) /\ UNCHANGED <<chanVars, at, reader>>
  /\ UNCHANGED <<tcpCtlVars, acceptVars, result, msgs>>

(* The message goes to the next output; cancelConn is not looked at. *)
TcpSpray(c) ==
  /\ conn[c] = "spray"
  /\ Put(at[c], [from |-> c, num |-> msgs[c]]) /\ at' = [at EXCEPT ![c] = @ + 1]
  /\ IF at[c] = NumOut THEN NextBlock(c) ELSE UNCHANGED <<conn, sock, reader>>
  /\ UNCHANGED <<tcpCtlVars, acceptVars, result, msgs>>

-----------------------------------------------------------------------------
TcpHandler(c) == TcpCancelled(c) \/ TcpReadErr(c) \/ TcpReadDone(c) \/ TcpSpray(c)

(* Steps the code takes by itself, and those its environment may take. *)
TcpAcceptor == TcpAcceptCancelled \/ TcpWaitOver
TcpEnv(c) == TcpAccept(c) \/ \E r \in {"data", "err"} : TcpReaderGets(c, r)

TcpNext ==
  \/ TcpShutdown \/ TcpAck \/ TcpAcceptFails \/ TcpAcceptor
  \/ \E c \in Conn : TcpHandler(c) \/ TcpEnv(c)

=============================================================================
