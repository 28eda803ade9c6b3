------------------------- MODULE SocketInputsProofs -------------------------
(***************************************************************************)
(* TcpWholeSpray and UdpAccounted, for any connections, outputs, depth and *)
(* numbers of messages and failures.                                       *)
(***************************************************************************)
EXTENDS SocketInputs, Integers, TLAPS

Msg == [from : Conn \union {Udp}, num : Nat]

TypeInv ==
  /\ put \in [Output -> Seq(Msg)]
  /\ conn \in [Conn -> {"none", "select", "spray", "closed", "lost"}]
  /\ msgs \in [Conn -> Nat] /\ at \in [Conn -> Nat]
  /\ srv \in {"none", "read", "test", "push"}
  /\ packets \in Nat /\ next \in Nat /\ drops \in [Output -> SUBSET Nat]

(* A handler that sprays has a message in hand and an output to go to. *)
SprayInv == \A c \in Conn : conn[c] = "spray" => at[c] \in Output /\ msgs[c] > 0

(* A runServer that sprays has a packet in hand and an output to go to. *)
UdpBusy == srv \in {"test", "push"}
PacketInv == UdpBusy => next \in Output /\ packets > 0

(* The sticky loop and runServer keep each other posted by closedListener; *)
(* nobody reads from a listener once the server was cancelled.             *)
StickyInv ==
  /\ closedListener = "closed" <=> srv = "none"
  /\ cancelled = "open" <=> sticky = "select"
  /\ cancelled \in {"open", "closed"}
  /\ listener = "nil" => srv = "none"
  /\ cancelled = "closed" => listener # "open"

(* Nothing is put or counted before it has come. *)
UdpSoFar(o) == IF UdpBusy /\ o >= next THEN packets - 1 ELSE packets
UdpKnown ==
  \A o \in Output : Numbers(put[o], Udp) \union drops[o] \subseteq 1 .. UdpSoFar(o)

SocketInv ==
  TypeInv /\ SprayInv /\ PacketInv /\ StickyInv /\ UdpKnown /\ TcpWholeSpray /\ UdpAccounted

USE DataChannelsAssumption, SocketAssumption
USE DEF Output, tcpCtlVars, acceptVars, connVars, tcpVars, stickyVars, bindVars, udpVars,
        chanVars, vars

(* Before anything has happened the invariant holds. *)
LEMMA SocketInitInv == Init => SocketInv
<1> SUFFICES ASSUME Init PROVE SocketInv
  OBVIOUS
<1>1. \A o \in Output : put[o] = << >> /\ drops[o] = {}
  BY DEF Init, ChanInit, UdpInit
<1>2. \A o \in Output : \A s : Numbers(put[o], s) = {} /\ InOrder(put[o], s)
  BY <1>1 DEF Numbers, InOrder
<1>3. TypeInv
  <2>1. put \in [Output -> Seq(Msg)]
    BY DEF Init, ChanInit
  <2> QED
    BY <2>1 DEF Init, TcpInit, UdpInit, TypeInv
<1>4. SprayInv /\ PacketInv /\ StickyInv
  BY DEF Init, TcpInit, UdpInit, SprayInv, PacketInv, UdpBusy, StickyInv
<1>5. UdpKnown
  BY <1>1, <1>2, Zenon DEF Init, UdpInit, UdpKnown
<1>6. TcpWholeSpray
  BY <1>2 DEF Init, TcpInit, TcpWholeSpray, OnceInOrder
<1>7. UdpAccounted
  BY <1>1, <1>2 DEF Init, UdpInit, UdpAccounted
<1> QED
  BY <1>3, <1>4, <1>5, <1>6, <1>7 DEF SocketInv

(* One more message in a channel. *)
LEMMA NumbersAppend ==
  ASSUME NEW q \in Seq(Msg), NEW m \in Msg, NEW s
  PROVE  /\ Numbers(Append(q, m), s) = Numbers(q, s) \union IF m.from = s THEN {m.num} ELSE {}
         /\ InOrder(q, s) /\ (m.from = s => \A n \in Numbers(q, s) : n < m.num)
              => InOrder(Append(q, m), s)
<1> DEFINE r == Append(q, m)
<1>1. /\ Len(q) \in Nat /\ DOMAIN q = 1 .. Len(q) /\ DOMAIN r = 1 .. Len(q) + 1
      /\ \A i \in 1 .. Len(q) : r[i] = q[i]
      /\ r[Len(q) + 1] = m
  OBVIOUS
<1> HIDE DEF r
<1>2. \A i \in DOMAIN r : i \in DOMAIN q \/ i = Len(q) + 1
  BY <1>1
<1>3. \A i \in DOMAIN q : i \in DOMAIN r /\ r[i] = q[i] /\ i < Len(q) + 1 /\ i \in Nat
  BY <1>1
<1>4. Numbers(r, s) = Numbers(q, s) \union IF m.from = s THEN {m.num} ELSE {}
  <2>1. ASSUME NEW n \in Numbers(r, s)
        PROVE  n \in Numbers(q, s) \/ (m.from = s /\ n = m.num)
    <3>1. PICK i \in DOMAIN r : r[i].from = s /\ r[i].num = n
      BY DEF Numbers
    <3> QED
      BY <1>1, <1>2, <1>3, <3>1 DEF Numbers
  <2>2. ASSUME NEW n \in Numbers(q, s) PROVE n \in Numbers(r, s)
    <3>1. PICK i \in DOMAIN q : q[i].from = s /\ q[i].num = n
      BY DEF Numbers
    <3> QED
      BY <1>3, <3>1 DEF Numbers
  <2>3. m.from = s => m.num \in Numbers(r, s)
    BY <1>1 DEF Numbers
  <2> QED
    BY <2>1, <2>2, <2>3
<1>5. ASSUME InOrder(q, s), m.from = s => \A n \in Numbers(q, s) : n < m.num
      PROVE  InOrder(r, s)
  <2> SUFFICES ASSUME NEW i \in DOMAIN r, NEW j \in DOMAIN r, i < j,
                      r[i].from = s, r[j].from = s
               PROVE  r[i].num < r[j].num
    BY DEF InOrder
  <2>1. i \in DOMAIN q
    BY <1>1
  <2>2. CASE j \in DOMAIN q
    BY <1>3, <1>5, <2>1, <2>2 DEF InOrder
  <2>3. CASE j = Len(q) + 1
    <3>1. q[i].num \in Numbers(q, s)
      BY <1>3, <2>1 DEF Numbers
    <3> QED
      BY <1>1, <1>3, <1>5, <2>1, <2>3, <3>1
  <2> QED
    BY <1>2, <2>2, <2>3
<1> QED
  BY <1>4, <1>5 DEF r

(* What the steps of all others leave alone. *)
TcpIdle == UNCHANGED <<conn, msgs, at>>
UdpIdle == UNCHANGED <<srv, packets, next, drops>>

(* The steps of the TCP input, by what they do to the messages. *)
TcpMoves ==
  /\ UNCHANGED <<msgs, at, put>>
  /\ \E c \in Conn, x \in {"select", "closed", "lost"} :
       conn[c] # "spray" /\ conn' = [conn EXCEPT ![c] = x]
TcpParses ==
  /\ NumOut > 0 /\ UNCHANGED put
  /\ \E c \in Conn :
       /\ conn[c] = "select" /\ conn' = [conn EXCEPT ![c] = "spray"]
       /\ msgs' = [msgs EXCEPT ![c] = @ + 1] /\ at' = [at EXCEPT ![c] = 1]
TcpSprays(c, x) ==
  /\ conn[c] = "spray" /\ conn' = [conn EXCEPT ![c] = x]
  /\ IF at[c] = NumOut THEN x \in {"select", "closed"} ELSE x = "spray"
  /\ put' = [put EXCEPT ![at[c]] = Append(@, [from |-> c, num |-> msgs[c]])]
  /\ at' = [at EXCEPT ![c] = @ + 1] /\ UNCHANGED msgs

(* Every step is one of these, or one of the UDP input. *)
LEMMA SocketStep ==
  ASSUME TypeInv, [Next]_vars
  PROVE  \/ TcpIdle /\ UdpIdle /\ UNCHANGED <<put, stickyVars, bindVars>>
         \/ UNCHANGED udpVars /\ (TcpMoves \/ TcpParses)
         \/ /\ UNCHANGED udpVars
            /\ \E c \in Conn, x \in {"select", "closed", "spray"} : TcpSprays(c, x)
         \/ TcpIdle /\ UdpNext
<1> USE DEF TcpIdle, UdpIdle
<1>0. conn \in [Conn -> {"none", "select", "spray", "closed", "lost"}]
  BY DEF TypeInv
<1>1. CASE UNCHANGED vars
  BY <1>1
<1>2. CASE Outputs /\ UNCHANGED <<tcpVars, udpVars>>
  BY <1>2 DEF Outputs, Take, OutputDies
<1>3. CASE UdpNext /\ UNCHANGED tcpVars
  BY <1>3
<1>4. CASE TcpNext /\ UNCHANGED udpVars
  <2>1. CASE TcpShutdown \/ TcpAck \/ TcpAcceptFails \/ TcpAcceptor
    BY <1>4, <2>1 DEF TcpShutdown, TcpAck, TcpAcceptFails, TcpAcceptor, TcpAcceptCancelled,
                      TcpWaitOver
  <2>2. ASSUME NEW c \in Conn, TcpEnv(c) \/ TcpHandler(c)
        PROVE  \/ TcpIdle /\ UdpIdle /\ UNCHANGED <<put, stickyVars, bindVars>>
               \/ TcpMoves \/ TcpParses
               \/ \E x \in {"select", "closed", "spray"} : TcpSprays(c, x)
    <3>1. CASE TcpAccept(c)
      BY <3>1 DEF TcpAccept, NextBlock, Leave, TcpMoves
    <3>2. CASE \E r \in {"data", "err"} : TcpReaderGets(c, r)
      BY <1>4, <3>2 DEF TcpReaderGets
    <3>3. CASE TcpCancelled(c) \/ TcpReadErr(c)
      BY <3>3 DEF TcpCancelled, TcpReadErr, Leave, TcpMoves
    <3>4. CASE TcpReadDone(c)
      BY <3>4 DEF TcpReadDone, NextBlock, Leave, TcpMoves, TcpParses
    <3>5. CASE TcpSpray(c)
      <4>1. CASE at[c] = NumOut
        BY <3>5, <4>1 DEF TcpSpray, NextBlock, Leave, Put, TcpSprays
      <4>2. CASE at[c] # NumOut
        <5>1. conn' = [conn EXCEPT ![c] = "spray"]
          BY <1>0, <3>5, <4>2 DEF TcpSpray
        <5> QED
          BY <3>5, <4>2, <5>1 DEF TcpSpray, Put, TcpSprays
      <4> QED
        BY <4>1, <4>2
    <3> QED
      BY <2>2, <3>1, <3>2, <3>3, <3>4, <3>5 DEF TcpEnv, TcpHandler
  <2> QED
    BY <1>4, <2>1, <2>2 DEF TcpNext
<1> QED
  BY <1>1, <1>2, <1>3, <1>4 DEF Next

(* One more message in one of the channels. *)
LEMMA PutOne ==
  ASSUME TypeInv, NEW p \in Output, NEW m \in Msg, put' = [put EXCEPT ![p] = Append(@, m)]
  PROVE  /\ put' \in [Output -> Seq(Msg)]
         /\ \A o \in Output : o # p => put'[o] = put[o]
         /\ \A s : /\ Numbers(put'[p], s) = Numbers(put[p], s)
                                              \union IF m.from = s THEN {m.num} ELSE {}
                   /\ InOrder(put[p], s) /\ (m.from = s => \A n \in Numbers(put[p], s) : n < m.num)
                        => InOrder(put'[p], s)
<1>1. put \in [Output -> Seq(Msg)] /\ put[p] \in Seq(Msg)
  BY DEF TypeInv
<1>2. put'[p] = Append(put[p], m) /\ \A o \in Output : o # p => put'[o] = put[o]
  BY <1>1
<1>3. put' \in [Output -> Seq(Msg)]
  BY <1>1
<1> QED
  BY <1>1, <1>2, <1>3, NumbersAppend

(* What a handler of the TCP input sends, and where. *)
LEMMA TcpMsg ==
  ASSUME TypeInv, SprayInv, NEW c \in Conn, conn[c] = "spray"
  PROVE  /\ [from |-> c, num |-> msgs[c]] \in Msg
         /\ at[c] \in Output /\ msgs[c] \in Nat /\ msgs[c] > 0
BY DEF TypeInv, SprayInv, Msg

(* What the UDP input sends, and where. *)
LEMMA UdpMsg ==
  ASSUME TypeInv, PacketInv, UdpBusy
  PROVE  /\ [from |-> Udp, num |-> packets] \in Msg
         /\ next \in Output /\ packets \in Nat /\ packets > 0
BY DEF TypeInv, PacketInv, Msg

(* Types. *)
LEMMA SocketType ==
  ASSUME SocketInv, [Next]_vars PROVE TypeInv'
<1> USE DEF TcpIdle, UdpIdle
<1>0. TypeInv /\ SprayInv /\ PacketInv
  BY DEF SocketInv
<1>1. CASE TcpIdle /\ UdpIdle /\ UNCHANGED put
  BY <1>0, <1>1 DEF TypeInv
<1>2. CASE UNCHANGED udpVars /\ (TcpMoves \/ TcpParses)
  <2>1. /\ conn' \in [Conn -> {"none", "select", "spray", "closed", "lost"}]
        /\ msgs' \in [Conn -> Nat] /\ at' \in [Conn -> Nat]
    <3>1. CASE TcpMoves
      BY <1>0, <3>1 DEF TypeInv, TcpMoves
    <3>2. CASE TcpParses
      BY <1>0, <3>2 DEF TypeInv, TcpParses
    <3> QED
      BY <1>2, <3>1, <3>2
  <2>2. UNCHANGED put
    BY <1>2 DEF TcpMoves, TcpParses
  <2> QED
    BY <1>0, <1>2, <2>1, <2>2 DEF TypeInv
<1>3. CASE UNCHANGED udpVars /\ \E c \in Conn, x \in {"select", "closed", "spray"} : TcpSprays(c, x)
  <2> PICK c \in Conn, x \in {"select", "closed", "spray"} : TcpSprays(c, x)
    BY <1>3
  <2>1. put' \in [Output -> Seq(Msg)]
    BY <1>0, TcpMsg, PutOne, Zenon DEF TcpSprays
  <2> QED
    BY <1>0, <1>3, <2>1 DEF TypeInv, TcpSprays
<1>4. CASE TcpIdle /\ UdpNext
  <2>1. put' \in [Output -> Seq(Msg)]
    <3>1. CASE UdpPush
      BY <1>0, <3>1, UdpMsg, PutOne, Zenon DEF UdpPush, Put, UdpBusy
    <3>2. CASE UNCHANGED put
      BY <1>0, <3>2 DEF TypeInv
    <3> QED
      BY <1>4, <3>1, <3>2 DEF UdpNext, UdpBind, UdpBindFails, UdpFinalize, UdpShutdown, UdpAck,
                              UdpRead, UdpReadFails, UdpTest, UdpPushCancelled
  <2>2. /\ srv' \in {"none", "read", "test", "push"} /\ packets' \in Nat /\ next' \in Nat
        /\ drops' \in [Output -> SUBSET Nat]
    <3>1. CASE UdpTest
      BY <1>0, <3>1 DEF UdpTest, Advance, TypeInv
    <3>2. CASE UdpPush \/ UdpRead
      BY <1>0, <3>2 DEF UdpPush, UdpRead, Advance, TypeInv
    <3> QED
      BY <1>0, <1>4, <3>1, <3>2
      DEF UdpNext, UdpBind, UdpBindFails, UdpFinalize, UdpShutdown, UdpAck, UdpReadFails,
          UdpPushCancelled, Return, TypeInv
  <2> QED
    BY <1>0, <1>4, <2>1, <2>2, Zenon DEF TypeInv
<1> QED
  BY <1>0, <1>1, <1>2, <1>3, <1>4, SocketStep

(* Who sprays has something to spray. *)
LEMMA SocketSpray ==
  ASSUME SocketInv, [Next]_vars PROVE SprayInv' /\ PacketInv'
<1> USE DEF TcpIdle, UdpIdle
<1>0. /\ TypeInv /\ SprayInv /\ PacketInv
      /\ conn \in [Conn -> {"none", "select", "spray", "closed", "lost"}]
      /\ msgs \in [Conn -> Nat] /\ at \in [Conn -> Nat] /\ next \in Nat /\ packets \in Nat
  BY DEF SocketInv, TypeInv
<1>1. SprayInv'
  <2>1. CASE TcpIdle
    BY <1>0, <2>1 DEF SprayInv
  <2>2. CASE TcpMoves \/ TcpParses
    BY <1>0, <2>2 DEF TcpMoves, TcpParses, SprayInv
  <2>3. ASSUME NEW c \in Conn, NEW x, TcpSprays(c, x) PROVE SprayInv'
    BY <1>0, <2>3 DEF TcpSprays, SprayInv
  <2> QED
    BY <1>0, <2>1, <2>2, <2>3, SocketStep
<1>2. PacketInv'
  <2>1. CASE UNCHANGED <<srv, packets, next>>
    BY <1>0, <2>1 DEF PacketInv, UdpBusy
  <2>2. CASE UdpNext
    BY <1>0, <2>2
    DEF UdpNext, UdpBind, UdpBindFails, UdpFinalize, UdpShutdown, UdpAck, UdpRead, UdpReadFails,
        UdpTest, UdpPush, UdpPushCancelled, Advance, Return, PacketInv, UdpBusy
  <2> QED
    BY <1>0, <2>1, <2>2, SocketStep
<1> QED
  BY <1>1, <1>2

(* The sticky loop of the UDP input and its server. *)
LEMMA SocketSticky ==
  ASSUME SocketInv, [Next]_vars PROVE StickyInv'
<1>0. TypeInv /\ StickyInv
  BY DEF SocketInv
<1>1. CASE UNCHANGED <<srv, stickyVars, bindVars>>
  BY <1>0, <1>1 DEF StickyInv
<1>2. CASE UdpNext
  <2>1. CASE UdpBind \/ UdpBindFails \/ UdpFinalize
    BY <1>0, <2>1 DEF UdpBind, UdpBindFails, UdpFinalize, StickyInv
  <2>2. CASE UdpShutdown \/ UdpAck
    BY <1>0, <2>2 DEF UdpShutdown, UdpAck, StickyInv
  <2>3. CASE UdpRead \/ UdpReadFails \/ UdpPushCancelled
    BY <1>0, <2>3 DEF UdpRead, UdpReadFails, UdpPushCancelled, Return, StickyInv
  <2>4. CASE UdpTest \/ UdpPush
    BY <1>0, <2>4 DEF UdpTest, UdpPush, Advance, StickyInv
  <2> QED
    BY <1>2, <2>1, <2>2, <2>3, <2>4 DEF UdpNext
<1> QED
  BY <1>0, <1>1, <1>2, SocketStep DEF UdpIdle

(* What UdpAccounted says of one output. *)
Owed(o) ==
  IF (UdpBusy \/ cancelled = "closed") /\ o >= next THEN packets - 1 ELSE packets
Accounted(o) ==
  /\ InOrder(put[o], Udp)
  /\ Numbers(put[o], Udp) \intersect drops[o] = {}
  /\ 1 .. Owed(o) \subseteq Numbers(put[o], Udp) \union drops[o]
Known(o) == Numbers(put[o], Udp) \union drops[o] \subseteq 1 .. UdpSoFar(o)

(* Once the message in hand is put in the next channel or counted there,   *)
(* the others can wait.                                                    *)
LEMMA UdpAdvance ==
  ASSUME TypeInv, PacketInv, UdpBusy, Advance, packets' = packets, cancelled' = cancelled,
         NEW o \in Output, Known(o), Accounted(o), InOrder(put'[o], Udp),
         o # next => Numbers(put'[o], Udp) = Numbers(put[o], Udp) /\ drops'[o] = drops[o],
         o = next => \/ /\ Numbers(put'[o], Udp) = Numbers(put[o], Udp) \union {packets}
                        /\ drops'[o] = drops[o]
                     \/ /\ drops'[o] = drops[o] \union {packets}
                        /\ Numbers(put'[o], Udp) = Numbers(put[o], Udp)
  PROVE  Known(o)' /\ Accounted(o)'
<1>0. next \in Output /\ packets \in Nat /\ packets > 0
  BY UdpMsg
<1>1. CASE o < next
  <2>1. Owed(o) = packets /\ UdpSoFar(o) = packets
    BY <1>0, <1>1 DEF Owed, UdpSoFar
  <2>2. Owed(o)' = packets /\ UdpSoFar(o)' = packets
    BY <1>0, <1>1 DEF Owed, UdpSoFar, Advance
  <2> QED
    BY <1>0, <1>1, <2>1, <2>2 DEF Known, Accounted
<1>2. CASE o = next
  <2>1. Owed(o) = packets - 1 /\ UdpSoFar(o) = packets - 1
    BY <1>0, <1>2 DEF Owed, UdpSoFar
  <2>2. Owed(o)' = packets /\ UdpSoFar(o)' = packets
    BY <1>0, <1>2 DEF Owed, UdpSoFar, Advance
  <2>3. packets \notin Numbers(put[o], Udp) \union drops[o]
    BY <1>0, <2>1 DEF Known
  <2>4. 1 .. packets = (1 .. packets - 1) \union {packets}
    BY <1>0
  <2> QED
    BY <1>2, <2>1, <2>2, <2>3, <2>4 DEF Known, Accounted
<1>3. CASE o > next
  <2>1. Owed(o) = packets - 1 /\ UdpSoFar(o) = packets - 1
    BY <1>0, <1>3 DEF Owed, UdpSoFar
  <2>2. srv' = "test" /\ next' = next + 1
    BY <1>0, <1>3 DEF Advance
  <2>3. Owed(o)' = packets - 1 /\ UdpSoFar(o)' = packets - 1
    BY <1>0, <1>3, <2>2 DEF Owed, UdpSoFar, UdpBusy
  <2> QED
    BY <1>0, <1>3, <2>1, <2>3 DEF Known, Accounted
<1> QED
  BY <1>0, <1>1, <1>2, <1>3

(* Every step keeps the account of the UDP input. *)
LEMMA SocketAccount ==
  ASSUME SocketInv, [Next]_vars, NEW o \in Output PROVE Known(o)' /\ Accounted(o)'
<1> USE DEF TcpIdle, UdpIdle
<1>0. /\ TypeInv /\ SprayInv /\ PacketInv /\ StickyInv /\ Known(o) /\ Accounted(o)
      /\ packets \in Nat /\ next \in Nat
  BY Zenon DEF SocketInv, TypeInv, UdpKnown, UdpAccounted, Known, Accounted, Owed, UdpBusy
<1>1. CASE /\ UNCHANGED udpVars
           /\ Numbers(put'[o], Udp) = Numbers(put[o], Udp) /\ InOrder(put'[o], Udp)
  <2>1. Owed(o)' = Owed(o) /\ UdpSoFar(o)' = UdpSoFar(o)
    BY <1>1 DEF Owed, UdpSoFar, UdpBusy
  <2> QED
    BY <1>0, <1>1, <2>1 DEF Known, Accounted
<1>2. CASE UdpIdle /\ UNCHANGED <<put, stickyVars, bindVars>>
  <2>1. Owed(o)' = Owed(o) /\ UdpSoFar(o)' = UdpSoFar(o)
    BY <1>2 DEF Owed, UdpSoFar, UdpBusy
  <2> QED
    BY <1>0, <1>2, <2>1 DEF Known, Accounted
<1>3. CASE UNCHANGED udpVars /\ (TcpMoves \/ TcpParses)
  BY <1>0, <1>1, <1>3 DEF TcpMoves, TcpParses, Accounted
<1>4. ASSUME UNCHANGED udpVars, NEW c \in Conn, NEW x, TcpSprays(c, x)
      PROVE  Known(o)' /\ Accounted(o)'
  <2> DEFINE m == [from |-> c, num |-> msgs[c]]
  <2>1. m \in Msg /\ at[c] \in Output /\ m.from # Udp /\ put' = [put EXCEPT ![at[c]] = Append(@, m)]
    BY <1>0, <1>4, TcpMsg, Zenon DEF TcpSprays
  <2> HIDE DEF m
  <2>2. Numbers(put'[o], Udp) = Numbers(put[o], Udp) /\ InOrder(put'[o], Udp)
    <3>1. CASE o = at[c]
      <4>1. Numbers(put'[o], Udp) = Numbers(put[o], Udp) \union {}
        BY <1>0, <2>1, <3>1, PutOne, ZenonT(30)
      <4>2. InOrder(put'[o], Udp)
        BY <1>0, <2>1, <3>1, PutOne, ZenonT(30) DEF Accounted
      <4> QED
        BY <4>1, <4>2
    <3>2. CASE o # at[c]
      <4>1. put'[o] = put[o]
        BY <1>0, <2>1, <3>2, PutOne
      <4> QED
        BY <1>0, <4>1 DEF Accounted
    <3> QED
      BY <3>1, <3>2
  <2> QED
    BY <1>1, <1>4, <2>2, Zenon
<1>5. CASE UdpNext
  <2>1. CASE /\ UNCHANGED <<put, packets, next, drops>>
             /\ UdpBusy' => UdpBusy
             /\ UdpBusy \/ cancelled = "closed" => UdpBusy' \/ cancelled' = "closed"
    <3>1. UdpSoFar(o)' \in {UdpSoFar(o), packets}
      BY <2>1 DEF UdpSoFar
    <3>2. Owed(o)' \in {Owed(o), packets - 1} /\ Owed(o)' <= Owed(o)
      BY <1>0, <2>1 DEF Owed
    <3>3. Owed(o) \in Int /\ Owed(o)' \in Int /\ UdpSoFar(o) \in Int /\ UdpSoFar(o) <= packets
      BY <1>0, <3>2 DEF Owed, UdpSoFar
    <3>4. 1 .. Owed(o)' \subseteq 1 .. Owed(o) /\ 1 .. UdpSoFar(o) \subseteq 1 .. UdpSoFar(o)'
      BY <1>0, <3>1, <3>2, <3>3
    <3> QED
      BY <1>0, <2>1, <3>4 DEF Known, Accounted
  <2>2. CASE UdpRead
    <3>1. ~UdpBusy /\ cancelled = "open"
      BY <1>0, <2>2 DEF UdpRead, UdpBusy, StickyInv
    <3>2. Owed(o) = packets /\ UdpSoFar(o) = packets
      BY <3>1 DEF Owed, UdpSoFar
    <3>3. Owed(o)' = packets /\ UdpSoFar(o)' = packets
      BY <1>0, <2>2 DEF UdpRead, Owed, UdpSoFar, UdpBusy
    <3> QED
      BY <1>0, <2>2, <3>2, <3>3 DEF UdpRead, Known, Accounted
  <2>3. CASE UdpTest /\ Full(next)
    <3>1. /\ UdpBusy /\ Advance /\ UNCHANGED <<packets, cancelled, put>>
          /\ drops' = [drops EXCEPT ![next] = @ \union {packets}]
      BY <2>3 DEF UdpTest, UdpBusy
    <3>2. drops \in [Output -> SUBSET Nat]
      BY <1>0, SMTT(30) DEF TypeInv
    <3> QED
      BY <1>0, <3>1, <3>2, UdpAdvance DEF Accounted
  <2>4. CASE UdpPush
    <3> DEFINE m == [from |-> Udp, num |-> packets]
    <3>1. UdpBusy /\ Advance /\ UNCHANGED <<packets, cancelled, drops>>
      BY <2>4 DEF UdpPush, UdpBusy
    <3>2. /\ m \in Msg /\ next \in Output /\ m.from = Udp /\ m.num = packets
          /\ put' = [put EXCEPT ![next] = Append(@, m)]
      BY <1>0, <2>4, <3>1, UdpMsg DEF UdpPush, Put
    <3> HIDE DEF m
    <3>3. ASSUME o = next, NEW n \in Numbers(put[o], Udp) PROVE n < packets
      <4>1. UdpSoFar(o) = packets - 1
        BY <1>0, <3>1, <3>3 DEF UdpSoFar
      <4>2. n \in 1 .. packets - 1
        BY <1>0, <3>3, <4>1 DEF Known
      <4> QED
        BY <1>0, <4>2
    <3>4. InOrder(put'[o], Udp)
      BY <1>0, <3>2, <3>3, PutOne, Zenon DEF Accounted
    <3>5. /\ o # next => Numbers(put'[o], Udp) = Numbers(put[o], Udp)
          /\ o = next => Numbers(put'[o], Udp) = Numbers(put[o], Udp) \union {packets}
      BY <1>0, <3>2, PutOne, ZenonT(30)
    <3> QED
      BY <1>0, <3>1, <3>4, <3>5, UdpAdvance, ZenonT(30)
  <2>5. CASE UdpBind \/ UdpBindFails \/ UdpFinalize \/ UdpShutdown \/ UdpAck
    BY <1>0, <2>1, <2>5
    DEF UdpBind, UdpBindFails, UdpFinalize, UdpShutdown, UdpAck, UdpBusy, StickyInv
  <2>6. CASE UdpReadFails \/ UdpPushCancelled \/ (UdpTest /\ ~Full(next))
    BY <2>1, <2>6 DEF UdpReadFails, UdpPushCancelled, UdpTest, Return, UdpBusy
  <2> QED
    BY <1>5, <2>2, <2>3, <2>4, <2>5, <2>6 DEF UdpNext
<1> QED
  BY <1>0, <1>2, <1>3, <1>4, <1>5, SocketStep

(* What TcpWholeSpray says of connection c and output o. *)
Sent(o, c) == IF conn[c] = "spray" /\ o >= at[c] THEN msgs[c] - 1 ELSE msgs[c]

(* Every step keeps what the outputs have of a connection. *)
LEMMA SocketWhole ==
  ASSUME SocketInv, [Next]_vars, NEW c \in Conn, NEW o \in Output
  PROVE  OnceInOrder(put'[o], c, Sent(o, c)')
<1> USE DEF TcpIdle
<1>0. /\ TypeInv /\ SprayInv /\ PacketInv /\ OnceInOrder(put[o], c, Sent(o, c))
      /\ conn \in [Conn -> {"none", "select", "spray", "closed", "lost"}]
      /\ msgs \in [Conn -> Nat] /\ at \in [Conn -> Nat]
  BY DEF SocketInv, TypeInv, TcpWholeSpray, Sent
<1>1. CASE TcpIdle /\ UNCHANGED put
  <2>1. Sent(o, c)' = Sent(o, c)
    BY <1>1 DEF Sent
  <2> QED
    BY <1>0, <1>1, <2>1
<1>2. CASE TcpMoves
  <2>1. Sent(o, c)' = Sent(o, c) /\ put' = put
    BY <1>0, <1>2 DEF TcpMoves, Sent
  <2> QED
    BY <1>0, <2>1
<1>3. CASE TcpParses
  <2>1. PICK d \in Conn :
          /\ conn[d] = "select" /\ conn' = [conn EXCEPT ![d] = "spray"]
          /\ msgs' = [msgs EXCEPT ![d] = @ + 1] /\ at' = [at EXCEPT ![d] = 1]
    BY <1>3, Zenon DEF TcpParses
  <2>2. CASE c = d
    BY <1>0, <1>3, <2>1, <2>2 DEF TcpParses, Sent
  <2>3. CASE c # d
    BY <1>0, <1>3, <2>1, <2>3 DEF TcpParses, Sent
  <2> QED
    BY <2>2, <2>3
<1>4. ASSUME NEW d \in Conn, NEW x, TcpSprays(d, x)
      PROVE  OnceInOrder(put'[o], c, Sent(o, c)')
  <2> DEFINE m == [from |-> d, num |-> msgs[d]]
  <2>1. /\ m \in Msg /\ m.from = d /\ m.num = msgs[d]
        /\ at[d] \in Output /\ msgs[d] \in Nat /\ msgs[d] > 0
        /\ put' = [put EXCEPT ![at[d]] = Append(@, m)]
    BY <1>0, <1>4, TcpMsg DEF TcpSprays
  <2> HIDE DEF m
  <2>2. /\ conn[d] = "spray" /\ conn'[d] = x /\ at'[d] = at[d] + 1 /\ msgs' = msgs
        /\ at[d] = NumOut => x # "spray"
        /\ at[d] # NumOut => x = "spray"
        /\ c # d => conn'[c] = conn[c] /\ at'[c] = at[c]
    BY <1>0, <1>4 DEF TcpSprays
  <2>3. CASE c = d /\ o = at[d]
    <3>1. Sent(o, c) = msgs[c] - 1 /\ Sent(o, c)' = msgs[c]
      BY <2>1, <2>2, <2>3 DEF Sent
    <3>2. Numbers(put[o], c) = 1 .. msgs[c] - 1 /\ InOrder(put[o], c)
      BY <1>0, <3>1 DEF OnceInOrder
    <3>3. \A n \in Numbers(put[o], c) : n < m.num
      BY <2>1, <2>3, <3>2
    <3>4. Numbers(put'[o], c) = Numbers(put[o], c) \union {msgs[c]} /\ InOrder(put'[o], c)
      BY <1>0, <2>1, <2>3, <3>2, <3>3, PutOne, ZenonT(30)
    <3>5. (1 .. msgs[c] - 1) \union {msgs[c]} = 1 .. msgs[c]
      BY <2>1, <2>3
    <3> QED
      BY <3>1, <3>2, <3>4, <3>5 DEF OnceInOrder
  <2>4. CASE c # d /\ o = at[d]
    <3>1. Sent(o, c)' = Sent(o, c)
      BY <2>2, <2>4 DEF Sent
    <3>2. Numbers(put'[o], c) = Numbers(put[o], c) \union {}
      BY <1>0, <2>1, <2>4, PutOne, ZenonT(30)
    <3>3. InOrder(put'[o], c)
      BY <1>0, <2>1, <2>4, PutOne, ZenonT(30) DEF OnceInOrder
    <3> QED
      BY <1>0, <3>1, <3>2, <3>3 DEF OnceInOrder
  <2>5. CASE o # at[d]
    <3>1. put'[o] = put[o]
      BY <1>0, <2>1, <2>5, PutOne
    <3>2. Sent(o, c)' = Sent(o, c)
      BY <2>1, <2>2, <2>5 DEF Sent
    <3> QED
      BY <1>0, <3>1, <3>2
  <2> QED
    BY <2>3, <2>4, <2>5
<1>5. CASE TcpIdle /\ UdpNext
  <2>1. Sent(o, c)' = Sent(o, c)
    BY <1>5 DEF Sent
  <2>2. CASE UdpPush
    <3> DEFINE m == [from |-> Udp, num |-> packets]
    <3>1. m \in Msg /\ next \in Output /\ m.from # c /\ put' = [put EXCEPT ![next] = Append(@, m)]
      BY <1>0, <2>2, UdpMsg DEF UdpPush, UdpBusy, Put
    <3> HIDE DEF m
    <3>2. CASE o = next
      <4>1. Numbers(put'[o], c) = Numbers(put[o], c) \union {}
        BY <1>0, <3>1, <3>2, PutOne, ZenonT(30)
      <4>2. InOrder(put'[o], c)
        BY <1>0, <3>1, <3>2, PutOne, ZenonT(30) DEF OnceInOrder
      <4> QED
        BY <1>0, <2>1, <4>1, <4>2 DEF OnceInOrder
    <3>3. CASE o # next
      <4>1. put'[o] = put[o]
        BY <1>0, <3>1, <3>3, PutOne
      <4> QED
        BY <1>0, <2>1, <4>1
    <3> QED
      BY <3>2, <3>3
  <2>3. CASE UNCHANGED put
    BY <1>0, <2>1, <2>3
  <2> QED
    BY <1>5, <2>2, <2>3
    DEF UdpNext, UdpBind, UdpBindFails, UdpFinalize, UdpShutdown, UdpAck, UdpRead, UdpReadFails,
        UdpTest, UdpPushCancelled
<1> QED
  BY <1>0, <1>1, <1>2, <1>3, <1>4, <1>5, SocketStep

(* The invariant holds of every behaviour of the two inputs. *)
THEOREM SocketInvariant == Spec => []SocketInv
<1>1. ASSUME SocketInv, [Next]_vars PROVE SocketInv'
  <2>1. UdpKnown'
    BY <1>1, SocketAccount, ZenonT(30) DEF UdpKnown, Known
  <2>2. UdpAccounted'
    BY <1>1, SocketAccount, Zenon DEF UdpAccounted, Accounted, Owed, UdpBusy
  <2>3. TcpWholeSpray'
    BY <1>1, SocketWhole, Zenon DEF TcpWholeSpray, Sent
  <2> QED
    BY <1>1, <2>1, <2>2, <2>3, SocketType, SocketSpray, SocketSticky, SMTT(30) DEF SocketInv
<1> QED
  BY SocketInitInv, <1>1, PTL DEF Spec

(* A message read from a TCP connection goes to every output, once and in  *)
(* order, whenever handleConnection is cancelled.                          *)
THEOREM TcpSprayWhole == Spec => []TcpWholeSpray
<1>1. SocketInv => TcpWholeSpray
  BY DEF SocketInv
<1> QED
  BY SocketInvariant, <1>1, PTL

(* A message read from the UDP port is put in every channel or counted as  *)
(* dropped there, but for the one in hand when runServer is cancelled.     *)
THEOREM UdpAllAccounted == Spec => []UdpAccounted
<1>1. SocketInv => UdpAccounted
  BY DEF SocketInv
<1> QED
  BY SocketInvariant, <1>1, PTL

=============================================================================
