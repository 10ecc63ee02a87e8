--------------------------- MODULE EventLoopProofs ---------------------------
(***************************************************************************)
(* Proofs about the reactor, for any number of sockets, connections and     *)
(* descriptors.                                                             *)
(***************************************************************************)
EXTENDS EventLoop, FiniteSetTheorems, SequenceTheorems, TLAPS

(* The descriptor a handler works on has the context that selected the
   handler, and its event has left the batch. *)
CurOK ==
  /\ HandlerHasContext
  /\ pc \in {"udp", "accept", "read"} => cur \notin BatchFds

(* Outside the loop there are no events, and no connection outside run(). *)
PhaseOK ==
  /\ pc \in {"boot", "wait", "stopped", "destroyed"} => batch = {}
  /\ pc \in {"boot", "stopped", "destroyed"} => \A fd \in Fds : sock[fd] \notin Conns

(* A connection waits in one backlog, and only while it is queued. *)
BacklogOK ==
  /\ \A l \in Listeners : \A c \in backlog[l] : conn[c] = "queued"
  /\ \A l, m \in Listeners : backlog[l] \cap backlog[m] # {} => l = m

(* Only registered descriptors have an edge. *)
ReadyOK == ready \subseteq interest

(* The tables among themselves. *)
TablesOK == ContextsMatch /\ OneDescriptor /\ OpenHasDescriptor

(* The inductive invariant. *)
LoopInv == TypeOK /\ TablesOK /\ BatchFresh /\ CurOK /\ PhaseOK /\ BacklogOK /\ ReadyOK

(* Receiving a datagram leaves a queue of datagrams behind. *)
LEMMA TailTyped ==
  ASSUME NEW S, NEW q \in [UdpSocks -> Seq(S)], NEW x, x \in UdpSocks => q[x] # << >>
  PROVE  [q EXCEPT ![x] = Tail(@)] \in [UdpSocks -> Seq(S)]
<1>1. CASE x \in UdpSocks
  <2>1. Tail(q[x]) \in Seq(S)
    BY <1>1, HeadTailProperties
  <2>2. QED
    BY <2>1
<1>2. CASE x \notin UdpSocks
  BY <1>2
<1>3. QED
  BY <1>1, <1>2

(* So does the arrival of one. *)
LEMMA AppendTyped ==
  ASSUME NEW S, NEW q \in [UdpSocks -> Seq(S)], NEW u \in UdpSocks, NEW d \in S
  PROVE  [q EXCEPT ![u] = Append(@, d)] \in [UdpSocks -> Seq(S)]
<1>1. Append(q[u], d) \in Seq(S)
  BY AppendProperties
<1>2. QED
  BY <1>1

(* Taking at most what is there leaves a natural number. *)
LEMMA LessTyped ==
  ASSUME NEW D, NEW f \in [D -> Nat], NEW x, NEW n \in Nat,
         x \in D => n <= f[x]
  PROVE  [f EXCEPT ![x] = @ - n] \in [D -> Nat]
<1>1. CASE x \in D
  <2>1. f[x] - n \in Nat
    BY <1>1
  <2>2. QED
    BY <2>1
<1>2. CASE x \notin D
  BY <1>2
<1>3. QED
  BY <1>1, <1>2

(* Every step keeps the types. *)
LEMMA TypeStep == TypeOK /\ [Next]_vars => TypeOK'
<1> SUFFICES ASSUME TypeOK, [Next]_vars
             PROVE  TypeOK'
  OBVIOUS
<1> USE EventLoopAssumption DEF TypeOK, loopVars, tblVars, peerVars
<1>1. ASSUME NEW s \in Servers, NEW fd \in Fds, OpenServer(s, fd)
      PROVE  TypeOK'
  <2>1. sock' \in [Fds -> Socks \cup {NoSock}]
    BY <1>1 DEF OpenServer, Creates, Socks
  <2>2. udpCtx' \subseteq Fds
    BY <1>1 DEF OpenServer, InsertServer
  <2>3. tcpCtx' \in [Fds -> {"none", "listen", "accept"}]
    BY <1>1 DEF OpenServer, InsertServer, InsertCtx
  <2>4. interest' \subseteq Fds /\ ready' \subseteq Fds
    BY <1>1 DEF OpenServer, AddFd
  <2>5. pc' \in {"wait", "boot"}
    BY <1>1 DEF OpenServer
  <2>6. QED
    BY <1>1, <2>1, <2>2, <2>3, <2>4, <2>5 DEF OpenServer
<1>2. CASE SetupFails
  <2>1. UNCHANGED <<cur, batch, backlog, dgrams, conn, peerVars>> /\ pc' = "stopped"
    BY <1>2 DEF SetupFails
  <2>2. sock' \in [Fds -> Socks \cup {NoSock}] /\ interest' = interest /\ ready' = ready
    BY <1>2 DEF SetupFails, CreateFails, BindFails, RegisterFails, Creates, Socks
  <2>3. udpCtx' \subseteq Fds
    BY <1>2 DEF SetupFails, CreateFails, BindFails, RegisterFails, InsertServer
  <2>4. tcpCtx' \in [Fds -> {"none", "listen", "accept"}]
    BY <1>2 DEF SetupFails, CreateFails, BindFails, RegisterFails, InsertServer, InsertCtx
  <2>5. QED
    BY <2>1, <2>2, <2>3, <2>4
<1>3. CASE Destroy
  <2>1. << >> \in Seq({"data", "empty"})
    OBVIOUS
  <2>2. dgrams' \in [UdpSocks -> Seq({"data", "empty"})]
    BY <1>3, <2>1 DEF Destroy
  <2>3. QED
    BY <1>3, <2>2 DEF Destroy
<1>4. CASE EpollWait
  BY <1>4 DEF EpollWait
<1>5. CASE EpollTimeout
  BY <1>5 DEF EpollTimeout, vars
<1>6. CASE Dispatch
  BY <1>6 DEF Dispatch, Undispatched, HandlerOf
<1>7. CASE EndOfBatch
  BY <1>7 DEF EndOfBatch
<1>8. CASE UdpRecv
  <2>1. dgrams' \in [UdpSocks -> Seq({"data", "empty"})]
    BY <1>8, TailTyped DEF UdpRecv, Again
  <2>2. QED
    BY <1>8, <2>1 DEF UdpRecv, Again
<1>9. CASE UdpLeave
  <2>1. dgrams' \in [UdpSocks -> Seq({"data", "empty"})]
    <3>1. CASE dgrams' = [dgrams EXCEPT ![sock[cur]] = Tail(@)]
               /\ dgrams[sock[cur]] # << >>
      BY <3>1, TailTyped
    <3>2. QED
      BY <1>9, <3>1 DEF UdpLeave
  <2>2. QED
    BY <1>9, <2>1 DEF UdpLeave, Leave
<1>10. CASE AcceptLeave
  BY <1>10 DEF AcceptLeave, Leave
<1>11. ASSUME NEW c \in Conns, NEW fd \in Fds, AcceptConn(c, fd)
       PROVE  TypeOK'
  BY <1>11 DEF AcceptConn, Again, Dequeue, AddFd, InsertCtx, Socks
<1>12. ASSUME NEW c \in Conns, NEW fd \in Fds, AcceptBlocking(c, fd)
       PROVE  TypeOK'
  BY <1>12 DEF AcceptBlocking, Dequeue, Leave, Socks
<1>13. ASSUME NEW c \in Conns, NEW fd \in Fds, AcceptGiveUp(c, fd)
       PROVE  TypeOK'
  BY <1>13 DEF AcceptGiveUp, Dequeue, Leave
<1>14. CASE ReadLeave
  BY <1>14 DEF ReadLeave, Nothing, Leave
<1>15. CASE ReadEnd
  BY <1>15 DEF ReadEnd, AtEnd, CloseConnection, EraseCtx, Leave
<1>16. CASE ReadMore
  <2>1. rx' \in [Conns -> Nat]
      <3>1. PICK n \in 1 .. rx[sock[cur]] : rx' = [rx EXCEPT ![sock[cur]] = @ - n]
      BY <1>16 DEF ReadMore, Receives, Again
    <3>2. n \in Nat /\ (sock[cur] \in Conns => n <= rx[sock[cur]])
      BY <3>1
    <3>3. QED
      BY <3>1, <3>2, LessTyped
  <2>2. QED
    BY <1>16, <2>1 DEF ReadMore, Receives, Again
<1>17. CASE ReadBad
  <2>1. rx' \in [Conns -> Nat]
      <3>1. PICK n \in 1 .. rx[sock[cur]] : rx' = [rx EXCEPT ![sock[cur]] = @ - n]
      BY <1>17 DEF ReadBad, Receives
    <3>2. n \in Nat /\ (sock[cur] \in Conns => n <= rx[sock[cur]])
      BY <3>1
    <3>3. QED
      BY <3>1, <3>2, LessTyped
  <2>2. QED
    BY <1>17, <2>1 DEF ReadBad, Receives, CloseConnection, EraseCtx, Leave
<1>18. ASSUME NEW c \in Conns, NEW l \in Listeners, Connect(c, l)
       PROVE  TypeOK'
  BY <1>18 DEF Connect, Edge
<1>19. ASSUME NEW c \in Conns, Send(c)
       PROVE  TypeOK'
  <2>1. rx' \in [Conns -> Nat]
    BY <1>19 DEF Send
  <2>2. unsent' \in [Conns \cup UdpSocks -> Nat]
    BY <1>19, LessTyped DEF Send
  <2>3. QED
    BY <1>19, <2>1, <2>2 DEF Send, Edge
<1>20. ASSUME NEW c \in Conns, PeerEnds(c)
       PROVE  TypeOK'
  BY <1>20 DEF PeerEnds, Edge
<1>21. ASSUME NEW u \in UdpSocks, NEW kind \in DatagramKinds, Datagram(u, kind)
       PROVE  TypeOK'
  <2>1. dgrams' \in [UdpSocks -> Seq({"data", "empty"})]
    BY <1>21, AppendTyped DEF Datagram, DatagramKinds
  <2>2. unsent' \in [Conns \cup UdpSocks -> Nat]
    BY <1>21, LessTyped DEF Datagram
  <2>3. QED
    BY <1>21, <2>1, <2>2 DEF Datagram, Edge
<1>22. CASE UNCHANGED vars
  BY <1>22 DEF vars
<1>23. QED
  BY <1>1, <1>2, <1>3, <1>4, <1>5, <1>6, <1>7, <1>8, <1>9, <1>10, <1>11, <1>12,
     <1>13, <1>14, <1>15, <1>16, <1>17, <1>18, <1>19, <1>20, <1>21, <1>22
     DEF Next, Loop, Network, Boot, Handler, AcceptStep, ReadStep

(* TypeOK says of every variable what values it takes. *)
THEOREM TypeCorrect == Spec => []TypeOK
<1>1. Init => TypeOK
  BY EventLoopAssumption DEF Init, TypeOK, Socks, Servers
<1>2. QED
  BY <1>1, TypeStep, PTL DEF Spec

(* Every step of the reactor keeps the inductive invariant. *)
LEMMA LoopStep == LoopInv /\ [Next]_vars => LoopInv'
<1> SUFFICES ASSUME LoopInv, [Next]_vars
             PROVE  LoopInv'
  OBVIOUS
<1>b. TypeOK'
  BY TypeStep DEF LoopInv
<1> USE EventLoopAssumption, <1>b
    DEF LoopInv, TypeOK, loopVars, tblVars, peerVars, Socks, Servers
<1>0. ASSUME NEW s \in Servers, NEW fd \in Fds, Creates(s, fd)
      PROVE  /\ fd \notin udpCtx /\ tcpCtx[fd] = "none" /\ fd \notin interest
             /\ OneDescriptor' /\ (conn' = conn => OpenHasDescriptor')
             /\ \A f \in Fds : f # fd => sock'[f] = sock[f]
             /\ sock'[fd] = s /\ pc = "boot" /\ batch = {}
             /\ \A f \in Fds : sock'[f] \notin Conns
  <2> USE <1>0 DEF Creates, IsNext, Free, Missing
  <2>1. sock[fd] = NoSock
    OBVIOUS
  <2>2. sock[fd] \notin UdpSocks /\ sock[fd] \notin Listeners /\ sock[fd] \notin Conns
    BY <2>1
  <2>3. fd \notin udpCtx /\ tcpCtx[fd] = "none" /\ fd \notin interest
    BY <2>1, <2>2 DEF TablesOK, ContextsMatch, HasContext
  <2>4. OneDescriptor'
    BY DEF TablesOK, OneDescriptor
  <2>5. conn' = conn => OpenHasDescriptor'
    BY <2>1 DEF TablesOK, OpenHasDescriptor
  <2>6. batch = {} /\ \A f \in Fds : sock'[f] \notin Conns
    BY DEF PhaseOK
  <2>7. QED
    BY <2>3, <2>4, <2>5, <2>6
<1>1. ASSUME NEW s \in Servers, NEW fd \in Fds, OpenServer(s, fd)
      PROVE  LoopInv'
  <2> USE <1>1 DEF OpenServer, AddFd, InsertServer, InsertCtx
  <2>1. /\ fd \notin udpCtx /\ tcpCtx[fd] = "none"
        /\ OneDescriptor' /\ OpenHasDescriptor'
        /\ \A f \in Fds : f # fd => sock'[f] = sock[f]
        /\ sock'[fd] = s /\ pc = "boot" /\ batch = {}
        /\ \A f \in Fds : sock'[f] \notin Conns
    BY <1>0
  <2>2. ContextsMatch'
    BY <2>1 DEF TablesOK, ContextsMatch, HasContext
  <2>5. batch' = {} /\ BatchFresh' /\ PhaseOK'
    BY <2>1 DEF BatchFresh, PhaseOK
  <2>6. CurOK' /\ BacklogOK' /\ ReadyOK'
    BY DEF CurOK, HandlerHasContext, BacklogOK, ReadyOK
  <2>7. QED
    BY <2>1, <2>2, <2>5, <2>6 DEF TablesOK
<1>2. CASE SetupFails
  <2>1. /\ UNCHANGED <<cur, batch, backlog, dgrams, conn, peerVars, interest, ready>>
        /\ pc' = "stopped" /\ pc = "boot"
    BY <1>2 DEF SetupFails, CreateFails, BindFails, RegisterFails, Creates
  <2>2. ASSUME UNCHANGED <<udpCtx, tcpCtx, sock>>
        PROVE  TablesOK' /\ PhaseOK'
    BY <2>1, <2>2 DEF TablesOK, ContextsMatch, HasContext, OneDescriptor,
       OpenHasDescriptor, PhaseOK
  <2>3. ASSUME NEW s \in Servers, NEW fd \in Fds, BindFails(s, fd) \/ RegisterFails(s, fd)
        PROVE  TablesOK' /\ PhaseOK'
    <3>1. Creates(s, fd)
      BY <2>3 DEF BindFails, RegisterFails
    <3>2. /\ fd \notin udpCtx /\ tcpCtx[fd] = "none" /\ fd \notin interest
          /\ OneDescriptor' /\ OpenHasDescriptor'
          /\ \A f \in Fds : f # fd => sock'[f] = sock[f]
          /\ sock'[fd] = s /\ batch = {}
          /\ \A f \in Fds : sock'[f] \notin Conns
      BY <1>0, <2>1, <3>1
    <3>3. ContextsMatch'
      BY <2>1, <2>3, <3>2
         DEF BindFails, RegisterFails, InsertServer, InsertCtx, TablesOK, ContextsMatch,
            HasContext
    <3>4. QED
      BY <2>1, <3>2, <3>3 DEF TablesOK, PhaseOK
  <2>4. TablesOK' /\ PhaseOK'
    BY <1>2, <2>2, <2>3 DEF SetupFails, CreateFails
  <2>5. BatchFresh' /\ CurOK' /\ BacklogOK' /\ ReadyOK'
    BY <2>1 DEF BatchFresh, PhaseOK, CurOK, HandlerHasContext, BacklogOK, ReadyOK
  <2>6. QED
    BY <2>4, <2>5
<1>3. CASE Destroy
  <2> USE <1>3 DEF Destroy, HasContext
  <2>1. ContextsMatch' /\ OneDescriptor'
    BY DEF TablesOK, ContextsMatch, HasContext, OneDescriptor
  <2>2. OpenHasDescriptor'
    BY DEF TablesOK, OpenHasDescriptor, PhaseOK
  <2>3. BatchFresh' /\ PhaseOK' /\ CurOK'
    BY DEF BatchFresh, PhaseOK, CurOK, HandlerHasContext
  <2>4. ready' \subseteq interest'
    BY DEF ReadyOK
  <2>5. \A l \in Listeners : backlog'[l] = {}
    OBVIOUS
  <2>6. BacklogOK' /\ ReadyOK'
    BY <2>4, <2>5 DEF BacklogOK, ReadyOK
  <2>7. QED
    BY <2>1, <2>2, <2>3, <2>6 DEF TablesOK
<1>4. CASE EpollWait
  <2> USE <1>4 DEF EpollWait
  <2>1. TablesOK' /\ BacklogOK'
    BY DEF TablesOK, ContextsMatch, HasContext, OneDescriptor, OpenHasDescriptor, BacklogOK
  <2>2. BatchFresh' /\ ReadyOK'
    BY DEF BatchFresh, ReadyOK
  <2>3. CurOK' /\ PhaseOK'
    BY DEF CurOK, HandlerHasContext, PhaseOK
  <2>4. QED
    BY <2>1, <2>2, <2>3
<1>5. CASE EpollTimeout \/ UNCHANGED vars
  BY <1>5 DEF EpollTimeout, vars, TablesOK, ContextsMatch, HasContext, OneDescriptor,
     OpenHasDescriptor, BatchFresh, CurOK, HandlerHasContext, PhaseOK, BacklogOK, ReadyOK,
     BatchFds
<1>6. CASE Dispatch
  <2>1. PICK e \in batch : /\ batch' = batch \ {e}
                            /\ pc' = HandlerOf(e.fd)
                            /\ cur' = IF pc' = "dispatch" THEN NoFd ELSE e.fd
    BY <1>6 DEF Dispatch, Undispatched
  <2>2. TablesOK' /\ BacklogOK' /\ ReadyOK'
    BY <1>6 DEF Dispatch, Undispatched, TablesOK, ContextsMatch, HasContext, OneDescriptor,
         OpenHasDescriptor, BacklogOK, ReadyOK
  <2>3. BatchFresh' /\ PhaseOK'
    BY <1>6, <2>1 DEF Dispatch, Undispatched, HandlerOf, BatchFresh, PhaseOK
  <2>4. e.fd \notin BatchFds'
    <3>1. ASSUME NEW d \in batch, d.fd = e.fd PROVE d = e
      <4>1. d.sock = e.sock
        BY <3>1 DEF BatchFresh
      <4>2. d = [fd |-> d.fd, sock |-> d.sock] /\ e = [fd |-> e.fd, sock |-> e.sock]
        OBVIOUS
      <4>3. QED
        BY <3>1, <4>1, <4>2
    <3>2. QED
      BY <2>1, <3>1 DEF BatchFds
  <2>5. CurOK'
    BY <1>6, <2>1, <2>4 DEF Dispatch, Undispatched, HandlerOf, CurOK, HandlerHasContext
  <2>6. QED
    BY <2>2, <2>3, <2>5
<1>7. CASE EndOfBatch
  BY <1>7 DEF EndOfBatch, TablesOK, ContextsMatch, HasContext, OneDescriptor,
     OpenHasDescriptor, BatchFresh, CurOK, HandlerHasContext, PhaseOK, BacklogOK, ReadyOK,
     BatchFds
<1>8. CASE UdpRecv \/ UdpLeave \/ AcceptLeave \/ ReadLeave \/ ReadMore
  <2> USE <1>8 DEF UdpRecv, Again, UdpLeave, AcceptLeave, ReadLeave, Nothing, ReadMore,
       Receives, Leave
  <2>1. UNCHANGED <<batch, udpCtx, tcpCtx, sock, interest, ready, backlog, conn>>
    OBVIOUS
  <2>2. (pc' = pc /\ cur' = cur) \/ pc' = "dispatch"
    OBVIOUS
  <2>3. pc \in {"udp", "accept", "read"}
    OBVIOUS
  <2>4. TablesOK' /\ BatchFresh' /\ BacklogOK' /\ ReadyOK'
    BY <2>1 DEF TablesOK, ContextsMatch, HasContext, OneDescriptor, OpenHasDescriptor,
       BatchFresh, BacklogOK, ReadyOK
  <2>5. CurOK' /\ PhaseOK'
    BY <2>1, <2>2, <2>3 DEF CurOK, HandlerHasContext, PhaseOK, BatchFds
  <2>6. QED
    BY <2>4, <2>5
<1>9. ASSUME NEW c \in Conns, NEW fd \in Fds,
             AcceptConn(c, fd) \/ AcceptBlocking(c, fd)
      PROVE  LoopInv'
  <2> USE <1>9 DEF AcceptConn, Again, AcceptBlocking, Dequeue, AddFd, InsertCtx, IsNext, Free,
       Leave
  <2>1. sock[fd] = NoSock /\ fd \notin interest /\ tcpCtx[fd] = "none"
        /\ fd \notin udpCtx
    BY DEF TablesOK, ContextsMatch, HasContext
  <2>2. sock[cur] \in Listeners /\ cur # fd
    BY <2>1 DEF CurOK, HandlerHasContext, TablesOK, ContextsMatch, HasContext
  <2>3. conn[c] = "queued" /\ c \in backlog[sock[cur]]
    BY <2>2 DEF BacklogOK
  <2>4. \A f \in Fds : sock[f] # c
    BY <2>3 DEF TablesOK, OpenHasDescriptor
  <2>5. ContextsMatch'
    BY <2>1 DEF TablesOK, ContextsMatch, HasContext
  <2>6. OneDescriptor'
    BY <2>4 DEF TablesOK, OneDescriptor
  <2>7. OpenHasDescriptor'
    BY <2>1 DEF TablesOK, OpenHasDescriptor
  <2>8. BatchFresh' /\ ReadyOK'
    <3>1. \A e \in batch : e.fd # fd /\ e.fd \in Fds
      BY <2>1 DEF BatchFresh
    <3>2. batch' = batch /\ interest \subseteq interest'
          /\ \A f \in Fds : f # fd => sock'[f] = sock[f]
      OBVIOUS
    <3>3. BatchFresh'
      BY <3>1, <3>2 DEF BatchFresh
    <3>4. ReadyOK'
      BY DEF ReadyOK
    <3>5. QED
      BY <3>3, <3>4
  <2>9. CurOK' /\ PhaseOK'
    BY <2>1, <2>2 DEF CurOK, HandlerHasContext, PhaseOK, BatchFds
  <2>10. BacklogOK'
    <3>1. backlog' = [backlog EXCEPT ![sock[cur]] = @ \ {c}]
          /\ conn' = [conn EXCEPT ![c] = "open"]
      OBVIOUS
    <3>2. \A l \in Listeners : c \notin backlog'[l]
      BY <2>2, <2>3, <3>1 DEF BacklogOK
    <3>3. \A l \in Listeners : backlog'[l] \subseteq backlog[l]
      BY <3>1
    <3>4. QED
      BY <3>1, <3>2, <3>3 DEF BacklogOK
  <2>11. QED
    BY <2>5, <2>6, <2>7, <2>8, <2>9, <2>10 DEF TablesOK
<1>10. ASSUME NEW c \in Conns, NEW fd \in Fds, AcceptGiveUp(c, fd)
       PROVE  LoopInv'
  <2> USE <1>10 DEF AcceptGiveUp, Dequeue, IsNext, Free, Leave
  <2>1. sock[fd] = NoSock /\ tcpCtx[fd] = "none"
    BY DEF TablesOK, ContextsMatch, HasContext
  <2>2. sock[cur] \in Listeners
    BY DEF CurOK, HandlerHasContext, TablesOK, ContextsMatch, HasContext
  <2>3. conn[c] = "queued" /\ c \in backlog[sock[cur]]
    BY <2>2 DEF BacklogOK
  <2>4. ContextsMatch' /\ OneDescriptor'
    BY <2>1 DEF TablesOK, ContextsMatch, HasContext, OneDescriptor
  <2>5. OpenHasDescriptor'
    BY <2>3 DEF TablesOK, OpenHasDescriptor
  <2>6. BatchFresh' /\ ReadyOK' /\ CurOK' /\ PhaseOK'
    BY DEF BatchFresh, ReadyOK, CurOK, HandlerHasContext, PhaseOK
  <2>7. BacklogOK'
    BY <2>2, <2>3 DEF BacklogOK
  <2>8. QED
    BY <2>4, <2>5, <2>6, <2>7 DEF TablesOK
<1>11. CASE ReadEnd \/ ReadBad
  <2> USE <1>11 DEF ReadEnd, AtEnd, ReadBad, Receives, CloseConnection, EraseCtx, Leave
  <2>1. cur \in Fds /\ sock[cur] \in Conns /\ cur \notin udpCtx
        /\ tcpCtx[cur] = "accept" /\ cur \notin BatchFds
    BY DEF CurOK, HandlerHasContext, TablesOK, ContextsMatch, HasContext
  <2>2. ContextsMatch'
    BY <2>1 DEF TablesOK, ContextsMatch, HasContext
  <2>3. OneDescriptor'
    BY <2>1 DEF TablesOK, OneDescriptor
  <2>4. OpenHasDescriptor'
    BY <2>1 DEF TablesOK, OpenHasDescriptor, OneDescriptor
  <2>5. BatchFresh' /\ ReadyOK'
    BY <2>1 DEF BatchFresh, ReadyOK, BatchFds
  <2>6. CurOK' /\ PhaseOK'
    BY DEF CurOK, HandlerHasContext, PhaseOK
  <2>7. BacklogOK'
    <3>1. conn[sock[cur]] = "open"
      BY <2>1 DEF TablesOK, OpenHasDescriptor
    <3>2. QED
      BY <3>1 DEF BacklogOK
  <2>8. QED
    BY <2>2, <2>3, <2>4, <2>5, <2>6, <2>7 DEF TablesOK
<1>12. ASSUME NEW c \in Conns, NEW l \in Listeners, Connect(c, l)
       PROVE  LoopInv'
  <2> USE <1>12 DEF Connect, Edge
  <2>1. ContextsMatch' /\ OneDescriptor' /\ OpenHasDescriptor'
    BY DEF TablesOK, ContextsMatch, HasContext, OneDescriptor, OpenHasDescriptor
  <2>2. BatchFresh' /\ ReadyOK' /\ CurOK' /\ PhaseOK'
    BY DEF BatchFresh, ReadyOK, CurOK, HandlerHasContext, PhaseOK, BatchFds
  <2>3. BacklogOK'
    BY DEF BacklogOK
  <2>4. QED
    BY <2>1, <2>2, <2>3 DEF TablesOK
<1>13. ASSUME NEW c \in Conns, Send(c) \/ PeerEnds(c)
       PROVE  LoopInv'
  <2> USE <1>13 DEF Send, PeerEnds, Edge
  <2>1. TablesOK' /\ BacklogOK' /\ BatchFresh'
    BY DEF TablesOK, ContextsMatch, HasContext, OneDescriptor, OpenHasDescriptor,
       BacklogOK, BatchFresh
  <2>2. CurOK' /\ PhaseOK' /\ ReadyOK'
    BY DEF CurOK, HandlerHasContext, PhaseOK, ReadyOK, BatchFds
  <2>3. QED
    BY <2>1, <2>2
<1>14. ASSUME NEW u \in UdpSocks, NEW kind \in DatagramKinds, Datagram(u, kind)
       PROVE  LoopInv'
  <2> USE <1>14 DEF Datagram, Edge
  <2>1. TablesOK' /\ BacklogOK' /\ BatchFresh'
    BY DEF TablesOK, ContextsMatch, HasContext, OneDescriptor, OpenHasDescriptor,
       BacklogOK, BatchFresh
  <2>2. CurOK' /\ PhaseOK' /\ ReadyOK'
    BY DEF CurOK, HandlerHasContext, PhaseOK, ReadyOK, BatchFds
  <2>3. QED
    BY <2>1, <2>2
<1>15. QED
  BY <1>1, <1>2, <1>3, <1>4, <1>5, <1>6, <1>7, <1>8, <1>9, <1>10, <1>11, <1>12,
     <1>13, <1>14
     DEF Next, Loop, Network, Boot, Handler, AcceptStep, ReadStep

(* The inductive invariant holds throughout. *)
LEMMA LoopInvariant == Spec => []LoopInv
<1>1. Init => LoopInv
  <2>1. Init => TypeOK
    BY EventLoopAssumption DEF Init, TypeOK, Socks, Servers
  <2>2. Init => TablesOK
    BY EventLoopAssumption DEF Init, TablesOK, ContextsMatch, HasContext, OneDescriptor,
       OpenHasDescriptor, Socks
  <2>3. Init => BatchFresh /\ CurOK /\ PhaseOK /\ BacklogOK /\ ReadyOK
    BY EventLoopAssumption DEF Init, BatchFresh, CurOK, HandlerHasContext, PhaseOK,
       BacklogOK, ReadyOK, Socks
  <2>4. QED
    BY <2>1, <2>2, <2>3 DEF LoopInv
<1>2. QED
  BY <1>1, LoopStep, PTL DEF Spec

(* The contexts, the epoll registrations and the open descriptors agree while the
   loop runs, under every failure the model knows, those of start-up at each of
   its steps included; and no handler loses the context it works on. *)
THEOREM TablesStayInStep == Spec => []TablesAgree
<1>1. LoopInv => TablesAgree
  BY DEF LoopInv, TablesOK, CurOK, TablesAgree
<1>2. QED
  BY <1>1, LoopInvariant, PTL

(* No event reaches another socket than the one it was raised for, whatever
   the handlers of the batch close and open in between. *)
THEOREM NoStaleEvent == Spec => []BatchFresh
  BY LoopInvariant, PTL DEF LoopInv

-----------------------------------------------------------------------------
(* Nothing cuts a handler short: every datagram has a payload, accept(),
   set_nonblock and add_fd succeed, the user refuses no connection, and there
   are descriptors enough for all sockets.  Start-up may fail, and packages
   may be bad. *)
Undisturbed ==
  /\ Faults \cap {"fcntl", "epoll_add", "accept", "refuse", "empty_dgram"} = {}
  /\ Cardinality(Fds) >= Cardinality(Servers \cup Conns)

(* Every queued datagram has a payload. *)
DataOnly == dgrams \in [UdpSocks -> Seq({"data"})]

(* Whoever has unread input still has its edge, its event, or the handler. *)
EdgeOK ==
  \A fd \in interest : Readable(sock[fd]) =>
    \/ fd \in ready
    \/ fd \in BatchFds
    \/ fd = cur /\ pc \in {"udp", "accept", "read"}

(* accept() finds a descriptor as long as a connection is queued: the open
   descriptors are those of distinct sockets, and that connection has none. *)
LEMMA DescriptorLeft ==
  ASSUME Undisturbed, LoopInv, NEW l \in Listeners, backlog[l] # {}
  PROVE  Free # {}
<1>1. PICK c \in backlog[l] : TRUE
  OBVIOUS
<1>2. c \in Conns /\ conn[c] = "queued"
  BY DEF LoopInv, TypeOK, BacklogOK
<1>3. \A fd \in Fds : sock[fd] # c
  BY <1>2 DEF LoopInv, TablesOK, OpenHasDescriptor
<1> SUFFICES ASSUME Free = {} PROVE FALSE
  OBVIOUS
<1>4. sock \in [Fds -> Socks \ {c}]
  BY <1>3 DEF Free, LoopInv, TypeOK
<1>5. IsFiniteSet(Socks) /\ IsFiniteSet(Socks \ {c})
      /\ Cardinality(Socks \ {c}) = Cardinality(Socks) - 1
      /\ Cardinality(Socks) \in Nat
  <2>1. IsFiniteSet(Socks)
    BY EventLoopAssumption, FS_Union DEF Socks
  <2>2. c \in Socks
    BY <1>2 DEF Socks
  <2>3. QED
    BY <2>1, <2>2, FS_RemoveElement, FS_CardinalityType
<1>6. Cardinality(Fds) \in Nat
  BY EventLoopAssumption, FS_CardinalityType
<1>7. Cardinality(Fds) > Cardinality(Socks \ {c})
  BY <1>5, <1>6 DEF Undisturbed, Socks
<1>8. \E f, g \in Fds : f # g /\ sock[f] = sock[g]
  <2> DEFINE T == Socks \ {c}
  <2> HIDE DEF T
  <2>1. sock \in [Fds -> T] /\ IsFiniteSet(T) /\ Cardinality(Fds) > Cardinality(T)
    BY <1>4, <1>5, <1>7 DEF T
  <2>2. IsFiniteSet(Fds)
    BY EventLoopAssumption
  <2>3. QED
    BY <2>1, <2>2, FS_PigeonHole
<1>9. QED
  BY <1>4, <1>8 DEF LoopInv, TablesOK, OneDescriptor, Free

(* Without those disturbances no step loses an edge. *)
LEMMA EdgeStep ==
  ASSUME Undisturbed
  PROVE  LoopInv /\ DataOnly /\ EdgeOK /\ [Next]_vars => DataOnly' /\ EdgeOK'
<1> SUFFICES ASSUME LoopInv, DataOnly, EdgeOK, [Next]_vars
             PROVE  DataOnly' /\ EdgeOK'
  OBVIOUS
<1>b. LoopInv'
  BY LoopStep
<1>a. Faults \cap {"fcntl", "epoll_add", "accept", "refuse", "empty_dgram"} = {}
  BY DEF Undisturbed
<1> USE EventLoopAssumption, <1>a
    DEF loopVars, tblVars, peerVars, Socks, Servers
<1>1. ASSUME NEW s \in Servers, NEW fd \in Fds, OpenServer(s, fd)
      PROVE  DataOnly' /\ EdgeOK'
  <2> USE <1>1 DEF OpenServer, Creates
  <2>1. fd \notin interest
    BY DEF IsNext, Free, LoopInv, TypeOK, TablesOK, ContextsMatch, HasContext
  <2>2. sock' = [sock EXCEPT ![fd] = s] /\ AddFd(fd, s)
        /\ UNCHANGED <<batch, backlog, dgrams, rx, ended>>
    OBVIOUS
  <2>3. \A t : Readable(t)' <=> Readable(t)
    BY <2>2 DEF Readable
  <2>4. EdgeOK'
    <3>1. \A f \in interest : f \in Fds /\ f # fd /\ sock'[f] = sock[f]
      BY <2>1, <2>2 DEF LoopInv, TypeOK
    <3>2. ready \subseteq ready' /\ BatchFds' = BatchFds
          /\ interest' = interest \cup {fd}
      BY <2>2 DEF AddFd, BatchFds
    <3>3. Readable(sock[fd])' => fd \in ready'
      BY <2>2, <2>3 DEF AddFd, Readable, LoopInv, TypeOK
    <3>4. \A f \in interest : Readable(sock[f])' => Readable(sock[f])
      BY <2>3, <3>1 DEF Readable
    <3>5. QED
      BY <2>2, <3>2, <3>3, <3>4 DEF EdgeOK
  <2>5. QED
    BY <2>4 DEF DataOnly
<1>2. CASE Destroy
  BY <1>2 DEF Destroy, EdgeOK, DataOnly, LoopInv, ReadyOK, TypeOK, TablesOK, ContextsMatch,
     HasContext
<1>3. CASE EndOfBatch
  BY <1>3 DEF EndOfBatch, EdgeOK, DataOnly, Readable, BatchFds
<1>19. CASE SetupFails
  <2>1. /\ UNCHANGED <<cur, batch, backlog, dgrams, conn, peerVars, interest, ready>>
        /\ pc' = "stopped" /\ pc = "boot"
    BY <1>19 DEF SetupFails, CreateFails, BindFails, RegisterFails, Creates
  <2>2. \A f \in interest : sock'[f] = sock[f]
    <3>1. ASSUME NEW s \in Servers, NEW fd \in Fds, Creates(s, fd), NEW f \in interest
          PROVE  sock'[f] = sock[f]
      <4>1. fd \notin interest /\ f \in Fds
        BY <3>1 DEF Creates, IsNext, Free, LoopInv, TypeOK, TablesOK, ContextsMatch,
           HasContext
      <4>2. QED
        BY <3>1, <4>1 DEF Creates, LoopInv, TypeOK
    <3>2. QED
      BY <1>19, <3>1 DEF SetupFails, CreateFails, BindFails, RegisterFails
  <2>3. EdgeOK'
    BY <2>1, <2>2 DEF EdgeOK, Readable, BatchFds
  <2>4. QED
    BY <2>1, <2>3 DEF DataOnly
<1>4. CASE EpollWait
  <2> USE <1>4 DEF EpollWait
  <2>1. PICK F \in SUBSET ready : batch' = {[fd |-> fd, sock |-> sock[fd]] : fd \in F}
                                  /\ ready' = ready \ F
    OBVIOUS
  <2>2. F \subseteq BatchFds'
    <3>1. BatchFds' = {e.fd : e \in batch'}
      BY DEF BatchFds
    <3>2. ASSUME NEW fd \in F PROVE fd \in BatchFds'
      <4>1. [fd |-> fd, sock |-> sock[fd]] \in batch'
        BY <2>1
      <4>2. [fd |-> fd, sock |-> sock[fd]].fd = fd
        OBVIOUS
      <4>3. QED
        BY <3>1, <4>1, <4>2
    <3>3. QED
      BY <3>2
  <2>3. batch = {} /\ pc = "wait"
    BY DEF LoopInv, PhaseOK
  <2>4. ready \subseteq ready' \cup BatchFds'
    BY <2>1, <2>2
  <2>5. EdgeOK'
    BY <2>3, <2>4 DEF EdgeOK, Readable, BatchFds
  <2>6. QED
    BY <2>5 DEF DataOnly
<1>5. CASE EpollTimeout \/ UNCHANGED vars
  BY <1>5 DEF EpollTimeout, vars, EdgeOK, DataOnly, Readable, BatchFds
<1>6. CASE Dispatch
  <2> USE <1>6 DEF Dispatch, Undispatched
  <2>1. PICK e \in batch : /\ batch' = batch \ {e}
                            /\ pc' = HandlerOf(e.fd)
                            /\ cur' = IF pc' = "dispatch" THEN NoFd ELSE e.fd
    OBVIOUS
  <2>2. pc' \in {"udp", "accept", "read"} /\ cur' = e.fd
    <3>1. e.fd \in interest /\ e.fd \in Fds
      BY DEF LoopInv, BatchFresh, TypeOK
    <3>2. HandlerOf(e.fd) \in {"udp", "accept", "read"}
      BY <3>1 DEF LoopInv, TablesOK, ContextsMatch, HasContext, TypeOK, HandlerOf
    <3>3. QED
      BY <2>1, <3>2
  <2>3. BatchFds \subseteq BatchFds' \cup {e.fd}
    BY <2>1 DEF BatchFds
  <2>4. EdgeOK'
    BY <2>2, <2>3 DEF EdgeOK, Readable
  <2>5. QED
    BY <2>4 DEF DataOnly
<1>7. CASE UdpRecv
  <2> USE <1>7 DEF UdpRecv, Again
  <2>1. DataOnly'
    BY TailTyped DEF DataOnly
  <2>2. sock[cur] \in UdpSocks /\ pc = "udp" /\ cur \in Fds
    BY DEF LoopInv, CurOK, HandlerHasContext, TablesOK, ContextsMatch, HasContext, TypeOK
  <2>3. \A fd \in interest : fd # cur => sock[fd] # sock[cur]
    BY <2>2 DEF LoopInv, TablesOK, OneDescriptor, TypeOK
  <2>4. \A fd \in interest : fd # cur /\ Readable(sock[fd])' => Readable(sock[fd])
    BY <2>2, <2>3 DEF Readable, DataOnly
  <2>5. EdgeOK'
    BY <2>2, <2>4 DEF EdgeOK, BatchFds
  <2>6. QED
    BY <2>1, <2>5
<1>8. CASE UdpLeave
  <2> USE <1>8 DEF UdpLeave, Leave
  <2>1. sock[cur] \in UdpSocks
    BY DEF LoopInv, CurOK, HandlerHasContext, TablesOK, ContextsMatch, HasContext, TypeOK
  <2>2. dgrams[sock[cur]] = << >> /\ UNCHANGED dgrams
    BY <2>1, HeadTailProperties DEF DataOnly
  <2>3. ~Readable(sock[cur])
    BY <2>1, <2>2 DEF Readable
  <2>4. EdgeOK'
    BY <2>2, <2>3 DEF EdgeOK, Readable, BatchFds
  <2>5. QED
    BY <2>2, <2>4 DEF DataOnly
<1>9. CASE AcceptLeave
  <2> USE <1>9 DEF AcceptLeave, Leave
  <2>1. sock[cur] \in Listeners
    BY DEF LoopInv, CurOK, HandlerHasContext, TablesOK, ContextsMatch, HasContext
  <2>2. backlog[sock[cur]] = {}
    BY <2>1, DescriptorLeft
  <2>3. ~Readable(sock[cur])
    BY <2>1, <2>2 DEF Readable
  <2>4. EdgeOK'
    BY <2>3 DEF EdgeOK, Readable, BatchFds
  <2>5. QED
    BY <2>4 DEF DataOnly
<1>10. ASSUME NEW c \in Conns, NEW fd \in Fds, AcceptConn(c, fd)
       PROVE  DataOnly' /\ EdgeOK'
  <2> USE <1>10 DEF AcceptConn, Again, Dequeue
  <2>1. fd \notin interest /\ sock[cur] \in Listeners /\ cur \in Fds
    BY DEF IsNext, Free, LoopInv, TypeOK, CurOK, HandlerHasContext, TablesOK,
       ContextsMatch, HasContext
  <2>2. \A t : Readable(t)' => Readable(t)
    BY <2>1 DEF Readable, LoopInv, TypeOK
  <2>3. sock' = [sock EXCEPT ![fd] = c] /\ AddFd(fd, c)
        /\ UNCHANGED <<pc, cur, batch>>
    OBVIOUS
  <2>4. EdgeOK'
    <3>1. \A f \in interest : f \in Fds /\ f # fd /\ sock'[f] = sock[f]
      BY <2>1, <2>2 DEF LoopInv, TypeOK
    <3>2. ready \subseteq ready' /\ BatchFds' = BatchFds
          /\ interest' = interest \cup {fd}
      BY <2>2 DEF AddFd, BatchFds
    <3>3. Readable(sock[fd])' => fd \in ready'
      BY <2>2, <2>3 DEF AddFd, Readable, LoopInv, TypeOK
    <3>4. \A f \in interest : Readable(sock[f])' => Readable(sock[f])
      BY <2>3, <3>1 DEF Readable
    <3>5. QED
      BY <2>2, <3>2, <3>3, <3>4 DEF EdgeOK
  <2>5. QED
    BY <2>4 DEF DataOnly
<1>11. CASE \E c \in Conns, fd \in Fds : AcceptBlocking(c, fd) \/ AcceptGiveUp(c, fd)
  BY <1>11 DEF AcceptBlocking, AcceptGiveUp
<1>12. CASE ReadLeave
  <2> USE <1>12 DEF ReadLeave, Nothing, Leave
  <2>1. sock[cur] \in Conns
    BY DEF LoopInv, CurOK, HandlerHasContext, TablesOK, ContextsMatch, HasContext
  <2>2. ~Readable(sock[cur])
    BY <2>1 DEF Readable, LoopInv, TypeOK
  <2>3. EdgeOK'
    BY <2>2 DEF EdgeOK, Readable, BatchFds
  <2>4. QED
    BY <2>3 DEF DataOnly
<1>13. CASE ReadMore
  <2> USE <1>13 DEF ReadMore, Receives, Again
  <2>1. sock[cur] \in Conns /\ cur \in Fds /\ pc = "read"
    BY DEF LoopInv, CurOK, HandlerHasContext, TablesOK, ContextsMatch, HasContext
  <2>2. \A fd \in interest : fd # cur => sock[fd] # sock[cur]
    BY <2>1 DEF LoopInv, TablesOK, OneDescriptor, TypeOK
  <2>3. \A fd \in interest : fd # cur /\ Readable(sock[fd])' => Readable(sock[fd])
    BY <2>1, <2>2 DEF Readable, LoopInv, TypeOK
  <2>4. EdgeOK'
    BY <2>1, <2>3 DEF EdgeOK, BatchFds
  <2>5. QED
    BY <2>4 DEF DataOnly
<1>14. CASE ReadEnd \/ ReadBad
  <2> USE <1>14 DEF ReadEnd, AtEnd, ReadBad, Receives, CloseConnection, EraseCtx, Leave
  <2>1. sock[cur] \in Conns /\ cur \in Fds
    BY DEF LoopInv, CurOK, HandlerHasContext, TablesOK, ContextsMatch, HasContext
  <2>2. \A fd \in interest : fd # cur => sock[fd] # sock[cur] /\ sock'[fd] = sock[fd]
    BY <2>1 DEF LoopInv, TablesOK, OneDescriptor, TypeOK
  <2>3. \A fd \in interest : fd # cur /\ Readable(sock[fd])' => Readable(sock[fd])
    BY <2>1, <2>2 DEF Readable, LoopInv, TypeOK
  <2>4. EdgeOK'
    BY <2>2, <2>3 DEF EdgeOK, BatchFds
  <2>5. QED
    BY <2>4 DEF DataOnly
<1>15. ASSUME NEW c \in Conns, NEW l \in Listeners, Connect(c, l)
       PROVE  DataOnly' /\ EdgeOK'
  <2> USE <1>15 DEF Connect
  <2>1. \A t : t # l /\ Readable(t)' => Readable(t)
    BY DEF Readable, LoopInv, TypeOK
  <2>2. EdgeOK'
    BY <2>1 DEF EdgeOK, Edge, LoopInv, TypeOK, BatchFds
  <2>3. QED
    BY <2>2 DEF DataOnly
<1>16. ASSUME NEW c \in Conns, Send(c) \/ PeerEnds(c)
       PROVE  DataOnly' /\ EdgeOK'
  <2> USE <1>16 DEF Send, PeerEnds
  <2>1. \A t : t # c /\ Readable(t)' => Readable(t)
    BY DEF Readable, LoopInv, TypeOK
  <2>2. EdgeOK'
    BY <2>1 DEF EdgeOK, Edge, LoopInv, TypeOK, BatchFds
  <2>3. QED
    BY <2>2 DEF DataOnly
<1>17. ASSUME NEW u \in UdpSocks, NEW kind \in DatagramKinds, Datagram(u, kind)
       PROVE  DataOnly' /\ EdgeOK'
  <2> USE <1>17 DEF Datagram
  <2>1. kind = "data"
    BY DEF DatagramKinds
  <2>2. DataOnly'
    BY <2>1, AppendTyped DEF DataOnly
  <2>3. \A t : t # u /\ Readable(t)' => Readable(t)
    BY DEF Readable, DataOnly
  <2>4. EdgeOK'
    BY <2>3 DEF EdgeOK, Edge, LoopInv, TypeOK, BatchFds
  <2>5. QED
    BY <2>2, <2>4
<1>18. QED
  BY <1>1, <1>2, <1>3, <1>4, <1>5, <1>6, <1>7, <1>8, <1>9, <1>10, <1>11, <1>12,
     <1>13, <1>14, <1>15, <1>16, <1>17, <1>19
     DEF Next, Loop, Network, Boot, Handler, AcceptStep, ReadStep

(* Unless one of the named disturbances occurs, edge-triggered waiting loses no
   input: the thread never goes to sleep on a readable socket that epoll will
   not report. *)
THEOREM EdgesSuffice ==
  ASSUME Undisturbed
  PROVE  Spec => []NoLostWakeup
<1>1. Init => DataOnly /\ EdgeOK
  BY DEF Init, DataOnly, EdgeOK
<1>2. LoopInv /\ EdgeOK => NoLostWakeup
  BY DEF LoopInv, PhaseOK, EdgeOK, NoLostWakeup, BatchFds
<1>3. QED
  BY <1>1, <1>2, LoopInvariant, EdgeStep, PTL DEF Spec

-----------------------------------------------------------------------------
(* Nothing arrives on a connection before it is made. *)
IdleOK == \A c \in Conns : conn[c] = "idle" => rx[c] = 0 /\ ~ended[c]

(* The input of a connection as the abstract service sees it. *)
Input == [c \in Conns |-> conn[c] \in {"queued", "open"} /\ (rx[c] > 0 \/ ended[c])]

(* Every step keeps IdleOK. *)
LEMMA IdleStep == LoopInv /\ IdleOK /\ [Next]_vars => IdleOK'
<1> SUFFICES ASSUME LoopInv, IdleOK, [Next]_vars
             PROVE  IdleOK'
  OBVIOUS
<1> USE DEF loopVars, tblVars, peerVars, IdleOK
<1>1. CASE UNCHANGED <<rx, ended>>
           /\ \A c \in Conns : conn'[c] = "idle" => conn[c] = "idle"
  BY <1>1
<1>2. CASE UdpRecv \/ UdpLeave \/ AcceptLeave \/ ReadLeave \/ SetupFails
           \/ EpollWait \/ EpollTimeout \/ Dispatch \/ EndOfBatch \/ UNCHANGED vars
  BY <1>2, <1>1 DEF UdpRecv, Again, UdpLeave, AcceptLeave, ReadLeave, Nothing, SetupFails,
       EpollWait, EpollTimeout, Dispatch, Undispatched, EndOfBatch, vars
<1>3. CASE Destroy
  BY <1>3 DEF Destroy
<1>4. ASSUME NEW s \in Servers, NEW fd \in Fds, OpenServer(s, fd)
      PROVE  IdleOK'
  BY <1>4 DEF OpenServer
<1>5. ASSUME NEW c \in Conns, NEW fd \in Fds,
             AcceptConn(c, fd) \/ AcceptBlocking(c, fd) \/ AcceptGiveUp(c, fd)
      PROVE  IdleOK'
  BY <1>5 DEF AcceptConn, Again, AcceptBlocking, AcceptGiveUp, LoopInv, TypeOK
<1>6. CASE ReadMore
  <2>1. conn[sock[cur]] # "idle"
    BY <1>6 DEF ReadMore, Receives, Again, LoopInv, CurOK, HandlerHasContext, TypeOK,
       TablesOK, ContextsMatch,
         OpenHasDescriptor
  <2>2. QED
    BY <1>6, <2>1 DEF ReadMore, Receives, Again, LoopInv, TypeOK
<1>7. CASE ReadBad \/ ReadEnd
  BY <1>7 DEF ReadBad, Receives, ReadEnd, AtEnd, CloseConnection, EraseCtx, LoopInv, TypeOK
<1>8. ASSUME NEW c \in Conns, NEW l \in Listeners, Connect(c, l)
      PROVE  IdleOK'
  BY <1>8 DEF Connect, LoopInv, TypeOK
<1>9. ASSUME NEW c \in Conns, Send(c) \/ PeerEnds(c)
      PROVE  IdleOK'
  BY <1>9 DEF Send, PeerEnds, LoopInv, TypeOK
<1>10. ASSUME NEW u \in UdpSocks, NEW kind \in DatagramKinds, Datagram(u, kind)
       PROVE  IdleOK'
  BY <1>10 DEF Datagram
<1>11. QED
  BY <1>2, <1>3, <1>4, <1>5, <1>6, <1>7, <1>8, <1>9, <1>10
     DEF Next, Loop, Network, Boot, Handler, AcceptStep, ReadStep

(* Every step of the reactor is a step of the service, or leaves the service
   where it is. *)
LEMMA ServiceStep ==
  LoopInv /\ IdleOK /\ [Next]_vars => [Service!Next]_<<conn, Input>>
<1> SUFFICES ASSUME LoopInv, IdleOK, [Next]_vars
             PROVE  [Service!Next]_<<conn, Input>>
  OBVIOUS
<1>a. LoopInv'
  BY LoopStep
<1> USE DEF loopVars, tblVars, peerVars, Input, LoopInv, TypeOK
<1>1. CASE UNCHANGED <<rx, ended, conn>>
  BY <1>1
<1>2. CASE UdpRecv \/ UdpLeave \/ AcceptLeave \/ ReadLeave \/ SetupFails
           \/ EpollWait \/ EpollTimeout \/ Dispatch \/ EndOfBatch \/ UNCHANGED vars
  BY <1>2, <1>1 DEF UdpRecv, Again, UdpLeave, AcceptLeave, ReadLeave, Nothing, SetupFails,
       EpollWait, EpollTimeout, Dispatch, Undispatched, EndOfBatch, vars
<1>3. CASE Destroy
  <2>1. \A c \in Conns : conn[c] # "open"
    BY <1>3 DEF Destroy, PhaseOK, TablesOK, OpenHasDescriptor
  <2>2. Service!Shutdown
    BY <1>3, <2>1 DEF Destroy, Service!Shutdown
  <2>3. QED
    BY <2>2 DEF Service!Next
<1>4. ASSUME NEW s \in Servers, NEW fd \in Fds, OpenServer(s, fd)
      PROVE  UNCHANGED <<conn, Input>>
  BY <1>4 DEF OpenServer
<1>5. ASSUME NEW c \in Conns, NEW fd \in Fds,
             AcceptConn(c, fd) \/ AcceptBlocking(c, fd) \/ AcceptGiveUp(c, fd)
      PROVE  Service!Next
  <2>1. sock[cur] \in Listeners
    BY <1>5 DEF AcceptConn, Again, AcceptBlocking, AcceptGiveUp, CurOK, HandlerHasContext,
       TablesOK,
         ContextsMatch
  <2>2. conn[c] = "queued"
    BY <1>5, <2>1 DEF AcceptConn, Again, AcceptBlocking, AcceptGiveUp, Dequeue, BacklogOK
  <2>3. CASE AcceptConn(c, fd) \/ AcceptBlocking(c, fd)
    <3>1. Service!Admit(c)
      BY <2>2, <2>3 DEF AcceptConn, Again, AcceptBlocking, Service!Admit
    <3>2. QED
      BY <3>1 DEF Service!Next
  <2>4. CASE AcceptGiveUp(c, fd)
    <3>1. Service!TurnAway(c)
      BY <2>2, <2>4 DEF AcceptGiveUp, Service!TurnAway
    <3>2. QED
      BY <3>1 DEF Service!Next
  <2>5. QED
    BY <1>5, <2>3, <2>4
<1>6. CASE ReadMore
  <2>a. PICK c \in Conns : c = sock[cur]
    BY <1>6 DEF ReadMore, Receives, Again, CurOK, HandlerHasContext, TablesOK,
       ContextsMatch, HasContext
  <2>1. conn[c] = "open"
    BY <1>6, <2>a DEF ReadMore, Receives, Again, CurOK, HandlerHasContext, TablesOK,
       ContextsMatch,
         OpenHasDescriptor
  <2>2. rx[c] > 0 /\ \A d \in Conns : d # c => rx'[d] = rx[d]
    BY <1>6, <2>a, <2>1 DEF ReadMore, Receives, Again
  <2>3. CASE rx'[c] > 0 \/ ended[c]
    BY <1>6, <2>a, <2>1, <2>2, <2>3 DEF ReadMore, Receives, Again
  <2>4. CASE ~(rx'[c] > 0 \/ ended[c])
    <3>1. conn' = conn /\ ended' = ended
      BY <1>6 DEF ReadMore, Receives, Again
    <3>2. Input[c] /\ ~Input'[c]
      BY <2>1, <2>2, <2>4, <3>1
    <3>3. \A d \in Conns : d # c => Input'[d] = Input[d]
      BY <2>2, <3>1
    <3>4. Input' = [Input EXCEPT ![c] = FALSE]
      BY <3>2, <3>3, Zenon
    <3>5. Service!Drain(c)
      BY <2>1, <3>1, <3>2, <3>4 DEF Service!Drain
    <3>6. QED
      BY <2>1, <3>5 DEF Service!Next
  <2>5. QED
    BY <2>3, <2>4
<1>7. CASE ReadBad \/ ReadEnd
  <2>a. PICK c \in Conns : c = sock[cur]
    BY <1>7 DEF ReadBad, Receives, ReadEnd, AtEnd, CurOK, HandlerHasContext, TablesOK,
       ContextsMatch, HasContext
  <2>1. conn[c] = "open"
    BY <1>7, <2>a DEF ReadBad, Receives, ReadEnd, AtEnd, CurOK, HandlerHasContext,
       TablesOK, ContextsMatch,
         OpenHasDescriptor
  <2>2. rx[c] > 0 \/ ended[c]
    BY <1>7, <2>a, <2>1 DEF ReadBad, Receives, ReadEnd, AtEnd
  <2>3. (\A d \in Conns : d # c => rx'[d] = rx[d]) /\ UNCHANGED ended
        /\ conn' = [conn EXCEPT ![c] = "closed"]
    BY <1>7, <2>a DEF ReadBad, Receives, ReadEnd, AtEnd, CloseConnection, EraseCtx
  <2>4. Service!Release(c)
    BY <2>1, <2>2, <2>3 DEF Service!Release
  <2>5. QED
    BY <2>1, <2>4 DEF Service!Next
<1>8. ASSUME NEW c \in Conns, NEW l \in Listeners, Connect(c, l)
      PROVE  Service!Next
  <2>1. Service!Arrive(c)
    BY <1>8 DEF Connect, IdleOK, Service!Arrive
  <2>2. QED
    BY <2>1 DEF Service!Next
<1>9. ASSUME NEW c \in Conns, Send(c) \/ PeerEnds(c)
      PROVE  Service!Next
  <2>1. /\ conn[c] \in {"queued", "open"} /\ UNCHANGED conn
        /\ rx'[c] > 0 \/ ended'[c]
        /\ \A d \in Conns : d # c => rx'[d] = rx[d] /\ ended'[d] = ended[d]
    BY <1>9 DEF Send, PeerEnds
  <2>2. Service!Offer(c)
    BY <2>1 DEF Service!Offer
  <2>3. QED
    BY <2>2 DEF Service!Next
<1>10. ASSUME NEW u \in UdpSocks, NEW kind \in DatagramKinds, Datagram(u, kind)
       PROVE  UNCHANGED <<conn, Input>>
  BY <1>10 DEF Datagram
<1>11. QED
  BY <1>2, <1>3, <1>4, <1>5, <1>6, <1>7, <1>8, <1>9, <1>10
     DEF Next, Loop, Network, Boot, Handler, AcceptStep, ReadStep

(* The reactor, whatever fails, refines the safety part of the connection
   service: one admission or rejection per connection, and no release of a
   connection that has neither sent anything nor ended. *)
THEOREM ReactorKeepsService == Spec => ServiceKept
<1>1. Init => Service!Init /\ IdleOK
  BY DEF Init, Service!Init, IdleOK
<1>2. LoopInv /\ IdleOK /\ [Next]_vars => [Service!Next]_(Service!avars)
  BY ServiceStep DEF Service!avars, Input
<1>3. QED
  BY <1>1, <1>2, LoopInvariant, IdleStep, PTL DEF Spec, ServiceKept, Service!SafeSpec

-----------------------------------------------------------------------------
(* Without a failing set_nonblock on an accepted descriptor, only a failing
   start-up and the destructor change what is open and not registered. *)
LEMMA OrphanStep ==
  ASSUME "fcntl" \notin Faults
  PROVE  LoopInv /\ NoOrphan /\ [Next]_vars => NoOrphan'
<1> DEFINE left == {fd \in Fds : sock[fd] # NoSock /\ fd \notin interest}
<1> SUFFICES ASSUME LoopInv, NoOrphan, [Next]_vars
             PROVE  NoOrphan'
  OBVIOUS
<1> USE EventLoopAssumption DEF loopVars, tblVars, peerVars
<1>1. ASSUME NEW s \in Servers, NEW fd \in Fds, OpenServer(s, fd)
      PROVE  NoOrphan'
  BY <1>1 DEF OpenServer, Creates, AddFd, NoOrphan, LoopInv, TypeOK
<1>2. CASE Destroy
  <2>1. pc' = "destroyed" /\ left' \subseteq left
    BY <1>2 DEF Destroy, LoopInv, TypeOK
  <2>2. QED
    BY <2>1 DEF NoOrphan
<1>3. ASSUME NEW c \in Conns, NEW fd \in Fds, AcceptConn(c, fd)
      PROVE  NoOrphan'
  BY <1>3 DEF AcceptConn, Again, AddFd, NoOrphan, LoopInv, TypeOK
<1>4. ASSUME NEW c \in Conns, NEW fd \in Fds, AcceptBlocking(c, fd)
      PROVE  NoOrphan'
  BY <1>4 DEF AcceptBlocking
<1>5. CASE ReadEnd \/ ReadBad
  <2>1. pc = "read" /\ pc' = "dispatch"
    BY <1>5 DEF ReadEnd, ReadBad, Leave
  <2>2. left' \subseteq left
    BY <1>5 DEF ReadEnd, ReadBad, CloseConnection, LoopInv, TypeOK
  <2>3. QED
    BY <2>1, <2>2 DEF NoOrphan
<1>6. ASSUME UNCHANGED <<sock, interest>>,
             pc \in {"stopped", "destroyed"} => pc' \in {"stopped", "destroyed"}
      PROVE  NoOrphan'
  BY <1>6 DEF NoOrphan
<1>7. CASE UNCHANGED vars
  BY <1>6, <1>7 DEF vars
<1>8. CASE SetupFails
  (* Nothing was left before, and at most the new socket is now. *)
  <2>1. pc' = "stopped" /\ left = {}
    BY <1>8 DEF SetupFails, CreateFails, BindFails, RegisterFails, Creates, NoOrphan
  <2>2. CASE CreateFails
    BY <2>1, <2>2 DEF CreateFails, NoOrphan
  <2>3. ASSUME NEW s \in Servers, NEW fd \in Fds, BindFails(s, fd) \/ RegisterFails(s, fd)
        PROVE  NoOrphan'
    <3>1. sock' = [sock EXCEPT ![fd] = s] /\ interest' = interest
      BY <2>3 DEF BindFails, RegisterFails, Creates
    <3>2. left' \subseteq {fd}
      BY <2>1, <3>1 DEF LoopInv, TypeOK
    <3>3. QED
      BY <2>1, <3>2 DEF NoOrphan
  <2>4. QED
    BY <1>8, <2>2, <2>3 DEF SetupFails
<1>9. CASE EpollWait \/ EpollTimeout \/ Dispatch \/ EndOfBatch
  BY <1>6, <1>9 DEF EpollWait, EpollTimeout, vars, Dispatch, EndOfBatch
<1>10. CASE UdpRecv \/ UdpLeave \/ AcceptLeave \/ ReadLeave \/ ReadMore
  BY <1>6, <1>10 DEF UdpRecv, UdpLeave, AcceptLeave, ReadLeave, ReadMore, Again
<1>11. CASE Network \/ \E c \in Conns, fd \in Fds : AcceptGiveUp(c, fd)
  BY <1>6, <1>11 DEF Network, Connect, Send, PeerEnds, Datagram, AcceptGiveUp
<1>12. QED
  BY <1>1, <1>2, <1>3, <1>4, <1>5, <1>7, <1>8, <1>9, <1>10, <1>11
     DEF Next, Loop, Boot, Handler, AcceptStep, ReadStep

(* As long as set_nonblock works on accepted descriptors, every open descriptor is
   registered while the loop runs, whatever else fails; a failed start-up leaves at
   most one socket outside, and so does the destructor after it. *)
THEOREM OnlyStartUpLeaks ==
  ASSUME "fcntl" \notin Faults
  PROVE  Spec => []NoOrphan
<1>1. Init => NoOrphan
  BY DEF Init, NoOrphan
<1>2. QED
  BY <1>1, OrphanStep, LoopInvariant, PTL DEF Spec
=============================================================================
