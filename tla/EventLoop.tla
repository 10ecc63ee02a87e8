------------------------------ MODULE EventLoop ------------------------------
(***************************************************************************)
(* The reactor of srv_framework: one thread that waits on an edge-triggered *)
(* epoll instance and serves UDP sockets, listening TCP sockets and         *)
(* accepted TCP connections, next to the kernel objects it talks to.        *)
(*                                                                          *)
(* One step of the loop thread is one system call of a handler together     *)
(* with everything the handler does until its next system call on that      *)
(* socket; the network acts between any two of them.  Bytes are counted,    *)
(* not named: what handle_tcp_read makes of them is the verdict of a read   *)
(* step (go on, or give the connection up).                                 *)
(***************************************************************************)
EXTENDS Naturals, Sequences, FiniteSets

CONSTANTS
  Listeners,    \* conf.tcp_srv_ha_list: the configured TCP listening sockets
  UdpSocks,     \* conf.udp_srv_ha_list: the configured UDP sockets
  Conns,        \* incoming TCP connections, each made at most once
  Fds,          \* the file descriptor numbers the process may hold
  NoSock,       \* what a descriptor refers to that is not open
  NoFd,         \* no handler is running
  MaxSegments,  \* bound: segments a peer sends on one connection
  MaxDatagrams, \* bound: datagrams sent to one UDP socket
  Faults        \* what may go wrong (FaultKinds) in this instance

FaultKinds == {"setup",        \* create, set_nonblock, bind, listen or add_fd at start-up
               "fcntl",        \* set_nonblock fails on an accepted descriptor
               "epoll_add",    \* add_fd fails on an accepted descriptor
               "accept",       \* accept() fails though a connection is queued
               "refuse",       \* the user's handle_tcp_accept returns non-zero
               "empty_dgram",  \* a peer sends a datagram without payload
               "bad_package"}  \* too long package, or handle_tcp_package fails

Servers == Listeners \cup UdpSocks
Socks   == Servers \cup Conns

ASSUME EventLoopAssumption ==
  /\ Listeners \cap UdpSocks = {} /\ Servers \cap Conns = {}
  /\ NoSock \notin Socks /\ NoFd \notin Fds
  /\ IsFiniteSet(Servers) /\ Servers # {}
  /\ IsFiniteSet(Conns)
  /\ Fds \subseteq Nat /\ IsFiniteSet(Fds)
  /\ MaxSegments \in Nat /\ MaxDatagrams \in Nat
  /\ Faults \subseteq FaultKinds

(* epoll_wrapper::create is given the number of configured sockets, and
   epoll_wait never reports more events than that. *)
MaxEvents == Cardinality(Servers)

VARIABLES
  pc,        \* where the loop thread is
  cur,       \* the descriptor the running handler serves, or NoFd
  batch,     \* events of the last epoll_wait not yet dispatched; the code sees
             \* only the descriptor, sock is the socket the event was raised for
  udpCtx,    \* the keys of m_udp_context
  tcpCtx,    \* m_tcp_context: m_status of each descriptor, "none" if no entry
  sock,      \* kernel: the socket a descriptor refers to
  interest,  \* kernel: descriptors registered with the epoll instance
  ready,     \* kernel: registered descriptors with an edge not yet reported
  backlog,   \* kernel: connections a listening socket has queued
  dgrams,    \* kernel: datagrams a UDP socket has queued
  rx,        \* kernel: segments received on a connection and not read
  ended,     \* kernel: the peer shut the connection down or reset it
  conn,      \* life of a connection: idle, queued, open, closed
  unsent     \* what the peers may still send (bounds the model)

loopVars == <<pc, cur, batch>>
tblVars  == <<udpCtx, tcpCtx, sock, interest>>
peerVars == <<rx, ended, unsent>>
vars == <<pc, cur, batch, udpCtx, tcpCtx, sock, interest, ready, backlog,
          dgrams, rx, ended, conn, unsent>>

-----------------------------------------------------------------------------
(* Helpers.                                                                 *)

Free == {fd \in Fds : sock[fd] = NoSock}

(* socket() and accept() return the lowest descriptor not in use. *)
IsNext(fd) == fd \in Free /\ \A f \in Free : fd <= f

Readable(s) ==
  \/ s \in Listeners /\ backlog[s] # {}
  \/ s \in UdpSocks  /\ dgrams[s] # << >>
  \/ s \in Conns     /\ (rx[s] > 0 \/ ended[s])

(* The kernel queues the descriptors that watch socket s. *)
Edge(s) == ready' = ready \cup {fd \in interest : sock[fd] = s}

BatchFds == {e.fd : e \in batch}

HasContext(fd) == fd \in udpCtx \/ tcpCtx[fd] # "none"

(* A handler returns to the for loop of _handle_epoll_. *)
Leave == pc' = "dispatch" /\ cur' = NoFd

(* while(true): the handler goes on to its next system call. *)
Again == UNCHANGED <<pc, cur>>

(* Variant: m_status is not set. *)
InsertUnset(fd, status) ==
  tcpCtx' = [tcpCtx EXCEPT ![fd] = IF @ = "none" THEN "unused" ELSE @]

(* std::map::insert keeps an entry that is already there. *)
InsertCtx(fd, status) ==
  tcpCtx' = [tcpCtx EXCEPT ![fd] = IF @ = "none" THEN status ELSE @]

(* Variant: nothing is registered. *)
AddNothing(fd, s) == UNCHANGED <<interest, ready>>

(* epoll_wrapper::add_fd: a descriptor readable at registration is ready. *)
AddFd(fd, s) ==
  /\ interest' = interest \cup {fd}
  /\ ready' = IF Readable(s) THEN ready \cup {fd} ELSE ready

(* Variant: the entry is forgotten. *)
KeepCtx(fd) == UNCHANGED tcpCtx

EraseCtx(fd) == tcpCtx' = [tcpCtx EXCEPT ![fd] = "none"]

(* _close_connection_: leave epoll, close the descriptor, erase the entry.
   The undispatched events of the batch are not touched. *)
CloseConnection(fd) ==
  /\ interest' = interest \ {fd}
  /\ ready' = ready \ {fd}
  /\ sock' = [sock EXCEPT ![fd] = NoSock]
  /\ EraseCtx(fd)
  /\ conn' = [conn EXCEPT ![sock[fd]] = "closed"]

-----------------------------------------------------------------------------
(* The network and the peers.                                               *)

(* A server socket that is bound and, for TCP, listens: it gets its context next. *)
Reachable(s) == \E fd \in Fds : sock[fd] = s /\ HasContext(fd)

Connect(c, l) ==
  /\ conn[c] = "idle" /\ Reachable(l)
  /\ conn' = [conn EXCEPT ![c] = "queued"]
  /\ backlog' = [backlog EXCEPT ![l] = @ \cup {c}]
  /\ Edge(l)
  /\ UNCHANGED <<loopVars, tblVars, dgrams, peerVars>>

Send(c) ==
  /\ conn[c] \in {"queued", "open"}
  /\ ~ended[c] /\ unsent[c] > 0
  /\ rx' = [rx EXCEPT ![c] = @ + 1]
  /\ unsent' = [unsent EXCEPT ![c] = @ - 1]
  /\ Edge(c)
  /\ UNCHANGED <<loopVars, tblVars, backlog, dgrams, ended, conn>>

(* Orderly shutdown or reset. *)
PeerEnds(c) ==
  /\ conn[c] \in {"queued", "open"}
  /\ ~ended[c]
  /\ ended' = [ended EXCEPT ![c] = TRUE]
  /\ Edge(c)
  /\ UNCHANGED <<loopVars, tblVars, backlog, dgrams, rx, conn, unsent>>

DatagramKinds == IF "empty_dgram" \in Faults THEN {"data", "empty"} ELSE {"data"}

Datagram(u, kind) ==
  /\ Reachable(u) /\ unsent[u] > 0
  /\ dgrams' = [dgrams EXCEPT ![u] = Append(@, kind)]
  /\ unsent' = [unsent EXCEPT ![u] = @ - 1]
  /\ Edge(u)
  /\ UNCHANGED <<loopVars, tblVars, backlog, rx, ended, conn>>

-----------------------------------------------------------------------------
(* Start-up and destruction: create_listen_socket and ~srv_framework.       *)

Missing(S) == {s \in S : \A fd \in Fds : sock[fd] # s}

(* create() has given the next socket of the lists a descriptor: UDP sockets first. *)
Creates(s, fd) ==
  /\ pc = "boot"
  /\ s \in Missing(Servers) /\ IsNext(fd)
  /\ s \in Listeners => Missing(UdpSocks) = {}
  /\ sock' = [sock EXCEPT ![fd] = s]

InsertServer(s, fd) ==
  IF s \in UdpSocks
    THEN udpCtx' = udpCtx \cup {fd} /\ UNCHANGED tcpCtx
    ELSE InsertCtx(fd, "listen") /\ UNCHANGED udpCtx

(* One iteration of create_listen_socket. *)
OpenServer(s, fd) ==
  /\ Creates(s, fd)
  /\ InsertServer(s, fd)
  /\ AddFd(fd, s)
  /\ pc' = IF Missing(Servers) = {s} THEN "wait" ELSE "boot"
  /\ UNCHANGED <<cur, batch, backlog, dgrams, conn, peerVars>>

(* create() fails: there is nothing to clean up. *)
CreateFails ==
  /\ pc = "boot"
  /\ "setup" \in Faults \/ Free = {}
  /\ UNCHANGED <<tblVars, ready>>

(* set_nonblock, bind or listen fails: the socket stays open, without a context. *)
BindFails(s, fd) ==
  /\ Creates(s, fd) /\ "setup" \in Faults
  /\ UNCHANGED <<udpCtx, tcpCtx, interest, ready>>

(* add_fd fails: the socket has its context already. *)
RegisterFails(s, fd) ==
  /\ Creates(s, fd) /\ "setup" \in Faults
  /\ InsertServer(s, fd)
  /\ UNCHANGED <<interest, ready>>

(* create_listen_socket fails and run() returns false; nothing is taken back. *)
SetupFails ==
  /\ \/ CreateFails
     \/ \E s \in Servers, fd \in Fds : BindFails(s, fd) \/ RegisterFails(s, fd)
  /\ pc' = "stopped"
  /\ UNCHANGED <<cur, batch, backlog, dgrams, conn, peerVars>>

(* The destructor closes every socket that has a context; a closed socket drops
   what it has queued. *)
Destroy ==
  /\ pc = "stopped"
  /\ pc' = "destroyed"
  /\ LET known == {fd \in Fds : HasContext(fd)}
     IN /\ sock' = [fd \in Fds |-> IF fd \in known THEN NoSock ELSE sock[fd]]
        /\ interest' = interest \ known
        /\ ready' = ready \ known
        /\ udpCtx' = {}
        /\ tcpCtx' = [fd \in Fds |-> "none"]
  /\ conn' = [c \in Conns |-> IF conn[c] = "queued" THEN "closed" ELSE conn[c]]
  /\ backlog' = [l \in Listeners |-> {}]
  /\ dgrams' = [u \in UdpSocks |-> << >>]
  /\ UNCHANGED <<cur, batch, peerVars>>

-----------------------------------------------------------------------------
(* run() and _handle_epoll_.                                                *)

(* epoll_wait reports some of the ready descriptors and forgets their edge. *)
EpollWait ==
  /\ pc = "wait"
  /\ \E F \in SUBSET ready :
       /\ F # {} /\ Cardinality(F) <= MaxEvents
       /\ batch' = {[fd |-> fd, sock |-> sock[fd]] : fd \in F}
       /\ ready' = ready \ F
  /\ pc' = "dispatch"
  /\ UNCHANGED <<cur, tblVars, backlog, dgrams, conn, peerVars>>

(* epoll_wait times out, handle_loop runs, and the loop waits again. *)
EpollTimeout ==
  /\ pc = "wait"
  /\ UNCHANGED vars

(* The descriptor is looked up in m_udp_context first; an event whose
   descriptor has no context is skipped. *)
HandlerOf(fd) ==
  IF fd \in udpCtx              THEN "udp"
  ELSE IF tcpCtx[fd] = "listen" THEN "accept"
  ELSE IF tcpCtx[fd] = "accept" THEN "read"
  ELSE "dispatch"

(* Variant: the index is not advanced past a connection. *)
ConnAgain(e) == {f \in batch : f # e \/ f.sock \in Conns}

(* The events of the batch that are left after e. *)
Undispatched(e) == batch \ {e}

Dispatch ==
  /\ pc = "dispatch"
  /\ \E e \in batch :
       /\ batch' = Undispatched(e)
       /\ pc' = HandlerOf(e.fd)
       /\ cur' = IF pc' = "dispatch" THEN NoFd ELSE e.fd
  /\ UNCHANGED <<tblVars, ready, backlog, dgrams, conn, peerVars>>

(* All events of the batch are dispatched; handle_loop runs. *)
EndOfBatch ==
  /\ pc = "dispatch" /\ batch = {}
  /\ pc' = "wait"
  /\ UNCHANGED <<cur, batch, tblVars, ready, backlog, dgrams, conn, peerVars>>

-----------------------------------------------------------------------------
(* _handle_udp_packet_: one recvfrom of its loop.                           *)

(* A datagram with a payload is handed to the user and the loop goes on. *)
UdpRecv ==
  /\ pc = "udp"
  /\ dgrams[sock[cur]] # << >> /\ Head(dgrams[sock[cur]]) = "data"
  /\ dgrams' = [dgrams EXCEPT ![sock[cur]] = Tail(@)]
  /\ Again
  /\ UNCHANGED <<batch, tblVars, ready, backlog, conn, peerVars>>

(* n <= 0: nothing to read (EAGAIN), or a datagram of length zero. *)
UdpLeave ==
  /\ pc = "udp"
  /\ \/ dgrams[sock[cur]] = << >> /\ UNCHANGED dgrams
     \/ /\ dgrams[sock[cur]] # << >> /\ Head(dgrams[sock[cur]]) = "empty"
        /\ dgrams' = [dgrams EXCEPT ![sock[cur]] = Tail(@)]
  /\ Leave
  /\ UNCHANGED <<batch, tblVars, ready, backlog, conn, peerVars>>

-----------------------------------------------------------------------------
(* _handle_tcp_accept_: one accept() of its loop.                           *)

(* accept() returns -1: nothing queued, no descriptor left, another error. *)
AcceptLeave ==
  /\ pc = "accept"
  /\ backlog[sock[cur]] = {} \/ Free = {} \/ "accept" \in Faults
  /\ Leave
  /\ UNCHANGED <<batch, tblVars, ready, backlog, dgrams, conn, peerVars>>

Dequeue(c) ==
  /\ c \in backlog[sock[cur]]
  /\ backlog' = [backlog EXCEPT ![sock[cur]] = @ \ {c}]

(* The connection gets a context, is registered, and the user takes it. *)
AcceptConn(c, fd) ==
  /\ pc = "accept" /\ IsNext(fd)
  /\ Dequeue(c)
  /\ sock' = [sock EXCEPT ![fd] = c]
  /\ conn' = [conn EXCEPT ![c] = "open"]
  /\ InsertCtx(fd, "accept")
  /\ AddFd(fd, c)
  /\ Again
  /\ UNCHANGED <<batch, udpCtx, dgrams, peerVars>>

(* set_nonblock fails: the handler returns, the descriptor stays open. *)
AcceptBlocking(c, fd) ==
  /\ pc = "accept" /\ IsNext(fd)
  /\ "fcntl" \in Faults
  /\ Dequeue(c)
  /\ sock' = [sock EXCEPT ![fd] = c]
  /\ conn' = [conn EXCEPT ![c] = "open"]
  /\ Leave
  /\ UNCHANGED <<batch, udpCtx, tcpCtx, interest, ready, dgrams, peerVars>>

(* add_fd fails or the user refuses the connection: it is closed again, its
   entry erased, and the handler returns. *)
AcceptGiveUp(c, fd) ==
  /\ pc = "accept" /\ IsNext(fd)
  /\ Faults \cap {"epoll_add", "refuse"} # {}
  /\ Dequeue(c)
  /\ conn' = [conn EXCEPT ![c] = "closed"]
  /\ tcpCtx' = [tcpCtx EXCEPT ![fd] = "none"]
  /\ Leave
  /\ UNCHANGED <<batch, udpCtx, sock, interest, ready, dgrams, peerVars>>

-----------------------------------------------------------------------------
(* handle_tcp_read: one recv() of its loop.                                 *)

Nothing(c) == rx[c] = 0 /\ ~ended[c]

(* Variant: EAGAIN is taken for the end. *)
NoInput(c) == rx[c] = 0

(* Everything is read and the peer has shut down or reset the connection. *)
AtEnd(c) == rx[c] = 0 /\ ended[c]

(* recv() takes some of the bytes that are there. *)
Receives(c) == \E n \in 1 .. rx[c] : rx' = [rx EXCEPT ![c] = @ - n]

(* EAGAIN. *)
ReadLeave ==
  /\ pc = "read"
  /\ Nothing(sock[cur])
  /\ Leave
  /\ UNCHANGED <<batch, tblVars, ready, backlog, dgrams, conn, peerVars>>

(* recv() returns 0, or an error that is not EAGAIN. *)
ReadEnd ==
  /\ pc = "read"
  /\ AtEnd(sock[cur])
  /\ CloseConnection(cur)
  /\ Leave
  /\ UNCHANGED <<batch, udpCtx, backlog, dgrams, peerVars>>

(* The packages in what was received are fine. *)
ReadMore ==
  /\ pc = "read"
  /\ Receives(sock[cur])
  /\ Again
  /\ UNCHANGED <<batch, tblVars, ready, backlog, dgrams, conn, ended, unsent>>

(* A package in it ends the connection. *)
ReadBad ==
  /\ pc = "read"
  /\ "bad_package" \in Faults
  /\ Receives(sock[cur])
  /\ CloseConnection(cur)
  /\ Leave
  /\ UNCHANGED <<batch, udpCtx, backlog, dgrams, ended, unsent>>

-----------------------------------------------------------------------------
Init ==
  /\ pc = "boot" /\ cur = NoFd /\ batch = {}
  /\ udpCtx = {} /\ tcpCtx = [fd \in Fds |-> "none"]
  /\ sock = [fd \in Fds |-> NoSock]
  /\ interest = {} /\ ready = {}
  /\ backlog = [l \in Listeners |-> {}]
  /\ dgrams = [u \in UdpSocks |-> << >>]
  /\ rx = [c \in Conns |-> 0]
  /\ ended = [c \in Conns |-> FALSE]
  /\ conn = [c \in Conns |-> "idle"]
  /\ unsent = [s \in Conns \cup UdpSocks |->
                 IF s \in Conns THEN MaxSegments ELSE MaxDatagrams]

Boot == \E s \in Servers, fd \in Fds : OpenServer(s, fd)

AcceptStep ==
  \/ AcceptLeave
  \/ \E c \in Conns, fd \in Fds :
       AcceptConn(c, fd) \/ AcceptBlocking(c, fd) \/ AcceptGiveUp(c, fd)

ReadStep == ReadLeave \/ ReadEnd \/ ReadMore \/ ReadBad

Handler == UdpRecv \/ UdpLeave \/ AcceptStep \/ ReadStep

Loop == Boot \/ SetupFails \/ Destroy \/ EpollWait \/ EpollTimeout
          \/ Dispatch \/ EndOfBatch \/ Handler

Network ==
  \/ \E c \in Conns, l \in Listeners : Connect(c, l)
  \/ \E c \in Conns : Send(c) \/ PeerEnds(c)
  \/ \E u \in UdpSocks, kind \in DatagramKinds : Datagram(u, kind)

Next == Loop \/ Network

Spec == Init /\ [][Next]_vars

(* The thread keeps running.  A ready descriptor that keeps being passed over
   is reported in the end: epoll takes its ready list round robin. *)
Fairness ==
  /\ WF_vars(Boot \/ Destroy \/ Dispatch \/ EndOfBatch \/ Handler)
  /\ \A fd \in Fds : SF_vars(EpollWait /\ \E e \in batch' : e.fd = fd)

FairSpec == Spec /\ Fairness
-----------------------------------------------------------------------------
(* Properties.                                                              *)

(* Types.  Every entry of m_tcp_context says what it is for: none is left
   SOCKET_UNUSED, so the default case of the dispatch is never taken. *)
TypeOK ==
  /\ pc \in {"boot", "wait", "dispatch", "udp", "accept", "read",
             "stopped", "destroyed"}
  /\ cur \in Fds \cup {NoFd}
  /\ batch \subseteq [fd : Fds, sock : Socks \cup {NoSock}]
  /\ udpCtx \subseteq Fds
  /\ tcpCtx \in [Fds -> {"none", "listen", "accept"}]
  /\ sock \in [Fds -> Socks \cup {NoSock}]
  /\ interest \subseteq Fds /\ ready \subseteq Fds
  /\ backlog \in [Listeners -> SUBSET Conns]
  /\ dgrams \in [UdpSocks -> Seq({"data", "empty"})]
  /\ rx \in [Conns -> Nat]
  /\ ended \in [Conns -> BOOLEAN]
  /\ conn \in [Conns -> {"idle", "queued", "open", "closed"}]
  /\ unsent \in [Conns \cup UdpSocks -> Nat]

(* A context is that of a socket of its kind; only descriptors with a context
   are registered, and all of them, unless add_fd has failed at start-up. *)
ContextsMatch ==
  \A fd \in Fds :
    /\ fd \in udpCtx => sock[fd] \in UdpSocks
    /\ tcpCtx[fd] = "listen" => sock[fd] \in Listeners
    /\ tcpCtx[fd] = "accept" => sock[fd] \in Conns
    /\ fd \in interest => HasContext(fd)
    /\ HasContext(fd) => fd \in interest \/ pc = "stopped"

(* The context a handler was called with is in its map as long as it runs. *)
HandlerHasContext ==
  /\ pc = "udp"    => cur \in udpCtx
  /\ pc = "accept" => cur \in Fds /\ tcpCtx[cur] = "listen"
  /\ pc = "read"   => cur \in Fds /\ tcpCtx[cur] = "accept"

(* No socket has two descriptors. *)
OneDescriptor == \A f, g \in Fds : sock[f] = sock[g] /\ sock[f] # NoSock => f = g

(* The open connections are those with a descriptor. *)
OpenHasDescriptor == \A c \in Conns : conn[c] = "open" <=> \E fd \in Fds : sock[fd] = c

(* The tables the loop relies on never drift apart while it runs: a context of
   m_udp_context or m_tcp_context, the epoll registration, and the open
   descriptor of a socket of the matching kind appear and disappear together, and
   not under a running handler.  A failed start-up may leave one context
   unregistered, and one socket without either. *)
TablesAgree == ContextsMatch /\ HandlerHasContext /\ OneDescriptor /\ OpenHasDescriptor

(* An event of the batch is never applied to another socket than the one it
   was raised for, though descriptors are closed and handed out again while
   the batch is being dispatched. *)
BatchFresh == \A e \in batch : e.fd \in interest /\ sock[e.fd] = e.sock

(* While run() loops, every open descriptor is registered; and a start-up that
   fails leaves at most the socket it failed with outside, which is also all that
   the destructor leaves open. *)
NoOrphan ==
  LET left == {fd \in Fds : sock[fd] # NoSock /\ fd \notin interest}
  IN /\ pc \notin {"stopped", "destroyed"} => left = {}
     /\ \A f, g \in left : f = g

(* The promise of edge-triggered use (srv_framework.cpp:537): when the thread
   goes to sleep in epoll_wait, a registered socket with unread input still
   has its edge pending, so epoll_wait will report it. *)
NoLostWakeup ==
  pc = "wait" => \A fd \in interest : Readable(sock[fd]) => fd \in ready

(* A queued connection is accepted (or refused), whatever order the events of
   a batch are served in. *)
QueuedIsServed == \A c \in Conns : conn[c] = "queued" ~> conn[c] # "queued"

(* When the peer has closed or reset a connection, the server reads what is
   left and releases the descriptor. *)
EndedIsReleased ==
  \A c \in Conns : conn[c] = "open" /\ ended[c] ~> conn[c] = "closed"

(* A datagram does not stay in the receive queue for ever: it is read, or the socket
   is closed. *)
DatagramsAreRead == \A u \in UdpSocks : dgrams[u] # << >> ~> dgrams[u] = << >>

(* The loop, edge-triggered, implements the service of ConnService. *)
Service == INSTANCE ConnService WITH
  phase <- conn,
  input <- [c \in Conns |-> conn[c] \in {"queued", "open"} /\ (rx[c] > 0 \/ ended[c])]

(* Whatever fails, no connection gets something else than the service: it is
   admitted or turned away once, and released only when it has sent something
   or ended - never while it is quiet. *)
ServiceKept == Service!SafeSpec

(* And it gets all of it: whoever queues is admitted or turned away in the
   end, and what it sends is drained. *)
ServiceProvided == Service!Spec
=============================================================================
