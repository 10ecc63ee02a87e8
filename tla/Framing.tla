------------------------------- MODULE Framing -------------------------------
(***************************************************************************)
(* handle_tcp_read on one accepted connection: how it cuts the stream of    *)
(* the peer into packages with the three counters of the context, and how   *)
(* the user's handle_tcp_package answers each with send_tcp_packet.         *)
(*                                                                          *)
(* A byte is its place in the stream.  The receive buffer always holds the  *)
(* stretch of m_bytes_recv bytes that starts at place base, so its content  *)
(* is not modelled.  One step of the handler is one recv() with everything  *)
(* up to the next one.                                                      *)
(***************************************************************************)
EXTENDS Integers, Sequences

CONSTANTS
  BufSize,     \* m_conf.recv_buf_size (MAX_BUFFER_LEN)
  HeadLen,     \* m_pkg_head_len, from the configuration
  LengthEnd,   \* how many bytes handle_tcp_head needs: up to package_length
  PkgLens,     \* the lengths of the packages the peer sends
  AnswerLen,   \* the length of the package that answers a package
  OutSize,     \* how much the connection holds that the peer has not read
  Junk,        \* what handle_tcp_head may take for a length otherwise
  MaxPackages  \* bound: packages the peer sends

(* HeadLen may be shorter than LengthEnd; the demo configures 4 bytes, and 15 are
   needed. *)
ASSUME FramingAssumption ==
  /\ BufSize \in Nat \ {0} /\ HeadLen \in Nat /\ LengthEnd \in Nat \ {0}
  /\ PkgLens \subseteq Nat \ {0}
  /\ AnswerLen \in Nat \ {0} /\ OutSize \in Nat
  /\ Junk \subseteq Int
  /\ MaxPackages \in Nat

VARIABLES
  pc,       \* "idle": the thread is not in handle_tcp_read, "reading": it is,
            \* "closed", "undefined": memory outside the buffer was touched
  base,     \* place in the stream of the first byte of m_recv_buf
  got,      \* m_bytes_recv
  pkgLen,   \* m_pkg_len
  handed,   \* the stretches given to handle_tcp_package, in order
  paced,    \* peer: it keeps what is unanswered within the receive buffer, and
            \* the answers it is to get or has not read within the connection
  ends,     \* peer: where each package sent ends in the stream
  arrived,  \* kernel: the bytes of the stream that have arrived so far
  peer,     \* kernel: "up", "fin" (orderly shutdown) or "rst"
  edge,     \* kernel: an edge of the descriptor is not yet reported
  outq,     \* kernel: bytes of answers that the peer has not read
  cut,      \* history: an answer was taken in part, or not at all
  guessed,  \* history: handle_tcp_head took a length that had not arrived
  crowded   \* history: one recv() brought the ends of two packages

ctxVars  == <<base, got, pkgLen, handed>>
peerVars == <<paced, ends, arrived, peer>>
sendVars == <<outq, cut>>
histVars == <<guessed, crowded>>
vars == <<pc, base, got, pkgLen, handed, paced, ends, arrived, peer, edge, outq, cut,
          guessed, crowded>>

-----------------------------------------------------------------------------
(* The stream.                                                              *)

Start(i) == IF i = 1 THEN 0 ELSE ends[i - 1]

(* The i-th package as a stretch of the stream. *)
Package(i) == [from |-> Start(i), to |-> ends[i]]

Sent == Start(Len(ends) + 1)

Unread == arrived - base - got

-----------------------------------------------------------------------------
(* The peer and the network.  The peer sends well-formed packages.           *)

(* How many packages have been answered, as far as the peer can tell. *)
Answered == IF Len(handed) < Len(ends) THEN Len(handed) ELSE Len(ends)

(* There is room for one more package of this length, and for the answers. *)
HasRoom(len) ==
  /\ Sent + len - Start(Answered + 1) <= BufSize
  /\ AnswerLen * (Len(ends) + 1 - Answered) + outq <= OutSize

Send(len) ==
  /\ peer = "up" /\ Len(ends) < MaxPackages
  /\ paced => HasRoom(len)
  /\ ends' = Append(ends, Sent + len)
  /\ UNCHANGED <<pc, ctxVars, paced, arrived, peer, edge, sendVars, histVars>>

(* The stream arrives in pieces of any size. *)
Arrive(n) ==
  /\ peer # "rst" /\ n <= Sent - arrived
  /\ arrived' = arrived + n
  /\ edge' = TRUE
  /\ UNCHANGED <<pc, ctxVars, paced, ends, peer, sendVars, histVars>>

PeerReads ==
  /\ peer # "rst"
  /\ outq' \in {n \in 0 .. OutSize : n < outq}
  /\ UNCHANGED <<pc, ctxVars, peerVars, edge, cut, histVars>>

PeerEnds ==
  /\ peer = "up"
  /\ peer' \in {p \in {"fin", "rst"} : p = "fin" => arrived = Sent}
  /\ edge' = TRUE
  /\ UNCHANGED <<pc, ctxVars, paced, ends, arrived, sendVars, histVars>>

-----------------------------------------------------------------------------
(* handle_tcp_read.                                                         *)

(* epoll_wait reports the descriptor and the handler is called. *)
Wake ==
  /\ pc = "idle" /\ edge
  /\ pc' = "reading" /\ edge' = FALSE
  /\ UNCHANGED <<ctxVars, peerVars, sendVars, histVars>>

(* recv() returns what is there, up to the whole length of the buffer. *)
Recv == IF Unread <= BufSize THEN Unread ELSE BufSize

Filled == got + Recv

(* A head is looked at, and its length bytes are not all there. *)
Guesses == pkgLen = 0 /\ HeadLen <= Filled /\ Filled < LengthEnd

(* Two packages end in the bytes received. *)
TwoEnds ==
  \E i \in 1 .. Len(ends) - 1 : base + got < ends[i] /\ ends[i + 1] <= base + Filled

Recorded == guessed' = (guessed \/ Guesses) /\ crowded' = (crowded \/ TwoEnds)

(* recv() stores the bytes behind those received before.  After a reset it may
   still do so, or report the reset (ReadEnd). *)
Receives == pc = "reading" /\ Unread > 0 /\ Filled <= BufSize /\ Recorded

(* What handle_tcp_head stores in package_len, or leaves there: the length in
   the head, if a head starts the buffer and the bytes of the length are there;
   the last bytes of it are leftovers, if they are not; and if the buffer does
   not start with SRV_STX, its error is ignored and 0 stays. *)
HeadValue(k) ==
  LET I == {i \in 1 .. Len(ends) : Start(i) = base}
  IN IF I = {} THEN {0} \cup Junk
     ELSE IF k < LengthEnd THEN Junk
     ELSE {ends[i] - base : i \in I}

(* package_len after the head has been looked at, if there is enough of it. *)
Lengths ==
  IF pkgLen # 0 THEN {pkgLen}
  ELSE IF Filled < HeadLen THEN {}
  ELSE HeadValue(Filled)

(* Variant: more than the package must be there. *)
CompleteLate(len) == len \in 0 .. BufSize /\ len < Filled

(* bytes_recv >= package_len, for a package that is not too long. *)
Complete(len) == len \in 0 .. BufSize /\ len <= Filled

(* Variant: one byte too few. *)
RestShort(len) == Filled - len - 1

(* Variant: what follows the package is dropped. *)
RestLost(len) == 0

(* Variant: the package is not taken off. *)
RestKept(len) == Filled

(* The bytes behind the package, which memmove brings to the front. *)
Rest(len) == Filled - len

(* handle_tcp_package is called. *)
HandOver(len) == handed' = Append(handed, [from |-> base, to |-> base + len])

(* send() on a non-blocking socket: as much as there is room for. *)
Taken == IF AnswerLen <= OutSize - outq THEN AnswerLen ELSE OutSize - outq

(* send_tcp_packet, once per answer; it returns true if something was taken, and
   nobody sends the rest.  If the peer has reset the connection, it is lost. *)
Answer ==
  IF peer = "rst" THEN UNCHANGED sendVars
  ELSE outq' = outq + Taken /\ cut' = (cut \/ Taken < AnswerLen)

(* _close_connection_. *)
Close == pc' = "closed" /\ got' = 0 /\ pkgLen' = 0

(* Not even the head is there. *)
ReadShort ==
  /\ Receives /\ pkgLen = 0 /\ Filled < HeadLen
  /\ got' = Filled
  /\ UNCHANGED <<pc, base, pkgLen, handed, peerVars, edge, sendVars>>

(* The package is not complete. *)
ReadPart ==
  /\ Receives
  /\ \E len \in Lengths : len \in 0 .. BufSize /\ ~Complete(len) /\ pkgLen' = len
  /\ got' = Filled
  /\ UNCHANGED <<pc, base, handed, peerVars, edge, sendVars>>

ReadTooLong ==
  /\ Receives
  /\ \E len \in Lengths : len > BufSize
  /\ Close
  /\ UNCHANGED <<base, handed, peerVars, edge, sendVars>>

(* Variant: the length stays set. *)
LengthKept(len) == len

(* m_pkg_len when a package has been handed over. *)
LengthAfter(len) == 0

(* One package is handed to the user, who answers it, and the rest moves to the
   front of the buffer, where the next recv() adds to it. *)
ReadPackage ==
  /\ Receives
  /\ \E len \in Lengths :
       /\ Complete(len) /\ HandOver(len)
       /\ got' = Rest(len) /\ base' = base + Filled - got'
       /\ pkgLen' = LengthAfter(len)
  /\ Answer
  /\ UNCHANGED <<pc, peerVars, edge>>

(* handle_tcp_package fails, without an answer. *)
ReadRefused ==
  /\ Receives
  /\ \E len \in Lengths : Complete(len) /\ HandOver(len)
  /\ Close
  /\ UNCHANGED <<base, peerVars, edge, sendVars>>

(* EAGAIN: back to epoll_wait. *)
ReadAgain ==
  /\ pc = "reading" /\ peer = "up" /\ Unread = 0
  /\ pc' = "idle"
  /\ UNCHANGED <<ctxVars, peerVars, edge, sendVars, histVars>>

(* The end of the stream, or an error. *)
ReadEnd ==
  /\ pc = "reading"
  /\ peer = "rst" \/ (peer = "fin" /\ Unread = 0)
  /\ Close
  /\ UNCHANGED <<base, handed, peerVars, edge, sendVars, histVars>>

(* The received bytes do not fit behind those in the buffer, and recv() has
   stored and m_bytes_recv counts them all the same, or a negative length is
   passed on: what follows is undefined and the thread stops here. *)
ReadUndefined ==
  /\ pc = "reading" /\ Unread > 0 /\ Recorded
  /\ Filled > BufSize \/ \E len \in Lengths : len < 0
  /\ pc' = "undefined" /\ got' = Filled
  /\ UNCHANGED <<base, pkgLen, handed, peerVars, edge, sendVars>>

-----------------------------------------------------------------------------
Init ==
  /\ pc = "idle" /\ base = 0 /\ got = 0 /\ pkgLen = 0 /\ handed = << >>
  /\ paced \in BOOLEAN
  /\ ends = << >> /\ arrived = 0 /\ peer = "up" /\ edge = FALSE
  /\ outq = 0 /\ cut = FALSE /\ guessed = FALSE /\ crowded = FALSE

Network == \E n \in 1 .. Sent - arrived : Arrive(n)

Peer == PeerReads \/ PeerEnds \/ \E len \in PkgLens : Send(len)

Handler ==
  \/ Wake \/ ReadShort \/ ReadPart \/ ReadTooLong \/ ReadPackage \/ ReadRefused
  \/ ReadAgain \/ ReadEnd \/ ReadUndefined

Next == Network \/ Peer \/ Handler

Spec == Init /\ [][Next]_vars

(* The loop thread comes round to this connection, and the network delivers
   what was sent.  The peer need not send anything or end. *)
FairSpec == Spec /\ WF_vars(Handler) /\ WF_vars(Network)
-----------------------------------------------------------------------------
(* Properties.                                                              *)

Stretch == [from : Nat, to : Nat]

(* Types.  The counter of the bytes received is never negative; it may well
   exceed the buffer, when the peer sends ahead of the answers. *)
TypeOK ==
  /\ pc \in {"idle", "reading", "closed", "undefined"}
  /\ base \in Nat /\ got \in Nat /\ pkgLen \in Int
  /\ handed \in Seq(Stretch)
  /\ ends \in Seq(Nat) /\ arrived \in Nat
  /\ peer \in {"up", "fin", "rst"} /\ edge \in BOOLEAN /\ paced \in BOOLEAN
  /\ outq \in 0 .. OutSize /\ cut \in BOOLEAN
  /\ guessed \in BOOLEAN /\ crowded \in BOOLEAN

(* Where the bytes end that were given to the user. *)
HandedTo(k) == IF k = 0 THEN 0 ELSE handed[k].to

(* Between two steps of the handler m_recv_buf starts behind what was handed
   over and holds bytes that have arrived.  Until a length is guessed, that is
   the start of a package, and m_pkg_len, when it is set, is the length of that
   package, of which something is missing. *)
BufferAligned ==
  pc \in {"idle", "reading"} =>
    /\ base = HandedTo(Len(handed))
    /\ base + got <= arrived
    /\ ~guessed =>
         /\ base = Start(Len(handed) + 1)
         /\ pkgLen # 0 =>
              /\ Len(handed) < Len(ends)
              /\ base + pkgLen = ends[Len(handed) + 1]
              /\ got < pkgLen

(* Every byte is given to the user at most once and in order, none is left out,
   and none before it has arrived, whatever the lengths are taken from. *)
HandedOnce ==
  \A i \in 1 .. Len(handed) :
    /\ handed[i].from = HandedTo(i - 1)
    /\ handed[i].from <= handed[i].to /\ handed[i].to <= arrived

(* And until a length is guessed, they are the packages of the peer, whole. *)
HandedWhole ==
  ~guessed =>
    /\ Len(handed) <= Len(ends)
    /\ \A i \in 1 .. Len(handed) : handed[i] = Package(i)

(* What handle_tcp_package is given is the stream of the peer, in order, with
   nothing left out or repeated, and cut up into its packages until a length is
   guessed. *)
HandedIsSent == HandedOnce /\ HandedWhole

(* Towards a peer that keeps within its window, though it may send several
   packages ahead, the code never leaves its buffer, unless a length is guessed. *)
WithinBuffer == paced /\ ~guessed => pc # "undefined"

(* When the thread goes back to sleep with nothing reported, the next package
   has not arrived completely. *)
NothingStuck ==
  pc = "idle" /\ ~edge /\ Len(handed) < Len(ends) => arrived < ends[Len(handed) + 1]

(* That holds, for any peer that sends well-formed packages, as long as no
   recv() brings the ends of two packages and no length is guessed. *)
StuckOnlyIfCrowded == ~crowded /\ ~guessed => NothingStuck

(* The result of send() is looked at for -1 only, and the rest of an answer is
   sent by nobody; a peer that keeps within its window gets every answer whole
   all the same, unless a length is guessed. *)
AnswersWhole == paced /\ ~guessed => ~cut

(* The connection as its user sees it. *)
Stream == INSTANCE PackageStream WITH
  sent <- [i \in 1 .. Len(ends) |-> Package(i)],
  over <- pc = "closed",
  sound <- ~guessed /\ pc # "undefined",
  prompt <- ~crowded

(* In any order of arrival, what is handed over is a prefix of what was sent;
   and unless one recv() brings the ends of two packages, every package is
   handed over or the connection ends. *)
StreamServed == Stream!Spec
=============================================================================
