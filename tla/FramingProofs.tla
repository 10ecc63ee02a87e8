---------------------------- MODULE FramingProofs ----------------------------
(***************************************************************************)
(* Proofs about handle_tcp_read, for any buffer, package lengths, arrival   *)
(* of the stream and number of packages.                                    *)
(***************************************************************************)
EXTENDS Framing, SequenceTheorems, TLAPS

(* The stream: packages end one after the other, and no more arrives than
   was sent. *)
StreamOK ==
  /\ \A i \in 1 .. Len(ends) : Start(i) < ends[i]
  /\ \A i, j \in 1 .. Len(ends) : i < j => ends[i] < ends[j]
  /\ arrived <= Sent

(* The inductive invariant. *)
FrameInv == TypeOK /\ StreamOK /\ BufferAligned /\ HandedIsSent

-----------------------------------------------------------------------------
(* The first byte that has not been handed over starts a package, if anything
   more has arrived and no length was guessed. *)
LEMMA PackageInBuffer ==
  ASSUME FrameInv, pc = "reading", ~guessed, Unread > 0
  PROVE  /\ Len(handed) + 1 \in 1 .. Len(ends)
         /\ base = Start(Len(handed) + 1)
<1>1. Len(handed) \in Nat /\ Len(ends) \in Nat /\ Len(handed) <= Len(ends)
  BY DEF FrameInv, TypeOK, HandedIsSent, HandedWhole
<1>2. base < arrived /\ arrived <= Sent /\ base = Start(Len(handed) + 1)
  BY DEF FrameInv, TypeOK, BufferAligned, StreamOK, Unread
<1>3. Len(handed) # Len(ends)
  <2> SUFFICES ASSUME Len(handed) = Len(ends) PROVE FALSE
    OBVIOUS
  <2>1. base = Sent
    BY <1>2 DEF Sent
  <2>2. base \in Nat /\ arrived \in Nat
    BY DEF FrameInv, TypeOK
  <2>3. QED
    BY <1>2, <2>1, <2>2
<1>4. QED
  BY <1>1, <1>2, <1>3

(* Packages start at different places. *)
LEMMA OneStart ==
  ASSUME TypeOK, StreamOK, NEW i \in 1 .. Len(ends), NEW j \in 1 .. Len(ends),
         Start(i) = Start(j)
  PROVE  i = j
<1>1. ends \in Seq(Nat) /\ Len(ends) \in Nat
  BY DEF TypeOK
<1>2. \A k \in 1 .. Len(ends) : ends[k] \in Nat
  BY <1>1
<1>3. \A k, l \in 1 .. Len(ends) : k < l => Start(k) < Start(l)
  <2> SUFFICES ASSUME NEW k \in 1 .. Len(ends), NEW l \in 1 .. Len(ends), k < l
               PROVE  Start(k) < Start(l)
    OBVIOUS
  <2>1. l - 1 \in 1 .. Len(ends) /\ Start(l) = ends[l - 1]
    BY <1>1 DEF Start
  <2>2. Start(k) < ends[k]
    BY DEF StreamOK
  <2>3. ends[k] <= ends[l - 1]
    <3>1. CASE k = l - 1
      BY <1>2, <3>1
    <3>2. CASE k # l - 1
      <4>1. k < l - 1
        BY <3>2
      <4>2. ends[k] < ends[l - 1]
        BY <2>1, <4>1 DEF StreamOK
      <4>3. QED
        BY <1>2, <2>1, <4>2
    <3>3. QED
      BY <3>1, <3>2
  <2>4. Start(k) \in Nat
    BY <1>1, <1>2 DEF Start
  <2>5. QED
    BY <1>2, <2>1, <2>2, <2>3, <2>4
<1>4. \A k \in 1 .. Len(ends) : Start(k) \in Nat
  BY <1>1, <1>2 DEF Start
<1>5. QED
  BY <1>1, <1>3, <1>4

(* recv() adds bytes that have arrived. *)
LEMMA FilledArrived ==
  ASSUME FrameInv, pc = "reading", Unread > 0
  PROVE  Filled \in Nat /\ got < Filled /\ base + Filled <= arrived
<1>1. base \in Nat /\ got \in Nat /\ arrived \in Nat /\ BufSize \in Nat \ {0}
  BY FramingAssumption DEF FrameInv, TypeOK
<1>2. Recv \in Nat /\ Recv > 0 /\ Recv <= Unread
  BY <1>1 DEF Recv, Unread
<1>3. QED
  BY <1>1, <1>2 DEF Filled, Unread

(* The handler reads the right length, that of the package it has begun, as
   long as it looks at no head whose length bytes are missing. *)
LEMMA RightLength ==
  ASSUME FrameInv, pc = "reading", Unread > 0, ~guessed, ~Guesses, NEW len \in Lengths
  PROVE  /\ len \in Nat \ {0}
         /\ base + len = ends[Len(handed) + 1]
<1> DEFINE next == Len(handed) + 1
<1>2. next \in 1 .. Len(ends) /\ base = Start(next)
  BY PackageInBuffer
<1>3. base \in Nat /\ ends[next] \in Nat /\ base < ends[next]
  BY <1>2 DEF FrameInv, TypeOK, StreamOK
<1>4. Filled \in Nat
  BY FilledArrived
<1>5. CASE pkgLen # 0
  <2>1. len = pkgLen /\ pkgLen \in Int /\ base + pkgLen = ends[next]
    BY <1>5 DEF Lengths, FrameInv, BufferAligned, TypeOK
  <2>2. QED
    BY <1>3, <2>1
<1>6. CASE pkgLen = 0
  <2>1. ~(Filled < HeadLen) /\ len \in HeadValue(Filled)
    BY <1>6 DEF Lengths
  <2>2. ~(Filled < LengthEnd)
    BY <1>4, <1>6, <2>1, FramingAssumption DEF Guesses
  <2>3. \A i \in 1 .. Len(ends) : Start(i) = base <=> i = next
    BY <1>2, OneStart DEF FrameInv
  <2>4. {i \in 1 .. Len(ends) : Start(i) = base} = {next}
    BY <1>2, <2>3
  <2>5. len = ends[next] - base
    BY <2>1, <2>2, <2>4 DEF HeadValue
  <2>6. QED
    BY <1>3, <2>5
<1>7. QED
  BY <1>5, <1>6

(* Whatever a length is taken from, it is a number. *)
LEMMA LengthTyped ==
  ASSUME TypeOK, NEW len \in Lengths
  PROVE  len \in Int
<1>1. base \in Int /\ pkgLen \in Int /\ Junk \subseteq Int
      /\ \A i \in 1 .. Len(ends) : ends[i] \in Int
  BY FramingAssumption DEF TypeOK
<1>2. CASE pkgLen # 0
  BY <1>1, <1>2 DEF Lengths
<1>3. CASE pkgLen = 0
  <2>1. len \in HeadValue(Filled)
    BY <1>3 DEF Lengths
  <2>2. len \in {0} \cup Junk \/ \E i \in 1 .. Len(ends) : len = ends[i] - base
    BY <2>1 DEF HeadValue
  <2>3. CASE len \in {0} \cup Junk
    BY <1>1, <2>3
  <2>4. CASE \E i \in 1 .. Len(ends) : len = ends[i] - base
    BY <1>1, <2>4
  <2>5. QED
    BY <2>2, <2>3, <2>4
<1>4. QED
  BY <1>2, <1>3

-----------------------------------------------------------------------------
(* What is taken of an answer finds room. *)
LEMMA AnswerTypes ==
  ASSUME TypeOK, Answer
  PROVE  outq' \in 0 .. OutSize /\ cut' \in BOOLEAN
<1>1. outq \in 0 .. OutSize /\ cut \in BOOLEAN /\ OutSize \in Nat /\ AnswerLen \in Nat
  BY FramingAssumption DEF TypeOK
<1>2. CASE peer = "rst"
  BY <1>1, <1>2 DEF Answer, sendVars
<1>3. CASE peer # "rst"
  <2>1. outq' = outq + Taken /\ cut' = (cut \/ Taken < AnswerLen)
    BY <1>3 DEF Answer
  <2>2. Taken \in Nat /\ outq + Taken <= OutSize
    BY <1>1 DEF Taken
  <2>3. outq' \in 0 .. OutSize
    BY <1>1, <2>1, <2>2
  <2>4. QED
    BY <2>1, <2>3
<1>4. QED
  BY <1>2, <1>3

(* Every step keeps the inductive invariant. *)
LEMMA FrameStep == FrameInv /\ [Next]_vars => FrameInv'
<1> SUFFICES ASSUME FrameInv, [Next]_vars
             PROVE  FrameInv'
  OBVIOUS
<1> USE DEF ctxVars, peerVars, sendVars, histVars
<1>a. /\ ends \in Seq(Nat) /\ Len(ends) \in Nat /\ handed \in Seq(Stretch) /\ Len(handed) \in Nat
      /\ base \in Nat /\ got \in Nat /\ arrived \in Nat /\ BufSize \in Nat
  BY FramingAssumption DEF FrameInv, TypeOK
<1>b. ASSUME UNCHANGED <<ends, arrived>> PROVE StreamOK'
  BY <1>b DEF FrameInv, StreamOK, Start, Sent
<1>c. ASSUME UNCHANGED <<ends, handed>>, arrived' \in Nat, arrived <= arrived', guessed => guessed'
      PROVE  HandedIsSent'
  <2>1. HandedOnce'
    <3>1. ASSUME NEW i \in 1 .. Len(handed) PROVE handed[i].to <= arrived'
      <4>1. handed[i] \in Stretch
        BY <1>a
      <4>2. handed[i].to \in Nat /\ handed[i].to <= arrived
        BY <4>1 DEF Stretch, FrameInv, HandedIsSent, HandedOnce
      <4>3. QED
        BY <1>a, <1>c, <4>2
    <3>2. QED
      BY <1>c, <3>1 DEF FrameInv, HandedIsSent, HandedOnce, HandedTo
  <2>2. HandedWhole'
    BY <1>c DEF FrameInv, HandedIsSent, HandedWhole, Package, Start
  <2>3. QED
    BY <2>1, <2>2 DEF HandedIsSent
<1>d. ASSUME UNCHANGED <<base, got, pkgLen, handed, ends, guessed>>,
             arrived' \in Nat, arrived <= arrived',
             pc' \in {"idle", "reading"} => pc \in {"idle", "reading"}
      PROVE  BufferAligned'
  BY <1>a, <1>d DEF FrameInv, BufferAligned, Start, HandedTo
<1>e. ASSUME Recorded PROVE guessed' \in BOOLEAN /\ crowded' \in BOOLEAN /\ (guessed => guessed')
                           /\ (~guessed' => ~guessed /\ ~Guesses)
  BY <1>e DEF Recorded, FrameInv, TypeOK
<1>1. ASSUME NEW len \in PkgLens, Send(len)
      PROVE  FrameInv'
  <2>1. len \in Nat \ {0}
    BY FramingAssumption
  <2>2. Sent \in Nat
    BY <1>a DEF Sent, Start
  <2>3. /\ ends' \in Seq(Nat) /\ Len(ends') = Len(ends) + 1
        /\ ends'[Len(ends) + 1] = Sent + len
        /\ \A i \in 1 .. Len(ends) : ends'[i] = ends[i]
    BY <1>1, <1>a, <2>1, <2>2, AppendProperties DEF Send
  <2>4. ASSUME NEW i \in 1 .. Len(ends) + 1 PROVE Start(i)' = Start(i)
    <3>1. CASE i = 1
      BY <3>1 DEF Start
    <3>2. CASE i # 1
      <4>1. i - 1 \in 1 .. Len(ends)
        BY <1>a, <3>2
      <4>2. QED
        BY <2>3, <3>2, <4>1 DEF Start
    <3>3. QED
      BY <3>1, <3>2
  <2>5. Sent' = Sent + len
    BY <1>a, <2>3 DEF Sent, Start
  <2>6. \A i \in 1 .. Len(ends) : ends[i] <= Sent
    BY <1>a DEF FrameInv, StreamOK, Sent, Start
  <2>7. StreamOK'
    <3>1. arrived' <= Sent'
      BY <1>1, <1>a, <2>1, <2>2, <2>5 DEF Send, FrameInv, StreamOK
    <3>2. ASSUME NEW i \in 1 .. Len(ends') PROVE Start(i)' < ends'[i]
      <4>1. i \in 1 .. Len(ends) + 1 /\ (i \in 1 .. Len(ends) \/ i = Len(ends) + 1)
        BY <1>a, <2>3
      <4>2. Start(i)' = Start(i)
        BY <2>4, <4>1
      <4>3. CASE i \in 1 .. Len(ends)
        BY <2>3, <4>2, <4>3 DEF FrameInv, StreamOK
      <4>4. CASE i = Len(ends) + 1
        BY <2>1, <2>2, <2>3, <4>2, <4>4 DEF Sent
      <4>5. QED
        BY <4>1, <4>3, <4>4
    <3>3. ASSUME NEW i \in 1 .. Len(ends'), NEW j \in 1 .. Len(ends'), i < j
          PROVE  ends'[i] < ends'[j]
      <4>0. i \in 1 .. Len(ends)
        BY <1>a, <2>3, <3>3
      <4>1. ends'[i] = ends[i] /\ ends[i] \in Nat
        <5>1. ends'[i] = ends[i]
          BY <2>3, <4>0
        <5>2. ends[i] \in Nat
          BY <1>a, <4>0
        <5>3. QED
          BY <5>1, <5>2
      <4>2. CASE j \in 1 .. Len(ends)
        BY <2>3, <3>3, <4>0, <4>1, <4>2 DEF FrameInv, StreamOK
      <4>3. CASE j = Len(ends) + 1
        BY <2>1, <2>2, <2>3, <2>6, <4>0, <4>1, <4>3
      <4>4. QED
        BY <1>a, <2>3, <4>2, <4>3
    <3>4. QED
      BY <3>1, <3>2, <3>3 DEF StreamOK
  <2>8. UNCHANGED <<pc, base, got, pkgLen, handed, paced, arrived, peer, edge, outq, cut, histVars>>
    BY <1>1 DEF Send
  <2>9. TypeOK'
    BY <2>3, <2>8 DEF FrameInv, TypeOK
  <2>10. ~guessed => Len(handed) <= Len(ends)
    BY DEF FrameInv, HandedIsSent, HandedWhole
  <2>a. ~guessed => Start(Len(handed) + 1)' = Start(Len(handed) + 1)
    BY <1>a, <2>4, <2>8, <2>10
  <2>11. BufferAligned'
    <3> SUFFICES ASSUME pc \in {"idle", "reading"}, ~guessed
                 PROVE  /\ base = Start(Len(handed) + 1)
                        /\ pkgLen # 0 => /\ Len(handed) < Len(ends')
                                          /\ base + pkgLen = ends'[Len(handed) + 1]
                                          /\ got < pkgLen
      BY <2>8, <2>a DEF FrameInv, BufferAligned, HandedTo
    <3>1. pkgLen # 0 => Len(handed) + 1 \in 1 .. Len(ends)
      BY <1>a DEF FrameInv, BufferAligned
    <3>2. QED
      BY <1>a, <2>3, <2>10, <3>1 DEF FrameInv, BufferAligned
  <2>12. HandedIsSent'
    <3>1. ASSUME NEW i \in 1 .. Len(handed), ~guessed
          PROVE  handed[i] = Package(i)'
      <4>1. i \in 1 .. Len(ends) /\ i \in 1 .. Len(ends) + 1
        BY <1>a, <2>10, <3>1
      <4>2. Package(i)' = Package(i)
        BY <2>3, <2>4, <4>1 DEF Package
      <4>3. QED
        BY <3>1, <4>2 DEF FrameInv, HandedIsSent, HandedWhole
    <3>2. HandedWhole'
      BY <1>a, <2>3, <2>8, <2>10, <3>1 DEF HandedWhole
    <3>3. HandedOnce'
      BY <2>8 DEF FrameInv, HandedIsSent, HandedOnce, HandedTo
    <3>4. QED
      BY <3>2, <3>3 DEF HandedIsSent
  <2>13. QED
    BY <2>7, <2>9, <2>11, <2>12 DEF FrameInv
<1>2. ASSUME NEW n \in 1 .. Sent - arrived, Arrive(n)
      PROVE  FrameInv'
  <2>1. Sent \in Nat
    BY <1>a DEF Sent, Start
  <2>2. arrived' \in Nat /\ arrived <= arrived' /\ arrived' <= Sent
    BY <1>2, <1>a, <2>1 DEF Arrive
  <2>3. UNCHANGED <<pc, base, got, pkgLen, handed, paced, ends, guessed, crowded>>
    BY <1>2 DEF Arrive
  <2>4. StreamOK'
    BY <2>2, <2>3 DEF FrameInv, StreamOK, Start, Sent
  <2>5. TypeOK'
    BY <1>2, <2>2, <2>3 DEF Arrive, FrameInv, TypeOK
  <2>6. QED
    BY <1>c, <1>d, <2>2, <2>3, <2>4, <2>5 DEF FrameInv
<1>3. CASE PeerReads \/ PeerEnds \/ Wake \/ ReadAgain \/ UNCHANGED vars
  <2>1. /\ UNCHANGED <<base, got, pkgLen, handed, paced, ends, arrived, guessed, crowded>>
        /\ pc' \in {"idle", "reading"} => pc \in {"idle", "reading"}
    BY <1>3 DEF PeerReads, PeerEnds, Wake, ReadAgain, vars
  <2>2. pc' \in {pc, "idle", "reading"} /\ peer' \in {peer, "fin", "rst"}
        /\ edge' \in {edge, FALSE, TRUE} /\ cut' = cut /\ outq' \in 0 .. OutSize
    BY <1>3 DEF PeerReads, PeerEnds, Wake, ReadAgain, vars, FrameInv, TypeOK
  <2>3. TypeOK'
    <3>1. UNCHANGED <<base, got, pkgLen, handed, paced, ends, arrived, guessed, crowded>>
          /\ TypeOK
      BY <2>1 DEF FrameInv
    <3>2. /\ pc' \in {"idle", "reading", "closed", "undefined"}
          /\ peer' \in {"up", "fin", "rst"} /\ edge' \in BOOLEAN /\ cut' \in BOOLEAN
          /\ outq' \in 0 .. OutSize
      BY <2>2, <3>1 DEF TypeOK
    <3>3. QED
      BY <3>1, <3>2 DEF TypeOK
  <2>4. QED
    BY <1>a, <1>b, <1>c, <1>d, <2>1, <2>3 DEF FrameInv
<1>4. CASE ReadUndefined
  <2>1. /\ UNCHANGED <<base, pkgLen, handed, paced, ends, arrived, peer, edge, outq, cut>>
        /\ pc = "reading" /\ pc' = "undefined" /\ got' = Filled /\ Unread > 0 /\ Recorded
    BY <1>4 DEF ReadUndefined
  <2>2. Filled \in Nat
    BY <2>1, FilledArrived
  <2>3. TypeOK'
    BY <1>e, <2>1, <2>2 DEF FrameInv, TypeOK
  <2>4. BufferAligned'
    BY <2>1 DEF BufferAligned
  <2>5. QED
    BY <1>a, <1>b, <1>c, <1>e, <2>1, <2>3, <2>4 DEF FrameInv
<1>5. CASE ReadShort
  <2>1. /\ UNCHANGED <<pc, base, pkgLen, handed, paced, ends, arrived, peer, edge, outq, cut>>
        /\ got' = Filled /\ pkgLen = 0 /\ pc = "reading" /\ Unread > 0 /\ Recorded
    BY <1>5 DEF ReadShort, Receives
  <2>2. Filled \in Nat /\ base + Filled <= arrived
    BY <2>1, FilledArrived
  <2>3. BufferAligned'
    BY <1>e, <2>1, <2>2 DEF FrameInv, BufferAligned, Start, HandedTo
  <2>4. TypeOK'
    BY <1>e, <2>1, <2>2 DEF FrameInv, TypeOK
  <2>5. QED
    BY <1>a, <1>b, <1>c, <1>e, <2>1, <2>3, <2>4 DEF FrameInv
<1>6. CASE ReadPart
  <2>1. PICK len \in Lengths : len \in 0 .. BufSize /\ ~Complete(len) /\ pkgLen' = len
    BY <1>6 DEF ReadPart
  <2>2. /\ UNCHANGED <<pc, base, handed, paced, ends, arrived, peer, edge, outq, cut>>
        /\ got' = Filled /\ pc = "reading" /\ Unread > 0 /\ Recorded
    BY <1>6 DEF ReadPart, Receives
  <2>3. Filled \in Nat /\ base + Filled <= arrived /\ len \in Nat /\ Filled < len
    BY <2>1, <2>2, <1>a, FilledArrived DEF Complete
  <2>4. ASSUME ~guessed'
        PROVE  /\ base + len = ends[Len(handed) + 1]
               /\ Len(handed) < Len(ends) /\ base = Start(Len(handed) + 1)
    <3>1. ~guessed /\ ~Guesses
      BY <1>e, <2>2, <2>4
    <3>2. base + len = ends[Len(handed) + 1]
      BY <2>2, <3>1, RightLength
    <3>3. Len(handed) + 1 \in 1 .. Len(ends) /\ base = Start(Len(handed) + 1)
      BY <2>2, <3>1, PackageInBuffer
    <3>4. QED
      BY <1>a, <3>2, <3>3
  <2>5. BufferAligned'
    BY <2>1, <2>2, <2>3, <2>4 DEF FrameInv, BufferAligned, Start, HandedTo
  <2>6. TypeOK'
    BY <1>e, <2>1, <2>2, <2>3 DEF FrameInv, TypeOK
  <2>7. QED
    BY <1>a, <1>b, <1>c, <1>e, <2>2, <2>5, <2>6 DEF FrameInv
<1>7. CASE ReadTooLong \/ ReadEnd
  <2>1. /\ UNCHANGED <<base, handed, paced, ends, arrived, peer, edge, outq, cut>>
        /\ pc' = "closed" /\ got' = 0 /\ pkgLen' = 0 /\ (Recorded \/ UNCHANGED histVars)
    BY <1>7 DEF ReadTooLong, ReadEnd, Close, Receives
  <2>2. BufferAligned'
    BY <2>1 DEF BufferAligned
  <2>3. TypeOK' /\ (guessed => guessed')
    BY <1>a, <1>e, <2>1 DEF FrameInv, TypeOK
  <2>4. QED
    BY <1>a, <1>b, <1>c, <2>1, <2>2, <2>3 DEF FrameInv
<1>8. ASSUME NEW len \in Lengths, Receives, Complete(len), HandOver(len),
             UNCHANGED <<ends, arrived>>
      PROVE  /\ HandedIsSent' /\ handed' \in Seq(Stretch)
             /\ Len(handed') = Len(handed) + 1 /\ handed'[Len(handed) + 1].to = base + len
             /\ base + len \in Nat /\ Filled - len \in Nat /\ base + Filled <= arrived
             /\ ~guessed' => base + len = ends[Len(handed) + 1]
                              /\ Len(handed) + 1 \in 1 .. Len(ends)
  <2>1. pc = "reading" /\ Unread > 0 /\ Recorded
    BY <1>8 DEF Receives
  <2>2. Filled \in Nat /\ base + Filled <= arrived
    BY <2>1, FilledArrived
  <2>3. len \in Nat /\ len <= Filled
    BY <1>8, <1>a DEF Complete
  <2>4. /\ base + len \in Nat /\ base <= base + len /\ Filled - len \in Nat
        /\ base + len <= arrived
    BY <1>a, <2>2, <2>3
  <2>5. [from |-> base, to |-> base + len] \in Stretch
    BY <1>a, <2>4 DEF Stretch
  <2>6. /\ handed' \in Seq(Stretch) /\ Len(handed') = Len(handed) + 1
        /\ handed'[Len(handed) + 1] = [from |-> base, to |-> base + len]
        /\ \A i \in 1 .. Len(handed) : handed'[i] = handed[i]
    BY <1>8, <1>a, <2>5, AppendProperties DEF HandOver
  <2>7. HandedOnce'
    <3>1. base = HandedTo(Len(handed))
      BY <2>1 DEF FrameInv, BufferAligned
    <3>2. ASSUME NEW k \in 0 .. Len(handed) PROVE HandedTo(k)' = HandedTo(k)
      BY <1>a, <2>6 DEF HandedTo
    <3>3. ASSUME NEW i \in 1 .. Len(handed')
          PROVE  /\ handed'[i].from = HandedTo(i - 1)' /\ handed'[i].from <= handed'[i].to
                 /\ handed'[i].to <= arrived'
      <4>1. i - 1 \in 0 .. Len(handed)
        BY <1>a, <2>6
      <4>2. HandedTo(i - 1)' = HandedTo(i - 1)
        BY <3>2, <4>1
      <4>3. CASE i \in 1 .. Len(handed)
        BY <1>8, <2>6, <4>2, <4>3 DEF FrameInv, HandedIsSent, HandedOnce
      <4>4. CASE i = Len(handed) + 1
        <5>1. i - 1 = Len(handed)
          BY <1>a, <4>4
        <5>2. QED
          BY <1>8, <2>4, <2>6, <3>1, <4>2, <4>4, <5>1
      <4>5. QED
        BY <1>a, <2>6, <4>3, <4>4
    <3>4. QED
      BY <3>3 DEF HandedOnce
  <2>8. ASSUME ~guessed'
        PROVE  /\ base + len = ends[Len(handed) + 1] /\ Len(handed) + 1 \in 1 .. Len(ends)
               /\ base = Start(Len(handed) + 1)
    <3>1. ~guessed /\ ~Guesses
      BY <1>e, <2>1, <2>8
    <3>2. base + len = ends[Len(handed) + 1]
      BY <2>1, <3>1, RightLength
    <3>3. QED
      BY <2>1, <3>1, <3>2, PackageInBuffer
  <2>9. HandedWhole'
    <3> SUFFICES ASSUME ~guessed'
                 PROVE  /\ Len(handed') <= Len(ends)
                        /\ \A i \in 1 .. Len(handed') : handed'[i] = Package(i)'
      BY <1>8 DEF HandedWhole
    <3>1. Len(handed') <= Len(ends) /\ ~guessed
      BY <1>a, <1>e, <2>1, <2>6, <2>8
    <3>2. \A i \in 1 .. Len(handed') : Package(i)' = Package(i)
      BY <1>8 DEF Package, Start
    <3>3. [from |-> base, to |-> base + len] = Package(Len(handed) + 1)
      BY <2>8 DEF Package
    <3>4. \A i \in 1 .. Len(handed) : handed[i] = Package(i)
      BY <3>1 DEF FrameInv, HandedIsSent, HandedWhole
    <3>5. ASSUME NEW i \in 1 .. Len(handed') PROVE handed'[i] = Package(i)
      <4>1. i \in 1 .. Len(handed) \/ i = Len(handed) + 1
        BY <1>a, <2>6
      <4>2. QED
        BY <2>6, <3>3, <3>4, <4>1
    <3>6. QED
      BY <3>1, <3>2, <3>5
  <2>10. QED
    BY <2>2, <2>4, <2>6, <2>7, <2>8, <2>9 DEF HandedIsSent
<1>9. CASE ReadPackage
  <2>1. PICK len \in Lengths : Complete(len) /\ HandOver(len)
                              /\ got' = Rest(len) /\ base' = base + Filled - got'
    BY <1>9 DEF ReadPackage
  <2>2. Receives /\ pkgLen' = 0 /\ UNCHANGED <<pc, paced, ends, arrived, peer, edge>>
    BY <1>9 DEF ReadPackage, LengthAfter
  <2>3. /\ HandedIsSent' /\ handed' \in Seq(Stretch)
        /\ Len(handed') = Len(handed) + 1 /\ handed'[Len(handed) + 1].to = base + len
        /\ base + len \in Nat /\ Filled - len \in Nat /\ base + Filled <= arrived
        /\ ~guessed' => base + len = ends[Len(handed) + 1]
                         /\ Len(handed) + 1 \in 1 .. Len(ends)
    BY <1>8, <2>1, <2>2
  <2>4. Filled \in Nat /\ len \in Int
    BY <2>2, FilledArrived, LengthTyped DEF Receives, FrameInv
  <2>5. got' = Filled - len /\ base' = base + len
    BY <1>a, <2>1, <2>4 DEF Rest
  <2>7. base' = HandedTo(Len(handed))'
    BY <1>a, <2>3, <2>5 DEF HandedTo
  <2>8. base' + got' <= arrived'
    BY <1>a, <2>2, <2>3, <2>4, <2>5
  <2>9. ~guessed' => base' = Start(Len(handed) + 1)'
    <3>1. Len(handed') + 1 # 1 /\ Len(handed') + 1 - 1 = Len(handed) + 1
      BY <1>a, <2>3
    <3>2. QED
      BY <2>2, <2>3, <2>5, <3>1 DEF Start
  <2>10. BufferAligned'
    BY <2>2, <2>7, <2>8, <2>9 DEF BufferAligned
  <2>11. TypeOK'
    <3>1. outq' \in 0 .. OutSize /\ cut' \in BOOLEAN
      BY <1>9, AnswerTypes DEF ReadPackage, FrameInv
    <3>2. guessed' \in BOOLEAN /\ crowded' \in BOOLEAN
      BY <1>e, <2>2 DEF Receives
    <3>3. QED
      BY <2>2, <2>3, <2>5, <3>1, <3>2 DEF FrameInv, TypeOK
  <2>12. QED
    BY <1>b, <2>2, <2>3, <2>10, <2>11 DEF FrameInv
<1>10. CASE ReadRefused
  <2>1. PICK len \in Lengths : Complete(len) /\ HandOver(len)
    BY <1>10 DEF ReadRefused
  <2>2. Receives /\ pc' = "closed" /\ got' = 0 /\ pkgLen' = 0
        /\ UNCHANGED <<base, paced, ends, arrived, peer, edge, outq, cut>>
    BY <1>10 DEF ReadRefused, Close
  <2>3. HandedIsSent' /\ handed' \in Seq(Stretch)
    BY <1>8, <2>1, <2>2
  <2>4. BufferAligned'
    BY <2>2 DEF BufferAligned
  <2>5. guessed' \in BOOLEAN /\ crowded' \in BOOLEAN
    BY <1>e, <2>2 DEF Receives
  <2>6. TypeOK'
    BY <2>2, <2>3, <2>5 DEF FrameInv, TypeOK
  <2>7. QED
    BY <1>b, <2>2, <2>3, <2>4, <2>6 DEF FrameInv
<1>11. QED
  BY <1>1, <1>2, <1>3, <1>4, <1>5, <1>6, <1>7, <1>9, <1>10 DEF Next, Network, Peer, Handler

LEMMA FrameInit == Init => FrameInv
<1> SUFFICES ASSUME Init PROVE FrameInv
  OBVIOUS
<1>1. Len(ends) = 0 /\ Len(handed) = 0 /\ Start(1) = 0
  BY DEF Init, Start
<1>2. TypeOK
  <2>1. << >> \in Seq(Stretch) /\ << >> \in Seq(Nat)
    OBVIOUS
  <2>3. handed \in Seq(Stretch) /\ ends \in Seq(Nat)
    BY <2>1 DEF Init
  <2>5. /\ pc \in {"idle", "reading", "closed", "undefined"}
        /\ base \in Nat /\ got \in Nat /\ pkgLen \in Int /\ arrived \in Nat
        /\ peer \in {"up", "fin", "rst"}
    BY DEF Init
  <2>6. edge \in BOOLEAN /\ paced \in BOOLEAN /\ cut \in BOOLEAN
        /\ guessed \in BOOLEAN /\ crowded \in BOOLEAN
    BY DEF Init
  <2>7. outq \in 0 .. OutSize
    BY FramingAssumption DEF Init
  <2>8. QED
    BY <2>3, <2>5, <2>6, <2>7 DEF TypeOK
<1>3. StreamOK
  BY <1>1 DEF Init, StreamOK, Sent
<1>4. BufferAligned /\ HandedIsSent
  BY <1>1 DEF Init, BufferAligned, HandedIsSent, HandedOnce, HandedWhole, HandedTo
<1>5. QED
  BY <1>2, <1>3, <1>4 DEF FrameInv

LEMMA FrameInvariant == Spec => []FrameInv
<1>1. QED
  BY FrameInit, FrameStep, PTL DEF Spec

(* The handler's state keeps its types: m_bytes_recv is never negative and the
   stretches handed over lie in the stream, for any head length, well-formed or
   guessed lengths, and when the buffer is overrun too. *)
THEOREM FrameTypes == Spec => []TypeOK
<1>1. FrameInv => TypeOK
  BY DEF FrameInv
<1>2. QED
  BY <1>1, FrameInvariant, PTL

(* m_recv_buf always starts behind what was handed over; and until
   handle_tcp_head takes a length that has not arrived, it starts with the next
   package and m_pkg_len is the length of that package, however the stream is cut
   up on its way and however much of the next packages has been received. *)
THEOREM StreamAligned == Spec => []BufferAligned
<1>1. FrameInv => BufferAligned
  BY DEF FrameInv
<1>2. QED
  BY <1>1, FrameInvariant, PTL

(* handle_tcp_package is given the stream of the peer, every byte once and in
   order, whatever lengths it is cut up with; and only whole packages until a
   length is taken that has not arrived. *)
THEOREM OnlyWholePackages == Spec => []HandedIsSent
<1>1. FrameInv => HandedIsSent
  BY DEF FrameInv
<1>2. QED
  BY <1>1, FrameInvariant, PTL

-----------------------------------------------------------------------------
(* The implementation of the abstract stream. *)

sentBar   == [i \in 1 .. Len(ends) |-> Package(i)]
soundBar  == ~guessed /\ pc # "undefined"
promptBar == ~crowded

(* A package sent is a package added at the end of the abstract stream. *)
LEMMA SendMaps ==
  ASSUME TypeOK, NEW len \in PkgLens, Send(len)
  PROVE  Stream!Send
<1>1. ends \in Seq(Nat) /\ Len(ends) \in Nat
  BY DEF TypeOK
<1>2. Sent + len \in Nat
  BY <1>1, FramingAssumption DEF Sent, Start
<1>3. /\ Len(ends') = Len(ends) + 1
      /\ \A i \in 1 .. Len(ends) : ends'[i] = ends[i]
  BY <1>1, <1>2, AppendProperties DEF Send
<1>4. ASSUME NEW i \in 1 .. Len(ends) PROVE Package(i)' = Package(i)
  <2>1. Start(i)' = Start(i)
    BY <1>1, <1>3 DEF Start
  <2>2. QED
    BY <1>3, <2>1 DEF Package
<1>5. Len(sentBar) = Len(ends) /\ Len(sentBar)' = Len(ends) + 1
  BY <1>1, <1>3 DEF sentBar
<1>6. SubSeq(sentBar', 1, Len(ends)) = sentBar
  BY <1>1, <1>3, <1>4 DEF sentBar
<1>7. UNCHANGED <<handed, pc, guessed, crowded>>
  BY <1>3 DEF Send, ctxVars, histVars
<1>8. QED
  BY <1>5, <1>6, <1>7 DEF Stream!Send, sentBar

(* The history of the arrivals goes one way. *)
LEMMA RecordedMaps ==
  ASSUME TypeOK, Recorded
  PROVE  /\ promptBar' \in {p \in BOOLEAN : p => promptBar}
         /\ ~guessed' => ~guessed /\ ~Guesses
         /\ guessed' \in BOOLEAN
BY DEF Recorded, TypeOK, promptBar

(* A package handed over is the next one of the abstract stream. *)
LEMMA HandMaps ==
  ASSUME FrameInv, Receives, ~guessed', NEW len \in Lengths, HandOver(len),
         UNCHANGED ends, pc' # "undefined"
  PROVE  Stream!Hand
<1>1. pc = "reading" /\ Unread > 0 /\ Recorded /\ ~guessed /\ ~Guesses
  BY RecordedMaps DEF Receives, FrameInv
<1>2. Len(handed) + 1 \in 1 .. Len(ends) /\ base = Start(Len(handed) + 1)
  BY <1>1, PackageInBuffer
<1>3. base + len = ends[Len(handed) + 1]
  BY <1>1, RightLength
<1>4. handed' = Append(handed, sentBar[Len(handed) + 1])
  BY <1>2, <1>3 DEF HandOver, Package, sentBar
<1>5. sentBar' = sentBar
  BY DEF sentBar, Package, Start
<1>6. Len(sentBar) = Len(ends) /\ Len(handed) < Len(ends)
  BY <1>2 DEF sentBar, FrameInv, TypeOK
<1>7. soundBar /\ soundBar' /\ promptBar' \in {p \in BOOLEAN : p => promptBar}
  BY <1>1, RecordedMaps DEF soundBar, FrameInv
<1>8. QED
  BY <1>1, <1>4, <1>5, <1>6, <1>7 DEF Stream!Hand, sentBar, soundBar, promptBar

(* Every step is a step of the abstract stream or leaves it as it is. *)
LEMMA StepMaps == FrameInv /\ [Next]_vars => [Stream!Next]_Stream!svars
<1> SUFFICES ASSUME FrameInv, [Next]_vars
             PROVE  Stream!Next \/ UNCHANGED Stream!svars
  BY DEF Stream!svars
<1> USE DEF ctxVars, peerVars, sendVars, histVars
<1>a. ASSUME UNCHANGED ends PROVE sentBar' = sentBar
  BY <1>a DEF sentBar, Package, Start
<1>1. ASSUME NEW len \in PkgLens, Send(len) PROVE Stream!Next
  BY <1>1, SendMaps DEF Stream!Next, FrameInv
<1>2. CASE Wake \/ ReadAgain
  <2>1. UNCHANGED <<handed, ends, guessed, crowded>> /\ pc \in {"idle", "reading"}
        /\ pc' \in {"idle", "reading"}
    BY <1>2 DEF Wake, ReadAgain
  <2>2. QED
    BY <1>a, <2>1 DEF Stream!svars, sentBar
<1>3. CASE PeerReads \/ PeerEnds \/ UNCHANGED vars \/ \E n \in 1 .. Sent - arrived : Arrive(n)
  <2>1. UNCHANGED <<pc, handed, ends, guessed, crowded>>
    BY <1>3 DEF PeerReads, PeerEnds, Arrive, vars
  <2>2. QED
    BY <1>a, <2>1 DEF Stream!svars, sentBar
<1>4. ASSUME pc = "reading", UNCHANGED ends, ~soundBar'
      PROVE  Stream!Stray
  BY <1>a, <1>4 DEF Stream!Stray, sentBar, soundBar
<1>5. CASE ReadUndefined
  <2>1. pc = "reading" /\ UNCHANGED ends /\ ~soundBar'
    BY <1>5 DEF ReadUndefined, soundBar
  <2>2. QED
    BY <1>4, <2>1 DEF Stream!Next
<1>6. CASE ReadEnd
  <2>1. UNCHANGED <<handed, ends, guessed, crowded>> /\ pc = "reading" /\ pc' = "closed"
    BY <1>6 DEF ReadEnd, Close
  <2>2. promptBar' \in {p \in BOOLEAN : p => promptBar}
    BY <2>1 DEF promptBar
  <2>3. Stream!Close
    BY <1>a, <2>1, <2>2 DEF Stream!Close, sentBar, promptBar
  <2>4. QED
    BY <2>3 DEF Stream!Next
<1>7. CASE ReadShort \/ ReadPart \/ ReadTooLong \/ ReadPackage \/ ReadRefused
  <2>1. Receives /\ Recorded /\ pc = "reading" /\ UNCHANGED ends /\ pc' \in {"reading", "closed"}
    BY <1>7 DEF ReadShort, ReadPart, ReadTooLong, ReadPackage, ReadRefused, Close, Receives
  <2>2. CASE guessed'
    BY <1>4, <2>1, <2>2 DEF soundBar, Stream!Next
  <2>3. CASE ~guessed'
    <3>1. ~guessed /\ guessed' = guessed
          /\ promptBar' \in {p \in BOOLEAN : p => promptBar}
      BY <2>1, <2>3, RecordedMaps DEF FrameInv, TypeOK
    <3>2. CASE ReadShort \/ ReadPart
      <4>1. UNCHANGED <<pc, handed>>
        BY <3>2 DEF ReadShort, ReadPart
      <4>2. CASE crowded' = crowded
        BY <1>a, <2>1, <3>1, <4>1, <4>2 DEF Stream!svars, sentBar
      <4>3. CASE crowded' # crowded
        <5>1. promptBar' = FALSE
          BY <2>1, <4>3 DEF Recorded, promptBar, FrameInv, TypeOK
        <5>2. Stream!Crowd
          BY <1>a, <2>1, <3>1, <4>1, <5>1 DEF Stream!Crowd, sentBar, promptBar
        <5>3. QED
          BY <5>2 DEF Stream!Next
      <4>4. QED
        BY <4>2, <4>3
    <3>3. CASE ReadTooLong
      <4>1. UNCHANGED handed /\ pc' = "closed"
        BY <3>3 DEF ReadTooLong, Close
      <4>2. Stream!Close
        BY <1>a, <2>1, <3>1, <4>1 DEF Stream!Close, sentBar, promptBar
      <4>3. QED
        BY <4>2 DEF Stream!Next
    <3>4. CASE ReadPackage \/ ReadRefused
      <4>1. PICK len \in Lengths : HandOver(len)
        BY <3>4 DEF ReadPackage, ReadRefused
      <4>2. Stream!Hand
        BY <2>1, <2>3, <4>1, HandMaps
      <4>3. QED
        BY <4>2 DEF Stream!Next
    <3>5. QED
      BY <1>7, <3>2, <3>3, <3>4
  <2>4. QED
    BY <2>2, <2>3
<1>8. QED
  BY <1>1, <1>2, <1>3, <1>5, <1>6, <1>7 DEF Next, Network, Peer, Handler

(* The connection implements the abstract stream: what its user is given is
   a prefix of what the peer sent, and nothing after the end, until a length is
   taken that has not arrived or the buffer is overrun. *)
THEOREM StreamImplemented == Spec => Stream!SafeSpec
<1>1. Init => Stream!Init
  <2> SUFFICES ASSUME Init PROVE Stream!Init
    OBVIOUS
  <2>1. Len(ends) = 0
    BY DEF Init
  <2>2. QED
    BY <2>1 DEF Init, Stream!Init
<1>2. FrameInv /\ [Next]_vars => [Stream!Next]_Stream!svars
  BY StepMaps
<1>3. QED
  BY <1>1, <1>2, FrameInvariant, PTL DEF Spec, Stream!SafeSpec


-----------------------------------------------------------------------------
(* A peer that keeps within its window, however many packages it sends ahead. *)

PacedInv ==
  paced /\ ~guessed =>
    /\ pc # "undefined"
    /\ Sent - Start(Len(handed) + 1) <= BufSize
    /\ AnswerLen * (Len(ends) - Len(handed)) + outq <= OutSize
    /\ ~cut

(* One answer less to give. *)
LEMMA OneAnswerLess ==
  ASSUME NEW a \in Nat, NEW n \in Nat \ {0}
  PROVE  a * n = a * (n - 1) + a /\ a * (n - 1) \in Nat
<1>1. a * n = a * (n - 1) + a
  BY SMT
<1>2. n - 1 \in Nat
  OBVIOUS
<1>3. a * (n - 1) \in Nat
  BY <1>2, SMT
<1>4. QED
  BY <1>1, <1>3

(* No step forgets that a length was guessed, nor what kind of peer it is. *)
LEMMA HistoryStep ==
  ASSUME TypeOK, [Next]_vars
  PROVE  paced' = paced /\ (guessed => guessed') /\ (crowded => crowded')
<1> USE DEF ctxVars, peerVars, sendVars, histVars
<1>1. CASE \/ ReadShort \/ ReadPart \/ ReadTooLong \/ ReadPackage \/ ReadRefused \/ ReadUndefined
  <2>1. paced' = paced /\ Recorded
    BY <1>1 DEF ReadShort, ReadPart, ReadTooLong, ReadPackage, ReadRefused, ReadUndefined,
       Receives
  <2>2. QED
    BY <2>1 DEF Recorded, TypeOK
<1>2. CASE \/ Wake \/ ReadAgain \/ ReadEnd \/ PeerReads \/ PeerEnds \/ UNCHANGED vars
           \/ (\E n \in 1 .. Sent - arrived : Arrive(n)) \/ \E len \in PkgLens : Send(len)
  BY <1>2 DEF Wake, ReadAgain, ReadEnd, PeerReads, PeerEnds, Arrive, Send, vars
<1>3. QED
  BY <1>1, <1>2 DEF Next, Network, Peer, Handler

(* A recv() that guesses nothing keeps within the buffer of such a peer, and
   reads the length of its package. *)
LEMMA PacedReceives ==
  ASSUME FrameInv, PacedInv, paced, ~guessed', pc = "reading", Unread > 0, Recorded
  PROVE  /\ Filled <= BufSize
         /\ \A len \in Lengths : len \in Nat \ {0} /\ base + len = ends[Len(handed) + 1]
         /\ Len(handed) + 1 \in 1 .. Len(ends)
<1>1. ~guessed /\ ~Guesses
  BY DEF Recorded, FrameInv, TypeOK
<1>2. Len(handed) + 1 \in 1 .. Len(ends) /\ base = Start(Len(handed) + 1)
  BY <1>1, PackageInBuffer
<1>3. Filled \in Nat /\ base + Filled <= arrived
  BY FilledArrived
<1>4. arrived <= Sent /\ Sent \in Nat /\ base \in Nat /\ arrived \in Nat /\ BufSize \in Nat
  BY FramingAssumption DEF FrameInv, StreamOK, TypeOK, Sent, Start
<1>5. Sent - base <= BufSize
  BY <1>1, <1>2 DEF PacedInv
<1>6. Filled <= BufSize
  BY <1>3, <1>4, <1>5
<1>7. QED
  BY <1>1, <1>2, <1>6, RightLength

LEMMA PacedStep == FrameInv /\ PacedInv /\ [Next]_vars => PacedInv'
<1> SUFFICES ASSUME FrameInv, PacedInv, [Next]_vars, paced', ~guessed'
             PROVE  /\ pc' # "undefined"
                    /\ (Sent - Start(Len(handed) + 1) <= BufSize)'
                    /\ (AnswerLen * (Len(ends) - Len(handed)) + outq <= OutSize)'
                    /\ ~cut'
  BY DEF PacedInv
<1> USE DEF ctxVars, peerVars, sendVars, histVars
<1>0. paced /\ ~guessed
  BY HistoryStep DEF FrameInv
<1>a. /\ ends \in Seq(Nat) /\ Len(ends) \in Nat /\ handed \in Seq(Stretch) /\ Len(handed) \in Nat
      /\ base \in Nat /\ got \in Nat /\ arrived \in Nat /\ BufSize \in Nat /\ outq \in Nat
      /\ OutSize \in Nat /\ AnswerLen \in Nat /\ Len(handed) <= Len(ends)
  BY <1>0, FramingAssumption DEF FrameInv, TypeOK, HandedIsSent, HandedWhole
<1>b. /\ pc # "undefined" /\ ~cut
      /\ Sent - Start(Len(handed) + 1) <= BufSize
      /\ AnswerLen * (Len(ends) - Len(handed)) + outq <= OutSize
  BY <1>0 DEF PacedInv
<1>1. ASSUME NEW len \in PkgLens, Send(len)
      PROVE  /\ pc' # "undefined" /\ ~cut'
             /\ (Sent - Start(Len(handed) + 1) <= BufSize)'
             /\ (AnswerLen * (Len(ends) - Len(handed)) + outq <= OutSize)'
  <2>1. len \in Nat /\ Sent \in Nat /\ Answered = Len(handed) /\ HasRoom(len)
    BY <1>0, <1>1, <1>a, FramingAssumption DEF Send, Sent, Start, Answered
  <2>2. /\ Len(ends') = Len(ends) + 1 /\ ends'[Len(ends) + 1] = Sent + len
        /\ \A i \in 1 .. Len(ends) : ends'[i] = ends[i]
    BY <1>1, <1>a, <2>1, AppendProperties DEF Send
  <2>3. UNCHANGED <<pc, handed, outq, cut>>
    BY <1>1 DEF Send
  <2>4. Sent' = Sent + len /\ Start(Len(handed) + 1)' = Start(Len(handed) + 1)
    BY <1>a, <2>2, <2>3 DEF Sent, Start
  <2>5. Len(ends') - Len(handed') = Len(ends) + 1 - Answered
    BY <1>a, <2>1, <2>2, <2>3
  <2>6. (Sent - Start(Len(handed) + 1) <= BufSize)'
    <3>1. Sent + len - Start(Answered + 1) <= BufSize
      BY <2>1 DEF HasRoom
    <3>2. Answered + 1 = Len(handed) + 1
      BY <2>1
    <3>3. Sent + len - Start(Len(handed) + 1) <= BufSize
      BY <3>1, <3>2
    <3>4. Start(Len(handed) + 1) \in Nat
      BY <1>a DEF Start
    <3>5. Sent' - Start(Len(handed) + 1)' <= BufSize
      BY <1>a, <2>1, <2>4, <3>3, <3>4
    <3>6. QED
      BY <3>5
  <2>7. (AnswerLen * (Len(ends) - Len(handed)) + outq)'
          = AnswerLen * (Len(ends) + 1 - Answered) + outq
    BY <2>3, <2>5
  <2>8. (AnswerLen * (Len(ends) - Len(handed)) + outq <= OutSize)'
    BY <2>1, <2>7 DEF HasRoom
  <2>9. QED
    BY <1>b, <2>3, <2>6, <2>8
<1>2. CASE PeerReads
  <2>1. UNCHANGED <<pc, handed, ends, cut>> /\ outq' \in Nat /\ outq' < outq
    BY <1>2, <1>a DEF PeerReads
  <2>2. AnswerLen * (Len(ends) - Len(handed)) \in Int
    BY <1>a
  <2>3. QED
    BY <1>a, <1>b, <2>1, <2>2 DEF Sent, Start
<1>3. CASE ReadUndefined
  <2>1. pc = "reading" /\ Unread > 0 /\ Recorded /\ (Filled > BufSize \/ \E len \in Lengths : len < 0)
    BY <1>3 DEF ReadUndefined
  <2>2. Filled <= BufSize /\ Filled \in Nat /\ \A len \in Lengths : len \in Nat
    BY <1>0, <2>1, PacedReceives, FilledArrived
  <2>3. QED
    BY <1>a, <2>1, <2>2
<1>4. CASE ReadPackage \/ ReadRefused
  <2>1. PICK len \in Lengths : HandOver(len)
    BY <1>4 DEF ReadPackage, ReadRefused
  <2>2. pc = "reading" /\ Unread > 0 /\ Recorded /\ UNCHANGED <<ends, peer>> /\ pc' # "undefined"
    BY <1>4 DEF ReadPackage, ReadRefused, Close, Receives
  <2>3. /\ Len(handed) + 1 \in 1 .. Len(ends) /\ base + len = ends[Len(handed) + 1]
        /\ len \in Nat
    BY <1>0, <2>1, <2>2, PacedReceives
  <2>4. Len(handed') = Len(handed) + 1 /\ Len(handed) < Len(ends)
    BY <1>a, <2>1, <2>3 DEF HandOver
  <2>5. (Sent - Start(Len(handed) + 1) <= BufSize)'
    <3>0. Len(handed') + 1 # 1 /\ Len(handed') + 1 - 1 = Len(handed) + 1 /\ ends' = ends
      BY <1>a, <2>2, <2>4
    <3>1. Start(Len(handed) + 1)' = ends[Len(handed) + 1] /\ Sent' = Sent
      BY <3>0 DEF Start, Sent
    <3>2. Start(Len(handed) + 1) < ends[Len(handed) + 1]
      BY <2>3 DEF FrameInv, StreamOK
    <3>3. Start(Len(handed) + 1) \in Nat /\ Sent \in Nat
      BY <1>a DEF Start, Sent
    <3>4. ends[Len(handed) + 1] \in Nat
      BY <1>a, <2>3
    <3>5. Sent - Start(Len(handed) + 1) <= BufSize /\ BufSize \in Nat
      BY <1>a, <1>b
    <3>6. Sent - ends[Len(handed) + 1] <= BufSize
      BY <3>2, <3>3, <3>4, <3>5
    <3>7. QED
      BY <3>1, <3>6
  <2> DEFINE n == Len(ends) - Len(handed)
  <2>6. /\ n \in Nat \ {0} /\ Len(ends') - Len(handed') = n - 1
        /\ AnswerLen * n = AnswerLen * (n - 1) + AnswerLen /\ AnswerLen * (n - 1) \in Nat
    <3>1. n \in Nat \ {0} /\ Len(ends') - Len(handed') = n - 1
      BY <1>a, <2>2, <2>4
    <3> HIDE DEF n
    <3>2. QED
      BY <1>a, <3>1, OneAnswerLess
  <2>7. AnswerLen * n + outq <= OutSize
    BY <1>b
  <2> HIDE DEF n
  <2>8. (ReadRefused \/ peer = "rst") => UNCHANGED <<outq, cut>>
    BY <1>4 DEF ReadPackage, ReadRefused, Answer
  <2>9. (ReadPackage /\ peer # "rst") => outq' = outq + AnswerLen /\ ~cut'
    <3>1. Taken = AnswerLen
      BY <1>a, <2>6, <2>7 DEF Taken
    <3>2. ~(AnswerLen < AnswerLen)
      BY <1>a
    <3>3. QED
      BY <1>b, <3>1, <3>2 DEF ReadPackage, Answer
  <2>10. ~cut' /\ (outq' = outq \/ outq' = outq + AnswerLen)
    BY <1>4, <1>b, <2>8, <2>9
  <2>11. AnswerLen * (n - 1) + outq' <= OutSize
    BY <1>a, <2>6, <2>7, <2>10
  <2>12. QED
    BY <2>2, <2>5, <2>6, <2>10, <2>11
<1>5. CASE \/ PeerEnds \/ Wake \/ ReadShort \/ ReadPart \/ ReadTooLong \/ ReadAgain \/ ReadEnd
           \/ UNCHANGED vars \/ \E k \in 1 .. Sent - arrived : Arrive(k)
  <2>1. UNCHANGED <<handed, ends, outq, cut>> /\ pc' # "undefined"
    BY <1>5, <1>b DEF PeerEnds, Wake, ReadShort, ReadPart, ReadTooLong, ReadAgain, ReadEnd,
                Close, Receives, vars, Arrive
  <2>2. QED
    BY <1>b, <2>1 DEF Sent, Start
<1>6. QED
  BY <1>1, <1>2, <1>3, <1>4, <1>5 DEF Next, Network, Peer, Handler

LEMMA PacedInvariant == Spec => []PacedInv
<1>1. Init => PacedInv
  <2> SUFFICES ASSUME Init PROVE PacedInv
    OBVIOUS
  <2>1. Len(ends) = 0 /\ Len(handed) = 0 /\ outq = 0 /\ ~cut /\ pc # "undefined"
    BY DEF Init
  <2>2. Sent = 0 /\ Start(Len(handed) + 1) = 0
    BY <2>1 DEF Sent, Start
  <2>3. AnswerLen * (Len(ends) - Len(handed)) = 0
    BY <2>1, FramingAssumption
  <2>4. QED
    BY <2>1, <2>2, <2>3, FramingAssumption DEF PacedInv
<1>2. FrameInv /\ PacedInv /\ [Next]_vars => PacedInv'
  BY PacedStep
<1>3. QED
  BY <1>1, <1>2, FrameInvariant, PTL DEF Spec

(* From a peer that never has more unanswered bytes on the way than the buffer
   holds, handle_tcp_read never receives past the end of m_recv_buf nor computes
   with a negative length, although it stops after each package and receives
   behind the ones it has left over; unless it takes a length that has not
   arrived. *)
THEOREM PacedStaysInside == Spec => []WithinBuffer
<1>1. PacedInv => WithinBuffer
  BY DEF PacedInv, WithinBuffer
<1>2. QED
  BY <1>1, PacedInvariant, PTL

(* If the answers that such a peer has not read and is still to get fit in the
   connection, send() takes every answer whole, also when several packages are
   answered before the peer reads, although nobody looks at how much it took. *)
THEOREM PacedIsAnswered == Spec => []AnswersWhole
<1>1. PacedInv => AnswersWhole
  BY DEF PacedInv, AnswersWhole
<1>2. QED
  BY <1>1, PacedInvariant, PTL

-----------------------------------------------------------------------------
(* What is kept back is kept back only when two packages end in one recv().   *)

HeadsSent == \A i \in 1 .. Len(ends) : Start(i) + HeadLen <= ends[i]

(* The next package is not all received, and what has arrived has been received
   or is reported. *)
SpacedInv ==
  /\ HeadsSent
  /\ ~crowded /\ ~guessed /\ pc \in {"idle", "reading"} /\ Len(handed) < Len(ends) =>
       base + got < ends[Len(handed) + 1]
  /\ pc = "idle" /\ ~edge => Unread = 0

LEMMA HeadsStep ==
  ASSUME \A len \in PkgLens : HeadLen <= len
  PROVE  FrameInv /\ HeadsSent /\ [Next]_vars => HeadsSent'
<1> SUFFICES ASSUME FrameInv, HeadsSent, [Next]_vars PROVE HeadsSent'
  OBVIOUS
<1>a. ends \in Seq(Nat) /\ Len(ends) \in Nat
  BY DEF FrameInv, TypeOK
<1>1. ASSUME NEW len \in PkgLens, Send(len) PROVE HeadsSent'
  <2>1. len \in Nat /\ HeadLen \in Nat /\ HeadLen <= len /\ Sent \in Nat
    BY <1>a, FramingAssumption DEF Sent, Start
  <2>2. /\ Len(ends') = Len(ends) + 1 /\ ends'[Len(ends) + 1] = Sent + len
        /\ \A i \in 1 .. Len(ends) : ends'[i] = ends[i]
    BY <1>1, <1>a, <2>1, AppendProperties DEF Send
  <2>3. ASSUME NEW i \in 1 .. Len(ends')
        PROVE  Start(i)' + HeadLen <= ends'[i]
    <3>1. CASE i \in 1 .. Len(ends)
      <4>1. Start(i)' = Start(i)
        BY <1>a, <2>2, <3>1 DEF Start
      <4>2. QED
        BY <2>2, <3>1, <4>1 DEF HeadsSent
    <3>2. CASE i = Len(ends) + 1
      <4>1. Start(i)' = Sent
        BY <1>a, <2>2, <3>2 DEF Start, Sent
      <4>2. QED
        BY <2>1, <2>2, <3>2, <4>1
    <3>3. QED
      BY <1>a, <2>2, <3>1, <3>2
  <2>4. QED
    BY <2>3 DEF HeadsSent
<1>2. CASE UNCHANGED ends
  BY <1>2 DEF HeadsSent, Start
<1>3. QED
  BY <1>1, <1>2 DEF Next, Network, Peer, Handler, Arrive, PeerReads, PeerEnds, Wake,
     ReadShort, ReadPart, ReadTooLong, ReadPackage, ReadRefused, ReadAgain, ReadEnd,
     ReadUndefined,
     ctxVars, peerVars, vars

LEMMA SpacedStep ==
  ASSUME \A len \in PkgLens : HeadLen <= len
  PROVE  FrameInv /\ SpacedInv /\ [Next]_vars => SpacedInv'
<1> SUFFICES ASSUME FrameInv, SpacedInv, [Next]_vars
             PROVE  /\ ~crowded' /\ ~guessed' /\ pc' \in {"idle", "reading"}
                         /\ Len(handed') < Len(ends') =>
                       base' + got' < ends'[Len(handed') + 1]
                    /\ pc' = "idle" /\ ~edge' => Unread' = 0
  BY HeadsStep DEF SpacedInv
<1> USE DEF ctxVars, peerVars, sendVars, histVars
<1>a. /\ ends \in Seq(Nat) /\ Len(ends) \in Nat /\ handed \in Seq(Stretch) /\ Len(handed) \in Nat
      /\ base \in Nat /\ got \in Nat /\ arrived \in Nat /\ HeadLen \in Nat
  BY FramingAssumption DEF FrameInv, TypeOK
<1>0. (~guessed' => ~guessed) /\ (~crowded' => ~crowded)
  BY HistoryStep DEF FrameInv
<1>1. ASSUME NEW len \in PkgLens, Send(len)
      PROVE  /\ ~crowded' /\ ~guessed' /\ pc' \in {"idle", "reading"}
                  /\ Len(handed') < Len(ends') =>
                base' + got' < ends'[Len(handed') + 1]
             /\ pc' = "idle" /\ ~edge' => Unread' = 0
  <2>1. len \in Nat \ {0} /\ Sent \in Nat
    BY <1>a, FramingAssumption DEF Sent, Start
  <2>2. /\ Len(ends') = Len(ends) + 1 /\ ends'[Len(ends) + 1] = Sent + len
        /\ \A i \in 1 .. Len(ends) : ends'[i] = ends[i]
    BY <1>1, <1>a, <2>1, AppendProperties DEF Send
  <2>3. UNCHANGED <<pc, base, got, handed, guessed, crowded, arrived, edge>>
    BY <1>1 DEF Send
  <2>4. ASSUME ~crowded, ~guessed, pc \in {"idle", "reading"}, Len(handed) < Len(ends')
        PROVE  base + got < ends'[Len(handed) + 1]
    <3>1. CASE Len(handed) < Len(ends)
      <4>1. base + got < ends[Len(handed) + 1]
        BY <2>4, <3>1 DEF SpacedInv
      <4>2. Len(handed) + 1 \in 1 .. Len(ends)
        BY <1>a, <3>1
      <4>3. QED
        BY <2>2, <4>1, <4>2
    <3>2. CASE Len(handed) = Len(ends)
      <4>1. base + got <= arrived /\ arrived <= Sent
        BY <2>4 DEF FrameInv, BufferAligned, StreamOK
      <4>2. QED
        BY <1>a, <2>1, <2>2, <3>2, <4>1
    <3>3. QED
      BY <1>a, <2>2, <2>4, <3>1, <3>2
  <2>5. QED
    BY <2>3, <2>4 DEF SpacedInv, Unread
<1>2. CASE PeerReads \/ UNCHANGED vars
  <2>1. UNCHANGED <<pc, base, got, handed, ends, arrived, edge, guessed, crowded>>
    BY <1>2 DEF PeerReads, vars
  <2>2. QED
    BY <2>1 DEF SpacedInv, Unread
<1>3. CASE PeerEnds \/ Wake \/ \E n \in 1 .. Sent - arrived : Arrive(n)
  <2>1. UNCHANGED <<base, got, handed, ends, guessed, crowded>>
        /\ (pc' \in {"idle", "reading"} => pc \in {"idle", "reading"})
    BY <1>3 DEF PeerEnds, Wake, Arrive
  <2>2. pc' # "idle" \/ edge'
    BY <1>3 DEF PeerEnds, Wake, Arrive
  <2>3. QED
    BY <2>1, <2>2 DEF SpacedInv
<1>4. ASSUME Receives, ~crowded', ~guessed'
      PROVE  /\ ~crowded /\ ~guessed /\ ~Guesses /\ ~TwoEnds
             /\ Len(handed) + 1 \in 1 .. Len(ends) /\ base + got < ends[Len(handed) + 1]
             /\ Filled \in Nat /\ base + Filled <= arrived
  <2>1. pc = "reading" /\ Unread > 0 /\ Recorded
    BY <1>4 DEF Receives
  <2>2. ~crowded /\ ~guessed /\ ~Guesses /\ ~TwoEnds
    BY <1>4, <2>1 DEF Recorded, FrameInv, TypeOK
  <2>3. Len(handed) + 1 \in 1 .. Len(ends)
    BY <2>1, <2>2, PackageInBuffer
  <2>4. base + got < ends[Len(handed) + 1]
    BY <1>a, <2>1, <2>2, <2>3 DEF SpacedInv
  <2>5. QED
    BY <2>1, <2>2, <2>3, <2>4, FilledArrived
<1>5. CASE ReadShort
  <2>1. Receives /\ UNCHANGED <<base, handed, ends>> /\ pc' = "reading"
        /\ got' = Filled /\ Filled < HeadLen
    BY <1>5 DEF ReadShort, Receives
  <2>2. ASSUME ~crowded', ~guessed' PROVE base + Filled < ends[Len(handed) + 1]
    <3>1. /\ Len(handed) + 1 \in 1 .. Len(ends) /\ Filled \in Nat /\ ~guessed
          /\ pc = "reading" /\ Unread > 0
      BY <1>4, <2>1, <2>2 DEF Receives
    <3>2. base = Start(Len(handed) + 1)
      BY <3>1, PackageInBuffer
    <3>3. base + HeadLen <= ends[Len(handed) + 1] /\ ends[Len(handed) + 1] \in Nat
      BY <1>a, <3>1, <3>2 DEF SpacedInv, HeadsSent
    <3>4. QED
      BY <1>a, <2>1, <3>1, <3>3
  <2>3. QED
    BY <2>1, <2>2
<1>6. CASE ReadPart
  <2>1. Receives /\ UNCHANGED <<base, handed, ends>> /\ pc' = "reading" /\ got' = Filled
    BY <1>6 DEF ReadPart, Receives
  <2>2. PICK len \in Lengths : len \in 0 .. BufSize /\ ~Complete(len)
    BY <1>6 DEF ReadPart
  <2>3. ASSUME ~crowded', ~guessed' PROVE base + Filled < ends[Len(handed) + 1]
    <3>1. ~guessed /\ ~Guesses /\ Filled \in Nat /\ pc = "reading" /\ Unread > 0
      BY <1>4, <2>1, <2>3 DEF Receives
    <3>2. base + len = ends[Len(handed) + 1] /\ len \in Nat
      BY <3>1, RightLength
    <3>3. Filled < len
      BY <2>2, <3>1, <3>2 DEF Complete
    <3>4. QED
      BY <1>a, <3>1, <3>2, <3>3
  <2>4. QED
    BY <2>1, <2>3
<1>7. CASE ReadPackage
  <2>1. PICK len \in Lengths : Complete(len) /\ HandOver(len)
                              /\ got' = Rest(len) /\ base' = base + Filled - got'
    BY <1>7 DEF ReadPackage
  <2>2. Receives /\ UNCHANGED <<pc, ends>> /\ pc = "reading"
    BY <1>7 DEF ReadPackage, Receives
  <2>3. ASSUME ~crowded', ~guessed', Len(handed') < Len(ends)
        PROVE  base' + got' < ends[Len(handed') + 1]
    <3>1. /\ ~TwoEnds /\ Len(handed) + 1 \in 1 .. Len(ends) /\ base + got < ends[Len(handed) + 1]
          /\ Filled \in Nat
      BY <1>4, <2>2, <2>3
    <3>2. Len(handed') = Len(handed) + 1
      BY <1>a, <2>1 DEF HandOver
    <3>3. Len(handed) + 1 \in 1 .. Len(ends) - 1
      BY <1>a, <2>3, <3>1, <3>2
    <3>4. ~(ends[Len(handed) + 1 + 1] <= base + Filled)
      BY <3>1, <3>3 DEF TwoEnds
    <3>5. base' + got' = base + Filled
      <4>1. len \in Int
        BY LengthTyped DEF FrameInv
      <4>2. QED
        BY <1>a, <2>1, <3>1, <4>1 DEF Rest
    <3>6. Len(handed) + 1 + 1 \in 1 .. Len(ends)
      BY <1>a, <3>3
    <3>7. ends[Len(handed) + 1 + 1] \in Nat
      BY <1>a, <3>6
    <3>8. QED
      BY <1>a, <3>1, <3>2, <3>4, <3>5, <3>7
  <2>4. QED
    BY <2>2, <2>3
<1>8. CASE ReadTooLong \/ ReadRefused \/ ReadEnd
  BY <1>8 DEF ReadTooLong, ReadRefused, ReadEnd, Close
<1>9. CASE ReadUndefined
  BY <1>9 DEF ReadUndefined
<1>10. CASE ReadAgain
  <2>1. UNCHANGED <<base, got, handed, ends, arrived, guessed, crowded>> /\ pc = "reading"
        /\ pc' = "idle" /\ Unread = 0
    BY <1>10 DEF ReadAgain
  <2>2. QED
    BY <2>1 DEF SpacedInv, Unread
<1>11. QED
  BY <1>1, <1>2, <1>3, <1>5, <1>6, <1>7, <1>8, <1>9, <1>10 DEF Next, Network, Peer, Handler

(* Packages at least as long as the configured head: as long as no recv() brings
   the ends of two packages, no complete package lies in the buffer while the
   thread sleeps, however many packages the peer has sent ahead. *)
THEOREM StuckOnlyWhenCrowded ==
  ASSUME \A len \in PkgLens : HeadLen <= len
  PROVE  Spec => []StuckOnlyIfCrowded
<1>1. Init => SpacedInv
  <2> SUFFICES ASSUME Init PROVE SpacedInv
    OBVIOUS
  <2>1. Len(ends) = 0 /\ Len(handed) = 0
    BY DEF Init
  <2>2. QED
    BY <2>1 DEF Init, SpacedInv, HeadsSent, Unread
<1>2. FrameInv /\ SpacedInv /\ [Next]_vars => SpacedInv'
  BY SpacedStep
<1>3. FrameInv /\ SpacedInv => StuckOnlyIfCrowded
  <2> SUFFICES ASSUME FrameInv, SpacedInv, ~crowded, ~guessed, pc = "idle", ~edge,
                      Len(handed) < Len(ends)
               PROVE  arrived < ends[Len(handed) + 1]
    BY DEF StuckOnlyIfCrowded, NothingStuck
  <2>1. base \in Nat /\ got \in Nat /\ arrived \in Nat
    BY DEF FrameInv, TypeOK
  <2>2. arrived = base + got
    BY <2>1 DEF SpacedInv, Unread
  <2>3. base + got < ends[Len(handed) + 1]
    BY DEF SpacedInv
  <2>4. QED
    BY <2>2, <2>3
<1>4. QED
  BY <1>1, <1>2, <1>3, FrameInvariant, PTL DEF Spec
=============================================================================
