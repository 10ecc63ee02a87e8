----------------------------- MODULE LoggerProofs -----------------------------
(***************************************************************************)
(* Proofs about the logger, for any number of writers, buffers and records. *)
(***************************************************************************)
EXTENDS Logger, FiniteSetTheorems, SequenceTheorems, TLAPS

(* Every step keeps the types; m_used never exceeds m_length. *)
LEMMA LogTypeStep == TypeOK /\ [Next]_vars => TypeOK'
<1> SUFFICES ASSUME TypeOK, [Next]_vars
             PROVE  TypeOK'
  OBVIOUS
<1> USE LoggerAssumption
    DEF TypeOK, poolVars, flushVars, dataVars, ctlVars, fileVars, Hours, Records
<1>1. CASE Tick
  BY <1>1 DEF Tick
<1>2. CASE Start
  BY <1>2 DEF Start
<1>3. CASE StopBegins \/ StopJoins
  <2>1. stops' \in Nat
    BY <1>3 DEF StopBegins, StopJoins
  <2>2. CASE StopBegins
    BY <2>1, <2>2 DEF StopBegins
  <2>3. CASE StopJoins
    BY <2>1, <2>3 DEF StopJoins
  <2>4. QED
    BY <1>3, <2>2, <2>3
<1>4. CASE StopWrites
  BY <1>4 DEF StopWrites, Written
<1>5. CASE StopResets
  BY <1>5 DEF StopResets, Reset
<1>6. CASE FlushLoop \/ FlushDone
  BY <1>6 DEF FlushLoop, FlushDone
<1>7. CASE FlushTakes
  <2>1. toWrite' \in Seq(Buffers) /\ full' \in Seq(Buffers)
    <3>1. << >> \in Seq(Buffers) /\ <<curr>> \in Seq(Buffers)
      OBVIOUS
    <3>2. CASE TakesCurrent
      BY <1>7, <3>1, <3>2 DEF FlushTakes, TimeUp, GivenBack
    <3>3. CASE ~TakesCurrent
      BY <1>7, <3>1, <3>3 DEF FlushTakes, TimeUp, GivenBack
    <3>4. QED
      BY <3>2, <3>3
  <2>2. curr' \in Buffers /\ empty' \subseteq Buffers /\ released' \subseteq Buffers
    BY <1>7 DEF FlushTakes, TimeUp, GivenBack
  <2>3. QED
    BY <1>7, <2>1, <2>2 DEF FlushTakes, TimeUp, GivenBack
<1>8. CASE FlushWrites
  <2>1. Head(toWrite) \in Buffers /\ Tail(toWrite) \in Seq(Buffers)
    BY <1>8, HeadTailProperties DEF FlushWrites, RollFile
  <2>2. Written(Head(toWrite), now) \subseteq [n : Nat, hour : Hours, in : Hours]
    BY <2>1 DEF Written
  <2>3. content' \in [Buffers -> SUBSET Records] /\ used' \in [Buffers -> 0 .. Capacity]
    BY <1>8 DEF FlushWrites, RollFile, Reset
  <2>4. QED
    BY <1>8, <2>1, <2>2, <2>3 DEF FlushWrites, RollFile
<1>9. ASSUME NEW w \in Writers, Format(w)
      PROVE  TypeOK'
  BY <1>9 DEF Format
<1>10. ASSUME NEW w \in Writers, NEW len \in RecLens, NEW b \in Buffers,
              pend[w] # NoHour, Fits(b, len), AppendTo(b, w, len)
       PROVE  /\ accepted' \in Nat
              /\ content' \in [Buffers -> SUBSET Records]
              /\ used' \in [Buffers -> 0 .. Capacity]
              /\ pend' \in [Writers -> Hours \cup {NoHour}]
  <2>1. used[b] + len \in 0 .. Capacity
    BY <1>10 DEF Fits
  <2>2. [n |-> accepted', hour |-> pend[w]] \in Records
    BY <1>10 DEF AppendTo
  <2>3. QED
    BY <1>10, <2>1, <2>2 DEF AppendTo
<1>11. ASSUME NEW w \in Writers, NEW len \in RecLens, WriteFits(w, len)
       PROVE  TypeOK'
  BY <1>10, <1>11 DEF WriteFits
<1>12. ASSUME NEW w \in Writers, NEW len \in RecLens, WriteSwitches(w, len)
       PROVE  TypeOK'
  <2>1. PICK b \in empty : /\ Fits(b, len)
                           /\ full' = Append(full, curr)
                           /\ curr' = b
                           /\ empty' = empty \ {b}
                           /\ AppendTo(b, w, len)
    BY <1>12 DEF WriteSwitches, Enqueue
  <2>2. full' \in Seq(Buffers)
    BY <2>1, AppendProperties
  <2>3. QED
    BY <1>10, <1>12, <2>1, <2>2 DEF WriteSwitches, Enqueue
<1>13. ASSUME NEW w \in Writers, NEW len \in RecLens, WriteDiscards(w, len)
       PROVE  TypeOK'
  BY <1>13 DEF WriteDiscards
<1>14. CASE UNCHANGED vars
  BY <1>14 DEF vars
<1>15. QED
  BY <1>1, <1>2, <1>3, <1>4, <1>5, <1>6, <1>7, <1>8, <1>9, <1>11, <1>12, <1>13, <1>14
     DEF Next, Write, Flush, Stop

-----------------------------------------------------------------------------
(* The elements of a sequence after Append. *)
LEMMA AppendElems ==
  ASSUME NEW S, NEW s \in Seq(S), NEW d \in S
  PROVE  /\ Elems(Append(s, d)) = Elems(s) \cup {d}
         /\ Distinct(s) /\ d \notin Elems(s) => Distinct(Append(s, d))
<1> DEFINE t == Append(s, d)
<1>1. /\ t \in Seq(S) /\ Len(t) = Len(s) + 1 /\ Len(s) \in Nat
      /\ \A i \in 1 .. Len(s) : t[i] = s[i]
      /\ t[Len(s) + 1] = d
  BY AppendProperties
<1> HIDE DEF t
<1>2. \A i \in 1 .. Len(t) : i \in 1 .. Len(s) \/ i = Len(s) + 1
  BY <1>1
<1>3. Elems(t) = Elems(s) \cup {d}
  BY <1>1, <1>2 DEF Elems
<1>4. ASSUME Distinct(s), d \notin Elems(s)
      PROVE  Distinct(t)
  BY <1>1, <1>2, <1>4 DEF Elems, Distinct
<1>5. QED
  BY <1>3, <1>4 DEF t

(* Without repetitions, the tail has all elements but the head. *)
LEMMA TailElems ==
  ASSUME NEW S, NEW s \in Seq(S), s # << >>, Distinct(s)
  PROVE  /\ Elems(Tail(s)) = Elems(s) \ {Head(s)}
         /\ Head(s) \in Elems(s) /\ Distinct(Tail(s))
<1> DEFINE t == Tail(s)
<1>1. /\ t \in Seq(S) /\ Len(t) = Len(s) - 1 /\ Len(s) \in Nat \ {0}
      /\ \A i \in 1 .. Len(t) : t[i] = s[i + 1]
      /\ Head(s) = s[1]
  BY HeadTailProperties, EmptySeq
<1> HIDE DEF t
<1>2. \A i \in 1 .. Len(s) : i = 1 \/ (i - 1 \in 1 .. Len(t) /\ t[i - 1] = s[i])
  BY <1>1
<1>3. \A i \in 1 .. Len(t) : i + 1 \in 1 .. Len(s) /\ i + 1 # 1
  BY <1>1
<1>4. Elems(t) = Elems(s) \ {Head(s)}
  <2>1. Elems(t) \subseteq Elems(s) \ {Head(s)}
    BY <1>1, <1>3 DEF Elems, Distinct
  <2>2. Elems(s) \ {Head(s)} \subseteq Elems(t)
    BY <1>1, <1>2 DEF Elems
  <2>3. QED
    BY <2>1, <2>2
<1>5. Head(s) \in Elems(s)
  BY <1>1 DEF Elems
<1>6. Distinct(t)
  BY <1>1, <1>3 DEF Distinct
<1>7. QED
  BY <1>4, <1>5, <1>6 DEF t

(* The chain of queued buffers ends in the current one. *)
LEMMA ChainFacts ==
  ASSUME TypeOK
  PROVE  /\ Chain \in Seq(Buffers) /\ Chain # << >> /\ Len(Chain) \in Nat
         /\ Queued \subseteq Buffers /\ curr \in Queued
<1> USE DEF TypeOK
<1> DEFINE pre == toWrite \o full
<1>1. pre \in Seq(Buffers)
  BY ConcatProperties
<1>2. Chain = Append(pre, curr)
  BY <1>1, AppendIsConcat DEF Chain
<1> HIDE DEF pre
<1>3. /\ Append(pre, curr) \in Seq(Buffers) /\ Append(pre, curr) # << >>
      /\ Len(Append(pre, curr)) = Len(pre) + 1 /\ Len(pre) \in Nat
      /\ Elems(Append(pre, curr)) = Elems(pre) \cup {curr}
  <2>1. Elems(Append(pre, curr)) = Elems(pre) \cup {curr}
    BY <1>1, AppendElems
  <2>2. /\ Append(pre, curr) \in Seq(Buffers) /\ Append(pre, curr) # << >>
        /\ Len(Append(pre, curr)) = Len(pre) + 1
    BY <1>1, AppendProperties
  <2>3. Len(pre) \in Nat
    BY <1>1, LenProperties
  <2>4. QED
    BY <2>1, <2>2, <2>3
<1>4. /\ Chain \in Seq(Buffers) /\ Chain # << >> /\ Len(Chain) \in Nat
      /\ Queued = Elems(pre) \cup {curr}
  BY <1>2, <1>3 DEF Queued
<1>5. Queued \subseteq Buffers
  BY <1>4, ElementOfSeq DEF Queued, Elems
<1>6. QED
  BY <1>4, <1>5

(* Concatenating from the left or from the right is the same. *)
LEMMA LastAssociative ==
  ASSUME NEW S, NEW a \in Seq(S), NEW b \in Seq(S), NEW x \in S
  PROVE  (a \o b) \o <<x>> = a \o (b \o <<x>>)
<1>1. <<x>> \in Seq(S)
  OBVIOUS
<1>2. QED
  BY <1>1, ConcatAssociative

(* A buffer switched in by Write goes to the end of the chain. *)
LEMMA SwitchChain ==
  ASSUME TypeOK, NEW b \in Buffers, full' = Append(full, curr), curr' = b,
         UNCHANGED toWrite
  PROVE  Chain' = Append(Chain, b)
<1>1. toWrite \in Seq(Buffers) /\ full \in Seq(Buffers) /\ curr \in Buffers
  BY DEF TypeOK
<1>2. full' = full \o <<curr>>
  BY <1>1, AppendIsConcat
<1>3. toWrite \o (full \o <<curr>>) = (toWrite \o full) \o <<curr>>
  BY <1>1, LastAssociative
<1>4. Chain' = Chain \o <<b>>
  BY <1>2, <1>3 DEF Chain
<1>5. QED
  BY <1>4, ChainFacts, AppendIsConcat

(* So does the buffer that replaces the current one when Flush takes it; when
   Flush takes the queue, the chain stays what it is. *)
LEMMA TakeChain ==
  ASSUME TypeOK, toWrite = << >>, FlushTakes
  PROVE  /\ TakesCurrent => Chain' = Append(Chain, curr')
         /\ ~TakesCurrent => Chain' = Chain
<1> USE DEF TypeOK
<1>1. ASSUME TakesCurrent PROVE Chain' = Append(Chain, curr')
  <2>1. toWrite' = <<curr>> /\ full' = << >> /\ full = << >> /\ curr' \in Buffers
    BY <1>1 DEF FlushTakes, TimeUp, GivenBack, TakesCurrent
  <2>2. Chain = <<curr>>
    BY <2>1, ConcatEmptySeq DEF Chain
  <2>3. Chain' = <<curr>> \o <<curr'>>
    BY <2>1, ConcatEmptySeq DEF Chain
  <2>4. QED
    BY <2>1, <2>2, <2>3, ChainFacts, AppendIsConcat
<1>2. ASSUME ~TakesCurrent PROVE Chain' = Chain
  <2>1. toWrite' = full /\ full' = << >> /\ curr' = curr
    BY <1>2 DEF FlushTakes, TimeUp, GivenBack
  <2>2. toWrite' \o full' = full /\ toWrite \o full = full
    BY <2>1, ConcatEmptySeq
  <2>3. QED
    BY <2>1, <2>2 DEF Chain
<1>3. QED
  BY <1>1, <1>2

(* Head and tail of a sequence put together from three. *)
LEMMA TailOfChain ==
  ASSUME NEW S, NEW a \in Seq(S), NEW b \in Seq(S), NEW x \in S, a # << >>
  PROVE  /\ Head(a \o b \o <<x>>) = Head(a)
         /\ Tail(a \o b \o <<x>>) = Tail(a) \o b \o <<x>>
<1> DEFINE rest == b \o <<x>>
<1>a. <<x>> \in Seq(S)
  OBVIOUS
<1>1. rest \in Seq(S) /\ Tail(a) \in Seq(S)
  BY <1>a, ConcatProperties, HeadTailProperties
<1>b. a \o b \o <<x>> = a \o rest
  BY LastAssociative
<1>c. Tail(a) \o b \o <<x>> = Tail(a) \o rest
  BY <1>1, LastAssociative
<1> HIDE DEF rest
<1>2. a \o rest \in Seq(S) /\ a \o rest # << >>
      /\ Len(a \o rest) = Len(a) + Len(rest)
      /\ \A i \in 1 .. Len(a) + Len(rest) :
           (a \o rest)[i] = IF i <= Len(a) THEN a[i] ELSE rest[i - Len(a)]
  BY <1>1, ConcatProperties, ConcatEqualIffEmpty, ConcatSimplifications
<1>3. Len(a) \in Nat \ {0} /\ Len(rest) \in Nat
  BY <1>1, EmptySeq, LenProperties
<1>4. Head(a \o rest) = Head(a)
  BY <1>1, <1>2, <1>3
<1>5. Tail(a) \o rest = Tail(a \o rest)
  <2> DEFINE s == Tail(a) \o rest
             t == Tail(a \o rest)
  <2>1. s \in Seq(S) /\ t \in Seq(S)
    BY <1>1, <1>2, ConcatProperties, HeadTailProperties
  <2>2. Len(s) = Len(a) - 1 + Len(rest) /\ Len(t) = Len(s)
    BY <1>1, <1>2, <1>3, ConcatProperties, HeadTailProperties
  <2>3. ASSUME NEW i \in 1 .. Len(s) PROVE s[i] = t[i]
    <3>1. t[i] = (a \o rest)[i + 1]
      BY <1>2, <2>2, HeadTailProperties
    <3>2. CASE i <= Len(a) - 1
      <4>1. s[i] = Tail(a)[i]
        BY <1>1, <1>3, <2>2, <3>2, ConcatProperties, HeadTailProperties
      <4>2. Tail(a)[i] = a[i + 1]
        BY <1>3, <3>2, HeadTailProperties
      <4>3. QED
        BY <1>2, <1>3, <2>2, <3>1, <3>2, <4>1, <4>2
    <3>3. CASE i > Len(a) - 1
      <4>1. s[i] = rest[i - (Len(a) - 1)]
        BY <1>1, <1>3, <2>2, <3>3, ConcatProperties, HeadTailProperties
      <4>2. QED
        BY <1>2, <1>3, <2>2, <3>1, <3>3, <4>1
    <3>4. QED
      BY <1>3, <3>2, <3>3
  <2>4. QED
    BY <2>1, <2>2, <2>3, SeqEqual
<1>6. QED
  BY <1>4, <1>5, <1>b, <1>c

(* The buffer that is written leaves the chain at its head. *)
LEMMA WriteChain ==
  ASSUME TypeOK, toWrite # << >>, toWrite' = Tail(toWrite), UNCHANGED <<full, curr>>
  PROVE  Head(toWrite) = Head(Chain) /\ Chain' = Tail(Chain)
<1>1. toWrite \in Seq(Buffers) /\ full \in Seq(Buffers) /\ curr \in Buffers
  BY DEF TypeOK
<1>2. /\ Head(toWrite \o full \o <<curr>>) = Head(toWrite)
      /\ Tail(toWrite \o full \o <<curr>>) = Tail(toWrite) \o full \o <<curr>>
  BY <1>1, TailOfChain
<1>3. Chain' = Tail(toWrite) \o full \o <<curr>>
  BY DEF Chain
<1>4. QED
  BY <1>2, <1>3 DEF Chain

-----------------------------------------------------------------------------
(* Control: the flush thread holds buffers only while it writes (toWrite) or
   until it has given them back (released), and runs only between Start and
   the join in Stop. *)
ControlOK ==
  /\ fpc # "writing" => toWrite = << >>
  /\ fpc \in {"none", "exited"} => released = {}
  /\ spc \in {"idle", "flushing", "resetting", "stopped"} => fpc = "none"
  /\ FirstRun => spc \in {"idle", "up", "joining"}

(* The buffers' part of the inductive invariant. *)
PoolInv == TypeOK /\ ControlOK /\ BuffersApart /\ PoolWhole

(* No step makes two owners of one buffer, and none loses one. *)
LEMMA PoolStep == PoolInv /\ [Next]_vars => PoolInv'
<1> SUFFICES ASSUME PoolInv, [Next]_vars
             PROVE  PoolInv'
  OBVIOUS
<1>a. TypeOK /\ TypeOK'
  BY LogTypeStep DEF PoolInv
<1>b. ControlOK /\ BuffersApart /\ PoolWhole
  BY DEF PoolInv
<1>c. ASSUME UNCHANGED <<toWrite, full, curr>>
      PROVE  Chain' = Chain /\ Queued' = Queued
  BY <1>c DEF Chain, Queued
<1> USE DEF poolVars, flushVars, dataVars, ctlVars, fileVars
<1>1. ASSUME UNCHANGED <<toWrite, full, curr, empty, released, used, content, stops>>,
             ControlOK',
             fpc # "exited" \/ fpc' = "exited"
      PROVE  PoolInv'
  BY <1>1, <1>a, <1>b, <1>c DEF PoolInv, BuffersApart, PoolWhole, FirstRun
<1>2. CASE Tick \/ UNCHANGED vars \/ \E w \in Writers : Format(w)
           \/ \E len \in RecLens : WriteDiscards(w, len)
  <2>1. UNCHANGED <<toWrite, full, curr, empty, released, used, content, stops, fpc, spc>>
    BY <1>2 DEF Tick, vars, Format, WriteDiscards
  <2>2. QED
    BY <2>1, <1>a, <1>b, <1>c DEF PoolInv, BuffersApart, PoolWhole, ControlOK, FirstRun
<1>3. CASE Start \/ StopBegins \/ FlushDone
  <2>1. ControlOK'
    BY <1>3, <1>b DEF Start, StopBegins, FlushDone, ControlOK, FirstRun
  <2>2. /\ UNCHANGED <<toWrite, full, curr, empty, released, used, content, stops>>
        /\ fpc # "exited" \/ fpc' = "exited"
    BY <1>3, <1>b DEF Start, StopBegins, FlushDone, ControlOK
  <2>3. QED
    BY <2>1, <2>2, <1>1
<1>4. CASE StopJoins \/ StopWrites
  <2>1. ControlOK' /\ ~FirstRun'
    BY <1>4, <1>a, <1>b DEF StopJoins, StopWrites, ControlOK, FirstRun, TypeOK
  <2>2. UNCHANGED <<toWrite, full, curr, empty, released, used, content>>
    BY <1>4 DEF StopJoins, StopWrites
  <2>3. QED
    BY <2>1, <2>2, <1>a, <1>b, <1>c DEF PoolInv, BuffersApart, PoolWhole
<1>5. CASE StopResets
  <2>1. ControlOK' /\ ~FirstRun'
    BY <1>5, <1>a, <1>b DEF StopResets, ControlOK, FirstRun, TypeOK
  <2>2. Chain' = Chain /\ Queued' = Queued /\ empty' = empty /\ released' = released
    BY <1>5, <1>c DEF StopResets
  <2>3. \A b \in empty \cup released : used'[b] = used[b] /\ content'[b] = content[b]
    BY <1>5, <1>a, <1>b, ChainFacts DEF StopResets, Reset, BuffersApart, TypeOK
  <2>4. BuffersApart'
    BY <2>2, <2>3, <1>b DEF BuffersApart
  <2>5. QED
    BY <2>1, <2>4, <1>a DEF PoolInv, PoolWhole
<1>6. CASE FlushLoop
  <2>1. ControlOK'
    BY <1>6, <1>b DEF FlushLoop, ControlOK, FirstRun
  <2>2. Chain' = Chain /\ Queued' = Queued /\ empty' = empty /\ released' \subseteq released
    BY <1>6, <1>c DEF FlushLoop
  <2>3. BuffersApart'
    BY <1>6, <2>2, <1>b DEF FlushLoop, BuffersApart
  <2>4. PoolWhole'
    BY <1>6, <2>2, <1>b DEF FlushLoop, PoolWhole, FirstRun
  <2>5. QED
    BY <2>1, <2>3, <2>4, <1>a DEF PoolInv
<1>7. CASE FlushTakes
  <2>1. toWrite = << >> /\ fpc = "waiting" /\ fpc' = "writing" /\ released' = {}
        /\ UNCHANGED <<used, content, stops, spc>>
    BY <1>7, <1>b DEF FlushTakes, TimeUp, GivenBack, ControlOK
  <2>2. ControlOK'
    BY <2>1, <1>b DEF ControlOK, FirstRun
  <2>3. CASE TakesCurrent
    <3>1. Chain' = Append(Chain, curr')
      BY <2>1, <2>3, <1>7, <1>a, TakeChain
    <3>2. curr' \in empty \cup released /\ empty' = (empty \cup released) \ {curr'}
      BY <1>7, <2>3 DEF FlushTakes, TimeUp, GivenBack
    <3>3. curr' \in Buffers /\ curr' \notin Queued
      BY <3>2, <1>a, <1>b DEF BuffersApart, TypeOK
    <3>4. Queued' = Queued \cup {curr'} /\ Distinct(Chain')
      BY <3>1, <3>3, <1>a, <1>b, ChainFacts, AppendElems DEF Queued, BuffersApart
    <3>5. BuffersApart'
      BY <2>1, <3>2, <3>4, <1>b DEF BuffersApart
    <3>6. PoolWhole'
      BY <2>1, <3>2, <3>4, <1>b DEF PoolWhole, FirstRun
    <3>7. QED
      BY <2>2, <3>5, <3>6, <1>a DEF PoolInv
  <2>4. CASE ~TakesCurrent
    <3>1. Chain' = Chain /\ Queued' = Queued
      BY <2>1, <2>4, <1>7, <1>a, TakeChain DEF Queued
    <3>2. empty' = empty \cup released
      BY <1>7, <2>4 DEF FlushTakes, TimeUp, GivenBack
    <3>3. BuffersApart' /\ PoolWhole'
      BY <2>1, <3>1, <3>2, <1>b DEF BuffersApart, PoolWhole, FirstRun
    <3>4. QED
      BY <2>2, <3>3, <1>a DEF PoolInv
  <2>5. QED
    BY <2>3, <2>4
<1>8. CASE FlushWrites
  <2> DEFINE h == Head(toWrite)
  <2>1. h = Head(Chain) /\ Chain' = Tail(Chain)
    BY <1>8, <1>a, WriteChain DEF FlushWrites, RollFile
  <2>2. Queued' = Queued \ {h} /\ h \in Queued /\ Distinct(Chain')
    BY <2>1, <1>a, <1>b, ChainFacts, TailElems DEF Queued, BuffersApart
  <2>3. h \in Buffers
    BY <2>2, <1>a, ChainFacts
  <2>4. empty' = empty /\ released' = released \cup {h}
        /\ content' = [content EXCEPT ![h] = {}] /\ used' = [used EXCEPT ![h] = 0]
        /\ UNCHANGED <<fpc, spc, stops>> /\ fpc = "writing"
    BY <1>8 DEF FlushWrites, RollFile, Reset
  <2> HIDE DEF h
  <2>5. BuffersApart'
    BY <2>2, <2>3, <2>4, <1>a, <1>b DEF BuffersApart, TypeOK
  <2>6. PoolWhole' /\ ControlOK'
    BY <2>2, <2>4, <1>b DEF PoolWhole, ControlOK, FirstRun
  <2>7. QED
    BY <2>5, <2>6, <1>a DEF PoolInv
<1>9. ASSUME NEW w \in Writers, NEW len \in RecLens, WriteFits(w, len)
      PROVE  PoolInv'
  <2>1. Chain' = Chain /\ Queued' = Queued
        /\ UNCHANGED <<empty, released, fpc, spc, stops, toWrite>>
    BY <1>9, <1>c DEF WriteFits
  <2>2. \A b \in empty \cup released : used'[b] = used[b] /\ content'[b] = content[b]
    BY <1>9, <1>a, <1>b, ChainFacts DEF WriteFits, AppendTo, BuffersApart, TypeOK
  <2>3. BuffersApart' /\ PoolWhole' /\ ControlOK'
    BY <2>1, <2>2, <1>b DEF BuffersApart, PoolWhole, ControlOK, FirstRun
  <2>4. QED
    BY <2>3, <1>a DEF PoolInv
<1>10. ASSUME NEW w \in Writers, NEW len \in RecLens, WriteSwitches(w, len)
       PROVE  PoolInv'
  <2>1. PICK b \in empty : /\ full' = Append(full, curr)
                           /\ curr' = b
                           /\ empty' = empty \ {b}
                           /\ AppendTo(b, w, len)
    BY <1>10 DEF WriteSwitches, Enqueue
  <2>2. b \in Buffers /\ b \notin Queued
    BY <1>a, <1>b DEF BuffersApart, TypeOK
  <2>3. UNCHANGED <<toWrite, released, fpc, spc, stops>>
    BY <1>10 DEF WriteSwitches, Enqueue
  <2>4. Chain' = Append(Chain, b)
    BY <2>1, <2>2, <2>3, <1>a, SwitchChain
  <2>5. Queued' = Queued \cup {b} /\ Distinct(Chain')
    BY <2>2, <2>4, <1>a, <1>b, ChainFacts, AppendElems DEF Queued, BuffersApart
  <2>6. \A c \in empty' \cup released' : used'[c] = used[c] /\ content'[c] = content[c]
    BY <2>1, <2>3, <1>a, <1>b DEF AppendTo, BuffersApart, TypeOK
  <2>7. BuffersApart'
    BY <2>1, <2>3, <2>5, <2>6, <1>b DEF BuffersApart
  <2>8. PoolWhole' /\ ControlOK'
    BY <2>1, <2>3, <2>5, <1>b DEF PoolWhole, ControlOK, FirstRun
  <2>9. QED
    BY <2>7, <2>8, <1>a DEF PoolInv
<1>11. QED
  BY <1>2, <1>3, <1>4, <1>5, <1>6, <1>7, <1>8, <1>9, <1>10
     DEF Next, Write, Flush, Stop

(* At the start all buffers but the current one are empty and in place. *)
LEMMA PoolInit == Init => PoolInv
<1> SUFFICES ASSUME Init PROVE PoolInv
  OBVIOUS
<1>1. TypeOK
  <2>1. /\ 0 \in 0 .. MaxHour /\ 0 \in 0 .. Capacity
        /\ << >> \in Seq(Buffers)
    BY LoggerAssumption
  <2>2. /\ content \in [Buffers -> SUBSET Records]
        /\ used \in [Buffers -> 0 .. Capacity]
        /\ pend \in [Writers -> Hours \cup {NoHour}]
    BY <2>1 DEF Init
  <2>3. curr \in Buffers
    <3>1. \E b \in Buffers : TRUE
      BY LoggerAssumption, FS_EmptySet
    <3>2. QED
      BY <3>1 DEF Init
  <2>4. QED
    BY <2>1, <2>2, <2>3 DEF Init, TypeOK, Hours
<1>2. Chain = <<curr>>
  <2>1. << >> \o << >> = << >> /\ << >> \o <<curr>> = <<curr>>
    BY ConcatEmptySeq
  <2>2. QED
    BY <2>1 DEF Init, Chain
<1>3. Queued = {curr} /\ Distinct(Chain)
  BY <1>2 DEF Queued, Elems, Distinct
<1>4. ControlOK /\ BuffersApart /\ PoolWhole
  BY <1>1, <1>3 DEF TypeOK, Init, ControlOK, BuffersApart, PoolWhole, FirstRun
<1>5. QED
  BY <1>1, <1>4 DEF PoolInv

(* The conjunction of the buffers' invariants holds throughout. *)
LEMMA PoolInvariant == Spec => []PoolInv
  BY PoolInit, PoolStep, PTL DEF Spec

(* The types of Logger, m_used <= m_length among them. *)
THEOREM LogTypeCorrect == Spec => []TypeOK
  BY PoolInvariant, PTL DEF PoolInv

(* A buffer never has two owners among the five containers that pass it on,
   and what Write takes from m_empty_buffers has been reset - also across
   restarts. *)
THEOREM OneOwnerPerBuffer == Spec => []BuffersApart
  BY PoolInvariant, PTL DEF PoolInv

(* No buffer goes astray while the first flush thread runs: the queues, the
   flush thread's deques and the current buffer hold all of them. *)
THEOREM PoolStaysWhole == Spec => []PoolWhole
  BY PoolInvariant, PTL DEF PoolInv

(* Until the flush thread ends for the first time, the assertion in Flush
   holds: whenever it takes the current buffer, another one is there. *)
THEOREM FlushAssertionHolds == Spec => []TakeFindsEmptyAtFirst
<1>1. PoolInv => TakeFindsEmptyAtFirst
  <2> SUFFICES ASSUME PoolInv, FirstRun, fpc = "waiting", TakesCurrent,
                      empty \cup released = {}
               PROVE  FALSE
    BY DEF TakeFindsEmptyAtFirst, TakeFindsEmpty
  <2>1. TypeOK /\ toWrite = << >> /\ full = << >>
    BY DEF PoolInv, ControlOK, TakesCurrent
  <2>2. Chain = <<curr>>
    BY <2>1, ConcatEmptySeq DEF Chain, TypeOK
  <2>3. Queued = {curr}
    BY <2>2 DEF Queued, Elems
  <2>4. Buffers = {curr}
    BY <2>3 DEF PoolInv, PoolWhole
  <2>5. Cardinality(Buffers) = 1
    BY <2>4, FS_Singleton
  <2>6. QED
    BY <2>5, LoggerAssumption
<1>2. QED
  BY <1>1, PoolInvariant, PTL

(* If no record is longer than a buffer, the assertion in Write holds. *)
THEOREM WriteAssertionHolds ==
  ASSUME RecLens \subseteq 0 .. Capacity
  PROVE  Spec => []SwitchFits
<1>1. PoolInv => SwitchFits
  BY LoggerAssumption DEF PoolInv, BuffersApart, SwitchFits, Fits
<1>2. QED
  BY <1>1, PoolInvariant, PTL

(* The current buffer ends the chain. *)
LEMMA LastOfChain == ASSUME TypeOK PROVE Chain[Len(Chain)] = curr
<1>1. toWrite \o full \in Seq(Buffers) /\ curr \in Buffers
  BY ConcatProperties DEF TypeOK
<1>2. Chain = Append(toWrite \o full, curr)
  BY <1>1, AppendIsConcat DEF Chain
<1>3. QED
  BY <1>1, <1>2, AppendProperties

-----------------------------------------------------------------------------
(* The records.  s is a chain of buffers with the contents c; f is the file
   and k the number of accepted records. *)

(* The records of a buffer are older than those of the buffers behind it. *)
InOrder(s, c) ==
  \A i, j \in 1 .. Len(s) : i < j => \A r \in c[s[i]], q \in c[s[j]] : r.n < q.n

(* Every accepted record is in the file or in the chain, and the file is older
   than the chain. *)
FileThenChain(s, c, f, k) ==
  /\ \A n \in 1 .. k : (\E r \in f : r.n = n) \/ (\E b \in Elems(s) : \E r \in c[b] : r.n = n)
  /\ \A r \in f, b \in Elems(s) : \A q \in c[b] : r.n < q.n
  /\ InOrder(s, c)

(* A buffer without records may join the chain. *)
LEMMA EmptyJoins ==
  ASSUME NEW s \in Seq(Buffers), NEW c, NEW f, NEW k, NEW b \in Buffers,
         FileThenChain(s, c, f, k), c[b] = {}
  PROVE  FileThenChain(Append(s, b), c, f, k)
<1> DEFINE t == Append(s, b)
<1>1. /\ Len(t) = Len(s) + 1 /\ Len(s) \in Nat
      /\ \A i \in 1 .. Len(s) : t[i] = s[i]
      /\ t[Len(s) + 1] = b
  BY AppendProperties
<1>2. Elems(t) = Elems(s) \cup {b}
  BY AppendElems
<1> HIDE DEF t
<1>3. InOrder(t, c)
  <2> SUFFICES ASSUME NEW i \in 1 .. Len(t), NEW j \in 1 .. Len(t), i < j,
                      NEW r \in c[t[i]], NEW q \in c[t[j]]
               PROVE  r.n < q.n
    BY DEF InOrder
  <2>1. j # Len(s) + 1
    BY <1>1
  <2>2. i \in 1 .. Len(s) /\ j \in 1 .. Len(s)
    BY <1>1, <2>1
  <2>3. QED
    BY <1>1, <2>2 DEF FileThenChain, InOrder
<1>4. QED
  BY <1>2, <1>3 DEF FileThenChain, t

(* The next record may join the last buffer of the chain. *)
LEMMA RecordJoins ==
  ASSUME NEW s \in Seq(Buffers), NEW c \in [Buffers -> SUBSET Records], NEW f, NEW k \in Nat,
         FileThenChain(s, c, f, k), s # << >>, Distinct(s),
         \A r \in f : r.n \in 1 .. k,
         \A b \in Buffers : \A r \in c[b] : r.n \in 1 .. k,
         NEW x \in Records, x.n = k + 1
  PROVE  FileThenChain(s, [c EXCEPT ![s[Len(s)]] = @ \cup {x}], f, k + 1)
<1> DEFINE last == s[Len(s)]
           d    == [c EXCEPT ![last] = @ \cup {x}]
<1>1. Len(s) \in Nat \ {0} /\ \A i \in 1 .. Len(s) : s[i] \in Buffers
  BY EmptySeq, ElementOfSeq
<1>2. last \in Buffers /\ last \in Elems(s)
  BY <1>1 DEF Elems
<1>3. Elems(s) \subseteq Buffers
  BY <1>1 DEF Elems
<1>4. /\ d[last] = c[last] \cup {x}
      /\ \A b \in Buffers : b # last => d[b] = c[b]
  BY <1>2
<1> HIDE DEF d
<1>5. \A n \in 1 .. k + 1 :
        (\E r \in f : r.n = n) \/ (\E b \in Elems(s) : \E r \in d[b] : r.n = n)
  <2> SUFFICES ASSUME NEW n \in 1 .. k + 1, ~ \E r \in f : r.n = n
               PROVE  \E b \in Elems(s) : \E r \in d[b] : r.n = n
    OBVIOUS
  <2>1. CASE n = k + 1
    BY <1>2, <1>4, <2>1
  <2>2. CASE n # k + 1
    <3>1. n \in 1 .. k
      BY <2>2
    <3>2. PICK b \in Elems(s) : \E r \in c[b] : r.n = n
      BY <3>1 DEF FileThenChain
    <3>3. c[b] \subseteq d[b]
      BY <1>3, <1>4
    <3>4. QED
      BY <3>2, <3>3
  <2>3. QED
    BY <2>1, <2>2
<1>6. \A r \in f, b \in Elems(s) : \A q \in d[b] : r.n < q.n
  <2> SUFFICES ASSUME NEW r \in f, NEW b \in Elems(s), NEW q \in d[b]
               PROVE  r.n < q.n
    OBVIOUS
  <2>1. q \in c[b] \/ q = x
    BY <1>3, <1>4
  <2>2. CASE q = x
    BY <2>2
  <2>3. CASE q \in c[b]
    BY <2>3 DEF FileThenChain
  <2>4. QED
    BY <2>1, <2>2, <2>3
<1>7. InOrder(s, d)
  <2> SUFFICES ASSUME NEW i \in 1 .. Len(s), NEW j \in 1 .. Len(s), i < j,
                      NEW r \in d[s[i]], NEW q \in d[s[j]]
               PROVE  r.n < q.n
    BY DEF InOrder
  <2>1. s[i] # last /\ s[i] \in Buffers /\ s[j] \in Buffers
    BY <1>1 DEF Distinct
  <2>2. r \in c[s[i]] /\ (q \in c[s[j]] \/ q = x)
    BY <1>4, <2>1
  <2>3. r.n \in 1 .. k
    BY <2>1, <2>2
  <2>4. CASE q = x
    BY <2>3, <2>4
  <2>5. CASE q \in c[s[j]]
    BY <2>2, <2>5 DEF FileThenChain, InOrder
  <2>6. QED
    BY <2>2, <2>4, <2>5
<1>8. QED
  BY <1>5, <1>6, <1>7 DEF FileThenChain, d

(* Writing the first buffer of the chain moves its records to the file. *)
LEMMA HeadIsWritten ==
  ASSUME NEW s \in Seq(Buffers), NEW c \in [Buffers -> SUBSET Records], NEW f, NEW k \in Nat,
         FileThenChain(s, c, f, k), s # << >>, Distinct(s), NEW g, f \subseteq g,
         \A r \in g : r \in f \/ \E q \in c[Head(s)] : r.n = q.n,
         \A r \in c[Head(s)] : \E q \in g : q.n = r.n
  PROVE  /\ FileThenChain(Tail(s), [c EXCEPT ![Head(s)] = {}], g, k)
         /\ \A r \in g \ f, q \in f : q.n < r.n
<1> DEFINE d == [c EXCEPT ![Head(s)] = {}]
           t == Tail(s)
<1>1. /\ Elems(t) = Elems(s) \ {Head(s)} /\ Head(s) \in Elems(s)
  BY TailElems
<1>2. /\ t \in Seq(Buffers) /\ Len(t) = Len(s) - 1 /\ Len(s) \in Nat \ {0}
      /\ \A i \in 1 .. Len(t) : t[i] = s[i + 1]
      /\ Head(s) = s[1]
  BY HeadTailProperties, EmptySeq
<1>3. \A i \in 1 .. Len(s) : s[i] \in Buffers
  BY ElementOfSeq
<1>4. Elems(s) \subseteq Buffers
  BY <1>3 DEF Elems
<1>5. \A b \in Elems(t) : d[b] = c[b]
  BY <1>1, <1>4
<1> HIDE DEF d, t
<1>6. \A n \in 1 .. k :
        (\E r \in g : r.n = n) \/ (\E b \in Elems(t) : \E r \in d[b] : r.n = n)
  <2> SUFFICES ASSUME NEW n \in 1 .. k, ~ \E r \in g : r.n = n
               PROVE  \E b \in Elems(t) : \E r \in d[b] : r.n = n
    OBVIOUS
  <2>1. ~ \E r \in f : r.n = n
    OBVIOUS
  <2>2. PICK b \in Elems(s) : \E r \in c[b] : r.n = n
    BY <2>1 DEF FileThenChain
  <2>3. b # Head(s)
    BY <2>2
  <2>4. QED
    BY <1>1, <1>5, <2>2, <2>3
<1>7. \A b \in Elems(t) : \A r \in c[Head(s)], q \in c[b] : r.n < q.n
  <2> SUFFICES ASSUME NEW b \in Elems(t), NEW r \in c[Head(s)], NEW q \in c[b]
               PROVE  r.n < q.n
    OBVIOUS
  <2>1. PICK i \in 1 .. Len(t) : b = t[i]
    BY DEF Elems
  <2>2. i + 1 \in 1 .. Len(s) /\ 1 \in 1 .. Len(s) /\ 1 < i + 1 /\ b = s[i + 1]
    BY <1>2, <2>1
  <2>3. QED
    BY <1>2, <2>2 DEF FileThenChain, InOrder
<1>8. \A r \in g, b \in Elems(t) : \A q \in d[b] : r.n < q.n
  <2> SUFFICES ASSUME NEW r \in g, NEW b \in Elems(t), NEW q \in d[b]
               PROVE  r.n < q.n
    OBVIOUS
  <2>1. q \in c[b] /\ b \in Elems(s)
    BY <1>1, <1>5
  <2>2. CASE r \in f
    BY <2>1, <2>2 DEF FileThenChain
  <2>3. CASE r \notin f
    BY <1>7, <2>1, <2>3
  <2>4. QED
    BY <2>2, <2>3
<1>9. InOrder(t, d)
  <2> SUFFICES ASSUME NEW i \in 1 .. Len(t), NEW j \in 1 .. Len(t), i < j,
                      NEW r \in d[t[i]], NEW q \in d[t[j]]
               PROVE  r.n < q.n
    BY DEF InOrder
  <2>1. t[i] \in Elems(t) /\ t[j] \in Elems(t)
    BY DEF Elems
  <2>2. r \in c[t[i]] /\ q \in c[t[j]]
    BY <1>5, <2>1
  <2>3. i + 1 \in 1 .. Len(s) /\ j + 1 \in 1 .. Len(s) /\ i + 1 < j + 1
    BY <1>2
  <2>4. t[i] = s[i + 1] /\ t[j] = s[j + 1]
    BY <1>2
  <2>5. \A x \in c[s[i + 1]], y \in c[s[j + 1]] : x.n < y.n
    BY <2>3 DEF FileThenChain, InOrder
  <2>6. QED
    BY <2>2, <2>4, <2>5
<1>10. \A r \in g \ f, q \in f : q.n < r.n
  BY <1>1 DEF FileThenChain
<1>11. QED
  BY <1>6, <1>8, <1>9, <1>10 DEF FileThenChain, d, t

(* What the flush thread keeps of the records until Stop joins it. *)
RecordsInv ==
  /\ \A w \in Writers : pend[w] # NoHour => pend[w] <= now
  /\ \A b \in Buffers : \A r \in content[b] : r.hour <= now /\ r.n \in 1 .. accepted
  /\ \A r \in file : r.n \in 1 .. accepted
  /\ FirstRun => /\ \A r \in file : r.hour <= r.in
                 /\ FileThenChain(Chain, content, file, accepted)

(* A record Write appends to a buffer is the next one, and not from the
   future. *)
LEMMA RecordAccepted ==
  ASSUME TypeOK, RecordsInv, NEW w \in Writers, pend[w] # NoHour,
         NEW b \in Buffers, NEW len, AppendTo(b, w, len)
  PROVE  \E x \in Records :
           /\ x.n = accepted + 1 /\ x.hour <= now
           /\ content' = [content EXCEPT ![b] = @ \cup {x}]
           /\ accepted' = accepted + 1
           /\ \A v \in Writers : pend'[v] # NoHour => pend'[v] = pend[v]
<1> DEFINE x == [n |-> accepted + 1, hour |-> pend[w]]
<1>1. x \in Records /\ x.n = accepted + 1 /\ x.hour <= now
  BY DEF TypeOK, Records, RecordsInv
<1>2. accepted' = accepted + 1 /\ content' = [content EXCEPT ![b] = @ \cup {x}]
  BY DEF AppendTo
<1>3. \A v \in Writers : pend'[v] # NoHour => pend'[v] = pend[v]
  BY DEF AppendTo, TypeOK
<1> HIDE DEF x
<1>4. QED
  BY <1>1, <1>2, <1>3

(* No step puts a record in the wrong place. *)
LEMMA RecordsStep == PoolInv /\ RecordsInv /\ [Next]_vars => RecordsInv'
<1> SUFFICES ASSUME PoolInv, RecordsInv, [Next]_vars
             PROVE  RecordsInv'
  OBVIOUS
<1>a. TypeOK /\ TypeOK' /\ ControlOK /\ BuffersApart
  BY LogTypeStep DEF PoolInv
<1>b. /\ Chain \in Seq(Buffers) /\ Chain # << >>
      /\ Distinct(Chain)
  BY <1>a, ChainFacts DEF BuffersApart
<1>c. ASSUME UNCHANGED <<toWrite, full, curr>>
      PROVE  Chain' = Chain
  BY <1>c DEF Chain
<1> USE DEF poolVars, flushVars, dataVars, ctlVars, fileVars
<1>1. ASSUME UNCHANGED <<content, accepted, file>>,
             now <= now',
             \A w \in Writers : pend'[w] \in {pend[w], now, NoHour},
             FirstRun' => FirstRun /\ FileThenChain(Chain', content, file, accepted)
      PROVE  RecordsInv'
  <2>1. \A w \in Writers : pend'[w] # NoHour => pend'[w] <= now'
    <3>1. /\ now \in Nat /\ now' \in Nat
          /\ \A w \in Writers : pend[w] # NoHour => pend[w] \in Nat /\ pend[w] <= now
      BY <1>a, LoggerAssumption DEF RecordsInv, TypeOK, Hours
    <3>2. \A w \in Writers : pend[w] # NoHour => pend[w] <= now'
      BY <3>1, <1>1
    <3>3. QED
      BY <1>1, <3>2
  <2>2. \A b \in Buffers : \A r \in content[b] : r.hour <= now'
    <3>1. content \in [Buffers -> SUBSET Records] /\ now \in Nat /\ now' \in Nat
      BY <1>a, LoggerAssumption DEF TypeOK, Hours
    <3>2. \A r \in Records : r.hour \in Nat
      BY LoggerAssumption DEF Records, Hours
    <3>3. \A b \in Buffers : \A r \in content[b] : r.hour \in Nat /\ r.hour <= now
      BY <3>1, <3>2 DEF RecordsInv
    <3>4. QED
      BY <1>1, <3>1, <3>3
  <2>3. QED
    BY <2>1, <2>2, <1>1 DEF RecordsInv
<1>2. CASE Tick \/ UNCHANGED vars \/ \E w \in Writers : Format(w)
           \/ \E len \in RecLens : WriteDiscards(w, len)
  <2>1. UNCHANGED <<toWrite, full, curr, content, accepted, file, stops>>
    BY <1>2 DEF Tick, vars, Format, WriteDiscards
  <2>2. now <= now'
    BY <1>2, <1>a DEF Tick, vars, Format, WriteDiscards, TypeOK, Hours
  <2>3. \A w \in Writers : pend'[w] \in {pend[w], now, NoHour}
    BY <1>2, <1>a DEF Tick, vars, Format, WriteDiscards, TypeOK
  <2>4. QED
    BY <2>1, <2>2, <2>3, <1>1, <1>c DEF RecordsInv, FirstRun
<1>3. CASE Start \/ StopBegins \/ FlushDone \/ FlushLoop
  <2>1. UNCHANGED <<toWrite, full, curr, content, accepted, file, stops, now, pend>>
    BY <1>3 DEF Start, StopBegins, FlushDone, FlushLoop
  <2>2. now <= now'
    BY <2>1, <1>a DEF TypeOK, Hours
  <2>3. QED
    BY <2>1, <2>2, <1>1, <1>c DEF RecordsInv, FirstRun
<1>4. CASE StopJoins
  <2>1. ~FirstRun'
    BY <1>4, <1>a DEF StopJoins, FirstRun, TypeOK
  <2>2. now <= now'
    BY <1>4, <1>a DEF StopJoins, TypeOK, Hours
  <2>3. QED
    BY <1>1, <1>4, <2>1, <2>2 DEF StopJoins
<1>5. CASE StopWrites
  <2>1. ~FirstRun'
    BY <1>5, <1>a DEF StopWrites, ControlOK, FirstRun
  <2>2. \A r \in file' : r.n \in 1 .. accepted
    BY <1>5, <1>a DEF StopWrites, Written, RecordsInv, TypeOK
  <2>3. QED
    BY <1>5, <2>1, <2>2 DEF StopWrites, RecordsInv
<1>6. CASE StopResets
  <2>1. ~FirstRun'
    BY <1>6, <1>a DEF StopResets, ControlOK, FirstRun
  <2>2. \A b \in Buffers : content'[b] \subseteq content[b]
    BY <1>6, <1>a DEF StopResets, Reset, TypeOK
  <2>3. QED
    BY <1>6, <2>1, <2>2 DEF StopResets, RecordsInv
<1>7. CASE FlushTakes
  <2>1. toWrite = << >> /\ UNCHANGED <<content, accepted, file, stops, now, pend>>
    BY <1>7, <1>a DEF FlushTakes, ControlOK
  <2>2. FirstRun => FileThenChain(Chain', content, file, accepted)
    <3>1. CASE TakesCurrent
      <4>1. Chain' = Append(Chain, curr')
        BY <2>1, <3>1, <1>7, <1>a, TakeChain
      <4>2. curr' \in empty \cup released
        BY <1>7, <3>1 DEF FlushTakes, GivenBack
      <4>3. curr' \in Buffers /\ content[curr'] = {}
        BY <4>2, <1>a DEF BuffersApart, TypeOK
      <4>4. QED
        BY <4>1, <4>3, <1>b, EmptyJoins DEF RecordsInv
    <3>2. CASE ~TakesCurrent
      <4>1. Chain' = Chain
        BY <2>1, <3>2, <1>7, <1>a, TakeChain
      <4>2. QED
        BY <4>1 DEF RecordsInv
    <3>3. QED
      BY <3>1, <3>2
  <2>3. now <= now'
    BY <2>1, <1>a DEF TypeOK, Hours
  <2>4. QED
    BY <2>1, <2>2, <2>3, <1>1 DEF FirstRun
<1>8. CASE FlushWrites
  <2> DEFINE h == Head(toWrite)
  <2>1. h = Head(Chain) /\ Chain' = Tail(Chain)
    BY <1>8, <1>a, WriteChain DEF FlushWrites
  <2>2. /\ content' = [content EXCEPT ![h] = {}]
        /\ file' = file \cup {[n |-> r.n, hour |-> r.hour, in |-> now] : r \in content[h]}
        /\ UNCHANGED <<accepted, stops, now, pend>>
    BY <1>8 DEF FlushWrites, RollFile, Reset, Written
  <2>3. h \in Buffers
    BY <2>1, <1>b, HeadTailProperties
  <2> HIDE DEF h
  <2>4. \A b \in Buffers : content'[b] \subseteq content[b]
    BY <2>2, <2>3, <1>a DEF TypeOK
  <2>5. \A r \in file' : r \in file \/ \E q \in content[h] : r.n = q.n /\ r.hour = q.hour /\ r.in = now
    BY <2>2
  <2>6. \A r \in file' : r.n \in 1 .. accepted
    BY <2>3, <2>5 DEF RecordsInv
  <2>7. ASSUME FirstRun'
        PROVE  /\ \A r \in file' : r.hour <= r.in
               /\ FileThenChain(Chain', content', file', accepted)
    <3>1. FirstRun
      BY <2>2, <2>7 DEF FirstRun
    <3>2. \A r \in file' : r.hour <= r.in
      BY <2>3, <2>5, <3>1 DEF RecordsInv
    <3>3. content \in [Buffers -> SUBSET Records] /\ accepted \in Nat
      BY <1>a DEF TypeOK
    <3>4. FileThenChain(Chain, content, file, accepted)
      BY <3>1 DEF RecordsInv
    <3>5. \A r \in content[h] : \E q \in file' : q.n = r.n
      <4> SUFFICES ASSUME NEW r \in content[h]
                   PROVE  \E q \in file' : q.n = r.n
        OBVIOUS
      <4>1. [n |-> r.n, hour |-> r.hour, in |-> now] \in file'
        BY <2>2
      <4>2. [n |-> r.n, hour |-> r.hour, in |-> now].n = r.n
        OBVIOUS
      <4>3. QED
        BY <4>1, <4>2
    <3>6. FileThenChain(Tail(Chain), [content EXCEPT ![Head(Chain)] = {}], file', accepted)
      <4>1. file \subseteq file'
        BY <2>2
      <4>2. \A r \in file' : r \in file \/ \E q \in content[h] : r.n = q.n
        BY <2>5
      <4>3. QED
        BY <2>1, <3>3, <3>4, <3>5, <4>1, <4>2, <1>b, HeadIsWritten
    <3>7. QED
      BY <2>1, <2>2, <3>2, <3>6
  <2>8. QED
    BY <2>2, <2>4, <2>6, <2>7 DEF RecordsInv
<1>9. ASSUME NEW w \in Writers, pend[w] # NoHour, NEW b \in Buffers, NEW len,
             AppendTo(b, w, len), UNCHANGED <<file, now, stops>>,
             Chain' \in Seq(Buffers), Chain' # << >>, Distinct(Chain'),
             b = Chain'[Len(Chain')],
             FirstRun => FileThenChain(Chain', content, file, accepted)
      PROVE  RecordsInv'
  <2>1. PICK x \in Records :
           /\ x.n = accepted + 1 /\ x.hour <= now
           /\ content' = [content EXCEPT ![b] = @ \cup {x}]
           /\ accepted' = accepted + 1
           /\ \A v \in Writers : pend'[v] # NoHour => pend'[v] = pend[v]
    BY <1>9, <1>a, RecordAccepted
  <2>2. content \in [Buffers -> SUBSET Records] /\ accepted \in Nat
    BY <1>a DEF TypeOK
  <2>3. \A c \in Buffers : \A r \in content'[c] : r \in content[c] \/ r = x
    BY <2>1, <2>2
  <2>4. 1 .. accepted \subseteq 1 .. accepted + 1 /\ accepted + 1 \in 1 .. accepted + 1
    BY <2>2
  <2>5. \A c \in Buffers : \A r \in content'[c] : r.hour <= now /\ r.n \in 1 .. accepted + 1
    BY <2>1, <2>3, <2>4 DEF RecordsInv
  <2>6. FirstRun => FileThenChain(Chain', content', file, accepted + 1)
    BY <1>9, <2>1, <2>2, RecordJoins DEF RecordsInv
  <2>7. \A v \in Writers : pend'[v] # NoHour => pend'[v] <= now
    BY <2>1 DEF RecordsInv
  <2>8. \A r \in file : r.n \in 1 .. accepted + 1
    BY <2>4 DEF RecordsInv
  <2>9. QED
    BY <1>9, <2>1, <2>5, <2>6, <2>7, <2>8 DEF RecordsInv, FirstRun
<1>10. ASSUME NEW w \in Writers, NEW len \in RecLens, WriteFits(w, len)
       PROVE  RecordsInv'
  <2>1. Chain' = Chain /\ UNCHANGED <<file, now, stops>>
    BY <1>10, <1>c DEF WriteFits
  <2>2. curr = Chain[Len(Chain)] /\ curr \in Buffers
    BY <1>a, LastOfChain DEF TypeOK
  <2>3. QED
    BY <1>9, <1>10, <1>b, <2>1, <2>2 DEF WriteFits, RecordsInv
<1>11. ASSUME NEW w \in Writers, NEW len \in RecLens, WriteSwitches(w, len)
       PROVE  RecordsInv'
  <2>1. PICK b \in empty : /\ full' = Append(full, curr)
                           /\ curr' = b
                           /\ AppendTo(b, w, len)
    BY <1>11 DEF WriteSwitches, Enqueue
  <2>2. b \in Buffers /\ b \notin Queued /\ content[b] = {}
    BY <1>a DEF BuffersApart, TypeOK
  <2>3. pend[w] # NoHour /\ UNCHANGED <<toWrite, file, now, stops>>
    BY <1>11 DEF WriteSwitches
  <2>4. Chain' = Append(Chain, b)
    BY <2>1, <2>2, <2>3, <1>a, SwitchChain
  <2>5. Chain' \in Seq(Buffers) /\ Chain' # << >> /\ Distinct(Chain')
        /\ b = Chain'[Len(Chain')]
    BY <1>b, <2>2, <2>4, AppendProperties, AppendElems DEF Queued
  <2>6. FirstRun => FileThenChain(Chain', content, file, accepted)
    BY <1>b, <2>2, <2>4, EmptyJoins DEF RecordsInv
  <2>7. QED
    BY <1>9, <2>1, <2>2, <2>3, <2>5, <2>6
<1>12. QED
  BY <1>2, <1>3, <1>4, <1>5, <1>6, <1>7, <1>8, <1>10, <1>11
     DEF Next, Write, Flush, Stop

(* At the start there is no record. *)
LEMMA RecordsInit == Init => RecordsInv
<1> SUFFICES ASSUME Init PROVE RecordsInv
  OBVIOUS
<1>1. TypeOK
  BY PoolInit DEF PoolInv
<1>2. file = {} /\ accepted = 0 /\ \A b \in Buffers : content[b] = {}
  BY DEF Init
<1>3. \A w \in Writers : pend[w] = NoHour
  BY DEF Init
<1>4. \A i \in 1 .. Len(Chain) : Chain[i] \in Buffers
  BY <1>1, ChainFacts, ElementOfSeq
<1>5. InOrder(Chain, content)
  BY <1>2, <1>4 DEF InOrder
<1>6. FileThenChain(Chain, content, file, accepted)
  BY <1>2, <1>5 DEF FileThenChain
<1>7. QED
  BY <1>2, <1>3, <1>6 DEF RecordsInv

LEMMA RecordsInvariant == Spec => [](PoolInv /\ RecordsInv)
<1>1. Init => PoolInv /\ RecordsInv
  BY PoolInit, RecordsInit
<1>2. PoolInv /\ RecordsInv /\ [Next]_vars => (PoolInv /\ RecordsInv)'
  BY PoolStep, RecordsStep
<1>3. QED
  BY <1>1, <1>2, PTL DEF Spec

(* RollFile looks at the clock before every buffer: until Stop writes by
   itself, no record is put in the file of an hour that was over when it was
   formatted. *)
THEOREM NotBackdated == Spec => []HourOfFile
<1>1. RecordsInv => HourOfFile
  BY DEF RecordsInv, HourOfFile
<1>2. QED
  BY <1>1, RecordsInvariant, PTL

(* Until Stop has joined the flush thread, an accepted record is at every
   moment in exactly one place: the file, or one buffer of the chain. *)
THEOREM NoRecordIsLost == Spec => []NothingLost
<1>1. PoolInv /\ RecordsInv => NothingLost
  <2> SUFFICES ASSUME PoolInv, RecordsInv, FirstRun
               PROVE  /\ {r.n : r \in file} \cup {r.n : r \in Unwritten} = 1 .. accepted
                      /\ \A r \in file, q \in Unwritten : r.n # q.n
                      /\ \A b, c \in Queued : b # c =>
                           {r.n : r \in content[b]} \cap {r.n : r \in content[c]} = {}
    BY DEF NothingLost
  <2>1. TypeOK /\ Queued \subseteq Buffers
    BY ChainFacts DEF PoolInv
  <2>2. FileThenChain(Chain, content, file, accepted)
    BY DEF RecordsInv
  <2>3. \A b \in Queued : \A r \in content[b] : r.n \in 1 .. accepted
    BY <2>1 DEF RecordsInv
  <2>4. \A q : q \in Unwritten <=> \E b \in Queued : q \in content[b]
    BY DEF Unwritten
  <2>5. {r.n : r \in file} \cup {r.n : r \in Unwritten} = 1 .. accepted
    <3>1. ASSUME NEW k \in 1 .. accepted
          PROVE  (\E r \in file : r.n = k) \/ \E r \in Unwritten : r.n = k
      BY <2>2, <2>4 DEF FileThenChain, Queued
    <3>2. \A r \in file : r.n \in 1 .. accepted
      BY DEF RecordsInv
    <3>3. \A r \in Unwritten : r.n \in 1 .. accepted
      BY <2>3, <2>4
    <3>4. QED
      BY <3>1, <3>2, <3>3
  <2>6. \A r \in file, q \in Unwritten : r.n # q.n
    <3> SUFFICES ASSUME NEW r \in file, NEW q \in Unwritten, r.n = q.n
                 PROVE  FALSE
      OBVIOUS
    <3>1. PICK b \in Queued : q \in content[b]
      BY <2>4
    <3>2. r.n < q.n /\ q.n \in Nat
      BY <2>2, <2>3, <3>1 DEF FileThenChain, Queued
    <3>3. QED
      BY <3>2
  <2>7. ASSUME NEW b \in Queued, NEW c \in Queued, b # c,
               NEW r \in content[b], NEW q \in content[c], r.n = q.n
        PROVE  FALSE
    <3>1. PICK i \in 1 .. Len(Chain) : b = Chain[i]
      BY DEF Queued, Elems
    <3>2. PICK j \in 1 .. Len(Chain) : c = Chain[j]
      BY DEF Queued, Elems
    <3>3. i < j \/ j < i
      BY <2>1, <2>7, <3>1, <3>2, ChainFacts
    <3>4. r.n < q.n \/ q.n < r.n
      BY <2>2, <3>1, <3>2, <3>3 DEF FileThenChain, InOrder
    <3>5. r.n \in Nat /\ q.n \in Nat
      BY <2>3
    <3>6. QED
      BY <2>7, <3>4, <3>5
  <2>8. QED
    BY <2>5, <2>6, <2>7
<1>2. QED
  BY <1>1, RecordsInvariant, PTL

-----------------------------------------------------------------------------
(* A buffer with records has a last one. *)
LastExists == \A b \in Buffers : content[b] # {} =>
                \E l \in content[b] : \A r \in content[b] : r.n <= l.n

LEMMA LastStep ==
  PoolInv /\ RecordsInv /\ LastExists /\ [Next]_vars => LastExists'
<1> SUFFICES ASSUME PoolInv, RecordsInv, LastExists, [Next]_vars
             PROVE  LastExists'
  OBVIOUS
<1>a. TypeOK
  BY DEF PoolInv
<1> USE DEF poolVars, flushVars, dataVars, ctlVars, fileVars
<1>1. ASSUME UNCHANGED content PROVE LastExists'
  BY <1>1 DEF LastExists
<1>2. ASSUME NEW b \in Buffers, Reset(b) PROVE LastExists'
  BY <1>2, <1>a DEF LastExists, Reset, TypeOK
<1>3. ASSUME NEW w \in Writers, pend[w] # NoHour, NEW b \in Buffers, NEW len,
             AppendTo(b, w, len)
      PROVE  LastExists'
  <2>1. PICK x \in Records :
           /\ x.n = accepted + 1
           /\ content' = [content EXCEPT ![b] = @ \cup {x}]
    BY <1>3, <1>a, RecordAccepted
  <2>2. \A r \in content'[b] : r.n <= x.n
    <3>1. \A r \in content[b] : r.n \in 1 .. accepted
      BY DEF RecordsInv
    <3>2. content'[b] = content[b] \cup {x} /\ accepted \in Nat
      BY <2>1, <1>a DEF TypeOK
    <3>3. QED
      BY <2>1, <3>1, <3>2
  <2>3. x \in content'[b] /\ \A c \in Buffers : c # b => content'[c] = content[c]
    BY <2>1, <1>a DEF TypeOK
  <2>4. QED
    BY <2>2, <2>3 DEF LastExists
<1>4. CASE Tick \/ Start \/ StopBegins \/ StopJoins \/ StopWrites \/ FlushLoop
           \/ FlushTakes \/ FlushDone \/ UNCHANGED vars
  BY <1>1, <1>4 DEF Tick, Start, StopBegins, StopJoins, StopWrites, FlushLoop,
     FlushTakes, FlushDone, vars
<1>5. CASE StopResets
  BY <1>2, <1>5, <1>a DEF StopResets, TypeOK
<1>6. CASE FlushWrites
  <2>1. Head(toWrite) \in Buffers
    BY <1>6, <1>a, HeadTailProperties DEF FlushWrites, TypeOK
  <2>2. QED
    BY <2>1, <1>2, <1>6 DEF FlushWrites
<1>7. ASSUME NEW w \in Writers, Write(w)
      PROVE  LastExists'
  <2>1. CASE Format(w)
    BY <2>1, <1>1 DEF Format
  <2>2. ASSUME NEW len \in RecLens, WriteFits(w, len) PROVE LastExists'
    BY <2>2, <1>3, <1>a DEF WriteFits, TypeOK
  <2>3. ASSUME NEW len \in RecLens, WriteSwitches(w, len) PROVE LastExists'
    BY <2>3, <1>3, <1>a DEF WriteSwitches, TypeOK
  <2>4. ASSUME NEW len \in RecLens, WriteDiscards(w, len) PROVE LastExists'
    BY <2>4, <1>1 DEF WriteDiscards
  <2>5. QED
    BY <1>7, <2>1, <2>2, <2>3, <2>4 DEF Write
<1>8. QED
  BY <1>4, <1>5, <1>6, <1>7 DEF Next, Flush, Stop

LEMMA LastInvariant == Spec => [](PoolInv /\ RecordsInv /\ LastExists)
<1>1. Init => LastExists
  BY DEF Init, LastExists
<1>2. QED
  BY <1>1, LastStep, RecordsInvariant, PTL DEF Spec

Numbers(f) == {r.n : r \in f}

(* While the flush thread is on its first run only FlushWrites adds to the
   file: records newer than all it holds, after which it has every record up to
   some last one. *)
LEMMA FileStep ==
  PoolInv /\ RecordsInv /\ LastExists /\ FirstRun /\ [Next]_vars =>
    \/ UNCHANGED file
    \/ /\ \A r \in file' \ file, q \in file : q.n < r.n
       /\ file \subseteq file' /\ UNCHANGED <<accepted, stops>>
       /\ \E k \in 1 .. accepted : Numbers(file') = 1 .. k
<1> SUFFICES ASSUME PoolInv, RecordsInv, LastExists, FirstRun, [Next]_vars,
                    file' # file
             PROVE  /\ \A r \in file' \ file, q \in file : q.n < r.n
                    /\ file \subseteq file' /\ UNCHANGED <<accepted, stops>>
                    /\ \E k \in 1 .. accepted : Numbers(file') = 1 .. k
  OBVIOUS
<1> USE DEF poolVars, flushVars, dataVars, ctlVars, fileVars
<1>a. TypeOK /\ ControlOK /\ Distinct(Chain) /\ Chain \in Seq(Buffers) /\ Chain # << >>
      /\ FileThenChain(Chain, content, file, accepted)
  BY ChainFacts DEF PoolInv, BuffersApart, RecordsInv
<1>b. PoolInv' /\ RecordsInv'
  BY PoolStep, RecordsStep
<1>1. ~StopWrites
  BY <1>a DEF StopWrites, ControlOK
<1>2. FlushWrites
  BY <1>1 DEF Next, Tick, Start, Stop, StopBegins, StopJoins, StopResets, Flush, FlushLoop,
     FlushTakes, FlushDone, Write, Format, WriteFits, WriteSwitches, WriteDiscards, vars
<1> DEFINE h == Head(toWrite)
<1>3. h = Head(Chain) /\ Chain' = Tail(Chain)
  BY <1>2, <1>a, WriteChain DEF FlushWrites
<1>4. /\ file' = file \cup {[n |-> r.n, hour |-> r.hour, in |-> now] : r \in content[h]}
      /\ UNCHANGED <<accepted, stops>>
  BY <1>2 DEF FlushWrites, RollFile, Written
<1>5. h \in Buffers /\ h \in Elems(Chain)
  BY <1>3, <1>a, HeadTailProperties, TailElems
<1> HIDE DEF h
<1>6. \A r \in file' : r \in file \/ \E q \in content[h] : r.n = q.n
  BY <1>4
<1>7. \A r \in content[h] : \E q \in file' : q.n = r.n
  <2> SUFFICES ASSUME NEW r \in content[h]
               PROVE  \E q \in file' : q.n = r.n
    OBVIOUS
  <2>1. [n |-> r.n, hour |-> r.hour, in |-> now] \in file'
    BY <1>4
  <2>2. [n |-> r.n, hour |-> r.hour, in |-> now].n = r.n
    OBVIOUS
  <2>3. QED
    BY <2>1, <2>2
<1>8. \A r \in file, q \in content[h] : r.n < q.n
  BY <1>5, <1>a DEF FileThenChain
<1>9. \A r \in file' \ file, q \in file : q.n < r.n
  BY <1>6, <1>8
<1>10. content[h] # {}
  BY <1>4
<1>11. PICK l \in content[h] : \A r \in content[h] : r.n <= l.n
  BY <1>5, <1>10 DEF LastExists
<1>12. l.n \in 1 .. accepted /\ accepted \in Nat
  BY <1>5, <1>a DEF RecordsInv, TypeOK
<1>13. \A r \in file' : r.n \in 1 .. l.n
  <2> SUFFICES ASSUME NEW r \in file'
               PROVE  r.n \in 1 .. l.n
    OBVIOUS
  <2>1. r.n \in 1 .. accepted
    BY <1>b, <1>4 DEF RecordsInv
  <2>2. r.n <= l.n
    <3>1. CASE r \in file
      BY <2>1, <3>1, <1>8, <1>12
    <3>2. CASE \E q \in content[h] : r.n = q.n
      BY <3>2, <1>11
    <3>3. QED
      BY <3>1, <3>2, <1>6
  <2>3. QED
    BY <2>1, <2>2, <1>12
<1>14. ASSUME NEW k \in 1 .. l.n
       PROVE  \E r \in file' : r.n = k
  <2>1. k \in 1 .. accepted /\ ~(l.n < k)
    BY <1>12
  <2>2. FileThenChain(Chain', content', file', accepted')
    BY <1>b, <1>4 DEF RecordsInv, FirstRun
  <2>3. PICK q \in file' : q.n = l.n
    BY <1>7
  <2>4. \A b \in Elems(Chain') : \A r \in content'[b] : l.n < r.n
    BY <2>2, <2>3 DEF FileThenChain
  <2>5. QED
    BY <2>1, <2>2, <2>4, <1>4 DEF FileThenChain
<1>15. Numbers(file') = 1 .. l.n
  BY <1>13, <1>14 DEF Numbers
<1>16. QED
  BY <1>4, <1>9, <1>12, <1>15

(* Until Stop has joined the flush thread, the file grows in the order in
   which Write accepted the records, whichever buffers they went through. *)
THEOREM FileKeepsOrder == Spec => WrittenInOrder
<1>1. PoolInv /\ RecordsInv /\ LastExists /\ [Next]_vars =>
        [FirstRun => \A r \in file' \ file, q \in file : q.n < r.n]_vars
  BY FileStep
<1>2. QED
  BY <1>1, LastInvariant, PTL DEF Spec, WrittenInOrder

(* The logger implements the safe part of LogPipe: while the log is open the
   file always holds exactly the first records accepted, and once it is closed
   nothing but an accepted record gets into it, across restarts too. *)
THEOREM PipeImplemented == Spec => Pipe!SafeSpec
<1> USE DEF Pipe!pvars
<1>1. Init => Pipe!Init
  BY DEF Init, Pipe!Init, FirstRun
<1>2. PoolInv /\ RecordsInv /\ LastExists /\ [Next]_vars => [Pipe!Next]_Pipe!pvars
  <2> SUFFICES ASSUME PoolInv, RecordsInv, LastExists, [Next]_vars
               PROVE  [Pipe!Next]_Pipe!pvars
    OBVIOUS
  <2>a. TypeOK /\ ControlOK /\ RecordsInv'
    BY RecordsStep DEF PoolInv
  <2> USE DEF poolVars, flushVars, dataVars, ctlVars, fileVars
  <2>1. ASSUME UNCHANGED <<accepted, file, stops>>
        PROVE  [Pipe!Next]_Pipe!pvars
    BY <2>1 DEF FirstRun
  <2>2. CASE Tick \/ Start \/ StopBegins \/ StopResets \/ FlushLoop \/ FlushTakes
             \/ FlushDone \/ UNCHANGED vars
             \/ \E w \in Writers : Format(w) \/ \E len \in RecLens : WriteDiscards(w, len)
    BY <2>1, <2>2 DEF Tick, Start, StopBegins, StopResets, FlushLoop, FlushTakes,
       FlushDone, vars, Format, WriteDiscards
  <2>3. CASE \E w \in Writers, len \in RecLens : WriteFits(w, len) \/ WriteSwitches(w, len)
    <3>1. accepted' = accepted + 1 /\ UNCHANGED <<file, stops>>
      BY <2>3 DEF WriteFits, WriteSwitches, AppendTo
    <3>2. Pipe!Accept
      BY <3>1 DEF Pipe!Accept, FirstRun
    <3>3. QED
      BY <3>2 DEF Pipe!Next
  <2>4. CASE StopJoins
    <3>1. UNCHANGED <<accepted, file>> /\ ~FirstRun'
      BY <2>4, <2>a DEF StopJoins, FirstRun, TypeOK
    <3>2. CASE FirstRun
      BY <3>1, <3>2 DEF Pipe!Next, Pipe!Close, FirstRun
    <3>3. CASE ~FirstRun
      BY <3>1, <3>3 DEF FirstRun
    <3>4. QED
      BY <3>2, <3>3
  <2>5. CASE FlushWrites \/ StopWrites
    <3>1. UNCHANGED <<accepted, stops>> /\ file \subseteq file'
      BY <2>5 DEF FlushWrites, StopWrites
    <3>2. Numbers(file) \subseteq Numbers(file') /\ Numbers(file') \subseteq 1 .. accepted
      BY <3>1, <2>a DEF RecordsInv, Numbers
    <3>3. CASE FirstRun
      <4>1. CASE Numbers(file') = Numbers(file)
        BY <3>1, <4>1 DEF Numbers, FirstRun
      <4>2. CASE Numbers(file') # Numbers(file)
        <5>1. \E k \in 1 .. accepted : Numbers(file') = 1 .. k
          BY <3>3, <4>2, FileStep DEF Numbers
        <5>2. Pipe!Emit
          BY <3>1, <3>2, <3>3, <4>2, <5>1 DEF Pipe!Emit, Numbers, FirstRun
        <5>3. QED
          BY <5>2 DEF Pipe!Next
      <4>3. QED
        BY <4>1, <4>2
    <3>4. CASE ~FirstRun
      <4>1. Pipe!Straggle
        BY <3>1, <3>2, <3>4 DEF Pipe!Straggle, Numbers, FirstRun
      <4>2. QED
        BY <4>1 DEF Pipe!Next
    <3>5. QED
      BY <3>3, <3>4
  <2>6. QED
    BY <2>2, <2>3, <2>4, <2>5 DEF Next, Stop, Flush, Write
<1>3. QED
  BY <1>1, <1>2, LastInvariant, PTL DEF Spec, Pipe!SafeSpec
=============================================================================
