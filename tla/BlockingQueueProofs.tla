------------------------- MODULE BlockingQueueProofs -------------------------
(***************************************************************************)
(* Proofs about BlockingQueue, for any threads, elements and number of      *)
(* calls.                                                                   *)
(***************************************************************************)
EXTENDS BlockingQueue, SequenceTheorems, TLAPS

-----------------------------------------------------------------------------
(* Facts about sequences. *)

(* An element added to the second part is added to the whole. *)
LEMMA AppendToBoth ==
  ASSUME NEW p \in Seq(Items), NEW q \in Seq(Items), NEW x \in Items
  PROVE  Append(p \o q, x) = p \o Append(q, x)
<1>1. p \o q \in Seq(Items) /\ <<x>> \in Seq(Items)
  BY ConcatProperties
<1>2. Append(p \o q, x) = (p \o q) \o <<x>>
  BY <1>1, AppendIsConcat
<1>3. (p \o q) \o <<x>> = p \o (q \o <<x>>)
  BY <1>1, ConcatAssociative
<1>4. q \o <<x>> = Append(q, x)
  BY AppendIsConcat
<1>5. QED
  BY <1>2, <1>3, <1>4

(* The first element of the second part moves to the first. *)
LEMMA MoveHead ==
  ASSUME NEW p \in Seq(Items), NEW q \in Seq(Items), q # << >>
  PROVE  /\ p \o q = Append(p, Head(q)) \o Tail(q)
         /\ Len(p) < Len(p \o q)
         /\ (p \o q)[Len(p) + 1] = Head(q)
<1>1. Head(q) \in Items /\ Tail(q) \in Seq(Items) /\ q = <<Head(q)>> \o Tail(q)
  BY HeadTailProperties
<1>2. <<Head(q)>> \in Seq(Items)
  BY <1>1
<1>3. p \o (<<Head(q)>> \o Tail(q)) = (p \o <<Head(q)>>) \o Tail(q)
  BY <1>1, <1>2, ConcatAssociative
<1>4. p \o <<Head(q)>> = Append(p, Head(q))
  BY <1>1, AppendIsConcat
<1>5. p \o q = Append(p, Head(q)) \o Tail(q)
  BY <1>1, <1>3, <1>4
<1>6. Len(p \o q) = Len(p) + Len(q) /\ Len(p) \in Nat /\ Len(q) \in Nat /\ Len(q) > 0
  BY ConcatProperties
<1>7. (p \o q)[Len(p) + 1] = q[Len(p) + 1 - Len(p)]
  BY <1>6, ConcatProperties
<1>8. QED
  BY <1>5, <1>6, <1>7

-----------------------------------------------------------------------------
(* What has been pushed is what has been returned, and then the queue. *)
Conserved == pushed = popped \o queue

(* The inductive invariant. *)
QueueInv == TypeOK /\ NoSleeperLeft /\ PopFindsElement /\ Conserved

LEMMA QueueInit == Init => QueueInv
<1> SUFFICES ASSUME Init PROVE QueueInv
  OBVIOUS
<1>1. /\ queue \in Seq(Items) /\ pushed \in Seq(Items) /\ popped \in Seq(Items)
      /\ pushed = popped \o queue
  BY DEF Init
<1>2. ASSUME NEW t \in Threads
      PROVE  pc[t] = "idle" /\ pc[t] \notin Inside /\ mutex # t
  BY QueueAssumption DEF Init, Inside
<1>3. mutex \in Threads \cup {None} /\ pc \in [Threads -> Places]
  BY DEF Init, Places
<1>4. QED
  BY <1>1, <1>2, <1>3 DEF QueueInv, TypeOK, NoSleeperLeft, PopFindsElement, Conserved

(* The thread that runs the body of a call is alone inside. *)
LEMMA AloneInside ==
  ASSUME TypeOK, NEW t \in Threads, pc[t] \in Inside
  PROVE  mutex = t /\ \A u \in Threads \ {t} : pc[u] \notin Inside
BY DEF TypeOK

(* A step of thread t that leaves the other threads where they are keeps the
   types of mutex and pc, if t is inside afterwards just when it has the mutex. *)
LEMMA PlacesKept ==
  ASSUME TypeOK, NEW t \in Threads, NEW place \in Places, At(t, place),
         mutex' \in {t, None}, place \in Inside <=> mutex' = t,
         pc[t] \in Inside \/ mutex = None
  PROVE  /\ mutex' \in Threads \cup {None}
         /\ pc' \in [Threads -> Places]
         /\ \A u \in Threads : pc'[u] \in Inside <=> mutex' = u
<1>1. pc' = [pc EXCEPT ![t] = place] /\ pc'[t] = place
  BY DEF At, TypeOK
<1>2. pc' \in [Threads -> Places]
  BY <1>1 DEF TypeOK
<1>3. ASSUME NEW u \in Threads, u # t
      PROVE  pc'[u] = pc[u] /\ pc[u] \notin Inside /\ mutex' # u
  BY <1>1, <1>3, QueueAssumption DEF TypeOK
<1>4. QED
  BY <1>1, <1>2, <1>3

(* Every step keeps the inductive invariant. *)
LEMMA QueueStep == QueueInv /\ [Next]_vars => QueueInv'
<1> SUFFICES ASSUME QueueInv, [Next]_vars
             PROVE  QueueInv'
  OBVIOUS
<1>a. /\ queue \in Seq(Items) /\ pushed \in Seq(Items) /\ popped \in Seq(Items)
      /\ pc \in [Threads -> Places] /\ TypeOK
  BY DEF QueueInv, TypeOK
<1>1. ASSUME NEW t \in Threads, NEW place \in Places, At(t, place),
             mutex' \in {t, None}, place \in Inside <=> mutex' = t,
             pc[t] \in Inside \/ mutex = None,
             UNCHANGED <<queue, pushed, popped>>,
             place = "waiting" => queue = << >>,
             place = "taking" => queue # << >>
      PROVE  QueueInv'
  <2>1. TypeOK'
    BY <1>1, <1>a, PlacesKept DEF TypeOK
  <2>2. \A u \in Threads : pc'[u] = IF u = t THEN place ELSE pc[u]
    BY <1>1, <1>a DEF At
  <2>3. NoSleeperLeft' /\ PopFindsElement'
    BY <1>1, <2>2 DEF QueueInv, NoSleeperLeft, PopFindsElement
  <2>4. Conserved'
    BY <1>1 DEF QueueInv, Conserved
  <2>5. QED
    BY <2>1, <2>3, <2>4 DEF QueueInv
<1>2. ASSUME NEW t \in Threads, NEW place \in Places, At(t, place), UNCHANGED mutex,
             pc[t] \notin Inside, place \notin Inside, place # "waiting",
             UNCHANGED <<queue, pushed, popped>>
      PROVE  QueueInv'
  <2>1. \A u \in Threads : pc'[u] = IF u = t THEN place ELSE pc[u]
    BY <1>2, <1>a DEF At
  <2>2. pc' \in [Threads -> Places]
    BY <1>2, <1>a DEF At
  <2>3. \A u \in Threads : pc'[u] \in Inside <=> mutex' = u
    BY <1>2, <1>a, <2>1 DEF TypeOK
  <2>4. TypeOK'
    BY <1>2, <1>a, <2>2, <2>3 DEF TypeOK
  <2>5. NoSleeperLeft' /\ PopFindsElement'
    BY <1>2, <2>1 DEF QueueInv, NoSleeperLeft, PopFindsElement, Inside
  <2>6. Conserved'
    BY <1>2 DEF QueueInv, Conserved
  <2>7. QED
    BY <2>4, <2>5, <2>6 DEF QueueInv
<1>3. ASSUME NEW t \in Threads, Call(t) PROVE QueueInv'
  <2>1. PICK place \in {"push", "pop", "empty"} : At(t, place)
    BY <1>3 DEF Call
  <2>2. place \in Places /\ place \notin Inside /\ place # "waiting"
    BY <2>1 DEF Places, Blocked, Inside
  <2>3. pc[t] \notin Inside /\ UNCHANGED <<queue, mutex, pushed, popped>>
    BY <1>3 DEF Call, Inside
  <2>4. QED
    BY <1>2, <2>1, <2>2, <2>3
<1>4. ASSUME NEW t \in Threads, Spurious(t) PROVE QueueInv'
  <2>1. "woken" \in Places /\ "woken" \notin Inside /\ pc[t] \notin Inside
    BY <1>4 DEF Spurious, Places, Blocked, Inside
  <2>2. QED
    BY <1>2, <1>4, <2>1 DEF Spurious
<1>5. ASSUME NEW t \in Threads, Lock(t) PROVE QueueInv'
  <2>1. PICK place : place = Enters(pc[t])
    OBVIOUS
  <2>2. place \in {"pushing", "testing", "looking"}
    BY <1>5, <2>1 DEF Lock, Enters, Blocked
  <2>3. place \in Places /\ place \in Inside /\ place \notin {"waiting", "taking"}
    BY <2>2 DEF Places, Inside
  <2>4. At(t, place) /\ mutex = None /\ mutex' = t /\ UNCHANGED <<queue, pushed, popped>>
    BY <1>5, <2>1 DEF Lock
  <2>5. QED
    BY <1>1, <2>3, <2>4
<1>6. ASSUME NEW t \in Threads, PopWaits(t) PROVE QueueInv'
  <2>1. "waiting" \in Places /\ "waiting" \notin Inside /\ pc[t] \in Inside /\ None # t
    BY <1>6, QueueAssumption DEF PopWaits, Places, Inside
  <2>2. At(t, "waiting") /\ mutex' = None /\ queue = << >> /\ UNCHANGED <<queue, pushed, popped>>
    BY <1>6 DEF PopWaits, Leave
  <2>3. QED
    BY <1>1, <2>1, <2>2
<1>7. ASSUME NEW t \in Threads, PopGoesOn(t) PROVE QueueInv'
  <2>1. "taking" \in Places /\ "taking" \in Inside /\ pc[t] \in Inside
    BY <1>7 DEF PopGoesOn, Places, Inside
  <2>2. At(t, "taking") /\ queue # << >> /\ UNCHANGED <<queue, mutex, pushed, popped>>
    BY <1>7 DEF PopGoesOn
  <2>3. mutex' = t
    BY <1>a, <2>1, <2>2, AloneInside
  <2>4. QED
    BY <1>1, <2>1, <2>2, <2>3
<1>8. ASSUME NEW t \in Threads, Answer(t) PROVE QueueInv'
  <2>1. PICK place \in {"done", "pop"} : Leave(t, place)
    BY <1>8 DEF Answer
  <2>2. /\ place \in Places /\ place \notin Inside /\ place \notin {"waiting", "taking"}
        /\ pc[t] \in Inside /\ None # t
    BY <1>8, <2>1, QueueAssumption DEF Answer, Places, Blocked, Inside
  <2>3. At(t, place) /\ mutex' = None /\ UNCHANGED <<queue, pushed, popped>>
    BY <1>8, <2>1 DEF Answer, Leave
  <2>4. QED
    BY <1>1, <2>2, <2>3
<1>9. ASSUME NEW t \in Threads, Push(t) PROVE QueueInv'
  <2>1. PICK x \in Items : queue' = Append(queue, x) /\ pushed' = Append(pushed, x)
    BY <1>9 DEF Push, Add, Notify
  <2>2. mutex' = None /\ pc' = NotifyAll([pc EXCEPT ![t] = "idle"]) /\ popped' = popped
    BY <1>9 DEF Push, Add, Notify
  <2>3. queue' \in Seq(Items) /\ pushed' \in Seq(Items)
    BY <1>a, <2>1
  <2>4. pushed' = popped' \o queue'
    BY <1>a, <2>1, <2>2, AppendToBoth DEF QueueInv, Conserved
  <2>5. pc[t] \in Inside
    BY <1>9 DEF Push, Add, Notify, Inside
  <2>6. ASSUME NEW u \in Threads
        PROVE  pc'[u] \in Places \ Inside /\ pc'[u] # "waiting"
    <3>1. CASE u = t
      BY <1>a, <2>2, <3>1 DEF NotifyAll, Places, Inside, Blocked
    <3>2. CASE u # t
      <4>1. pc[u] \notin Inside /\ pc[u] \in Places
        BY <1>a, <2>5, <3>2, AloneInside
      <4>2. pc'[u] = IF pc[u] = "waiting" THEN "woken" ELSE pc[u]
        BY <1>a, <2>2, <3>2 DEF NotifyAll
      <4>3. QED
        BY <4>1, <4>2 DEF Places, Inside, Blocked
    <3>3. QED
      BY <3>1, <3>2
  <2>7. pc' \in [Threads -> Places]
    <3>1. pc' = [u \in Threads |-> pc'[u]]
      BY <2>2 DEF NotifyAll
    <3>2. QED
      BY <2>6, <3>1
  <2>8. TypeOK'
    BY <1>a, <2>2, <2>3, <2>6, <2>7, QueueAssumption DEF TypeOK
  <2>9. NoSleeperLeft' /\ PopFindsElement'
    BY <2>6 DEF NoSleeperLeft, PopFindsElement, Inside
  <2>10. QED
    BY <2>4, <2>8, <2>9 DEF QueueInv, Conserved
<1>10. ASSUME NEW t \in Threads, PopTakes(t) PROVE QueueInv'
  <2>1. PICK place \in {"idle", "empty"} : Leave(t, place)
    BY <1>10 DEF PopTakes
  <2>2. /\ place \in Places /\ place \notin Inside /\ place \notin {"waiting", "taking"}
        /\ pc[t] \in Inside /\ None # t
    BY <1>10, <2>1, QueueAssumption DEF PopTakes, Places, Blocked, Inside
  <2>3. /\ queue # << >> /\ queue' = Tail(queue) /\ popped' = Append(popped, Head(queue))
        /\ pushed' = pushed /\ mutex' = None /\ At(t, place)
    BY <1>10, <2>1 DEF PopTakes, Leave
  <2>4. Head(queue) \in Items /\ Tail(queue) \in Seq(Items) /\ queue = <<Head(queue)>> \o Tail(queue)
    BY <1>a, <2>3
  <2>5. pushed' = popped' \o queue'
    BY <1>a, <2>3, MoveHead DEF QueueInv, Conserved
  <2>6. TypeOK'
    BY <1>a, <2>2, <2>3, <2>4, PlacesKept DEF TypeOK
  <2>7. \A u \in Threads : pc'[u] = IF u = t THEN place ELSE pc[u]
    BY <1>a, <2>3 DEF At
  <2>8. \A u \in Threads \ {t} : pc[u] \notin Inside
    BY <1>a, <2>2, AloneInside
  <2>9. NoSleeperLeft' /\ PopFindsElement'
    <3>1. \A u \in Threads : pc[u] # "waiting"
      BY <2>3 DEF QueueInv, NoSleeperLeft
    <3>2. QED
      BY <2>2, <2>7, <2>8, <3>1 DEF NoSleeperLeft, PopFindsElement, Inside
  <2>10. QED
    BY <2>5, <2>6, <2>9 DEF QueueInv, Conserved
<1>11. CASE UNCHANGED vars
  BY <1>11 DEF vars, QueueInv, TypeOK, NoSleeperLeft, PopFindsElement, Conserved
<1>12. QED
  BY <1>3, <1>4, <1>5, <1>6, <1>7, <1>8, <1>9, <1>10, <1>11 DEF Next, AnyLock, Body

LEMMA QueueInvariant == Spec => []QueueInv
BY QueueInit, QueueStep, PTL DEF Spec

(* The types, and the mutex is held by exactly the thread inside a call. *)
THEOREM QueueTypes == Spec => []TypeOK
<1>1. QueueInv => TypeOK
  BY DEF QueueInv
<1>2. QED
  BY <1>1, QueueInvariant, PTL

(* notify_all of Push leaves nobody asleep in Pop while there are elements. *)
THEOREM NoWakeupLost == Spec => []NoSleeperLeft
<1>1. QueueInv => NoSleeperLeft
  BY DEF QueueInv
<1>2. QED
  BY <1>1, QueueInvariant, PTL

(* The assertion in Pop holds, though all sleepers are woken for one element. *)
THEOREM PopAssertionHolds == Spec => []PopFindsElement
<1>1. QueueInv => PopFindsElement
  BY DEF QueueInv
<1>2. QED
  BY <1>1, QueueInvariant, PTL
-----------------------------------------------------------------------------
(* The implementation of the abstract queue. *)

Callers == {t \in Threads : pc[t] \in InPop}

(* A thread that stays in Pop, or stays out, changes no caller. *)
LEMMA CallersKept ==
  ASSUME pc \in [Threads -> Places], NEW t \in Threads, NEW place, At(t, place),
         pc[t] \in InPop <=> place \in InPop
  PROVE  Callers' = Callers
<1>1. \A u \in Threads : pc'[u] = IF u = t THEN place ELSE pc[u]
  BY DEF At
<1>2. QED
  BY <1>1 DEF Callers

LEMMA StepMaps ==
  QueueInv /\ [Next]_vars => [Fifo!Next]_Fifo!fvars
<1> SUFFICES ASSUME QueueInv, [Next]_vars
             PROVE  Fifo!Next \/ UNCHANGED Fifo!fvars
  BY DEF Fifo!fvars
<1>a. /\ queue \in Seq(Items) /\ pushed \in Seq(Items) /\ popped \in Seq(Items)
      /\ pc \in [Threads -> Places]
  BY DEF QueueInv, TypeOK
<1>b. ASSUME UNCHANGED <<pushed, popped>>, Callers' = Callers
      PROVE  UNCHANGED Fifo!fvars
  BY <1>b DEF Fifo!fvars, Callers
<1>1. ASSUME NEW t \in Threads, NEW place, At(t, place), UNCHANGED <<pushed, popped>>,
             pc[t] \in InPop <=> place \in InPop
      PROVE  UNCHANGED Fifo!fvars
  BY <1>1, <1>a, <1>b, CallersKept
<1>2. ASSUME NEW t \in Threads, NEW place \in InPop, At(t, place), pc[t] \notin InPop,
             UNCHANGED <<pushed, popped>>
      PROVE  Fifo!Next
  <2>1. \A u \in Threads : pc'[u] = IF u = t THEN place ELSE pc[u]
    BY <1>2, <1>a DEF At
  <2>2. t \notin Callers /\ Callers' = Callers \cup {t}
    BY <1>2, <2>1 DEF Callers
  <2>3. Fifo!Ask(t)
    BY <1>2, <2>2 DEF Fifo!Ask, Callers
  <2>4. QED
    BY <2>3 DEF Fifo!Next
<1>3. ASSUME NEW t \in Threads, Call(t) PROVE Fifo!Next \/ UNCHANGED Fifo!fvars
  <2>1. PICK place \in {"push", "pop", "empty"} : At(t, place)
    BY <1>3 DEF Call
  <2>2. pc[t] \notin InPop /\ UNCHANGED <<pushed, popped>>
    BY <1>3 DEF Call, InPop
  <2>3. QED
    BY <1>1, <1>2, <2>1, <2>2
<1>4. ASSUME NEW t \in Threads, Lock(t) PROVE UNCHANGED Fifo!fvars
  <2>1. pc[t] \in InPop <=> Enters(pc[t]) \in InPop
    BY <1>4 DEF Lock, Blocked, Enters, InPop
  <2>2. At(t, Enters(pc[t])) /\ UNCHANGED <<pushed, popped>>
    BY <1>4 DEF Lock
  <2>3. QED
    BY <1>1, <2>1, <2>2
<1>5. ASSUME NEW t \in Threads, PopWaits(t) \/ PopGoesOn(t) \/ Spurious(t)
      PROVE  UNCHANGED Fifo!fvars
  <2>1. PICK place \in {"waiting", "taking", "woken"} : At(t, place)
    BY <1>5 DEF PopWaits, PopGoesOn, Spurious, Leave
  <2>2. pc[t] \in InPop /\ place \in InPop /\ UNCHANGED <<pushed, popped>>
    BY <1>5 DEF PopWaits, PopGoesOn, Spurious, InPop
  <2>3. QED
    BY <1>1, <2>1, <2>2
<1>6. ASSUME NEW t \in Threads, Answer(t) PROVE Fifo!Next \/ UNCHANGED Fifo!fvars
  <2>1. PICK place \in {"done", "pop"} : At(t, place)
    BY <1>6 DEF Answer, Leave
  <2>2. pc[t] \notin InPop /\ UNCHANGED <<pushed, popped>>
    BY <1>6 DEF Answer, InPop
  <2>3. QED
    BY <1>1, <1>2, <2>1, <2>2
<1>7. ASSUME NEW t \in Threads, Push(t) PROVE Fifo!Next
  <2>1. PICK x \in Items : pushed' = Append(pushed, x)
    BY <1>7 DEF Push, Add, Notify
  <2>2. Len(pushed') = Len(pushed) + 1 /\ SubSeq(pushed', 1, Len(pushed)) = pushed
    BY <1>a, <2>1
  <2>3. ASSUME NEW u \in Threads PROVE pc'[u] \in InPop <=> pc[u] \in InPop
    BY <1>7, <1>a DEF Push, Add, Notify, NotifyAll, InPop
  <2>4. Callers' = Callers /\ popped' = popped
    BY <1>7, <2>3 DEF Callers, Push, Add, Notify
  <2>5. Fifo!Offer
    BY <2>2, <2>4 DEF Fifo!Offer, Callers
  <2>6. QED
    BY <2>5 DEF Fifo!Next
<1>8. ASSUME NEW t \in Threads, PopTakes(t) PROVE Fifo!Next
  <2>1. PICK place \in {"idle", "empty"} : At(t, place)
    BY <1>8 DEF PopTakes, Leave
  <2>2. /\ pc[t] = "taking" /\ queue # << >> /\ pushed' = pushed
        /\ popped' = Append(popped, Head(queue))
    BY <1>8 DEF PopTakes
  <2>3. \A u \in Threads : pc'[u] = IF u = t THEN place ELSE pc[u]
    BY <1>a, <2>1 DEF At
  <2>4. t \in Callers /\ Callers' = Callers \ {t}
    BY <2>1, <2>2, <2>3 DEF Callers, InPop
  <2>5. Len(popped) < Len(pushed) /\ pushed[Len(popped) + 1] = Head(queue)
    BY <1>a, <2>2, MoveHead DEF QueueInv, Conserved
  <2>6. Fifo!Take(t)
    BY <2>2, <2>4, <2>5 DEF Fifo!Take, Callers
  <2>7. QED
    BY <2>6 DEF Fifo!Next, Fifo!AnyTake
<1>9. CASE UNCHANGED vars
  BY <1>9 DEF vars, Fifo!fvars
<1>10. QED
  BY <1>3, <1>4, <1>5, <1>6, <1>7, <1>8, <1>9 DEF Next, AnyLock, Body

(* The queue implements the abstract FIFO: whatever the interleaving, what the
   callers of Pop have been given is what was pushed first, in that order. *)
THEOREM QueueIsFifo == Spec => FifoKept
<1>1. Init => Fifo!Init
  BY DEF Init, Fifo!Init, InPop
<1>2. QueueInv /\ [Next]_vars => [Fifo!Next]_Fifo!fvars
  BY StepMaps
<1>3. QED
  BY <1>1, <1>2, QueueInvariant, PTL DEF Spec, FifoKept, Fifo!SafeSpec
=============================================================================
