---------------------------- MODULE BlockingQueue ----------------------------
(***************************************************************************)
(* BlockingQueue<T> under any number of threads: its mutex, the wait set of *)
(* its condition variable and the deque.  Calls last from one step to       *)
(* several: the mutex is asked for, the body of the call runs, and Pop may  *)
(* give the mutex back and wait in between.                                 *)
(***************************************************************************)
EXTENDS Naturals, Sequences

CONSTANTS
  Producers,  \* threads that call Push
  Consumers,  \* threads that call Pop
  Drainers,   \* threads that call Pop as long as empty() says there is something
  Items,      \* the elements
  None,       \* the holder of a free mutex
  MaxPushes   \* bound: elements pushed

Threads == Producers \cup Consumers \cup Drainers

ASSUME QueueAssumption == None \notin Threads /\ MaxPushes \in Nat

VARIABLES
  queue,   \* m_queue
  mutex,   \* the thread that holds m_mutex
  pc,      \* where each thread is
  pushed,  \* history: the elements pushed, in order
  popped   \* history: the elements returned by Pop, in order

vars == <<queue, mutex, pc, pushed, popped>>

(* Waiting for the mutex: at the start of a call, or woken in Pop. *)
Blocked == {"push", "pop", "empty", "woken"}

(* Holding it: in Push, before and after the loop of Pop, in empty. *)
Inside == {"pushing", "testing", "taking", "looking"}

Places == Blocked \cup Inside \cup {"idle", "waiting", "done"}

(* In a call of Pop. *)
InPop == {"pop", "testing", "taking", "waiting", "woken"}

At(t, place) == pc' = [pc EXCEPT ![t] = place]

-----------------------------------------------------------------------------
Call(t) ==
  /\ pc[t] = "idle"
  /\ \/ t \in Producers /\ Len(pushed) < MaxPushes /\ At(t, "push")
     \/ t \in Consumers /\ At(t, "pop")
     \/ t \in Drainers /\ At(t, "empty")
  /\ UNCHANGED <<queue, mutex, pushed, popped>>

(* Variant: a woken caller of Pop does not look again. *)
EntersTrusting(place) ==
  CASE place = "push" -> "pushing" [] place = "pop" -> "testing"
    [] place = "woken" -> "taking" [] OTHER -> "looking"

(* Where a thread goes on that has got the mutex; a woken caller of Pop, at
   the head of its loop. *)
Enters(place) ==
  CASE place = "push" -> "pushing" [] place \in {"pop", "woken"} -> "testing"
    [] OTHER -> "looking"

Lock(t) ==
  /\ mutex = None /\ pc[t] \in Blocked
  /\ mutex' = t /\ At(t, Enters(pc[t]))
  /\ UNCHANGED <<queue, pushed, popped>>

(* Variant: the mutex is kept. *)
LeaveLocked(t, place) == UNCHANGED mutex /\ At(t, place)

Leave(t, place) == mutex' = None /\ At(t, place)

(* The condition variable: notify_all takes all threads out of the wait set. *)
NotifyAll(p) == [t \in Threads |-> IF p[t] = "waiting" THEN "woken" ELSE p[t]]

(* Variant: only the first element of a queue is announced, to one thread. *)
NotifyFirst(p) ==
  LET waiting == {w \in Threads : p[w] = "waiting"}
  IN IF queue # << >> \/ waiting = {} THEN pc' = p
     ELSE \E w \in waiting : pc' = [p EXCEPT ![w] = "woken"]

Notify(p) == pc' = NotifyAll(p)

(* Variant: at the front. *)
AddFront(x) == queue' = <<x>> \o queue

Add(x) == queue' = Append(queue, x)

Push(t) ==
  /\ pc[t] = "pushing"
  /\ \E x \in Items : Add(x) /\ pushed' = Append(pushed, x)
  /\ mutex' = None /\ Notify([pc EXCEPT ![t] = "idle"])
  /\ UNCHANGED popped

(* wait() gives the mutex back and joins the wait set in one step. *)
PopWaits(t) ==
  /\ pc[t] = "testing" /\ queue = << >>
  /\ Leave(t, "waiting")
  /\ UNCHANGED <<queue, pushed, popped>>

PopGoesOn(t) ==
  /\ pc[t] = "testing" /\ queue # << >>
  /\ At(t, "taking")
  /\ UNCHANGED <<queue, mutex, pushed, popped>>

(* The assertion holds (PopFindsElement); the front is moved out. *)
PopTakes(t) ==
  /\ pc[t] = "taking" /\ queue # << >>
  /\ popped' = Append(popped, Head(queue)) /\ queue' = Tail(queue)
  /\ Leave(t, IF t \in Drainers THEN "empty" ELSE "idle")
  /\ UNCHANGED pushed

(* empty(), in the loop of a thread that drains the queue. *)
Answer(t) ==
  /\ pc[t] = "looking"
  /\ Leave(t, IF queue = << >> THEN "done" ELSE "pop")
  /\ UNCHANGED <<queue, pushed, popped>>

(* A wait may end without a notification. *)
Spurious(t) ==
  /\ pc[t] = "waiting" /\ At(t, "woken")
  /\ UNCHANGED <<queue, mutex, pushed, popped>>

-----------------------------------------------------------------------------
Init ==
  /\ queue = << >> /\ mutex = None
  /\ pc = [t \in Threads |-> "idle"]
  /\ pushed = << >> /\ popped = << >>

Body(t) == Push(t) \/ PopWaits(t) \/ PopGoesOn(t) \/ PopTakes(t) \/ Answer(t)

AnyLock == \E t \in Threads : Lock(t)

Next == AnyLock \/ \E t \in Threads : Call(t) \/ Body(t) \/ Spurious(t)

Spec == Init /\ [][Next]_vars

(* A free mutex is given to one of the threads that ask for it, not in turn;
   the thread that holds it runs.  Nobody has to call, and no wait has to end
   without a notification. *)
FairSpec == Spec /\ WF_vars(AnyLock) /\ \A t \in Threads : WF_vars(Body(t))

-----------------------------------------------------------------------------
(* Properties.                                                              *)

(* Types, and the mutex is held by exactly the thread that is inside. *)
TypeOK ==
  /\ queue \in Seq(Items) /\ pushed \in Seq(Items) /\ popped \in Seq(Items)
  /\ mutex \in Threads \cup {None}
  /\ pc \in [Threads -> Places]
  /\ \A t \in Threads : pc[t] \in Inside <=> mutex = t

(* No wakeup is lost: nobody is in the wait set while there are elements. *)
NoSleeperLeft == \A t \in Threads : pc[t] = "waiting" => queue = << >>

(* The assertion in Pop: an element announced to several threads is still
   there for the one that goes to take it. *)
PopFindsElement == \A t \in Threads : pc[t] = "taking" => queue # << >>

(* The queue as its callers see it. *)
Fifo == INSTANCE Fifo WITH wanting <- {t \in Threads : pc[t] \in InPop}

(* What has been returned is a prefix of what was pushed, in every
   interleaving. *)
FifoKept == Fifo!SafeSpec

(* And while there are elements, some caller of Pop is given one. *)
FifoServed == Fifo!Spec
=============================================================================
