-------------------------------- MODULE Fifo --------------------------------
(***************************************************************************)
(* What a blocking queue promises: callers of Pop are given the elements in *)
(* the order in which they were pushed, each to one caller, and as long as  *)
(* there are elements nobody waits for one for ever.                        *)
(***************************************************************************)
EXTENDS Naturals, Sequences

CONSTANT Threads

VARIABLES
  pushed,  \* the elements pushed, in order
  popped,  \* the elements given away, in order
  wanting  \* the callers of Pop that have not been given one

fvars == <<pushed, popped, wanting>>

Init == pushed = << >> /\ popped = << >> /\ wanting = {}

Offer ==
  /\ Len(pushed') = Len(pushed) + 1 /\ SubSeq(pushed', 1, Len(pushed)) = pushed
  /\ UNCHANGED <<popped, wanting>>

Ask(t) ==
  /\ t \notin wanting /\ wanting' = wanting \cup {t}
  /\ UNCHANGED <<pushed, popped>>

Take(t) ==
  /\ t \in wanting /\ wanting' = wanting \ {t}
  /\ Len(popped) < Len(pushed)
  /\ popped' = Append(popped, pushed[Len(popped) + 1])
  /\ UNCHANGED pushed

AnyTake == \E t \in Threads : Take(t)

Next == Offer \/ AnyTake \/ \E t \in Threads : Ask(t)

SafeSpec == Init /\ [][Next]_fvars

Spec == SafeSpec /\ WF_fvars(AnyTake)
=============================================================================
