----------------------------- MODULE ConnService -----------------------------
(***************************************************************************)
(* What a server promises each incoming TCP connection, without epoll,      *)
(* descriptors, batches or handlers: whoever queues is admitted or turned   *)
(* away, whatever arrives is taken in, and a connection is released only    *)
(* when there is a reason for it in its input.                              *)
(***************************************************************************)
CONSTANT Conns

VARIABLES
  phase,  \* idle, queued, open, closed
  input   \* the connection has input (bytes or its end) not yet taken in

avars == <<phase, input>>

Init ==
  /\ phase = [c \in Conns |-> "idle"]
  /\ input = [c \in Conns |-> FALSE]

Arrive(c) ==
  /\ phase[c] = "idle"
  /\ phase' = [phase EXCEPT ![c] = "queued"]
  /\ UNCHANGED input

Offer(c) ==
  /\ phase[c] \in {"queued", "open"}
  /\ input' = [input EXCEPT ![c] = TRUE]
  /\ UNCHANGED phase

Admit(c) ==
  /\ phase[c] = "queued"
  /\ phase' = [phase EXCEPT ![c] = "open"]
  /\ UNCHANGED input

TurnAway(c) ==
  /\ phase[c] = "queued"
  /\ phase' = [phase EXCEPT ![c] = "closed"]
  /\ input' = [input EXCEPT ![c] = FALSE]

Drain(c) ==
  /\ phase[c] = "open" /\ input[c]
  /\ input' = [input EXCEPT ![c] = FALSE]
  /\ UNCHANGED phase

Release(c) ==
  /\ phase[c] = "open" /\ input[c]
  /\ phase' = [phase EXCEPT ![c] = "closed"]
  /\ input' = [input EXCEPT ![c] = FALSE]

(* The server goes away before it has admitted anyone. *)
Shutdown ==
  /\ \A c \in Conns : phase[c] # "open"
  /\ phase' = [c \in Conns |-> IF phase[c] = "queued" THEN "closed" ELSE phase[c]]
  /\ input' = [c \in Conns |-> FALSE]

Next ==
  \/ \E c \in Conns : Arrive(c) \/ Offer(c) \/ Admit(c) \/ TurnAway(c)
                        \/ Drain(c) \/ Release(c)
  \/ Shutdown

SafeSpec == Init /\ [][Next]_avars

Fairness == \A c \in Conns : /\ WF_avars(Admit(c) \/ TurnAway(c))
                             /\ WF_avars(Drain(c) \/ Release(c))

Spec == SafeSpec /\ Fairness
=============================================================================
