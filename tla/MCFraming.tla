------------------------------ MODULE MCFraming ------------------------------
(* Instances of Framing for TLC. *)
EXTENDS Framing

(* What the bytes that have not arrived may look like: a negative length, one
   that may be right, one that is too long.  (Zero comes from a missing mark.) *)
SomeLengths == {-1, 3, BufSize + 1}
=============================================================================
