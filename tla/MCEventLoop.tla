----------------------------- MODULE MCEventLoop -----------------------------
(* Instances of EventLoop for TLC. *)
EXTENDS EventLoop, TLC

(* Connections are interchangeable. *)
Symmetry == Permutations(Conns)
=============================================================================
