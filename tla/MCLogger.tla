------------------------------- MODULE MCLogger -------------------------------
(* Instances of Logger for TLC: the writers and buffers are model values. *)
EXTENDS Logger
=============================================================================
