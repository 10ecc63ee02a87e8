-------------------------------- MODULE LogPipe --------------------------------
(***************************************************************************)
(* What a log promises its writers: records are numbered as they are        *)
(* accepted, the file of an open log holds the first so many of them, and   *)
(* no accepted record stays out of it for ever.  Once the log is closed, it *)
(* only promises that nothing else gets into the file, and nothing out.     *)
(***************************************************************************)
EXTENDS Naturals

VARIABLES
  count,   \* how many records have been accepted
  written, \* the numbers of the records in the file
  open     \* the log has not been closed

pvars == <<count, written, open>>

Init == count = 0 /\ written = {} /\ open = TRUE

Accept == count' = count + 1 /\ UNCHANGED <<written, open>>

(* The file grows by the records that come next. *)
Emit ==
  /\ open
  /\ \E k \in 1 .. count : written' = 1 .. k
  /\ written \subseteq written' /\ written # written'
  /\ UNCHANGED <<count, open>>

Close == open /\ open' = FALSE /\ UNCHANGED <<count, written>>

(* Some of the accepted records get into the file of a closed log. *)
Straggle ==
  /\ ~open
  /\ written \subseteq written' /\ written' \subseteq 1 .. count
  /\ UNCHANGED <<count, open>>

Next == Accept \/ Emit \/ Close \/ Straggle

SafeSpec == Init /\ [][Next]_pvars

Spec == SafeSpec /\ WF_pvars(Emit)
=============================================================================
