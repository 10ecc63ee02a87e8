---------------------------- MODULE PackageStream ----------------------------
(***************************************************************************)
(* What the framework promises the user of a TCP connection: the packages   *)
(* of the peer are handed over whole, each once, in the order they were     *)
(* sent, until the connection is closed; and as long as they arrive apart,  *)
(* none of them is kept back for ever.  The promise ends where the          *)
(* framework loses track of the stream.                                     *)
(***************************************************************************)
EXTENDS Naturals, Sequences

VARIABLES
  sent,    \* the packages of the peer
  handed,  \* those the user has been given
  over,    \* the connection is closed
  sound,   \* the framework has kept track of the stream so far
  prompt   \* the packages have arrived apart so far

svars == <<sent, handed, over, sound, prompt>>

Init == sent = << >> /\ handed = << >> /\ over = FALSE /\ sound = TRUE /\ prompt = TRUE

Send ==
  /\ Len(sent') = Len(sent) + 1 /\ SubSeq(sent', 1, Len(sent)) = sent
  /\ UNCHANGED <<handed, over, sound, prompt>>

Hand ==
  /\ sound /\ ~over /\ Len(handed) < Len(sent)
  /\ handed' = Append(handed, sent[Len(handed) + 1])
  /\ over' \in BOOLEAN
  /\ prompt' \in {p \in BOOLEAN : p => prompt}
  /\ UNCHANGED <<sent, sound>>

(* Packages arrive together. *)
Crowd == prompt' = FALSE /\ UNCHANGED <<sent, handed, over, sound>>

Close ==
  /\ ~over /\ over' = TRUE
  /\ prompt' \in {p \in BOOLEAN : p => prompt}
  /\ UNCHANGED <<sent, handed, sound>>

(* The framework loses track, and goes on for a while: nothing is said of what
   it hands over from then on. *)
Stray == ~over /\ sound' = FALSE /\ UNCHANGED sent

Next == Send \/ Hand \/ Crowd \/ Close \/ Stray

SafeSpec == Init /\ [][Next]_svars

(* The next package is handed over. *)
Serve == prompt /\ Hand

Spec == SafeSpec /\ WF_svars(Serve)
=============================================================================
