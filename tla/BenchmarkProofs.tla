--------------------------- MODULE BenchmarkProofs ---------------------------
(***************************************************************************)
(* Proofs about the UDP benchmark, for any number of threads, requests,     *)
(* delays and mishaps: what a thread times, and what is reported.           *)
(***************************************************************************)
EXTENDS Benchmark, LatencyReportProofs

Address == Threads \cup {Server, Stranger}

(* The datagrams of thread t that are on their way, in either direction. *)
Own(t) == {d \in wire : Owner(d) = t}

(* Every datagram is between a thread and somebody else. *)
WireOK ==
  /\ wire \subseteq [from : Address, to : Address, request : 0 .. Requests + 1, copy : {1, 2}]
  /\ \A d \in wire : (d.from \in Threads /\ d.to \notin Threads) \/ (d.from \notin Threads /\ d.to \in Threads)

(* The place of thread t in its loop, and how many samples it has. *)
PlaceOK(t) ==
  /\ round[t] \in 0 .. Requests + 1
  /\ pc[t] \in {"none", "send", "recv", "finished", "ended"}
  /\ pc[t] \in {"send", "recv"} => round[t] \in 1 .. Requests
  /\ pc[t] = "none" <=> round[t] = 0
  /\ ha[t] \in {Server, Stranger}
  /\ hit[t] \subseteq Kinds

Sample == [round : 1 .. Requests, answer : 1 .. Requests + 1, ms : Delays]

(* Samples are of the rounds before this one. *)
SamplesOK(t) ==
  /\ samples[t] \in Seq(Sample)
  /\ Len(samples[t]) < round[t] \/ samples[t] = << >>
  /\ \A i \in DOMAIN samples[t] : samples[t][i].round < round[t]

(* The part of TimesItsRequest that is about thread t. *)
TimesIt(t) ==
  \A i \in DOMAIN samples[t] :
    LET s == samples[t][i] IN
    /\ hit[t] \subseteq {"lost"} => s.answer = s.round
    /\ "stray" \notin hit[t] => s.answer <= s.round
    /\ hit[t] \cap {"twice", "stray"} = {} =>
         \A j \in 1 .. i - 1 : samples[t][j].answer # s.answer

(* Datagrams on their way answer a request that has been sent; without
   duplicates, one that is not yet answered, and one datagram each; and if
   nothing is worse than lost, only the request just sent is on its way. *)
OwnOK(t) ==
  /\ "stray" \notin hit[t] =>
       \A d \in Own(t) :
         /\ d.request \in 1 .. round[t]
         /\ pc[t] = "send" => d.request < round[t]
  /\ hit[t] \cap {"twice", "stray"} = {} =>
       /\ \A d, e \in Own(t) : d.request = e.request => d = e
       /\ \A d \in Own(t) : \A i \in DOMAIN samples[t] : samples[t][i].answer # d.request
  /\ hit[t] \subseteq {"lost"} =>
       \A d \in Own(t) : pc[t] = "recv" /\ d.request = round[t]

ThreadInv(t) == PlaceOK(t) /\ SamplesOK(t) /\ TimesIt(t) /\ OwnOK(t)

(* The variables as functions of the threads. *)
Shapes ==
  /\ pc \in [Threads -> {"none", "send", "recv", "finished", "ended"}]
  /\ round \in [Threads -> 0 .. Requests + 1]
  /\ ha \in [Threads -> {Server, Stranger}]
  /\ samples \in [Threads -> Seq(Sample)]
  /\ hit \in [Threads -> SUBSET Kinds] /\ mishaps \in 0 .. MaxMishaps
  /\ main \in {"starting", "joining", "reported"} /\ results \in Seq(Threads)

(* The inductive invariant. *)
BenchInv == Shapes /\ WireOK /\ \A t \in Threads : ThreadInv(t)

-----------------------------------------------------------------------------
(* A thread about which nothing changes but that more may have gone wrong. *)
LEMMA ThreadKept ==
  ASSUME NEW t \in Threads, ThreadInv(t),
         pc'[t] = pc[t], round'[t] = round[t], ha'[t] = ha[t], samples'[t] = samples[t],
         hit[t] \subseteq hit'[t], hit'[t] \subseteq Kinds,
         OwnOK(t)'
  PROVE  ThreadInv(t)'
<1>1. PlaceOK(t)'
  BY DEF ThreadInv, PlaceOK
<1>2. SamplesOK(t)'
  BY DEF ThreadInv, SamplesOK
<1>3. TimesIt(t)'
  BY DEF ThreadInv, TimesIt
<1>4. QED
  BY <1>1, <1>2, <1>3 DEF ThreadInv

(* ... and of whose datagrams none is added. *)
LEMMA ThreadOnlyWorse ==
  ASSUME NEW t \in Threads, ThreadInv(t),
         pc'[t] = pc[t], round'[t] = round[t], ha'[t] = ha[t], samples'[t] = samples[t],
         hit[t] \subseteq hit'[t], hit'[t] \subseteq Kinds,
         Own(t)' \subseteq Own(t)
  PROVE  ThreadInv(t)'
<1>1. OwnOK(t)'
  BY DEF ThreadInv, OwnOK
<1>2. QED
  BY <1>1, ThreadKept

(* The datagrams of other threads do not matter. *)
LEMMA OwnOfOthers ==
  ASSUME NEW t, NEW lost, NEW new,
         wire' = (wire \ lost) \cup new, \A d \in lost \cup new : Owner(d) # t
  PROVE  Own(t)' = Own(t)
BY DEF Own, Owner

LEMMA SentDatagram ==
  ASSUME NEW t \in Threads, NEW a \in {Server, Stranger}, NEW n \in 0 .. Requests + 1
  PROVE  /\ Datagram(t, a, n) \in [from : Address, to : Address, request : 0 .. Requests + 1, copy : {1, 2}]
         /\ Datagram(t, a, n).from = t /\ Datagram(t, a, n).to = a
         /\ Datagram(t, a, n).request = n
         /\ Owner(Datagram(t, a, n)) = t
         /\ a \notin Threads
BY BenchmarkAssumption DEF Datagram, Owner, Address

LEMMA StrayDatagram ==
  ASSUME NEW t \in Threads, NEW n \in Foreign
  PROVE  /\ Datagram(Stranger, t, n) \in [from : Address, to : Address, request : 0 .. Requests + 1, copy : {1, 2}]
         /\ Datagram(Stranger, t, n).from = Stranger /\ Datagram(Stranger, t, n).to = t
         /\ Owner(Datagram(Stranger, t, n)) = t
         /\ Stranger \notin Threads
<1>1. n \in 0 .. Requests + 1
  BY BenchmarkAssumption DEF Foreign
<1>2. QED
  BY <1>1, BenchmarkAssumption DEF Datagram, Owner, Address

LEMMA EchoFacts ==
  ASSUME WireOK, NEW d \in wire, d.to = Server
  PROVE  /\ Echo(d) \in [from : Address, to : Address, request : 0 .. Requests + 1, copy : {1, 2}]
         /\ Echo(d).from = Server /\ Echo(d).to = d.from /\ Echo(d).request = d.request
         /\ d.from \in Threads /\ Owner(d) = d.from /\ Owner(Echo(d)) = d.from
         /\ Server \notin Threads
BY BenchmarkAssumption DEF WireOK, Echo, Owner, Address

LEMMA CopyFacts ==
  ASSUME WireOK, NEW d \in wire
  PROVE  LET e == [d EXCEPT !.copy = 2]
         IN /\ e \in [from : Address, to : Address, request : 0 .. Requests + 1, copy : {1, 2}]
            /\ e.from = d.from /\ e.to = d.to /\ e.request = d.request
            /\ Owner(e) = Owner(d) /\ Owner(d) \in Threads
BY DEF WireOK, Owner

-----------------------------------------------------------------------------
(* The network keeps the invariant.                                         *)

LEMMA MishapFacts ==
  ASSUME Shapes, NEW u \in Threads, NEW kind \in Kinds, Mishap(u, kind)
  PROVE  /\ hit' \in [Threads -> SUBSET Kinds] /\ mishaps' \in 0 .. MaxMishaps
         /\ \A t \in Threads : hit[t] \subseteq hit'[t] /\ hit'[t] \subseteq Kinds
         /\ kind \in hit'[u]
         /\ \A t \in Threads \ {u} : hit'[t] = hit[t]
BY BenchmarkAssumption DEF Shapes, Mishap

LEMMA LoseStep ==
  ASSUME BenchInv, Lose
  PROVE  BenchInv'
<1> USE DEF threadVars
<1>1. PICK d \in wire : Mishap(Owner(d), "lost") /\ wire' = wire \ {d}
  BY DEF Lose
<1>2. UNCHANGED <<main, pc, round, ha, samples, results>>
  BY DEF Lose
<1>3. Owner(d) \in Threads /\ "lost" \in Kinds
  BY CopyFacts DEF BenchInv, Kinds
<1>4. /\ hit' \in [Threads -> SUBSET Kinds] /\ mishaps' \in 0 .. MaxMishaps
      /\ \A t \in Threads : hit[t] \subseteq hit'[t] /\ hit'[t] \subseteq Kinds
  BY <1>1, <1>3, MishapFacts DEF BenchInv
<1>5. Shapes' /\ WireOK'
  BY <1>1, <1>2, <1>4 DEF BenchInv, Shapes, WireOK
<1>6. ASSUME NEW t \in Threads PROVE ThreadInv(t)'
  <2>1. Own(t)' \subseteq Own(t)
    BY <1>1 DEF Own
  <2>2. QED
    BY <1>2, <1>4, <2>1, ThreadOnlyWorse DEF BenchInv
<1>7. QED
  BY <1>5, <1>6 DEF BenchInv

LEMMA DuplicateStep ==
  ASSUME BenchInv, Duplicate
  PROVE  BenchInv'
<1> USE DEF threadVars
<1>1. PICK d \in wire : Mishap(Owner(d), "twice") /\ wire' = wire \cup {[d EXCEPT !.copy = 2]}
  BY DEF Duplicate
<1> DEFINE e == [d EXCEPT !.copy = 2]
<1>2. UNCHANGED <<main, pc, round, ha, samples, results>>
  BY DEF Duplicate
<1>3. /\ Owner(d) \in Threads /\ "twice" \in Kinds /\ Owner(e) = Owner(d)
      /\ e \in [from : Address, to : Address, request : 0 .. Requests + 1, copy : {1, 2}]
      /\ e.from = d.from /\ e.to = d.to /\ e.request = d.request
  BY CopyFacts DEF BenchInv, Kinds
<1>4. /\ hit' \in [Threads -> SUBSET Kinds] /\ mishaps' \in 0 .. MaxMishaps
      /\ \A t \in Threads : hit[t] \subseteq hit'[t] /\ hit'[t] \subseteq Kinds
      /\ "twice" \in hit'[Owner(d)]
  BY <1>1, <1>3, MishapFacts DEF BenchInv
<1> HIDE DEF e
<1>5. wire' = wire \cup {e}
  BY <1>1 DEF e
<1>6. Shapes' /\ WireOK'
  BY <1>2, <1>3, <1>4, <1>5 DEF BenchInv, Shapes, WireOK
<1>7. ASSUME NEW t \in Threads PROVE ThreadInv(t)'
  <2>1. CASE t = Owner(d)
    <3>1. \A x \in Own(t)' : \E y \in Own(t) : x.request = y.request
      BY <1>3, <1>5, <2>1 DEF Own
    <3>2. OwnOK(t)'
      BY <1>2, <1>4, <2>1, <3>1 DEF BenchInv, ThreadInv, OwnOK
    <3>3. QED
      BY <1>2, <1>4, <3>2, ThreadKept DEF BenchInv
  <2>2. CASE t # Owner(d)
    <3>1. Own(t)' \subseteq Own(t)
      BY <1>3, <1>5, <2>2 DEF Own
    <3>2. QED
      BY <1>2, <1>4, <3>1, ThreadOnlyWorse DEF BenchInv
  <2>3. QED
    BY <2>1, <2>2
<1>8. QED
  BY <1>6, <1>7 DEF BenchInv

LEMMA StrayStep ==
  ASSUME BenchInv, NEW u \in Threads, NEW n \in Foreign, Stray(u, n)
  PROVE  BenchInv'
<1> USE DEF threadVars
<1> DEFINE d == Datagram(Stranger, u, n)
<1>1. /\ UNCHANGED <<main, pc, round, ha, samples, results>>
      /\ wire' = wire \cup {d} /\ Mishap(u, "stray")
  BY DEF Stray
<1>2. /\ d \in [from : Address, to : Address, request : 0 .. Requests + 1, copy : {1, 2}]
      /\ d.from = Stranger /\ d.to = u /\ Owner(d) = u /\ Stranger \notin Threads
  BY StrayDatagram
<1>3. /\ hit' \in [Threads -> SUBSET Kinds] /\ mishaps' \in 0 .. MaxMishaps
      /\ \A t \in Threads : hit[t] \subseteq hit'[t] /\ hit'[t] \subseteq Kinds
      /\ "stray" \in hit'[u]
  BY <1>1, MishapFacts DEF BenchInv, Kinds
<1> HIDE DEF d
<1>4. Shapes' /\ WireOK'
  BY <1>1, <1>2, <1>3 DEF BenchInv, Shapes, WireOK
<1>5. ASSUME NEW t \in Threads PROVE ThreadInv(t)'
  <2>1. CASE t = u
    <3>1. OwnOK(t)'
      BY <1>3, <2>1 DEF OwnOK
    <3>2. QED
      BY <1>1, <1>3, <3>1, ThreadKept DEF BenchInv
  <2>2. CASE t # u
    <3>1. Own(t)' \subseteq Own(t)
      BY <1>1, <1>2, <2>2 DEF Own
    <3>2. QED
      BY <1>1, <1>3, <3>1, ThreadOnlyWorse DEF BenchInv
  <2>3. QED
    BY <2>1, <2>2
<1>6. QED
  BY <1>4, <1>5 DEF BenchInv

LEMMA ServeStep ==
  ASSUME BenchInv, Serve
  PROVE  BenchInv'
<1> USE DEF threadVars, faultVars
<1>1. PICK d \in wire : d.to = Server /\ wire' = (wire \ {d}) \cup {Echo(d)}
  BY DEF Serve
<1> DEFINE e == Echo(d)
<1>2. UNCHANGED <<main, pc, round, ha, samples, results, hit, mishaps>>
  BY DEF Serve
<1>3. /\ e \in [from : Address, to : Address, request : 0 .. Requests + 1, copy : {1, 2}]
      /\ e.from = Server /\ e.to = d.from /\ e.request = d.request
      /\ d.from \in Threads /\ Owner(d) = d.from /\ Owner(e) = d.from /\ Server \notin Threads
  BY <1>1, EchoFacts DEF BenchInv
<1> HIDE DEF e
<1>4. wire' = (wire \ {d}) \cup {e}
  BY <1>1 DEF e
<1>5. Shapes' /\ WireOK'
  BY <1>2, <1>3, <1>4 DEF BenchInv, Shapes, WireOK
<1>6. ASSUME NEW t \in Threads PROVE ThreadInv(t)'
  <2>1. CASE t = d.from
    <3>1. Own(t)' = (Own(t) \ {d}) \cup {e} /\ d \in Own(t)
      BY <1>3, <1>4, <2>1 DEF Own
    <3>2. OwnOK(t)'
      BY <1>2, <1>3, <3>1 DEF BenchInv, ThreadInv, OwnOK
    <3>3. QED
      BY <1>2, <3>2, ThreadKept DEF BenchInv, Shapes
  <2>2. CASE t # d.from
    <3>1. Own(t)' \subseteq Own(t)
      BY <1>3, <1>4, <2>2 DEF Own
    <3>2. QED
      BY <1>2, <3>1, ThreadOnlyWorse DEF BenchInv, Shapes
  <2>3. QED
    BY <2>1, <2>2
<1>7. QED
  BY <1>5, <1>6 DEF BenchInv

-----------------------------------------------------------------------------
(* The threads keep the invariant.                                          *)

(* A step of thread u that puts none of the other threads' datagrams on the
   wire does not disturb them. *)
LEMMA OthersKept ==
  ASSUME BenchInv, NEW u \in Threads,
         \A t \in Threads \ {u} :
           /\ pc'[t] = pc[t] /\ round'[t] = round[t] /\ ha'[t] = ha[t]
           /\ samples'[t] = samples[t] /\ hit'[t] = hit[t]
           /\ Own(t)' \subseteq Own(t)
  PROVE  \A t \in Threads \ {u} : ThreadInv(t)'
<1> SUFFICES ASSUME NEW t \in Threads, t # u PROVE ThreadInv(t)'
  OBVIOUS
<1>1. hit'[t] \subseteq Kinds /\ hit[t] \subseteq hit'[t]
  BY DEF BenchInv, Shapes
<1>2. QED
  BY <1>1, ThreadOnlyWorse DEF BenchInv

(* The head of the loop. *)
LEMMA LoopFacts ==
  ASSUME Shapes, NEW u \in Threads, NEW n \in 1 .. Requests + 1, Loop(u, n)
  PROVE  /\ pc' \in [Threads -> {"none", "send", "recv", "finished", "ended"}]
         /\ round' \in [Threads -> 0 .. Requests + 1]
         /\ round'[u] = n /\ pc'[u] \in {"send", "finished"}
         /\ pc'[u] = "send" => n <= Requests
         /\ \A t \in Threads \ {u} : pc'[t] = pc[t] /\ round'[t] = round[t]
BY DEF Shapes, Loop, GoesOn

LEMMA SendStep ==
  ASSUME BenchInv, NEW u \in Threads, Send(u)
  PROVE  BenchInv'
<1> USE DEF faultVars
<1> DEFINE d == Datagram(u, ha[u], round[u])
<1>1. /\ pc[u] = "send" /\ wire' = wire \cup {d} /\ pc' = [pc EXCEPT ![u] = "recv"]
      /\ UNCHANGED <<main, round, ha, samples, results, hit, mishaps>>
  BY DEF Send
<1>2. round[u] \in 1 .. Requests /\ ha[u] \in {Server, Stranger} /\ round[u] \in 0 .. Requests + 1
  BY <1>1 DEF BenchInv, ThreadInv, PlaceOK
<1>3. /\ d \in [from : Address, to : Address, request : 0 .. Requests + 1, copy : {1, 2}]
      /\ d.from = u /\ d.to = ha[u] /\ d.request = round[u] /\ Owner(d) = u
      /\ ha[u] \notin Threads
  BY <1>2, SentDatagram
<1> HIDE DEF d
<1>4. Shapes' /\ WireOK'
  BY <1>1, <1>3 DEF BenchInv, Shapes, WireOK
<1>5. pc'[u] = "recv" /\ \A t \in Threads \ {u} : pc'[t] = pc[t]
  BY <1>1 DEF BenchInv, Shapes
<1>6. \A t \in Threads \ {u} : ThreadInv(t)'
  <2>1. \A t \in Threads \ {u} : Own(t)' \subseteq Own(t)
    BY <1>1, <1>3 DEF Own
  <2>2. QED
    BY <1>1, <1>5, <2>1, OthersKept
<1>7. ThreadInv(u)'
  <2>1. Own(u)' = Own(u) \cup {d}
    BY <1>1, <1>3 DEF Own
  <2>2. PlaceOK(u)'
    BY <1>1, <1>2, <1>5 DEF BenchInv, ThreadInv, PlaceOK
  <2>3. SamplesOK(u)' /\ TimesIt(u)'
    BY <1>1 DEF BenchInv, ThreadInv, SamplesOK, TimesIt
  <2>4. ASSUME "stray" \notin hit[u]
        PROVE  \A x \in Own(u)' : x.request \in 1 .. round[u]
    BY <1>2, <1>3, <2>1, <2>4 DEF BenchInv, ThreadInv, OwnOK
  <2>5. ASSUME hit[u] \cap {"twice", "stray"} = {}
        PROVE  /\ \A x, y \in Own(u)' : x.request = y.request => x = y
               /\ \A x \in Own(u)' : \A i \in DOMAIN samples[u] : samples[u][i].answer # x.request
    <3>1. \A x \in Own(u) : x.request < round[u] /\ x.request \in Int
      BY <1>1, <1>2, <2>5 DEF BenchInv, ThreadInv, OwnOK
    <3>2. \A i \in DOMAIN samples[u] : samples[u][i].answer # round[u]
      <4> SUFFICES ASSUME NEW i \in DOMAIN samples[u] PROVE samples[u][i].answer # round[u]
        OBVIOUS
      <4>1. samples[u][i].answer <= samples[u][i].round /\ samples[u][i].round < round[u]
        BY <2>5 DEF BenchInv, ThreadInv, TimesIt, SamplesOK
      <4>2. samples[u][i] \in Sample
        BY DEF BenchInv, ThreadInv, SamplesOK
      <4>3. QED
        BY <1>2, <4>1, <4>2 DEF Sample
    <3>3. \A x, y \in Own(u) : x.request = y.request => x = y
      BY <2>5 DEF BenchInv, ThreadInv, OwnOK
    <3>4. \A x \in Own(u) : \A i \in DOMAIN samples[u] : samples[u][i].answer # x.request
      BY <2>5 DEF BenchInv, ThreadInv, OwnOK
    <3>5. QED
      BY <1>2, <1>3, <2>1, <3>1, <3>2, <3>3, <3>4
  <2>6. ASSUME hit[u] \subseteq {"lost"}
        PROVE  \A x \in Own(u)' : x.request = round[u]
    <3>1. Own(u) = {}
      BY <1>1, <2>6 DEF BenchInv, ThreadInv, OwnOK
    <3>2. QED
      BY <1>3, <2>1, <3>1
  <2>7. OwnOK(u)'
    BY <1>1, <1>5, <2>4, <2>5, <2>6 DEF OwnOK
  <2>8. QED
    BY <2>2, <2>3, <2>7 DEF ThreadInv
<1>8. QED
  BY <1>4, <1>6, <1>7 DEF BenchInv

LEMMA FailStep ==
  ASSUME BenchInv, NEW u \in Threads, ReceiveFails(u)
  PROVE  BenchInv'
<1>1. /\ pc[u] = "recv" /\ Mishap(u, "failed") /\ Loop(u, round[u] + 1)
      /\ UNCHANGED <<main, ha, samples, results, wire>>
  BY DEF ReceiveFails, CallFails
<1>2. round[u] \in 1 .. Requests
  BY <1>1 DEF BenchInv, ThreadInv, PlaceOK
<1>3. /\ round[u] + 1 \in 1 .. Requests + 1
      /\ pc' \in [Threads -> {"none", "send", "recv", "finished", "ended"}]
      /\ round' \in [Threads -> 0 .. Requests + 1]
      /\ round'[u] = round[u] + 1 /\ pc'[u] \in {"send", "finished"}
      /\ pc'[u] = "send" => round[u] + 1 <= Requests
      /\ \A t \in Threads \ {u} : pc'[t] = pc[t] /\ round'[t] = round[t]
  BY <1>1, <1>2, LoopFacts, BenchmarkAssumption DEF BenchInv
<1>4. /\ hit' \in [Threads -> SUBSET Kinds] /\ mishaps' \in 0 .. MaxMishaps
      /\ \A t \in Threads : hit[t] \subseteq hit'[t] /\ hit'[t] \subseteq Kinds
      /\ "failed" \in hit'[u]
      /\ \A t \in Threads \ {u} : hit'[t] = hit[t]
  BY <1>1, MishapFacts DEF BenchInv, Kinds
<1>5. Shapes' /\ WireOK' /\ \A t \in Threads : Own(t)' = Own(t)
  BY <1>1, <1>3, <1>4 DEF BenchInv, Shapes, WireOK, Own
<1>6. \A t \in Threads \ {u} : ThreadInv(t)'
  BY <1>1, <1>3, <1>4, <1>5, OthersKept
<1>7. ThreadInv(u)'
  <2>1. PlaceOK(u)'
    BY <1>1, <1>2, <1>3, <1>4 DEF BenchInv, ThreadInv, PlaceOK
  <2>2. SamplesOK(u)'
    <3>1. samples[u] \in Seq(Sample) /\ Len(samples[u]) \in Nat
      BY DEF BenchInv, ThreadInv, SamplesOK
    <3>2. ASSUME NEW i \in DOMAIN samples[u] PROVE samples[u][i].round < round[u] + 1
      <4>1. samples[u][i] \in Sample /\ samples[u][i].round < round[u]
        BY DEF BenchInv, ThreadInv, SamplesOK
      <4>2. QED
        BY <1>2, <4>1 DEF Sample
    <3>3. Len(samples[u]) < round[u] + 1 \/ samples[u] = << >>
      BY <1>2, <3>1 DEF BenchInv, ThreadInv, SamplesOK
    <3>4. QED
      BY <1>1, <1>3, <3>1, <3>2, <3>3 DEF SamplesOK
  <2>3. TimesIt(u)'
    BY <1>1, <1>4 DEF BenchInv, ThreadInv, TimesIt
  <2>4. OwnOK(u)'
    <3>1. hit[u] \subseteq hit'[u] /\ Own(u)' = Own(u) /\ samples'[u] = samples[u]
      BY <1>1, <1>4, <1>5
    <3>2. ASSUME "stray" \notin hit'[u], NEW x \in Own(u)
          PROVE  x.request \in 1 .. round'[u] /\ x.request < round'[u]
      <4>1. x.request \in 1 .. round[u]
        BY <3>1, <3>2 DEF BenchInv, ThreadInv, OwnOK
      <4>2. QED
        BY <1>2, <1>3, <4>1
    <3>3. ~(hit'[u] \subseteq {"lost"})
      BY <1>4
    <3>4. ASSUME hit'[u] \cap {"twice", "stray"} = {}
          PROVE  /\ \A d, e \in Own(u) : d.request = e.request => d = e
                 /\ \A d \in Own(u) : \A i \in DOMAIN samples[u] : samples[u][i].answer # d.request
      <4>1. hit[u] \cap {"twice", "stray"} = {}
        BY <3>1, <3>4
      <4>2. QED
        BY <4>1 DEF BenchInv, ThreadInv, OwnOK
    <3>5. QED
      BY <3>1, <3>2, <3>3, <3>4 DEF OwnOK
  <2>5. QED
    BY <2>1, <2>2, <2>3, <2>4 DEF ThreadInv
<1>8. QED
  BY <1>5, <1>6, <1>7 DEF BenchInv

LEMMA FinishStep ==
  ASSUME BenchInv, NEW u \in Threads, Finish(u)
  PROVE  BenchInv'
<1> USE DEF faultVars
<1>1. /\ pc[u] = "finished" /\ pc' = [pc EXCEPT ![u] = "ended"]
      /\ results' = Append(results, u)
      /\ UNCHANGED <<main, round, ha, samples, wire, hit, mishaps>>
  BY DEF Finish
<1>2. pc'[u] = "ended" /\ \A t \in Threads \ {u} : pc'[t] = pc[t]
  BY <1>1 DEF BenchInv, Shapes
<1>3. Shapes' /\ WireOK' /\ \A t \in Threads : Own(t)' = Own(t)
  BY <1>1 DEF BenchInv, Shapes, WireOK, Own
<1>4. \A t \in Threads \ {u} : ThreadInv(t)'
  BY <1>1, <1>2, <1>3, OthersKept
<1>5. ThreadInv(u)'
  <2>1. PlaceOK(u)'
    BY <1>1, <1>2 DEF BenchInv, ThreadInv, PlaceOK
  <2>2. SamplesOK(u)' /\ TimesIt(u)'
    BY <1>1 DEF BenchInv, ThreadInv, SamplesOK, TimesIt
  <2>3. OwnOK(u)'
    BY <1>1, <1>2, <1>3 DEF BenchInv, ThreadInv, OwnOK
  <2>4. QED
    BY <2>1, <2>2, <2>3 DEF ThreadInv
<1>6. QED
  BY <1>3, <1>4, <1>5 DEF BenchInv

LEMMA ReceiveStep ==
  ASSUME BenchInv, NEW u \in Threads, Receive(u)
  PROVE  BenchInv'
<1> USE DEF faultVars
<1>1. PICK d \in wire, ms \in Delays :
        /\ d.to = u /\ wire' = wire \ {d}
        /\ ha' = [ha EXCEPT ![u] = d.from]
        /\ samples' = IF d.request = 0 THEN samples
                      ELSE [samples EXCEPT ![u] =
                             Append(@, [round |-> round[u], answer |-> d.request, ms |-> ms])]
  BY DEF Receive
<1> DEFINE new == [round |-> round[u], answer |-> d.request, ms |-> ms]
<1>2. /\ pc[u] = "recv" /\ Loop(u, round[u] + 1)
      /\ UNCHANGED <<main, results, hit, mishaps>>
  BY DEF Receive
<1>3. round[u] \in 1 .. Requests
  BY <1>2 DEF BenchInv, ThreadInv, PlaceOK
<1>4. /\ pc' \in [Threads -> {"none", "send", "recv", "finished", "ended"}]
      /\ round' \in [Threads -> 0 .. Requests + 1]
      /\ round'[u] = round[u] + 1 /\ pc'[u] \in {"send", "finished"}
      /\ pc'[u] = "send" => round[u] + 1 <= Requests
      /\ \A t \in Threads \ {u} : pc'[t] = pc[t] /\ round'[t] = round[t]
  BY <1>2, <1>3, LoopFacts, BenchmarkAssumption DEF BenchInv
<1>5. /\ d.from \in {Server, Stranger} /\ Owner(d) = u /\ d \in Own(u)
      /\ d.request \in 0 .. Requests + 1
  BY <1>1 DEF BenchInv, WireOK, Owner, Own, Address
<1>6. samples \in [Threads -> Seq(Sample)] /\ ha \in [Threads -> {Server, Stranger}]
  BY DEF BenchInv, Shapes
<1>7. d.request # 0 => new \in Sample
  BY <1>1, <1>3, <1>5 DEF Sample
<1>8. /\ samples' \in [Threads -> Seq(Sample)] /\ ha' \in [Threads -> {Server, Stranger}]
      /\ ha'[u] = d.from
      /\ samples'[u] = IF d.request = 0 THEN samples[u] ELSE Append(samples[u], new)
      /\ \A t \in Threads \ {u} : samples'[t] = samples[t] /\ ha'[t] = ha[t]
  <2>1. CASE d.request = 0
    BY <1>1, <1>5, <1>6, <2>1
  <2>2. CASE d.request # 0
    <3>1. samples[u] \in Seq(Sample)
      BY <1>6
    <3>2. Append(samples[u], new) \in Seq(Sample)
      BY <1>7, <2>2, <3>1, AppendProperties
    <3> HIDE DEF new
    <3>3. samples' = [samples EXCEPT ![u] = Append(samples[u], new)]
      BY <1>1, <2>2 DEF new
    <3>4. QED
      BY <1>1, <1>5, <1>6, <2>2, <3>2, <3>3
  <2>3. QED
    BY <2>1, <2>2
<1>9. Shapes' /\ WireOK'
  BY <1>1, <1>2, <1>4, <1>8 DEF BenchInv, Shapes, WireOK
<1>10. \A t \in Threads \ {u} : ThreadInv(t)'
  <2>1. \A t \in Threads \ {u} : Own(t)' \subseteq Own(t)
    BY <1>1 DEF Own
  <2>2. QED
    BY <1>2, <1>4, <1>8, <2>1, OthersKept
<1>11. Own(u)' = Own(u) \ {d}
  BY <1>1 DEF Own
<1>12. PlaceOK(u)'
  BY <1>2, <1>3, <1>4, <1>5, <1>8 DEF BenchInv, ThreadInv, PlaceOK
<1>13. ASSUME NEW i \in DOMAIN samples[u] PROVE samples[u][i] \in Sample /\ samples[u][i].round < round[u]
  BY DEF BenchInv, ThreadInv, SamplesOK
<1>14. CASE d.request = 0
  <2>1. samples'[u] = samples[u]
    BY <1>8, <1>14
  <2>2. SamplesOK(u)'
    <3>1. ASSUME NEW i \in DOMAIN samples[u] PROVE samples[u][i].round < round[u] + 1
      BY <1>3, <1>13 DEF Sample
    <3>2. samples[u] \in Seq(Sample) /\ Len(samples[u]) \in Nat
      BY DEF BenchInv, ThreadInv, SamplesOK
    <3>3. Len(samples[u]) < round[u] + 1 \/ samples[u] = << >>
      BY <1>3, <3>2 DEF BenchInv, ThreadInv, SamplesOK
    <3>4. QED
      BY <1>4, <2>1, <3>1, <3>2, <3>3 DEF SamplesOK
  <2>3. TimesIt(u)'
    BY <1>2, <2>1 DEF BenchInv, ThreadInv, TimesIt
  <2>4. "stray" \in hit[u]
    BY <1>5, <1>14 DEF BenchInv, ThreadInv, OwnOK
  <2>5. OwnOK(u)'
    BY <1>2, <2>4 DEF OwnOK
  <2>6. ThreadInv(u)'
    BY <1>12, <2>2, <2>3, <2>5 DEF ThreadInv
  <2>7. QED
    BY <1>9, <1>10, <2>6 DEF BenchInv
<1>15. CASE d.request # 0
  <2> DEFINE n == Len(samples[u])
  <2>1. samples[u] \in Seq(Sample) /\ n \in Nat /\ DOMAIN samples[u] = 1 .. n
    BY <1>6
  <2>2. /\ samples'[u] \in Seq(Sample) /\ Len(samples'[u]) = n + 1
        /\ DOMAIN samples'[u] = 1 .. n + 1
        /\ samples'[u][n + 1] = new
        /\ \A i \in 1 .. n : samples'[u][i] = samples[u][i]
    BY <1>7, <1>8, <1>15, <2>1, AppendProperties
  <2>3. \A i \in DOMAIN samples'[u] : i \in DOMAIN samples[u] \/ i = n + 1
    BY <2>1, <2>2
  <2>4. new.round = round[u] /\ new.answer = d.request
    OBVIOUS
  <2> HIDE DEF new
  <2>5. SamplesOK(u)'
    <3>1. ASSUME NEW i \in DOMAIN samples'[u] PROVE samples'[u][i].round < round[u] + 1
      <4>1. CASE i \in DOMAIN samples[u]
        <5>1. samples'[u][i] = samples[u][i]
          BY <2>1, <2>2, <4>1
        <5>2. samples[u][i].round \in 1 .. Requests /\ samples[u][i].round < round[u]
          BY <1>13, <4>1 DEF Sample
        <5>3. QED
          BY <1>3, <5>1, <5>2
      <4>2. CASE i = n + 1
        BY <1>3, <2>2, <2>4, <4>2
      <4>3. QED
        BY <2>3, <4>1, <4>2
    <3>2. n < round[u]
      <4>1. CASE samples[u] = << >>
        BY <1>3, <4>1
      <4>2. CASE samples[u] # << >>
        BY <4>2 DEF BenchInv, ThreadInv, SamplesOK
      <4>3. QED
        BY <4>1, <4>2
    <3>3. Len(samples'[u]) < round'[u]
      BY <1>3, <1>4, <2>1, <2>2, <3>2
    <3>4. QED
      BY <1>4, <2>2, <3>1, <3>3 DEF SamplesOK
  <2>6. TimesIt(u)'
    <3>1. ASSUME hit[u] \subseteq {"lost"} PROVE d.request = round[u]
      BY <1>5, <3>1 DEF BenchInv, ThreadInv, OwnOK
    <3>2. ASSUME "stray" \notin hit[u] PROVE d.request <= round[u]
      BY <1>5, <3>2 DEF BenchInv, ThreadInv, OwnOK
    <3>3. ASSUME hit[u] \cap {"twice", "stray"} = {}
          PROVE  \A j \in DOMAIN samples[u] : samples[u][j].answer # d.request
      BY <1>5, <3>3 DEF BenchInv, ThreadInv, OwnOK
    <3>4. ASSUME NEW i \in DOMAIN samples'[u]
          PROVE  LET s == samples'[u][i] IN
                 /\ hit[u] \subseteq {"lost"} => s.answer = s.round
                 /\ "stray" \notin hit[u] => s.answer <= s.round
                 /\ hit[u] \cap {"twice", "stray"} = {} =>
                      \A j \in 1 .. i - 1 : samples'[u][j].answer # s.answer
      <4>1. CASE i \in DOMAIN samples[u]
        <5>1. \A j \in 1 .. i - 1 : samples'[u][j] = samples[u][j]
          BY <2>1, <2>2, <4>1
        <5>2. samples'[u][i] = samples[u][i]
          BY <2>1, <2>2, <4>1
        <5>3. QED
          BY <4>1, <5>1, <5>2 DEF BenchInv, ThreadInv, TimesIt
      <4>2. CASE i = n + 1
        <5>1. samples'[u][i] = new
          BY <2>2, <4>2
        <5>2. \A j \in 1 .. i - 1 : j \in DOMAIN samples[u] /\ samples'[u][j] = samples[u][j]
          BY <2>1, <2>2, <4>2
        <5>3. QED
          BY <2>4, <3>1, <3>2, <3>3, <5>1, <5>2
      <4>3. QED
        BY <2>3, <4>1, <4>2
    <3>5. QED
      BY <1>2, <3>4 DEF TimesIt
  <2>7. OwnOK(u)'
    <3>1. ASSUME "stray" \notin hit[u], NEW x \in Own(u)'
          PROVE  x.request \in 1 .. round'[u] /\ x.request < round'[u]
      <4>1. x.request \in 1 .. round[u]
        BY <1>11, <3>1 DEF BenchInv, ThreadInv, OwnOK
      <4>2. QED
        BY <1>3, <1>4, <4>1
    <3>2. ASSUME hit[u] \cap {"twice", "stray"} = {}
          PROVE  /\ \A x, y \in Own(u)' : x.request = y.request => x = y
                 /\ \A x \in Own(u)' : \A i \in DOMAIN samples'[u] : samples'[u][i].answer # x.request
      <4>1. \A x, y \in Own(u) : x.request = y.request => x = y
        BY <3>2 DEF BenchInv, ThreadInv, OwnOK
      <4>2. \A x \in Own(u) : \A i \in DOMAIN samples[u] : samples[u][i].answer # x.request
        BY <3>2 DEF BenchInv, ThreadInv, OwnOK
      <4>3. ASSUME NEW x \in Own(u)', NEW i \in DOMAIN samples'[u]
            PROVE  samples'[u][i].answer # x.request
        <5>1. CASE i \in DOMAIN samples[u]
          BY <1>11, <2>1, <2>2, <4>2, <4>3, <5>1
        <5>2. CASE i = n + 1
          BY <1>5, <1>11, <2>2, <2>4, <4>1, <4>3, <5>2
        <5>3. QED
          BY <2>3, <5>1, <5>2
      <4>4. QED
        BY <1>11, <4>1, <4>3
    <3>3. ASSUME hit[u] \subseteq {"lost"} PROVE Own(u)' = {}
      <4>1. \A x \in Own(u) : x.request = round[u] /\ d.request = round[u]
        BY <1>5, <3>3 DEF BenchInv, ThreadInv, OwnOK
      <4>2. \A x, y \in Own(u) : x.request = y.request => x = y
        BY <3>3 DEF BenchInv, ThreadInv, OwnOK
      <4>3. QED
        BY <1>5, <1>11, <4>1, <4>2
    <3>4. QED
      BY <1>2, <3>1, <3>2, <3>3 DEF OwnOK
  <2>8. ThreadInv(u)'
    BY <1>12, <2>5, <2>6, <2>7 DEF ThreadInv
  <2>9. QED
    BY <1>9, <1>10, <2>8 DEF BenchInv
<1>16. QED
  BY <1>14, <1>15

-----------------------------------------------------------------------------
(* The main thread keeps it.                                                *)

LEMMA StartStep ==
  ASSUME BenchInv, NEW u \in Threads, StartThread(u)
  PROVE  BenchInv'
<1> USE DEF faultVars
<1>1. /\ pc[u] = "none" /\ Loop(u, 1) /\ main' \in {"starting", "joining"}
      /\ UNCHANGED <<ha, samples, results, wire, hit, mishaps>>
  BY DEF StartThread
<1>2. round[u] = 0 /\ 1 \in 1 .. Requests + 1
  BY <1>1, BenchmarkAssumption DEF BenchInv, ThreadInv, PlaceOK
<1>3. /\ pc' \in [Threads -> {"none", "send", "recv", "finished", "ended"}]
      /\ round' \in [Threads -> 0 .. Requests + 1]
      /\ round'[u] = 1 /\ pc'[u] \in {"send", "finished"}
      /\ pc'[u] = "send" => 1 <= Requests
      /\ \A t \in Threads \ {u} : pc'[t] = pc[t] /\ round'[t] = round[t]
  BY <1>1, <1>2, LoopFacts DEF BenchInv
<1>4. Shapes' /\ WireOK' /\ \A t \in Threads : Own(t)' = Own(t)
  BY <1>1, <1>3 DEF BenchInv, Shapes, WireOK, Own
<1>5. \A t \in Threads \ {u} : ThreadInv(t)'
  BY <1>1, <1>3, <1>4, OthersKept
<1>6. ThreadInv(u)'
  <2>1. PlaceOK(u)'
    BY <1>1, <1>3, BenchmarkAssumption DEF BenchInv, ThreadInv, PlaceOK
  <2>2. samples[u] \in Seq(Sample) /\ samples[u] = << >>
    BY <1>2 DEF BenchInv, ThreadInv, SamplesOK
  <2>3. SamplesOK(u)' /\ TimesIt(u)'
    BY <1>1, <2>2 DEF SamplesOK, TimesIt
  <2>4. "stray" \notin hit[u] => Own(u) = {}
    BY <1>2 DEF BenchInv, ThreadInv, OwnOK
  <2>5. OwnOK(u)'
    BY <1>1, <1>4, <2>2, <2>4 DEF OwnOK
  <2>6. QED
    BY <2>1, <2>3, <2>5 DEF ThreadInv
<1>7. QED
  BY <1>4, <1>5, <1>6 DEF BenchInv

LEMMA QuietStep ==
  ASSUME BenchInv, Report \/ UNCHANGED vars
  PROVE  BenchInv'
<1>1. /\ UNCHANGED <<pc, round, ha, samples, results, wire, hit, mishaps>>
      /\ main' \in {"starting", "joining", "reported"}
  BY DEF Report, vars, threadVars, faultVars, BenchInv, Shapes
<1>2. Shapes' /\ WireOK'
  BY <1>1 DEF BenchInv, Shapes, WireOK
<1>3. ASSUME NEW t \in Threads PROVE ThreadInv(t)'
  <2>1. Own(t)' \subseteq Own(t)
    BY <1>1 DEF Own
  <2>2. QED
    BY <1>1, <2>1, ThreadOnlyWorse DEF BenchInv, Shapes
<1>4. QED
  BY <1>2, <1>3 DEF BenchInv

-----------------------------------------------------------------------------
LEMMA BenchInit == Init => BenchInv
<1> SUFFICES ASSUME Init PROVE BenchInv
  OBVIOUS
<1>1. << >> \in Seq(Sample) /\ << >> \in Seq(Threads)
  OBVIOUS
<1>2. Shapes
  BY <1>1, BenchmarkAssumption DEF Init, Shapes
<1>3. WireOK
  BY DEF Init, WireOK
<1>4. ASSUME NEW t \in Threads PROVE ThreadInv(t)
  <2>1. /\ pc[t] = "none" /\ round[t] = 0 /\ ha[t] = Server /\ samples[t] = << >> /\ hit[t] = {}
        /\ Own(t) = {}
    BY <1>4 DEF Init, Own
  <2>2. PlaceOK(t)
    BY <2>1, BenchmarkAssumption DEF PlaceOK
  <2>3. SamplesOK(t) /\ TimesIt(t) /\ OwnOK(t)
    BY <1>1, <2>1 DEF SamplesOK, TimesIt, OwnOK
  <2>4. QED
    BY <2>2, <2>3 DEF ThreadInv
<1>5. QED
  BY <1>2, <1>3, <1>4 DEF BenchInv

LEMMA BenchNext == BenchInv /\ [Next]_vars => BenchInv'
BY LoseStep, DuplicateStep, StrayStep, ServeStep, SendStep, ReceiveStep, FailStep, FinishStep,
   StartStep, QuietStep
   DEF Next, Main, Network, Thread

LEMMA BenchInvariant == Spec => []BenchInv
BY BenchInit, BenchNext, PTL DEF Spec

(* The benchmark's state keeps its types; no thread takes more samples than it
   was told to, whatever datagrams it is sent. *)
THEOREM BenchmarkTypes == Spec => []TypeOK
<1>1. BenchInv => TypeOK
  <2> SUFFICES ASSUME BenchInv PROVE TypeOK
    OBVIOUS
  <2>1. ASSUME NEW t \in Threads
        PROVE  /\ samples[t] \in Seq([round : 1 .. Requests, answer : 1 .. Requests + 1, ms : Delays])
               /\ Len(samples[t]) <= Requests
    <3>1. round[t] \in 0 .. Requests + 1 /\ samples[t] \in Seq(Sample) /\ Requests \in Nat
          /\ Len(samples[t]) \in Nat
      BY BenchmarkAssumption DEF BenchInv, ThreadInv, PlaceOK, SamplesOK
    <3>2. Len(samples[t]) < round[t] \/ samples[t] = << >>
      BY DEF BenchInv, ThreadInv, SamplesOK
    <3>3. Len(samples[t]) <= Requests
      BY <3>1, <3>2
    <3>4. QED
      BY <3>1, <3>3 DEF Sample
  <2>2. QED
    BY <2>1 DEF BenchInv, Shapes, WireOK, Address, TypeOK
<1>2. QED
  BY <1>1, BenchInvariant, PTL

(* What UdpBenchmark times is the answer to the request it has just sent as long
   as nothing but a loss has befallen it; otherwise it may be the answer to an
   earlier request, but to none twice unless a datagram was doubled. *)
THEOREM SamplesAreOwn == Spec => []TimesItsRequest
<1>1. BenchInv => TimesItsRequest
  BY DEF BenchInv, ThreadInv, TimesIt, TimesItsRequest
<1>2. QED
  BY <1>1, BenchInvariant, PTL

-----------------------------------------------------------------------------
(* The report.                                                              *)

AllLatencies == FlattenSeq([i \in DOMAIN results |-> Latencies(results[i])])

(* kResult has one entry for each thread that has ended. *)
ResultsOK ==
  /\ \A i, j \in DOMAIN results : results[i] = results[j] => i = j
  /\ \A t \in Threads : pc[t] = "ended" <=> \E i \in DOMAIN results : results[i] = t

(* What is printed is about the samples of all threads, and these are final. *)
ReportOK ==
  /\ main # "reported" => report = NoReport
  /\ main = "reported" =>
       /\ AllEnded
       /\ report = [requests |-> Requests * Len(results),
                    finished |-> Len(AllLatencies),
                    latency  |-> AllLatencies,
                    lines    |-> Lines(AllLatencies)]

ReportInv == BenchInv /\ ResultsOK /\ ReportOK

LEMMA ReportInit == Init => ReportInv
<1> SUFFICES ASSUME Init PROVE ReportInv
  OBVIOUS
<1>1. BenchInv
  BY BenchInit
<1>2. ResultsOK /\ ReportOK
  BY DEF Init, ResultsOK, ReportOK
<1>3. QED
  BY <1>1, <1>2 DEF ReportInv

(* The steps of the network and the server. *)
LEMMA ReportUntouched ==
  ASSUME ReportInv, UNCHANGED <<main, pc, samples, results, report>>
  PROVE  ResultsOK' /\ ReportOK'
<1>1. ResultsOK'
  BY DEF ReportInv, ResultsOK
<1>2. AllLatencies' = AllLatencies
  BY DEF AllLatencies, Latencies
<1>3. ReportOK'
  BY <1>2 DEF ReportInv, ReportOK, AllEnded
<1>4. QED
  BY <1>1, <1>3

(* A thread that goes on: it has not ended, so nothing is reported yet. *)
LEMMA NotReportedYet ==
  ASSUME ReportInv, NEW u \in Threads, pc[u] # "ended"
  PROVE  main # "reported" /\ report = NoReport
BY DEF ReportInv, ReportOK, AllEnded

LEMMA ReportThreadGoesOn ==
  ASSUME ReportInv, NEW u \in Threads, pc[u] # "ended", pc'[u] # "ended",
         \A t \in Threads \ {u} : pc'[t] = pc[t],
         main' # "reported", UNCHANGED <<results, report>>
  PROVE  ResultsOK' /\ ReportOK'
<1>1. ResultsOK'
  BY DEF ReportInv, ResultsOK
<1>2. ReportOK'
  BY NotReportedYet DEF ReportOK, NoReport
<1>3. QED
  BY <1>1, <1>2

LEMMA ReportLoop ==
  ASSUME BenchInv, NEW u \in Threads, NEW n, Loop(u, n)
  PROVE  pc'[u] # "ended" /\ \A t \in Threads \ {u} : pc'[t] = pc[t]
BY DEF BenchInv, Shapes, Loop

LEMMA ReportFinish ==
  ASSUME ReportInv, NEW u \in Threads, Finish(u)
  PROVE  ResultsOK' /\ ReportOK'
<1>1. /\ pc[u] = "finished" /\ pc' = [pc EXCEPT ![u] = "ended"] /\ results' = Append(results, u)
      /\ UNCHANGED <<main, report>>
  BY DEF Finish
<1> DEFINE n == Len(results)
<1>2. results \in Seq(Threads) /\ n \in Nat /\ DOMAIN results = 1 .. n
  BY DEF ReportInv, BenchInv, Shapes
<1>3. /\ DOMAIN results' = 1 .. n + 1 /\ results'[n + 1] = u
      /\ \A i \in 1 .. n : results'[i] = results[i]
  BY <1>1, <1>2, AppendProperties
<1>4. \A i \in 1 .. n : results[i] # u
  BY <1>1, <1>2 DEF ReportInv, ResultsOK
<1>5. ASSUME NEW i \in DOMAIN results', NEW j \in DOMAIN results', results'[i] = results'[j]
      PROVE  i = j
  <2>1. i \in 1 .. n \/ i = n + 1
    BY <1>2, <1>3
  <2>2. j \in 1 .. n \/ j = n + 1
    BY <1>2, <1>3
  <2>3. \A g, h \in 1 .. n : results[g] = results[h] => g = h
    BY <1>2 DEF ReportInv, ResultsOK
  <2>4. QED
    BY <1>3, <1>4, <1>5, <2>1, <2>2, <2>3
<1>6. ASSUME NEW t \in Threads
      PROVE  pc'[t] = "ended" <=> \E i \in DOMAIN results' : results'[i] = t
  <2>1. 1 .. n \subseteq 1 .. n + 1 /\ n + 1 \in 1 .. n + 1
    BY <1>2
  <2>2. CASE t = u
    BY <1>1, <1>3, <2>1, <2>2 DEF ReportInv, BenchInv, Shapes
  <2>3. CASE t # u
    <3>1. pc'[t] = pc[t]
      BY <1>1, <2>3 DEF ReportInv, BenchInv, Shapes
    <3>2. \A i \in 1 .. n + 1 : i \in 1 .. n \/ i = n + 1
      BY <1>2
    <3>3. pc[t] = "ended" <=> \E i \in 1 .. n : results[i] = t
      BY <1>2 DEF ReportInv, ResultsOK
    <3>4. QED
      BY <1>3, <2>1, <2>3, <3>1, <3>2, <3>3
  <2>4. QED
    BY <2>2, <2>3
<1>7. ResultsOK'
  BY <1>5, <1>6 DEF ResultsOK
<1>8. ReportOK'
  BY <1>1, NotReportedYet DEF ReportOK, NoReport
<1>9. QED
  BY <1>7, <1>8

LEMMA ReportReport ==
  ASSUME ReportInv, Report
  PROVE  ResultsOK' /\ ReportOK'
<1>1. /\ AllEnded /\ main' = "reported" /\ UNCHANGED <<pc, samples, results>>
      /\ report' = [requests |-> Requests * Len(results),
                    finished |-> Len(AllLatencies),
                    latency  |-> AllLatencies,
                    lines    |-> Lines(AllLatencies)]
  BY DEF Report, AllLatencies, threadVars
<1>2. ResultsOK'
  BY <1>1 DEF ReportInv, ResultsOK
<1>3. AllLatencies' = AllLatencies
  BY <1>1 DEF AllLatencies, Latencies
<1>4. AllEnded'
  BY <1>1 DEF AllEnded
<1>5. ReportOK'
  BY <1>1, <1>3, <1>4 DEF ReportOK
<1>6. QED
  BY <1>2, <1>5

LEMMA ReportStep == ReportInv /\ [Next]_vars => ReportInv'
<1> SUFFICES ASSUME ReportInv, [Next]_vars PROVE ReportInv'
  OBVIOUS
<1> USE DEF threadVars, faultVars
<1>1. BenchInv'
  BY BenchNext DEF ReportInv
<1>2. ASSUME Lose \/ Duplicate \/ (\E t \in Threads, n \in Foreign : Stray(t, n)) \/ Serve \/ UNCHANGED vars
      PROVE  ResultsOK' /\ ReportOK'
  <2>1. UNCHANGED <<main, pc, samples, results, report>>
    BY <1>2 DEF Lose, Duplicate, Stray, Serve, vars
  <2>2. QED
    BY <2>1, ReportUntouched
<1>3. ASSUME NEW t \in Threads, Send(t) PROVE ResultsOK' /\ ReportOK'
  <2>1. /\ pc[t] = "send" /\ pc' = [pc EXCEPT ![t] = "recv"] /\ UNCHANGED <<main, results, report>>
    BY <1>3 DEF Send
  <2>2. pc'[t] = "recv" /\ \A u \in Threads \ {t} : pc'[u] = pc[u]
    BY <2>1 DEF ReportInv, BenchInv, Shapes
  <2>3. main' # "reported"
    BY <2>1, NotReportedYet
  <2>4. QED
    BY <2>1, <2>2, <2>3, ReportThreadGoesOn
<1>4. ASSUME NEW t \in Threads, Receive(t) \/ ReceiveFails(t) PROVE ResultsOK' /\ ReportOK'
  <2>1. pc[t] = "recv" /\ Loop(t, round[t] + 1) /\ UNCHANGED <<main, results, report>>
    BY <1>4 DEF Receive, ReceiveFails
  <2>2. pc'[t] # "ended" /\ \A u \in Threads \ {t} : pc'[u] = pc[u]
    BY <2>1, ReportLoop DEF ReportInv
  <2>3. main' # "reported"
    BY <2>1, NotReportedYet
  <2>4. QED
    BY <2>1, <2>2, <2>3, ReportThreadGoesOn
<1>5. ASSUME NEW t \in Threads, StartThread(t) PROVE ResultsOK' /\ ReportOK'
  <2>1. pc[t] = "none" /\ Loop(t, 1) /\ main' # "reported" /\ UNCHANGED <<results, report>>
    BY <1>5 DEF StartThread
  <2>2. pc'[t] # "ended" /\ \A u \in Threads \ {t} : pc'[u] = pc[u]
    BY <2>1, ReportLoop DEF ReportInv
  <2>3. QED
    BY <2>1, <2>2, ReportThreadGoesOn
<1>6. QED
  BY <1>1, <1>2, <1>3, <1>4, <1>5, ReportFinish, ReportReport
     DEF ReportInv, Next, Main, Network, Thread

LEMMA ReportInvariant == Spec => []ReportInv
BY ReportInit, ReportStep, PTL DEF Spec

-----------------------------------------------------------------------------
(* What the report has put together.                                        *)

LEMMA LatenciesType ==
  ASSUME ReportInv
  PROVE  [i \in DOMAIN results |-> Latencies(results[i])] \in Seq(Seq(Nat))
<1>1. ASSUME NEW t \in Threads PROVE Latencies(t) \in Seq(Nat) /\ DOMAIN Latencies(t) = DOMAIN samples[t]
  <2>1. samples[t] \in Seq(Sample)
    BY DEF ReportInv, BenchInv, Shapes
  <2>2. DOMAIN samples[t] = 1 .. Len(samples[t]) /\ Len(samples[t]) \in Nat
    BY <2>1
  <2>3. ASSUME NEW i \in 1 .. Len(samples[t]) PROVE samples[t][i].ms \in Nat
    <3>1. samples[t][i] \in Sample
      BY <2>1
    <3>2. QED
      BY <3>1, BenchmarkAssumption DEF Sample
  <2>4. QED
    BY <2>2, <2>3 DEF Latencies
<1>2. results \in Seq(Threads)
  BY DEF ReportInv, BenchInv, Shapes
<1>3. \A i \in 1 .. Len(results) : Latencies(results[i]) \in Seq(Nat)
  BY <1>1, <1>2
<1>4. QED
  BY <1>2, <1>3

(* All threads have put in their result, so there are as many as threads, and as
   many latencies as samples. *)
LEMMA AllCounted ==
  ASSUME ReportInv, AllEnded
  PROVE  /\ Len(results) = Cardinality(Threads)
         /\ AllLatencies \in Seq(Nat)
         /\ Len(AllLatencies) = Cardinality(UNION {{t} \X DOMAIN samples[t] : t \in Threads})
<1> DEFINE n == Len(results)
           q == [i \in DOMAIN results |-> Latencies(results[i])]
           taken == UNION {{t} \X DOMAIN samples[t] : t \in Threads}
           b == [p \in Places(q, n) |-> <<results[p[1]], p[2]>>]
<1>1. /\ results \in Seq(Threads) /\ n \in Nat /\ DOMAIN results = 1 .. n
      /\ results \in [1 .. n -> Threads]
      /\ \A i, j \in 1 .. n : results[i] = results[j] => i = j
      /\ \A t \in Threads : \E i \in 1 .. n : results[i] = t
  <2>1. results \in Seq(Threads)
    BY DEF ReportInv, BenchInv, Shapes
  <2>2. n \in Nat /\ DOMAIN results = 1 .. n /\ results \in [1 .. n -> Threads]
    BY <2>1
  <2>3. QED
    BY <2>1, <2>2, Zenon DEF ReportInv, ResultsOK, AllEnded
<1>2. n = Cardinality(Threads)
  <2>1. results \in Bijection(1 .. n, Threads)
    BY <1>1, Fun_IsBij
  <2>2. ExistsBijection(1 .. n, Threads)
    BY <2>1 DEF ExistsBijection
  <2>3. QED
    BY <1>1, <2>2, FS_CountingElements
<1>3. q \in Seq(Seq(Nat)) /\ Len(q) = n
  BY <1>1, LatenciesType
<1>4. \A i \in 1 .. n : DOMAIN q[i] = DOMAIN samples[results[i]] /\ DOMAIN q[i] \subseteq Nat
  <2>1. ASSUME NEW i \in 1 .. n
        PROVE  DOMAIN q[i] = DOMAIN samples[results[i]] /\ DOMAIN q[i] \subseteq Nat
    <3>1. q[i] = Latencies(results[i]) /\ results[i] \in Threads
      BY <1>1
    <3>2. samples[results[i]] \in Seq(Sample)
      BY <3>1 DEF ReportInv, BenchInv, Shapes
    <3>3. DOMAIN samples[results[i]] = 1 .. Len(samples[results[i]])
      BY <3>2
    <3>4. DOMAIN Latencies(results[i]) = DOMAIN samples[results[i]]
      BY DEF Latencies
    <3>5. QED
      BY <3>1, <3>3, <3>4
  <2>2. QED
    BY <2>1
<1>5. /\ AllLatencies \in Seq(Nat) /\ IsFiniteSet(Places(q, n))
      /\ Len(AllLatencies) = Cardinality(Places(q, n))
  <2>1. AllLatencies = FlattenSeq(q)
    BY DEF AllLatencies
  <2> HIDE DEF q
  <2>2. QED
    BY <1>3, <2>1, FlattenFacts
<1> HIDE DEF q
<1>6. \A p \in Places(q, n) : p[1] \in 1 .. n /\ p[2] \in DOMAIN samples[results[p[1]]] /\ p = <<p[1], p[2]>>
  BY <1>4 DEF Places
<1>7. b \in [Places(q, n) -> taken]
  BY <1>1, <1>6
<1>8. ASSUME NEW x \in Places(q, n), NEW y \in Places(q, n), b[x] = b[y] PROVE x = y
  <2>1. results[x[1]] = results[y[1]] /\ x[2] = y[2]
    BY <1>8
  <2>2. x[1] = y[1]
    BY <1>1, <1>6, <2>1
  <2>3. QED
    BY <1>6, <2>1, <2>2
<1>9. ASSUME NEW z \in taken PROVE \E x \in Places(q, n) : b[x] = z
  <2>1. PICK t \in Threads : z \in {t} \X DOMAIN samples[t]
    OBVIOUS
  <2>2. PICK i \in 1 .. n : results[i] = t
    BY <1>1
  <2>3. PICK j \in DOMAIN samples[t] : z = <<t, j>>
    BY <2>1
  <2>4. <<i, j>> \in Places(q, n)
    BY <1>4, <2>2, <2>3 DEF Places
  <2>5. b[<<i, j>>] = z
    BY <2>2, <2>3, <2>4
  <2>6. QED
    BY <2>4, <2>5
<1> HIDE DEF b, taken
<1>10. b \in Bijection(Places(q, n), taken)
  BY <1>7, <1>8, <1>9, Fun_IsBij
<1>11. Cardinality(taken) = Cardinality(Places(q, n))
  <2>1. ExistsBijection(Places(q, n), taken)
    BY <1>10 DEF ExistsBijection
  <2>2. QED
    BY <1>5, <2>1, FS_Bijection
<1>12. QED
  BY <1>2, <1>5, <1>11 DEF taken

(* ShowLatencyReport prints when every thread has put its result into kResult,
   counts all their requests and answers, and ends the table with all of them. *)
THEOREM ReportIsComplete == Spec => []ReportComplete
<1>1. ReportInv => ReportComplete
  <2> SUFFICES ASSUME ReportInv, main = "reported" PROVE ReportComplete
    BY DEF ReportComplete
  <2>1. /\ AllEnded /\ report.requests = Requests * Len(results)
        /\ report.finished = Len(AllLatencies) /\ report.lines = Lines(AllLatencies)
    BY DEF ReportInv, ReportOK
  <2>2. /\ Len(results) = Cardinality(Threads) /\ AllLatencies \in Seq(Nat)
        /\ Len(AllLatencies) = Cardinality(UNION {{t} \X DOMAIN samples[t] : t \in Threads})
    BY <2>1, AllCounted
  <2>3. Len(AllLatencies) >= 2 => \E x \in Lines(AllLatencies) : x.count = Len(AllLatencies)
    BY <2>2, TableFacts
  <2>4. QED
    BY <2>1, <2>2, <2>3, Zenon DEF ReportComplete
<1>2. QED
  BY <1>1, ReportInvariant, PTL

(* Of the table ShowLatencyReport prints every line but the last says what is the
   case, and the lines grow. *)
THEOREM ReportTellsMostlyTruth == Spec => []ReportMostlyTrue
<1>1. ReportInv => ReportMostlyTrue
  <2> SUFFICES ASSUME ReportInv PROVE ReportMostlyTrue
    OBVIOUS
  <2>1. CASE main # "reported"
    BY <2>1 DEF ReportInv, ReportOK, NoReport, ReportMostlyTrue
  <2>2. CASE main = "reported"
    <3>1. /\ AllEnded /\ report.latency = AllLatencies
          /\ report.finished = Len(AllLatencies) /\ report.lines = Lines(AllLatencies)
      BY <2>2 DEF ReportInv, ReportOK
    <3>2. AllLatencies \in Seq(Nat)
      BY <3>1, AllCounted
    <3>3. /\ \A x \in Lines(AllLatencies) : x.count < Len(AllLatencies) => IsTrue(x, AllLatencies)
          /\ \A x, y \in Lines(AllLatencies) : x.within < y.within <=> x.count < y.count
      BY <3>2, TableFacts
    <3>4. QED
      BY <3>1, <3>3 DEF ReportMostlyTrue
  <2>3. QED
    BY <2>1, <2>2
<1>2. QED
  BY <1>1, ReportInvariant, PTL

(* When all is printed, the table says only what is the case just if the two
   slowest answers took the same number of milliseconds. *)
THEOREM WhenTheTableIsTrue ==
  Spec => [](main = "reported" =>
               LET s == Sorted(report.latency)
                   n == Len(report.latency)
               IN  ReportIsTrue <=> (n >= 2 => s[n] = s[n - 1]))
<1> DEFINE Exact == main = "reported" =>
                      LET s == Sorted(report.latency)
                          n == Len(report.latency)
                      IN  ReportIsTrue <=> (n >= 2 => s[n] = s[n - 1])
<1>1. ReportInv => Exact
  <2> SUFFICES ASSUME ReportInv, main = "reported"
               PROVE  LET s == Sorted(report.latency)
                          n == Len(report.latency)
                      IN  ReportIsTrue <=> (n >= 2 => s[n] = s[n - 1])
    OBVIOUS
  <2> DEFINE l == AllLatencies
             n == Len(l)
  <2>1. AllEnded /\ report.latency = l /\ report.lines = Lines(l)
    BY DEF ReportInv, ReportOK
  <2>2. l \in Seq(Nat)
    BY <2>1, AllCounted
  <2> HIDE DEF l
  <2>3. \A x \in Lines(l) : x.count < n => IsTrue(x, l)
    BY <2>2, TableFacts
  <2>4. \A x \in Lines(l) : x.count = n => n >= 2 /\ (IsTrue(x, l) <=> Sorted(l)[n] = Sorted(l)[n - 1])
    BY <2>2, LastLine
  <2>5. n >= 2 => \E x \in Lines(l) : x.count = n
    BY <2>2, TableFacts
  <2>6. ASSUME NEW x \in Lines(l) PROVE x.count < n \/ x.count = n
    BY <2>2, LineCount
  <2>7. (\A x \in Lines(l) : IsTrue(x, l)) <=> (n >= 2 => Sorted(l)[n] = Sorted(l)[n - 1])
    BY <2>3, <2>4, <2>5, <2>6
  <2>8. QED
    BY <2>1, <2>7 DEF ReportIsTrue
<1>2. QED
  BY <1>1, ReportInvariant, PTL

(* Once the report is printed, nothing it speaks of changes any more. *)
THEOREM ReportIsFinal ==
  Spec => [][main = "reported" => UNCHANGED <<main, samples, results, report>>]_vars
<1>1. ReportInv /\ [Next]_vars => [main = "reported" => UNCHANGED <<main, samples, results, report>>]_vars
  <2> SUFFICES ASSUME ReportInv, Next, main = "reported"
               PROVE  UNCHANGED <<main, samples, results, report>>
    BY DEF vars
  <2>1. \A t \in Threads : pc[t] = "ended"
    BY DEF ReportInv, ReportOK, AllEnded
  <2>2. ASSUME NEW t \in Threads PROVE ~ Thread(t) /\ ~ StartThread(t)
    BY <2>1, Zenon DEF Thread, Send, Receive, ReceiveFails, Finish, StartThread
  <2>3. ~ Report
    BY DEF Report
  <2>4. Serve \/ Network
    BY <2>2, <2>3 DEF Next, Main
  <2>5. QED
    BY <2>4 DEF Serve, Network, Lose, Duplicate, Stray, threadVars
<1>2. QED
  BY <1>1, ReportInvariant, PTL DEF Spec

-----------------------------------------------------------------------------
(* A thread that waits has something to wait for.                           *)

(* How many requests a thread has sent. *)
Sent(t) == IF pc[t] = "none" THEN 0 ELSE IF pc[t] = "recv" THEN round[t] ELSE round[t] - 1

(* The requests of which the first datagram, no duplicate, is on its way. *)
Originals(t) == {n \in 1 .. Requests : \E d \in Own(t) : d.copy = 1 /\ d.request = n}

Missing(t) == (1 .. Sent(t)) \ Originals(t)

(* Unless one was lost, or the thread was drawn away from its server, every
   datagram that is missing was timed. *)
TimedIfMissing(t) ==
  hit[t] \cap {"lost", "stray"} = {} => Cardinality(Missing(t)) <= Len(samples[t])

WaitInv == BenchInv /\ \A t \in Threads : TimedIfMissing(t)

LEMMA MissingFacts ==
  ASSUME BenchInv, NEW t \in Threads
  PROVE  /\ Sent(t) \in Nat /\ IsFiniteSet(Missing(t)) /\ Cardinality(Missing(t)) \in Nat
         /\ Len(samples[t]) \in Nat
<1>1. round[t] \in 0 .. Requests + 1 /\ (pc[t] = "none" <=> round[t] = 0) /\ samples[t] \in Seq(Sample)
  BY DEF BenchInv, ThreadInv, PlaceOK, SamplesOK
<1>2. Sent(t) \in Nat
  BY <1>1, BenchmarkAssumption DEF Sent
<1>3. IsFiniteSet(Missing(t))
  BY <1>2, IntervalCard, FS_Subset DEF Missing
<1>4. QED
  BY <1>1, <1>2, <1>3, FS_CardinalityType

(* No datagram of the thread is taken away, and no request is added. *)
LEMMA MissingKept ==
  ASSUME BenchInv, BenchInv', NEW t \in Threads, TimedIfMissing(t),
         Sent(t)' = Sent(t), samples'[t] = samples[t], hit[t] \subseteq hit'[t],
         hit'[t] \cap {"lost", "stray"} = {} => Originals(t) \subseteq Originals(t)'
  PROVE  TimedIfMissing(t)'
<1> SUFFICES ASSUME hit'[t] \cap {"lost", "stray"} = {}
             PROVE  Cardinality(Missing(t)') <= Len(samples'[t])
  BY DEF TimedIfMissing
<1>1. Missing(t)' \in SUBSET Missing(t)
  BY DEF Missing
<1>2. IsFiniteSet(Missing(t)) /\ Cardinality(Missing(t)) \in Nat /\ Len(samples[t]) \in Nat
  BY MissingFacts
<1>3. IsFiniteSet(Missing(t)') /\ Cardinality(Missing(t)') <= Cardinality(Missing(t))
  BY <1>1, <1>2, FS_Subset
<1>4. Cardinality(Missing(t)') \in Nat
  BY <1>3, FS_CardinalityType
<1>5. Cardinality(Missing(t)) <= Len(samples[t])
  BY DEF TimedIfMissing
<1>6. QED
  BY <1>2, <1>3, <1>4, <1>5

(* A datagram of the thread has gone to it and was timed. *)
LEMMA MissingTimed ==
  ASSUME BenchInv, BenchInv', NEW t \in Threads, TimedIfMissing(t), NEW n,
         Sent(t)' = Sent(t), hit'[t] = hit[t],
         Originals(t) \ {n} \subseteq Originals(t)',
         hit[t] \cap {"lost", "stray"} = {} => Len(samples'[t]) = Len(samples[t]) + 1
  PROVE  TimedIfMissing(t)'
<1> SUFFICES ASSUME hit[t] \cap {"lost", "stray"} = {}
             PROVE  Cardinality(Missing(t)') <= Len(samples'[t])
  BY DEF TimedIfMissing
<1>1. Missing(t)' \in SUBSET (Missing(t) \cup {n})
  BY DEF Missing
<1>2. IsFiniteSet(Missing(t)) /\ Cardinality(Missing(t)) \in Nat /\ Len(samples[t]) \in Nat
  BY MissingFacts
<1>3. /\ IsFiniteSet(Missing(t) \cup {n})
      /\ Cardinality(Missing(t) \cup {n}) \in {Cardinality(Missing(t)), Cardinality(Missing(t)) + 1}
  BY <1>2, FS_AddElement
<1>4. IsFiniteSet(Missing(t)') /\ Cardinality(Missing(t)') <= Cardinality(Missing(t) \cup {n})
  BY <1>1, <1>3, FS_Subset
<1>5. Cardinality(Missing(t)') \in Nat
  BY <1>4, FS_CardinalityType
<1>6. Cardinality(Missing(t)) <= Len(samples[t])
  BY DEF TimedIfMissing
<1>7. QED
  BY <1>2, <1>3, <1>4, <1>5, <1>6

(* A thread whose datagrams and place stay what they are. *)
LEMMA WaitsOn ==
  ASSUME BenchInv, BenchInv', NEW t \in Threads, TimedIfMissing(t),
         pc'[t] = pc[t], round'[t] = round[t], samples'[t] = samples[t], hit[t] \subseteq hit'[t],
         Own(t) \subseteq Own(t)'
  PROVE  TimedIfMissing(t)'
<1>1. Sent(t)' = Sent(t)
  BY DEF Sent
<1>2. Originals(t) \subseteq Originals(t)'
  BY DEF Originals
<1>3. QED
  BY <1>1, <1>2, MissingKept

LEMMA WaitLose ==
  ASSUME WaitInv, BenchInv', Lose
  PROVE  \A t \in Threads : TimedIfMissing(t)'
<1> USE DEF threadVars
<1>1. PICK d \in wire : Mishap(Owner(d), "lost") /\ wire' = wire \ {d}
  BY DEF Lose
<1>2. UNCHANGED <<pc, round, samples>>
  BY DEF Lose
<1>3. Owner(d) \in Threads /\ "lost" \in Kinds
  BY CopyFacts DEF WaitInv, BenchInv, Kinds
<1>4. "lost" \in hit'[Owner(d)] /\ \A t \in Threads : hit[t] \subseteq hit'[t]
  BY <1>1, <1>3, MishapFacts DEF WaitInv, BenchInv
<1>5. ASSUME NEW t \in Threads PROVE TimedIfMissing(t)'
  <2>1. CASE t = Owner(d)
    BY <1>4, <2>1 DEF TimedIfMissing
  <2>2. CASE t # Owner(d)
    <3>1. Own(t) \subseteq Own(t)'
      BY <1>1, <2>2 DEF Own
    <3>2. QED
      BY <1>2, <1>4, <3>1, WaitsOn DEF WaitInv
  <2>3. QED
    BY <2>1, <2>2
<1>6. QED
  BY <1>5

LEMMA WaitDuplicateStray ==
  ASSUME WaitInv, BenchInv', Duplicate \/ \E u \in Threads, n \in Foreign : Stray(u, n)
  PROVE  \A t \in Threads : TimedIfMissing(t)'
<1> USE DEF threadVars
<1>1. UNCHANGED <<pc, round, samples>> /\ wire \subseteq wire'
  BY DEF Duplicate, Stray
<1>2. \A t \in Threads : hit[t] \subseteq hit'[t]
  <2>1. CASE Duplicate
    <3>1. PICK d \in wire : Mishap(Owner(d), "twice")
      BY <2>1 DEF Duplicate
    <3>2. Owner(d) \in Threads /\ "twice" \in Kinds
      BY CopyFacts DEF WaitInv, BenchInv, Kinds
    <3>3. QED
      BY <3>1, <3>2, MishapFacts DEF WaitInv, BenchInv
  <2>2. ASSUME NEW u \in Threads, NEW n \in Foreign, Stray(u, n) PROVE \A t \in Threads : hit[t] \subseteq hit'[t]
    BY <2>2, MishapFacts DEF WaitInv, BenchInv, Stray, Kinds
  <2>3. QED
    BY <2>1, <2>2
<1>3. \A t \in Threads : Own(t) \subseteq Own(t)'
  BY <1>1 DEF Own
<1>4. QED
  BY <1>1, <1>2, <1>3, WaitsOn DEF WaitInv

LEMMA WaitServe ==
  ASSUME WaitInv, BenchInv', Serve
  PROVE  \A t \in Threads : TimedIfMissing(t)'
<1> USE DEF threadVars, faultVars
<1>1. PICK d \in wire : d.to = Server /\ wire' = (wire \ {d}) \cup {Echo(d)}
  BY DEF Serve
<1>2. UNCHANGED <<pc, round, samples, hit>>
  BY DEF Serve
<1>3. d.from \in Threads /\ Owner(d) = d.from /\ Owner(Echo(d)) = d.from /\ Echo(d).request = d.request
  BY <1>1, EchoFacts DEF WaitInv, BenchInv
<1>4. Echo(d).copy = d.copy
  BY DEF WaitInv, BenchInv, WireOK, Echo
<1>5. ASSUME NEW t \in Threads PROVE Originals(t) \subseteq Originals(t)'
  <2>1. \A x \in Own(t) : \E y \in Own(t)' : y.copy = x.copy /\ y.request = x.request
    BY <1>1, <1>3, <1>4 DEF Own
  <2>2. QED
    BY <2>1 DEF Originals
<1>6. \A t \in Threads : Sent(t)' = Sent(t)
  BY <1>2 DEF Sent
<1>7. QED
  BY <1>2, <1>5, <1>6, MissingKept DEF WaitInv

(* Of the other threads when thread u takes a step. *)
LEMMA OthersWaitOn ==
  ASSUME WaitInv, BenchInv', NEW u \in Threads,
         \A t \in Threads \ {u} :
           /\ pc'[t] = pc[t] /\ round'[t] = round[t] /\ samples'[t] = samples[t]
           /\ hit[t] \subseteq hit'[t] /\ Own(t) \subseteq Own(t)'
  PROVE  \A t \in Threads \ {u} : TimedIfMissing(t)'
BY WaitsOn DEF WaitInv

LEMMA WaitSend ==
  ASSUME WaitInv, BenchInv', NEW u \in Threads, Send(u)
  PROVE  \A t \in Threads : TimedIfMissing(t)'
<1> USE DEF faultVars
<1> DEFINE d == Datagram(u, ha[u], round[u])
<1>1. /\ pc[u] = "send" /\ wire' = wire \cup {d} /\ pc' = [pc EXCEPT ![u] = "recv"]
      /\ UNCHANGED <<round, samples, hit>>
  BY DEF Send
<1>2. pc'[u] = "recv" /\ \A t \in Threads \ {u} : pc'[t] = pc[t]
  BY <1>1 DEF WaitInv, BenchInv, Shapes
<1>3. \A t \in Threads : Own(t) \subseteq Own(t)'
  BY <1>1 DEF Own
<1>4. \A t \in Threads \ {u} : TimedIfMissing(t)'
  BY <1>1, <1>2, <1>3, OthersWaitOn
<1>5. round[u] \in 1 .. Requests /\ ha[u] \in {Server, Stranger} /\ round[u] \in 0 .. Requests + 1
  BY <1>1 DEF WaitInv, BenchInv, ThreadInv, PlaceOK
<1>6. d \in Own(u)' /\ d.copy = 1 /\ d.request = round[u]
  BY <1>1, <1>5, SentDatagram DEF Own, Datagram
<1>7. round[u] \in Originals(u)' /\ Originals(u) \subseteq Originals(u)'
  BY <1>3, <1>5, <1>6 DEF Originals
<1>8. Sent(u)' = round[u] /\ Sent(u) = round[u] - 1
  BY <1>1, <1>2 DEF Sent
<1>9. Missing(u)' \in SUBSET Missing(u)
  BY <1>5, <1>7, <1>8 DEF Missing
<1>10. IsFiniteSet(Missing(u)) /\ Cardinality(Missing(u)) \in Nat /\ Len(samples[u]) \in Nat
  BY MissingFacts DEF WaitInv
<1>11. IsFiniteSet(Missing(u)') /\ Cardinality(Missing(u)') <= Cardinality(Missing(u))
  BY <1>9, <1>10, FS_Subset
<1>12. Cardinality(Missing(u)') \in Nat
  BY <1>11, FS_CardinalityType
<1>13. TimedIfMissing(u)'
  BY <1>1, <1>10, <1>11, <1>12 DEF WaitInv, TimedIfMissing
<1>14. QED
  BY <1>4, <1>13

LEMMA WaitReceive ==
  ASSUME WaitInv, BenchInv', NEW u \in Threads, Receive(u)
  PROVE  \A t \in Threads : TimedIfMissing(t)'
<1> USE DEF faultVars
<1>1. PICK d \in wire, ms \in Delays :
        /\ d.to = u /\ wire' = wire \ {d}
        /\ samples' = IF d.request = 0 THEN samples
                      ELSE [samples EXCEPT ![u] =
                             Append(@, [round |-> round[u], answer |-> d.request, ms |-> ms])]
  BY DEF Receive
<1>2. pc[u] = "recv" /\ Loop(u, round[u] + 1) /\ hit' = hit
  BY DEF Receive
<1>3. round[u] \in 1 .. Requests
  BY <1>2 DEF WaitInv, BenchInv, ThreadInv, PlaceOK
<1>4. /\ round'[u] = round[u] + 1 /\ pc'[u] \in {"send", "finished"}
      /\ \A t \in Threads \ {u} : pc'[t] = pc[t] /\ round'[t] = round[t]
  BY <1>2, <1>3, LoopFacts, BenchmarkAssumption DEF WaitInv, BenchInv
<1>5. Owner(d) = u /\ d \in Own(u)
  BY <1>1 DEF WaitInv, BenchInv, WireOK, Owner, Own
<1>6. samples \in [Threads -> Seq(Sample)]
  BY DEF WaitInv, BenchInv, Shapes
<1>7. \A t \in Threads \ {u} : samples'[t] = samples[t] /\ Own(t) \subseteq Own(t)'
  BY <1>1, <1>5, <1>6 DEF Own
<1>8. \A t \in Threads \ {u} : TimedIfMissing(t)'
  BY <1>2, <1>4, <1>7, OthersWaitOn
<1>9. Sent(u)' = Sent(u)
  BY <1>2, <1>3, <1>4 DEF Sent
<1>10. Originals(u) \ {d.request} \subseteq Originals(u)'
  <2>1. \A x \in Own(u) : x # d => x \in Own(u)'
    BY <1>1 DEF Own
  <2>2. QED
    BY <2>1 DEF Originals
<1>11. ASSUME hit[u] \cap {"lost", "stray"} = {}
       PROVE  Len(samples'[u]) = Len(samples[u]) + 1
  <2>1. d.request \in 1 .. round[u]
    BY <1>5, <1>11 DEF WaitInv, BenchInv, ThreadInv, OwnOK
  <2>2. samples'[u] = Append(samples[u], [round |-> round[u], answer |-> d.request, ms |-> ms])
    BY <1>1, <1>6, <2>1
  <2>3. QED
    BY <1>6, <2>2
<1>12. TimedIfMissing(u)'
  BY <1>2, <1>9, <1>10, <1>11, MissingTimed DEF WaitInv
<1>13. QED
  BY <1>8, <1>12

LEMMA WaitFails ==
  ASSUME WaitInv, BenchInv', NEW u \in Threads, ReceiveFails(u)
  PROVE  \A t \in Threads : TimedIfMissing(t)'
<1>1. /\ pc[u] = "recv" /\ Mishap(u, "failed") /\ Loop(u, round[u] + 1)
      /\ UNCHANGED <<samples, wire>>
  BY DEF ReceiveFails, CallFails
<1>2. round[u] \in 1 .. Requests
  BY <1>1 DEF WaitInv, BenchInv, ThreadInv, PlaceOK
<1>3. /\ round'[u] = round[u] + 1 /\ pc'[u] \in {"send", "finished"}
      /\ \A t \in Threads \ {u} : pc'[t] = pc[t] /\ round'[t] = round[t]
  BY <1>1, <1>2, LoopFacts, BenchmarkAssumption DEF WaitInv, BenchInv
<1>4. \A t \in Threads : hit[t] \subseteq hit'[t]
  BY <1>1, MishapFacts DEF WaitInv, BenchInv, Kinds
<1>5. \A t \in Threads : Own(t)' = Own(t) /\ Originals(t)' = Originals(t)
  BY <1>1 DEF Own, Originals
<1>6. \A t \in Threads \ {u} : TimedIfMissing(t)'
  BY <1>1, <1>3, <1>4, <1>5, OthersWaitOn
<1>7. Sent(u)' = Sent(u)
  BY <1>1, <1>2, <1>3 DEF Sent
<1>8. TimedIfMissing(u)'
  BY <1>1, <1>4, <1>5, <1>7, MissingKept DEF WaitInv
<1>9. QED
  BY <1>6, <1>8

LEMMA WaitStartFinish ==
  ASSUME WaitInv, BenchInv', NEW u \in Threads, StartThread(u) \/ Finish(u)
  PROVE  \A t \in Threads : TimedIfMissing(t)'
<1> USE DEF faultVars
<1>1. UNCHANGED <<samples, wire, hit>>
  BY DEF StartThread, Finish
<1>2. \A t \in Threads : Own(t)' = Own(t) /\ Originals(t)' = Originals(t)
  BY <1>1 DEF Own, Originals
<1>3. /\ \A t \in Threads \ {u} : pc'[t] = pc[t] /\ round'[t] = round[t]
      /\ Sent(u)' = Sent(u)
  <2>1. CASE StartThread(u)
    <3>1. pc[u] = "none" /\ Loop(u, 1) /\ 1 \in 1 .. Requests + 1
      BY <2>1, BenchmarkAssumption DEF StartThread
    <3>2. /\ round'[u] = 1 /\ pc'[u] \in {"send", "finished"}
          /\ \A t \in Threads \ {u} : pc'[t] = pc[t] /\ round'[t] = round[t]
      BY <3>1, LoopFacts DEF WaitInv, BenchInv
    <3>3. QED
      BY <3>1, <3>2 DEF Sent
  <2>2. CASE Finish(u)
    <3>1. pc[u] = "finished" /\ pc' = [pc EXCEPT ![u] = "ended"] /\ round' = round
      BY <2>2 DEF Finish
    <3>2. pc'[u] = "ended" /\ \A t \in Threads \ {u} : pc'[t] = pc[t]
      BY <3>1 DEF WaitInv, BenchInv, Shapes
    <3>3. QED
      BY <3>1, <3>2 DEF Sent
  <2>3. QED
    BY <2>1, <2>2
<1>4. \A t \in Threads \ {u} : TimedIfMissing(t)'
  BY <1>1, <1>2, <1>3, OthersWaitOn
<1>5. TimedIfMissing(u)'
  BY <1>1, <1>2, <1>3, MissingKept DEF WaitInv
<1>6. QED
  BY <1>4, <1>5

LEMMA WaitQuiet ==
  ASSUME WaitInv, BenchInv', Report \/ UNCHANGED vars
  PROVE  \A t \in Threads : TimedIfMissing(t)'
<1>1. UNCHANGED <<pc, round, samples, wire, hit>>
  BY DEF Report, vars, threadVars, faultVars
<1>2. \A t \in Threads : Own(t) \subseteq Own(t)'
  BY <1>1 DEF Own
<1>3. QED
  BY <1>1, <1>2, WaitsOn DEF WaitInv

LEMMA WaitInit == Init => WaitInv
<1> SUFFICES ASSUME Init PROVE WaitInv
  OBVIOUS
<1>1. ASSUME NEW t \in Threads PROVE TimedIfMissing(t)
  <2>1. Sent(t) = 0 /\ samples[t] = << >>
    BY DEF Init, Sent
  <2>2. Missing(t) = {}
    BY <2>1 DEF Missing
  <2>3. QED
    BY <2>1, <2>2, FS_EmptySet DEF TimedIfMissing
<1>2. QED
  BY <1>1, BenchInit DEF WaitInv

LEMMA WaitStep == WaitInv /\ [Next]_vars => WaitInv'
<1> SUFFICES ASSUME WaitInv, [Next]_vars PROVE WaitInv'
  OBVIOUS
<1>1. BenchInv'
  BY BenchNext DEF WaitInv
<1>2. \A t \in Threads : TimedIfMissing(t)'
  BY <1>1, WaitLose, WaitDuplicateStray, WaitServe, WaitSend, WaitReceive, WaitFails,
     WaitStartFinish, WaitQuiet
     DEF Next, Main, Network, Thread
<1>3. QED
  BY <1>1, <1>2 DEF WaitInv

(* A thread that waits in recvfrom, and whose datagrams were not lost nor mixed
   with those of somebody else, has one on its way: the request it has sent, the
   answer to it, or an earlier one it has given up.  So it is the loss of a
   datagram, or a stray one, that keeps UdpBenchmark waiting for ever, and neither
   duplicates nor failing calls. *)
THEOREM AnswerIsOnItsWay ==
  Spec => [](\A t \in Threads :
               pc[t] = "recv" /\ hit[t] \cap {"lost", "stray"} = {} =>
                 \E d \in wire : Owner(d) = t)
<1>1. ASSUME WaitInv, NEW t \in Threads, pc[t] = "recv", hit[t] \cap {"lost", "stray"} = {}
      PROVE  \E d \in wire : Owner(d) = t
  <2>1. round[t] \in 1 .. Requests /\ Sent(t) = round[t]
    BY <1>1 DEF WaitInv, BenchInv, ThreadInv, PlaceOK, Sent
  <2>2. Len(samples[t]) \in Nat /\ Cardinality(Missing(t)) \in Nat /\ IsFiniteSet(Missing(t))
    BY <1>1, MissingFacts DEF WaitInv
  <2>3. Len(samples[t]) < round[t]
    <3>1. CASE samples[t] = << >>
      BY <2>1, <3>1
    <3>2. CASE samples[t] # << >>
      BY <1>1, <3>2 DEF WaitInv, BenchInv, ThreadInv, SamplesOK
    <3>3. QED
      BY <3>1, <3>2
  <2>4. Cardinality(Missing(t)) <= Len(samples[t])
    BY <1>1 DEF WaitInv, TimedIfMissing
  <2>5. Cardinality(1 .. round[t]) = round[t]
    BY <2>1, IntervalCard
  <2>6. Missing(t) # 1 .. round[t]
    <3>1. Cardinality(Missing(t)) # round[t]
      BY <2>1, <2>2, <2>3, <2>4
    <3>2. QED
      BY <2>5, <3>1
  <2>7. Originals(t) # {}
    BY <2>1, <2>6 DEF Missing
  <2>8. QED
    BY <2>7 DEF Originals, Own
<1>2. WaitInv => \A t \in Threads :
                   pc[t] = "recv" /\ hit[t] \cap {"lost", "stray"} = {} =>
                     \E d \in wire : Owner(d) = t
  BY <1>1
<1>3. QED
  BY <1>2, WaitInit, WaitStep, PTL DEF Spec
=============================================================================
