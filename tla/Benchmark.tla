------------------------------ MODULE Benchmark ------------------------------
(***************************************************************************)
(* The UDP benchmark against the UDP echo server: threads that each send a  *)
(* request from a socket of their own, wait for a datagram and take the     *)
(* time, over a network that loses and duplicates; the results are put      *)
(* together under a mutex and reported when all threads have ended.         *)
(*                                                                          *)
(* A datagram is the pair of its addresses and the request it carries.  A   *)
(* step of a thread is one system call with everything up to the next one.  *)
(***************************************************************************)
EXTENDS LatencyReport, SequencesExt

CONSTANTS
  Threads,    \* config.concurrency threads; each is the address of its socket
  Server,     \* the address given with -h and -p
  Stranger,   \* another address that sends datagrams
  Requests,   \* config.request
  Delays,     \* how many milliseconds an answer may take
  MaxMishaps  \* bound: what goes wrong

ASSUME BenchmarkAssumption ==
  /\ IsFiniteSet(Threads)
  /\ Server \notin Threads /\ Stranger \notin Threads /\ Server # Stranger
  /\ Requests \in Nat /\ Delays \subseteq Nat /\ MaxMishaps \in Nat

VARIABLES
  main,     \* the main thread: "starting", "joining", "reported"
  pc,       \* where each thread is
  round,    \* which request a thread is at, from 1
  ha,       \* where a thread sends its requests
  samples,  \* latency: the answers a thread has timed
  results,  \* kResult: the threads whose result is in it
  report,   \* what ShowLatencyReport has printed
  wire,     \* the datagrams on their way or in a receive queue
  hit,      \* history: what has gone wrong for each thread
  mishaps   \* history: how often

threadVars == <<pc, round, ha, samples>>
faultVars  == <<hit, mishaps>>
vars == <<main, pc, round, ha, samples, results, report, wire, hit, mishaps>>

-----------------------------------------------------------------------------
(* The network.                                                             *)

(* Request number n of thread t; copy 2 is a duplicate. *)
Datagram(from, to, n) == [from |-> from, to |-> to, request |-> n, copy |-> 1]

(* A datagram that answers no request, without content or with some. *)
Foreign == {0, Requests + 1}

Owner(d) == IF d.from \in Threads THEN d.from ELSE d.to

Mishap(t, kind) ==
  /\ mishaps < MaxMishaps /\ mishaps' = mishaps + 1
  /\ hit' = [hit EXCEPT ![t] = @ \cup {kind}]

Lose ==
  \E d \in wire :
    /\ Mishap(Owner(d), "lost")
    /\ wire' = wire \ {d}
    /\ UNCHANGED <<main, threadVars, results, report>>

Duplicate ==
  \E d \in wire :
    /\ Mishap(Owner(d), "twice")
    /\ wire' = wire \cup {[d EXCEPT !.copy = 2]}
    /\ UNCHANGED <<main, threadVars, results, report>>

(* Somebody else sends to the socket of a thread. *)
Stray(t, n) ==
  /\ pc[t] = "recv"
  /\ Mishap(t, "stray")
  /\ wire' = wire \cup {Datagram(Stranger, t, n)}
  /\ UNCHANGED <<main, threadVars, results, report>>

-----------------------------------------------------------------------------
(* The server.                                                              *)

(* Variant: the answer goes to the address the socket is bound to. *)
EchoToItself(d) == [d EXCEPT !.from = d.to]

(* handle_udp_packet sends the datagram back where it came from. *)
Echo(d) == [d EXCEPT !.from = d.to, !.to = d.from]

Serve ==
  \E d \in wire :
    /\ d.to = Server
    /\ wire' = (wire \ {d}) \cup {Echo(d)}
    /\ UNCHANGED <<main, threadVars, results, report, faultVars>>

-----------------------------------------------------------------------------
(* UdpBenchmark: the threads.                                               *)

(* Variant: one request too many. *)
GoesOnOver(n) == n <= Requests + 1

(* i < config.request. *)
GoesOn(n) == n <= Requests

(* The head of the loop, before request n. *)
Loop(t, n) ==
  /\ round' = [round EXCEPT ![t] = n]
  /\ pc' = [pc EXCEPT ![t] = IF GoesOn(n) THEN "send" ELSE "finished"]

Send(t) ==
  /\ pc[t] = "send"
  /\ wire' = wire \cup {Datagram(t, ha[t], round[t])}
  /\ pc' = [pc EXCEPT ![t] = "recv"]
  /\ UNCHANGED <<main, round, ha, samples, results, report, faultVars>>

(* recvfrom returns a datagram, whoever sent it, and ha becomes its sender. *)
Receive(t) ==
  /\ pc[t] = "recv"
  /\ \E d \in wire, ms \in Delays :
       /\ d.to = t
       /\ wire' = wire \ {d}
       /\ ha' = [ha EXCEPT ![t] = d.from]
       /\ samples' = IF d.request = 0 THEN samples
                     ELSE [samples EXCEPT ![t] =
                            Append(@, [round |-> round[t], answer |-> d.request, ms |-> ms])]
  /\ Loop(t, round[t] + 1)
  /\ UNCHANGED <<main, results, report, faultVars>>

(* Variant: a socket that does not wait. *)
PollFails(t) == UNCHANGED faultVars

(* recvfrom on a blocking socket fails when it is interrupted. *)
CallFails(t) == Mishap(t, "failed")

(* n <= 0: the request is given up. *)
ReceiveFails(t) ==
  /\ pc[t] = "recv"
  /\ CallFails(t)
  /\ Loop(t, round[t] + 1)
  /\ UNCHANGED <<main, ha, samples, results, report, wire>>

(* kResult.push_back under kResultMutex. *)
Finish(t) ==
  /\ pc[t] = "finished"
  /\ results' = Append(results, t)
  /\ pc' = [pc EXCEPT ![t] = "ended"]
  /\ UNCHANGED <<main, round, ha, samples, report, wire, faultVars>>

-----------------------------------------------------------------------------
(* The main thread.                                                         *)

StartThread(t) ==
  /\ main = "starting" /\ pc[t] = "none"
  /\ Loop(t, 1)
  /\ main' = IF \A u \in Threads \ {t} : pc[u] # "none" THEN "joining" ELSE main
  /\ UNCHANGED <<ha, samples, results, report, wire, faultVars>>

(* Variant: main does not wait for the threads. *)
AllStarted == \A t \in Threads : pc[t] # "none"

AllEnded == \A t \in Threads : pc[t] = "ended"

Latencies(t) == [i \in DOMAIN samples[t] |-> samples[t][i].ms]

(* All threads joined: ShowLatencyReport.  The latencies are put together once,
   by binding them to the only member of a set. *)
Report ==
  /\ main = "joining" /\ AllEnded
  /\ main' = "reported"
  /\ \E latency \in {FlattenSeq([i \in DOMAIN results |-> Latencies(results[i])])} :
       report' = [requests |-> Requests * Len(results),
                  finished |-> Len(latency),
                  latency  |-> latency,
                  lines    |-> Lines(latency)]
  /\ UNCHANGED <<threadVars, results, wire, faultVars>>

-----------------------------------------------------------------------------
NoReport == [requests |-> 0, finished |-> 0, latency |-> << >>, lines |-> {}]

Init ==
  /\ main = IF Threads = {} THEN "joining" ELSE "starting"
  /\ pc = [t \in Threads |-> "none"]
  /\ round = [t \in Threads |-> 0]
  /\ ha = [t \in Threads |-> Server]
  /\ samples = [t \in Threads |-> << >>]
  /\ results = << >> /\ report = NoReport
  /\ wire = {} /\ hit = [t \in Threads |-> {}] /\ mishaps = 0

Thread(t) == Send(t) \/ Receive(t) \/ ReceiveFails(t) \/ Finish(t)

Main == Report \/ \E t \in Threads : StartThread(t)

Network == Lose \/ Duplicate \/ \E t \in Threads, n \in Foreign : Stray(t, n)

Next == Main \/ Serve \/ Network \/ \E t \in Threads : Thread(t)

Spec == Init /\ [][Next]_vars

(* Every thread and the server run, and a datagram that is not lost arrives. *)
Fairness ==
  /\ WF_vars(Main)
  /\ WF_vars(Serve)
  /\ \A t \in Threads : WF_vars(Send(t) \/ Receive(t) \/ Finish(t))

FairSpec == Spec /\ Fairness
-----------------------------------------------------------------------------
(* Properties.                                                              *)

Kinds == {"lost", "twice", "stray", "failed"}

(* Types; a thread never takes more samples than it was told to. *)
TypeOK ==
  /\ main \in {"starting", "joining", "reported"}
  /\ pc \in [Threads -> {"none", "send", "recv", "finished", "ended"}]
  /\ round \in [Threads -> 0 .. Requests + 1]
  /\ ha \in [Threads -> {Server, Stranger}]
  /\ \A t \in Threads :
       /\ samples[t] \in Seq([round : 1 .. Requests, answer : 1 .. Requests + 1, ms : Delays])
       /\ Len(samples[t]) <= Requests
  /\ results \in Seq(Threads)
  /\ wire \subseteq [from : Threads \cup {Server, Stranger}, to : Threads \cup {Server, Stranger},
                     request : 0 .. Requests + 1, copy : {1, 2}]
  /\ hit \in [Threads -> SUBSET Kinds] /\ mishaps \in 0 .. MaxMishaps

(* What is timed is the answer to the request just sent, though nothing in an
   answer says so: it may only be lost.  With a duplicate, a stray datagram or
   a failed call, a thread may take the answer to an earlier request - never
   one it has not sent, and without duplicates none twice. *)
TimesItsRequest ==
  \A t \in Threads : \A i \in DOMAIN samples[t] :
    LET s == samples[t][i] IN
    /\ hit[t] \subseteq {"lost"} => s.answer = s.round
    /\ "stray" \notin hit[t] => s.answer <= s.round
    /\ hit[t] \cap {"twice", "stray"} = {} =>
         \A j \in 1 .. i - 1 : samples[t][j].answer # s.answer

(* The report comes when every thread has put in its result, and its last line
   speaks of all requests that were answered. *)
ReportComplete ==
  main = "reported" =>
    /\ report.requests = Requests * Cardinality(Threads)
    /\ report.finished = Cardinality(UNION {{t} \X DOMAIN samples[t] : t \in Threads})
    /\ report.finished >= 2 => \E x \in report.lines : x.count = report.finished

(* The lines but the last say what is the case, and each line speaks of more
   requests than those with less time. *)
ReportMostlyTrue ==
  \A x \in report.lines :
    /\ x.count < report.finished => IsTrue(x, report.latency)
    /\ \A y \in report.lines : x.within < y.within <=> x.count < y.count

(* "Percentage of the requests served within a certain time": every line says
   what is the case. *)
ReportIsTrue == \A x \in report.lines : IsTrue(x, report.latency)

(* The benchmark ends, unless a datagram was lost or a thread was drawn away
   from its server: duplicates and failed calls do not stop it. *)
EndsUnlessHit ==
  <>(main = "reported" \/ \E t \in Threads : hit[t] \cap {"lost", "stray"} # {})
=============================================================================
