---------------------------- MODULE LatencyReport ----------------------------
(***************************************************************************)
(* ShowLatencyReport: the lines of the table "Percentage of the requests    *)
(* served within a certain time".  A latency is a whole number of           *)
(* milliseconds, latency / 1000 in the code; the percentages follow from    *)
(* the counts.                                                              *)
(***************************************************************************)
EXTENDS Naturals, Sequences, FiniteSetsExt, Functions

(* How many of the latencies are at most so many milliseconds. *)
AtMost(latency, ms) == Cardinality({i \in DOMAIN latency : latency[i] <= ms})

(* std::sort: the latency at place k is the least that k of them do not exceed
   (SortedRearranges in LatencyReportProofs: the same latencies in another order,
   the lower ones first). *)
Sorted(latency) ==
  [k \in DOMAIN latency |-> Min({ms \in Range(latency) : k <= AtMost(latency, ms)})]

(* Where the loop prints: where the milliseconds change and at the last
   latency, but not at the first. *)
Printed(s) == {i \in 2 .. Len(s) : s[i] # s[i - 1] \/ i = Len(s)}

(* Variant: the latency in hand is always counted. *)
CountAll(s, i) == i

(* The latencies before the one in hand; the last one is counted too. *)
Count(s, i) == IF i = Len(s) THEN i ELSE i - 1

(* current_latency holds the milliseconds of the latency before. *)
Line(s, i) == [count |-> Count(s, i), within |-> s[i - 1] + 1]

Lines(latency) == LET s == Sorted(latency) IN {Line(s, i) : i \in Printed(s)}

(* What a line says: so many of the requests were served within that time. *)
IsTrue(line, latency) ==
  line.count = Cardinality({i \in DOMAIN latency : latency[i] < line.within})
=============================================================================
