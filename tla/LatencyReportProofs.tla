------------------------- MODULE LatencyReportProofs -------------------------
(***************************************************************************)
(* Proofs about the table of latencies, for any number of latencies.        *)
(***************************************************************************)
EXTENDS LatencyReport, SequencesExt, SequenceTheorems, FiniteSetTheorems, FunctionTheorems, TLAPS

(* The least of some numbers, and the highest of finitely many.  Both stand in
   for an induction: a set of finite sets has a member that is minimal among
   them. *)
FiniteFamily(F, S) == F # {} /\ \A T \in F : T \subseteq S /\ IsFiniteSet(T)

HasMinimal(F) == \E T \in F : \A U \in F : U \subseteq T => U = T

LEMMA Minimal ==
  ASSUME NEW S, NEW F, FiniteFamily(F, S)
  PROVE  HasMinimal(F)
<1>1. F \subseteq FiniteSubsetsOf(S) /\ F # {}
  BY DEF FiniteSubsetsOf, FiniteFamily
<1>2. PICK T \in F : \A U \in F : ~ (<<U, T>> \in StrictSubsetOrdering(S))
  BY <1>1, FS_StrictSubsetOrderingWellFounded, WFMin
<1>3. ASSUME NEW U \in F, U \subseteq T, U # T PROVE FALSE
  BY <1>2, <1>3 DEF StrictSubsetOrdering, FiniteFamily
<1>4. QED
  BY <1>3 DEF HasMinimal

LEMMA LeastNumber ==
  ASSUME NEW S \in SUBSET Nat, S # {}
  PROVE  \E m \in S : \A n \in S : m <= n
<1> DEFINE F == {0 .. n : n \in S}
<1>1. FiniteFamily(F, Nat)
  <2>1. ASSUME NEW n \in S PROVE 0 .. n \subseteq Nat /\ IsFiniteSet(0 .. n)
    BY FS_Interval
  <2>2. QED
    BY <2>1, Zenon DEF FiniteFamily
<1>2. PICK T \in F : \A U \in F : U \subseteq T => U = T
  <2> HIDE DEF F
  <2>1. QED
    BY <1>1, Minimal DEF HasMinimal
<1>3. PICK m \in S : T = 0 .. m
  BY <1>2
<1>4. ASSUME NEW n \in S, n < m PROVE FALSE
  <2>1. 0 .. n \in F /\ 0 .. n \subseteq 0 .. m /\ m \in 0 .. m /\ m \notin 0 .. n
    BY <1>4
  <2>2. QED
    BY <1>2, <1>3, <2>1
<1>5. QED
  BY <1>4

LEMMA IntervalCard ==
  ASSUME NEW n \in Nat
  PROVE  IsFiniteSet(1 .. n) /\ Cardinality(1 .. n) = n
BY FS_Interval

LEMMA MinOfNaturals ==
  ASSUME NEW S \in SUBSET Nat, S # {}
  PROVE  Min(S) \in S /\ \A n \in S : Min(S) <= n
BY LeastNumber DEF Min

LEMMA HighestOf ==
  ASSUME NEW l \in Seq(Nat), NEW D \in SUBSET DOMAIN l, D # {}
  PROVE  \E i \in D : \A j \in D : l[j] <= l[i]
<1> DEFINE Above(i) == {j \in D : l[j] > l[i]}
           F == {Above(i) : i \in D}
<1>1. \A i \in D : l[i] \in Nat
  OBVIOUS
<1>2. IsFiniteSet(D)
  <2>1. IsFiniteSet(1 .. Len(l)) /\ DOMAIN l = 1 .. Len(l)
    BY FS_Interval
  <2>2. QED
    BY <2>1, FS_Subset
<1>3. FiniteFamily(F, D)
  <2>1. \A i \in D : Above(i) \subseteq D /\ IsFiniteSet(Above(i))
    BY <1>2, FS_Subset
  <2>2. QED
    BY <2>1 DEF FiniteFamily
<1>4. PICK T \in F : \A U \in F : U \subseteq T => U = T
  <2> HIDE DEF F
  <2>1. QED
    BY <1>3, Minimal DEF HasMinimal
<1>5. PICK i \in D : T = Above(i)
  BY <1>4
<1>6. ASSUME NEW j \in D, l[j] > l[i] PROVE FALSE
  <2>1. Above(j) \in F
    OBVIOUS
  <2>2. l[i] \in Nat /\ l[j] \in Nat
    BY <1>1
  <2>3. j \in Above(i) /\ j \notin Above(j)
    BY <1>6, <2>2
  <2>4. Above(j) \subseteq Above(i)
    BY <1>1, <1>6
  <2>5. QED
    BY <1>4, <1>5, <2>1, <2>3, <2>4, Zenon
<1>7. ASSUME NEW j \in D PROVE l[j] <= l[i]
  <2>1. l[i] \in Nat /\ l[j] \in Nat
    BY <1>1
  <2>2. QED
    BY <1>6, <2>1
<1>8. QED
  BY <1>7, Zenon

-----------------------------------------------------------------------------
(* Counting latencies.                                                      *)

LEMMA AtMostFacts ==
  ASSUME NEW l \in Seq(Nat), NEW a
  PROVE  /\ AtMost(l, a) \in Nat /\ AtMost(l, a) <= Len(l)
         /\ IsFiniteSet({i \in DOMAIN l : l[i] <= a})
<1>1. IsFiniteSet(1 .. Len(l)) /\ Cardinality(1 .. Len(l)) = Len(l) /\ DOMAIN l = 1 .. Len(l)
  <2>1. Len(l) \in Nat /\ DOMAIN l = 1 .. Len(l)
    OBVIOUS
  <2>2. QED
    BY <2>1, IntervalCard
<1>2. {i \in DOMAIN l : l[i] <= a} \in SUBSET (1 .. Len(l))
  BY <1>1
<1>3. /\ IsFiniteSet({i \in DOMAIN l : l[i] <= a})
      /\ Cardinality({i \in DOMAIN l : l[i] <= a}) <= Len(l)
  BY <1>1, <1>2, FS_Subset
<1>4. QED
  BY <1>3, FS_CardinalityType DEF AtMost

LEMMA AtMostMonotonic ==
  ASSUME NEW l \in Seq(Nat), NEW a \in Nat, NEW b \in Nat, a <= b
  PROVE  AtMost(l, a) <= AtMost(l, b)
<1>1. {i \in DOMAIN l : l[i] <= a} \in SUBSET {i \in DOMAIN l : l[i] <= b}
  OBVIOUS
<1>2. QED
  BY <1>1, AtMostFacts, FS_Subset DEF AtMost

(* So many are at most a: the highest of them says it too. *)
LEMMA AtMostIsReached ==
  ASSUME NEW l \in Seq(Nat), NEW a \in Nat, AtMost(l, a) >= 1
  PROVE  \E ms \in Range(l) : ms <= a /\ AtMost(l, ms) = AtMost(l, a)
<1> DEFINE D == {i \in DOMAIN l : l[i] <= a}
<1>1. D # {}
  <2>1. AtMost(l, a) = Cardinality(D) /\ Cardinality({}) = 0
    BY FS_EmptySet DEF AtMost
  <2>2. QED
    <3>1. ASSUME D = {} PROVE AtMost(l, a) = 0
      BY <2>1, <3>1, Zenon
    <3>2. AtMost(l, a) # 0
      OBVIOUS
    <3>3. QED
      BY <3>1, <3>2
<1>2. PICK i \in D : \A j \in D : l[j] <= l[i]
  <2>1. D \in SUBSET DOMAIN l
    OBVIOUS
  <2> HIDE DEF D
  <2>2. QED
    BY <1>1, <2>1, HighestOf
<1>3. {j \in DOMAIN l : l[j] <= l[i]} = D
  BY <1>2
<1>4. QED
  BY <1>2, <1>3 DEF AtMost, Range

-----------------------------------------------------------------------------
(* What Sorted returns.                                                     *)

LEMMA SortedType ==
  ASSUME NEW l \in Seq(Nat)
  PROVE  /\ Sorted(l) \in Seq(Nat) /\ Len(Sorted(l)) = Len(l) /\ DOMAIN Sorted(l) = 1 .. Len(l)
         /\ \A k \in 1 .. Len(l) :
              /\ Sorted(l)[k] \in Range(l)
              /\ k <= AtMost(l, Sorted(l)[k])
              /\ \A ms \in Range(l) : k <= AtMost(l, ms) => Sorted(l)[k] <= ms
<1>1. DOMAIN l = 1 .. Len(l) /\ Len(l) \in Nat /\ Range(l) \subseteq Nat
  BY DEF Range
<1>2. ASSUME NEW k \in 1 .. Len(l)
      PROVE  /\ Sorted(l)[k] \in Range(l)
             /\ k <= AtMost(l, Sorted(l)[k])
             /\ \A ms \in Range(l) : k <= AtMost(l, ms) => Sorted(l)[k] <= ms
  <2> DEFINE S == {ms \in Range(l) : k <= AtMost(l, ms)}
  <2>1. Sorted(l)[k] = Min(S)
    BY <1>1 DEF Sorted
  <2>2. S # {}
    <3>1. PICK i \in DOMAIN l : \A j \in DOMAIN l : l[j] <= l[i]
      BY <1>1, HighestOf
    <3>2. {j \in DOMAIN l : l[j] <= l[i]} = 1 .. Len(l)
      BY <1>1, <3>1
    <3>3. AtMost(l, l[i]) = Len(l)
      <4>1. Cardinality(1 .. Len(l)) = Len(l)
        BY <1>1, IntervalCard
      <4>2. QED
        BY <3>2, <4>1 DEF AtMost
    <3>4. QED
      BY <3>3 DEF Range
  <2>3. S \in SUBSET Nat
    BY <1>1
  <2>4. Min(S) \in S /\ \A n \in S : Min(S) <= n
    <3> HIDE DEF S
    <3>1. QED
      BY <2>2, <2>3, MinOfNaturals
  <2>5. QED
    BY <2>1, <2>4
<1>3. DOMAIN Sorted(l) = 1 .. Len(l)
  BY <1>1 DEF Sorted
<1>4. Sorted(l) = [k \in 1 .. Len(l) |-> Sorted(l)[k]]
  BY <1>1 DEF Sorted
<1>5. \A k \in 1 .. Len(l) : Sorted(l)[k] \in Nat
  BY <1>1, <1>2
<1>6. Sorted(l) \in Seq(Nat) /\ Len(Sorted(l)) = Len(l)
  <2> DEFINE s == Sorted(l)
  <2> HIDE DEF s
  <2>1. s = [k \in 1 .. Len(l) |-> s[k]] /\ \A k \in 1 .. Len(l) : s[k] \in Nat
    BY <1>4, <1>5 DEF s
  <2>2. s \in Seq(Nat) /\ Len(s) = Len(l)
    BY <1>1, <2>1
  <2>3. QED
    BY <2>2 DEF s
<1>7. QED
  BY <1>2, <1>3, <1>6

(* The latencies that are at most a come first, and as many as there are. *)
LEMMA SortedUpTo ==
  ASSUME NEW l \in Seq(Nat), NEW a \in Nat, NEW k \in 1 .. Len(l)
  PROVE  Sorted(l)[k] <= a <=> k <= AtMost(l, a)
<1>1. Sorted(l)[k] \in Nat /\ k <= AtMost(l, Sorted(l)[k])
  <2>1. Range(l) \subseteq Nat
    BY DEF Range
  <2>2. QED
    BY <2>1, SortedType
<1>2. AtMost(l, Sorted(l)[k]) \in Nat /\ AtMost(l, a) \in Nat
  BY AtMostFacts
<1>3. ASSUME Sorted(l)[k] <= a PROVE k <= AtMost(l, a)
  <2>1. AtMost(l, Sorted(l)[k]) <= AtMost(l, a)
    BY <1>1, <1>3, AtMostMonotonic
  <2>2. QED
    BY <1>1, <1>2, <2>1
<1>4. ASSUME k <= AtMost(l, a) PROVE Sorted(l)[k] <= a
  <2>1. PICK ms \in Range(l) : ms <= a /\ AtMost(l, ms) = AtMost(l, a)
    BY <1>2, <1>4, AtMostIsReached
  <2>2. Sorted(l)[k] <= ms /\ ms \in Nat
    BY <1>4, <2>1, SortedType DEF Range
  <2>3. QED
    BY <1>1, <2>1, <2>2
<1>5. QED
  BY <1>3, <1>4

Ascending(s) == \A i, j \in DOMAIN s : i < j => s[i] <= s[j]

LEMMA SortedAscends ==
  ASSUME NEW l \in Seq(Nat)
  PROVE  Ascending(Sorted(l))
<1> SUFFICES ASSUME NEW i \in 1 .. Len(l), NEW j \in 1 .. Len(l), i < j
             PROVE  Sorted(l)[i] <= Sorted(l)[j]
  BY SortedType DEF Ascending
<1>1. Sorted(l)[j] \in Nat
  BY SortedType DEF Range
<1>2. AtMost(l, Sorted(l)[j]) \in Nat /\ j <= AtMost(l, Sorted(l)[j])
  BY SortedType, AtMostFacts
<1>3. i <= AtMost(l, Sorted(l)[j])
  BY <1>2
<1>4. QED
  BY <1>1, <1>3, SortedUpTo

(* The places of the latencies of exactly so many milliseconds are an interval
   of the sorted ones; there are as many of them. *)
LEMMA SortedTimes ==
  ASSUME NEW l \in Seq(Nat), NEW a \in Nat
  PROVE  ExistsBijection({k \in 1 .. Len(l) : Sorted(l)[k] = a}, {i \in 1 .. Len(l) : l[i] = a})
<1> DEFINE n == Len(l)
           Less(s) == {k \in 1 .. n : s[k] < a}
           Same(s) == {k \in 1 .. n : s[k] = a}
           UpTo(s) == {k \in 1 .. n : s[k] <= a}
<1>1. n \in Nat /\ DOMAIN l = 1 .. n /\ IsFiniteSet(1 .. n)
  BY IntervalCard
<1>2. ASSUME NEW s \in Seq(Nat), Len(s) = n
      PROVE  /\ IsFiniteSet(Same(s))
             /\ Cardinality(UpTo(s)) = Cardinality(Less(s)) + Cardinality(Same(s))
             /\ Cardinality(Less(s)) \in Nat /\ Cardinality(Same(s)) \in Nat
  <2>1. IsFiniteSet(Less(s)) /\ IsFiniteSet(Same(s))
    BY <1>1, FS_Subset
  <2>2. Less(s) \cap Same(s) = {} /\ Less(s) \cup Same(s) = UpTo(s)
    BY <1>2
  <2> HIDE DEF Less, Same, UpTo
  <2>3. Cardinality(UpTo(s)) = Cardinality(Less(s)) + Cardinality(Same(s)) - Cardinality({})
    BY <2>1, <2>2, FS_Union
  <2>4. Cardinality(Less(s)) \in Nat /\ Cardinality(Same(s)) \in Nat /\ Cardinality({}) = 0
    BY <2>1, FS_CardinalityType, FS_EmptySet
  <2>5. QED
    BY <2>1, <2>3, <2>4
<1>3. Sorted(l) \in Seq(Nat) /\ Len(Sorted(l)) = n
  BY SortedType
<1>4. ASSUME NEW b \in Nat
      PROVE  Cardinality({k \in 1 .. n : Sorted(l)[k] <= b}) = Cardinality({k \in 1 .. n : l[k] <= b})
  <2>1. AtMost(l, b) \in Nat /\ AtMost(l, b) <= n
    BY AtMostFacts
  <2>2. {k \in 1 .. n : Sorted(l)[k] <= b} = 1 .. AtMost(l, b)
    BY <1>1, <2>1, SortedUpTo
  <2>3. QED
    BY <1>1, <2>1, <2>2, IntervalCard DEF AtMost
<1>5. Cardinality(UpTo(Sorted(l))) = Cardinality(UpTo(l))
  BY <1>4
<1>6. Cardinality(Less(Sorted(l))) = Cardinality(Less(l))
  <2>1. CASE a = 0
    <3>1. \A k \in 1 .. n : l[k] \in Nat /\ Sorted(l)[k] \in Nat
      BY <1>1, <1>3
    <3>2. Less(Sorted(l)) = {} /\ Less(l) = {}
      BY <2>1, <3>1
    <3>3. QED
      BY <3>2
  <2>2. CASE a # 0
    <3>1. \A k \in 1 .. n : l[k] \in Nat /\ Sorted(l)[k] \in Nat
      BY <1>1, <1>3
    <3>2. Less(l) = {k \in 1 .. n : l[k] <= a - 1} /\ a - 1 \in Nat
      BY <2>2, <3>1
    <3>3. Less(Sorted(l)) = {k \in 1 .. n : Sorted(l)[k] <= a - 1}
      BY <2>2, <3>1
    <3>4. QED
      BY <1>4, <3>2, <3>3
  <2>3. QED
    BY <2>1, <2>2
<1>7. IsFiniteSet(Same(l)) /\ IsFiniteSet(Same(Sorted(l))) /\ Cardinality(Same(Sorted(l))) = Cardinality(Same(l))
  <2> HIDE DEF Less, Same, UpTo
  <2>1. QED
    BY <1>2, <1>3, <1>5, <1>6
<1>8. QED
  <2> HIDE DEF Same
  <2>1. ExistsBijection(Same(Sorted(l)), Same(l))
    BY <1>7, FS_SameCardinalityBij
  <2>2. QED
    BY <2>1 DEF Same

(* std::sort: Sorted puts the latencies in another order, the lower ones first,
   and neither drops nor repeats one. *)
THEOREM SortedRearranges ==
  ASSUME NEW l \in Seq(Nat)
  PROVE  /\ Ascending(Sorted(l))
         /\ \E p \in Bijection(1 .. Len(l), 1 .. Len(l)) :
              \A k \in 1 .. Len(l) : Sorted(l)[k] = l[p[k]]
<1> DEFINE n == Len(l)
           s == Sorted(l)
           From(a) == {k \in 1 .. n : s[k] = a}
           To(a) == {i \in 1 .. n : l[i] = a}
           b == [a \in Nat |-> CHOOSE f : f \in Bijection(From(a), To(a))]
           p == [k \in 1 .. n |-> b[s[k]][k]]
<1>1. \A a \in Nat : b[a] \in Bijection(From(a), To(a))
  BY SortedTimes DEF ExistsBijection
<1>2. \A k \in 1 .. n : s[k] \in Nat /\ l[k] \in Nat
  BY SortedType
<1> HIDE DEF b, s
<1>3. ASSUME NEW a \in Nat
      PROVE  /\ b[a] \in [From(a) -> To(a)]
             /\ \A i, j \in From(a) : b[a][i] = b[a][j] => i = j
             /\ \A j \in To(a) : \E i \in From(a) : b[a][i] = j
  <2> HIDE DEF From, To
  <2>1. QED
    BY <1>1, Fun_BijectionProperties
<1>4. ASSUME NEW k \in 1 .. n PROVE p[k] \in 1 .. n /\ l[p[k]] = s[k] /\ p[k] = b[s[k]][k]
  <2>1. s[k] \in Nat /\ k \in From(s[k]) /\ p[k] = b[s[k]][k]
    BY <1>2
  <2>2. b[s[k]] \in [From(s[k]) -> To(s[k])]
    BY <1>3, <2>1
  <2>3. b[s[k]][k] \in To(s[k])
    <3> HIDE DEF From, To
    <3>1. QED
      BY <2>1, <2>2
  <2>4. QED
    BY <2>1, <2>3
<1>5. p \in [1 .. n -> 1 .. n]
  BY <1>4
<1>6. ASSUME NEW i \in 1 .. n, NEW j \in 1 .. n, p[i] = p[j] PROVE i = j
  <2>1. s[i] = s[j] /\ b[s[i]][i] = b[s[i]][j]
    <3>1. l[p[i]] = s[i] /\ p[i] = b[s[i]][i] /\ l[p[j]] = s[j] /\ p[j] = b[s[j]][j]
      BY <1>4
    <3> HIDE DEF p
    <3>2. s[i] = s[j]
      BY <1>6, <3>1
    <3>3. QED
      BY <1>6, <3>1, <3>2
  <2>2. i \in From(s[i]) /\ j \in From(s[i])
    BY <2>1
  <2>3. QED
    BY <1>2, <1>3, <2>1, <2>2
<1>7. ASSUME NEW j \in 1 .. n PROVE \E i \in 1 .. n : p[i] = j
  <2>1. PICK i \in From(l[j]) : b[l[j]][i] = j
    BY <1>2, <1>3
  <2>2. QED
    BY <1>4, <2>1
<1>8. p \in Bijection(1 .. n, 1 .. n)
  <2> HIDE DEF p
  <2>1. QED
    BY <1>5, <1>6, <1>7, Fun_IsBij
<1>9. \A k \in 1 .. n : s[k] = l[p[k]]
  BY <1>4
<1>10. QED
  <2> HIDE DEF p
  <2>1. QED
    BY <1>8, <1>9, SortedAscends DEF s

-----------------------------------------------------------------------------
(* What the table says.                                                     *)

LEMMA SortedNeighbours ==
  ASSUME NEW l \in Seq(Nat), NEW i \in 2 .. Len(l)
  PROVE  Sorted(l)[i] \in Nat /\ Sorted(l)[i - 1] \in Nat /\ Sorted(l)[i - 1] <= Sorted(l)[i]
<1>1. i \in 1 .. Len(l) /\ i - 1 \in 1 .. Len(l) /\ i - 1 < i
  OBVIOUS
<1>2. Sorted(l) \in Seq(Nat) /\ DOMAIN Sorted(l) = 1 .. Len(l) /\ Len(Sorted(l)) = Len(l)
  BY SortedType
<1>3. Sorted(l)[i - 1] <= Sorted(l)[i]
  BY <1>1, <1>2, SortedAscends, Zenon DEF Ascending
<1>4. QED
  BY <1>1, <1>2, <1>3

LEMMA LineFacts ==
  ASSUME NEW l \in Seq(Nat), NEW i \in Printed(Sorted(l))
  PROVE  LET s == Sorted(l)
             x == Line(s, i)
         IN  /\ i \in 2 .. Len(l) /\ s[i] \in Nat /\ s[i - 1] \in Nat
             /\ x.within = s[i - 1] + 1
             /\ x.count = IF i = Len(l) THEN i ELSE i - 1
             /\ i # Len(l) => s[i] # s[i - 1]
<1> DEFINE s == Sorted(l)
<1>1. Len(l) \in Nat /\ Len(s) = Len(l)
  BY SortedType
<1> HIDE DEF s
<1>2. i \in 2 .. Len(l) /\ (s[i] # s[i - 1] \/ i = Len(l))
  <2>1. i \in Printed(s)
    BY DEF s
  <2>2. QED
    BY <1>1, <2>1 DEF Printed
<1>3. s[i] \in Nat /\ s[i - 1] \in Nat
  BY <1>2, SortedNeighbours DEF s
<1>4. Line(s, i).within = s[i - 1] + 1 /\ Line(s, i).count = IF i = Len(l) THEN i ELSE i - 1
  BY <1>1 DEF Line, Count
<1>5. QED
  BY <1>2, <1>3, <1>4 DEF s

LEMMA LineCount ==
  ASSUME NEW l \in Seq(Nat), NEW x \in Lines(l)
  PROVE  x.count \in Nat /\ (x.count < Len(l) \/ x.count = Len(l))
<1>1. PICK i \in Printed(Sorted(l)) : x = Line(Sorted(l), i)
  BY DEF Lines
<1>2. i \in 2 .. Len(l) /\ x.count = IF i = Len(l) THEN i ELSE i - 1
  BY <1>1, LineFacts
<1>3. QED
  BY <1>2

(* Each of the lines before the last tells how many were served within its
   time. *)
LEMMA LineIsTrue ==
  ASSUME NEW l \in Seq(Nat), NEW i \in Printed(Sorted(l)), i # Len(l)
  PROVE  IsTrue(Line(Sorted(l), i), l)
<1> DEFINE s == Sorted(l)
           a == s[i - 1]
<1>1. /\ i \in 2 .. Len(l) /\ s[i] \in Nat /\ a \in Nat /\ s[i] # a
      /\ Line(s, i).within = a + 1 /\ Line(s, i).count = i - 1
  BY LineFacts
<1>2. i - 1 <= AtMost(l, a)
  BY <1>1, SortedUpTo
<1>3. ~ (i <= AtMost(l, a))
  <2>1. a <= s[i]
    BY <1>1, SortedNeighbours
  <2>2. ~ (s[i] <= a)
    BY <1>1, <2>1
  <2>3. QED
    BY <1>1, <2>2, SortedUpTo
<1>4. AtMost(l, a) = i - 1
  <2>1. AtMost(l, a) \in Nat
    BY AtMostFacts
  <2> HIDE DEF a
  <2>2. QED
    BY <1>1, <1>2, <1>3, <2>1
<1>5. {j \in DOMAIN l : l[j] <= a} = {j \in DOMAIN l : l[j] < a + 1}
  BY <1>1
<1>6. QED
  BY <1>1, <1>4, <1>5 DEF IsTrue, AtMost

(* Of two lines, the one for more time is the later one and counts more. *)
LEMMA LinesGrow ==
  ASSUME NEW l \in Seq(Nat), NEW i \in Printed(Sorted(l)), NEW j \in Printed(Sorted(l)), i < j
  PROVE  /\ Line(Sorted(l), i).within < Line(Sorted(l), j).within
         /\ Line(Sorted(l), i).count < Line(Sorted(l), j).count
<1> DEFINE s == Sorted(l)
<1>1. /\ i \in 2 .. Len(l) /\ s[i] \in Nat /\ s[i - 1] \in Nat
      /\ Line(s, i).within = s[i - 1] + 1
      /\ Line(s, i).count = IF i = Len(l) THEN i ELSE i - 1
      /\ i # Len(l) => s[i] # s[i - 1]
  BY LineFacts
<1>2. /\ j \in 2 .. Len(l) /\ s[j] \in Nat /\ s[j - 1] \in Nat
      /\ Line(s, j).within = s[j - 1] + 1
      /\ Line(s, j).count = IF j = Len(l) THEN j ELSE j - 1
  BY LineFacts
<1>3. \A g, h \in 1 .. Len(l) : g < h => s[g] <= s[h]
  BY SortedAscends, SortedType DEF Ascending
<1> HIDE DEF s
<1>4. i \in Nat /\ j \in Nat /\ Len(l) \in Nat /\ i # Len(l) /\ i <= j - 1
  BY <1>1, <1>2
<1>5. s[i - 1] < s[i] /\ s[i] <= s[j - 1]
  <2>1. i - 1 \in 1 .. Len(l) /\ i \in 1 .. Len(l) /\ i - 1 < i /\ j - 1 \in 1 .. Len(l)
    <3>1. \A g, h \in Nat : g \in 2 .. h => g - 1 \in 1 .. h /\ g \in 1 .. h /\ g - 1 < g
      OBVIOUS
    <3>2. QED
      BY <1>1, <1>2, <1>4, <3>1, Zenon
  <2>2. s[i - 1] <= s[i]
    BY <1>3, <2>1
  <2>3. s[i] <= s[j - 1]
    <3>1. CASE i = j - 1
      BY <1>1, <3>1
    <3>2. CASE i < j - 1
      BY <1>3, <2>1, <3>2
    <3>3. QED
      BY <1>4, <3>1, <3>2
  <2>4. QED
    BY <1>1, <1>4, <2>2, <2>3
<1>6. Line(s, i).within < Line(s, j).within /\ Line(s, i).count < Line(s, j).count
  <2>1. Line(s, i).within = s[i - 1] + 1 /\ Line(s, j).within = s[j - 1] + 1
    BY <1>1, <1>2
  <2>2. Line(s, i).count = i - 1 /\ Line(s, j).count \in {j - 1, j}
    BY <1>1, <1>2, <1>4
  <2>3. s[i - 1] \in Nat /\ s[i] \in Nat /\ s[j - 1] \in Nat
    BY <1>1, <1>2
  <2>4. s[i - 1] + 1 < s[j - 1] + 1
    BY <1>5, <2>3
  <2>5. QED
    BY <1>4, <2>1, <2>2, <2>4
<1>7. QED
  BY <1>6 DEF s

(* The table of the latencies l: its lines tell the truth but for the last, each
   speaks of more than those with less time, and the last of all of them. *)
LEMMA TableFacts ==
  ASSUME NEW l \in Seq(Nat)
  PROVE  /\ \A x \in Lines(l) : x.count < Len(l) => IsTrue(x, l)
         /\ \A x, y \in Lines(l) : x.within < y.within <=> x.count < y.count
         /\ Len(l) >= 2 => \E x \in Lines(l) : x.count = Len(l)
<1> DEFINE s == Sorted(l)
<1>1. Lines(l) = {Line(s, i) : i \in Printed(s)}
  BY DEF Lines
<1>2. ASSUME NEW x \in Lines(l), x.count < Len(l) PROVE IsTrue(x, l)
  <2>1. PICK i \in Printed(s) : x = Line(s, i)
    BY <1>1
  <2>2. i # Len(l)
    BY <1>2, <2>1, LineFacts
  <2>3. QED
    BY <2>1, <2>2, LineIsTrue
<1>3. ASSUME NEW x \in Lines(l), NEW y \in Lines(l)
      PROVE  x.within < y.within <=> x.count < y.count
  <2>1. PICK i \in Printed(s) : x = Line(s, i)
    BY <1>1
  <2>2. PICK j \in Printed(s) : y = Line(s, j)
    BY <1>1
  <2>3. ASSUME NEW k \in Printed(s)
        PROVE  k \in Nat /\ Line(s, k).within \in Nat /\ Line(s, k).count \in Nat
    <3>1. /\ k \in 2 .. Len(l) /\ s[k - 1] \in Nat /\ Line(s, k).within = s[k - 1] + 1
          /\ Line(s, k).count = IF k = Len(l) THEN k ELSE k - 1
      BY LineFacts
    <3> HIDE DEF s
    <3>2. QED
      BY <3>1
  <2>4. CASE i = j
    BY <2>1, <2>2, <2>3, <2>4
  <2>5. CASE i < j
    BY <2>1, <2>2, <2>5, LinesGrow
  <2>6. CASE j < i
    <3>1. y.within < x.within /\ y.count < x.count
      BY <2>1, <2>2, <2>6, LinesGrow
    <3>2. QED
      BY <2>1, <2>2, <2>3, <3>1
  <2>7. QED
    BY <2>3, <2>4, <2>5, <2>6
<1>4. ASSUME Len(l) >= 2 PROVE \E x \in Lines(l) : x.count = Len(l)
  <2>1. Len(l) \in Printed(s)
    BY <1>4, SortedType DEF Printed
  <2>2. Line(s, Len(l)).count = Len(l)
    BY <2>1, LineFacts
  <2>3. QED
    BY <1>1, <2>1, <2>2
<1>5. QED
  BY <1>2, <1>3, <1>4

(* The table's last line counts all latencies, but as within the time of the last
   but one: it is true just when the two highest are of the same millisecond. *)
LEMMA LastLine ==
  ASSUME NEW l \in Seq(Nat), NEW x \in Lines(l)
  PROVE  LET s == Sorted(l)
             n == Len(l)
         IN  x.count = n => n >= 2 /\ (IsTrue(x, l) <=> s[n] = s[n - 1])
<1> DEFINE s == Sorted(l)
           n == Len(l)
           a == s[n - 1]
<1> SUFFICES ASSUME x.count = n PROVE n >= 2 /\ (IsTrue(x, l) <=> s[n] = a)
  OBVIOUS
<1>1. PICK i \in Printed(s) : x = Line(s, i)
  BY DEF Lines
<1>2. i = n /\ n \in 2 .. n /\ s[n] \in Nat /\ a \in Nat /\ x.within = a + 1
  <2>1. /\ i \in 2 .. n /\ s[i] \in Nat /\ s[i - 1] \in Nat /\ x.within = s[i - 1] + 1
        /\ n = IF i = n THEN i ELSE i - 1
    BY <1>1, LineFacts
  <2>2. i = n
    BY <2>1
  <2>3. QED
    BY <2>1, <2>2
<1>3. IsTrue(x, l) <=> n = AtMost(l, a)
  <2>1. {j \in DOMAIN l : l[j] < a + 1} = {j \in DOMAIN l : l[j] <= a}
    <3>1. a \in Nat /\ \A j \in DOMAIN l : l[j] \in Nat
      BY <1>2
    <3> HIDE DEF a
    <3>2. \A j \in DOMAIN l : l[j] < a + 1 <=> l[j] <= a
      BY <3>1
    <3>3. QED
      BY <3>2, Zenon
  <2>2. QED
    BY <1>2, <2>1 DEF IsTrue, AtMost
<1>4. n = AtMost(l, a) <=> s[n] <= a
  <2>1. AtMost(l, a) \in Nat /\ AtMost(l, a) <= n
    BY AtMostFacts
  <2>2. n \in 1 .. n
    BY <1>2
  <2>3. s[n] <= a <=> n <= AtMost(l, a)
    BY <1>2, <2>2, SortedUpTo
  <2> HIDE DEF a, s
  <2>4. QED
    BY <1>2, <2>1, <2>3
<1>5. a <= s[n]
  BY <1>2, SortedNeighbours
<1> HIDE DEF a, s
<1>6. s[n] <= a <=> s[n] = a
  BY <1>2, <1>5
<1>7. QED
  BY <1>2, <1>3, <1>4, <1>6

-----------------------------------------------------------------------------
(* The latencies of all threads in one sequence.                            *)

(* The recursive function inside FlattenSeq: f[i] is the first i sequences, put
   together. *)
Flattens(f, q, k) == f = [i \in 1 .. k |-> IF i = 1 THEN q[i] ELSE f[i - 1] \o q[i]]

LEMMA FlattensAt ==
  ASSUME NEW f, NEW q, NEW k, Flattens(f, q, k), NEW i \in 1 .. k
  PROVE  f[i] = IF i = 1 THEN q[i] ELSE f[i - 1] \o q[i]
<1> DEFINE e == [j \in 1 .. k |-> IF j = 1 THEN q[j] ELSE f[j - 1] \o q[j]]
<1>1. f = e
  BY Zenon DEF Flattens
<1>2. e[i] = IF i = 1 THEN q[i] ELSE f[i - 1] \o q[i]
  OBVIOUS
<1> HIDE DEF e
<1>3. f[i] = e[i]
  BY <1>1
<1>4. QED
  BY <1>2, <1>3

LEMMA FlattensExists ==
  ASSUME NEW q, NEW n \in Nat
  PROVE  \E f : Flattens(f, q, n)
<1> DEFINE Bad == {k \in 0 .. n : ~ \E f : Flattens(f, q, k)}
<1>1. SUFFICES ASSUME Bad # {} PROVE FALSE
  OBVIOUS
<1>2. PICK m \in Bad : \A k \in Bad : m <= k
  <2>1. Bad \in SUBSET Nat
    OBVIOUS
  <2> HIDE DEF Bad
  <2>2. QED
    BY <1>1, <2>1, LeastNumber
<1>3. m # 0
  <2>1. Flattens([i \in 1 .. 0 |-> i], q, 0)
    BY DEF Flattens
  <2>2. QED
    BY <2>1
<1>4. PICK f : Flattens(f, q, m - 1)
  <2>1. m - 1 \in 0 .. n /\ m - 1 \notin Bad
    BY <1>2, <1>3
  <2>2. QED
    BY <2>1
<1> DEFINE g == [i \in 1 .. m |-> IF i = 1 THEN q[i] ELSE f[i - 1] \o q[i]]
<1>5. ASSUME NEW i \in 1 .. m - 1 PROVE g[i] = f[i]
  <2>1. i \in 1 .. m
    BY <1>2
  <2>2. f[i] = IF i = 1 THEN q[i] ELSE f[i - 1] \o q[i]
    BY <1>4, FlattensAt
  <2>3. QED
    BY <2>1, <2>2
<1>6. \A i \in 1 .. m : g[i] = IF i = 1 THEN q[i] ELSE g[i - 1] \o q[i]
  <2>1. \A i \in 1 .. m : i # 1 => i - 1 \in 1 .. m - 1
    BY <1>2
  <2>2. \A i \in 1 .. m : i # 1 => g[i - 1] = f[i - 1]
    <3> HIDE DEF g
    <3>1. QED
      BY <1>5, <2>1
  <2>3. \A i \in 1 .. m : g[i] = IF i = 1 THEN q[i] ELSE f[i - 1] \o q[i]
    OBVIOUS
  <2> HIDE DEF g
  <2>4. QED
    BY <2>2, <2>3
<1>7. Flattens(g, q, m)
  <2>1. g = [i \in 1 .. m |-> g[i]]
    OBVIOUS
  <2> HIDE DEF g
  <2>2. [i \in 1 .. m |-> g[i]] = [i \in 1 .. m |-> IF i = 1 THEN q[i] ELSE g[i - 1] \o q[i]]
    BY <1>6
  <2>3. QED
    BY <2>1, <2>2 DEF Flattens
<1>8. QED
  BY <1>2, <1>7

(* The places of the elements of the first k sequences. *)
Places(q, k) == {p \in (1 .. k) \X Nat : p[2] \in DOMAIN q[p[1]]}

LEMMA PlacesFacts ==
  ASSUME NEW S, NEW q \in Seq(Seq(S)), NEW k \in 0 .. Len(q) - 1,
         IsFiniteSet(Places(q, k))
  PROVE  /\ IsFiniteSet(Places(q, k + 1))
         /\ Cardinality(Places(q, k + 1)) = Cardinality(Places(q, k)) + Len(q[k + 1])
<1> DEFINE n == Len(q[k + 1])
           new == {k + 1} \X (1 .. n)
           b == [j \in 1 .. n |-> <<k + 1, j>>]
<1>1. q[k + 1] \in Seq(S) /\ n \in Nat /\ DOMAIN q[k + 1] = 1 .. n
  OBVIOUS
<1>2. IsFiniteSet(1 .. n) /\ Cardinality(1 .. n) = n
  BY <1>1, IntervalCard
<1>3. b \in Bijection(1 .. n, new)
  <2>1. b \in [1 .. n -> new]
    OBVIOUS
  <2>2. \A i, j \in 1 .. n : b[i] = b[j] => i = j
    OBVIOUS
  <2>3. \A x \in new : \E j \in 1 .. n : b[j] = x
    OBVIOUS
  <2> HIDE DEF b
  <2>4. QED
    BY <2>1, <2>2, <2>3, Fun_IsBij
<1>4. IsFiniteSet(new) /\ Cardinality(new) = n
  <2>1. ExistsBijection(1 .. n, new)
    BY <1>3 DEF ExistsBijection
  <2> HIDE DEF new
  <2>2. QED
    BY <1>2, <2>1, FS_Bijection
<1>5. Places(q, k) \cap new = {} /\ Places(q, k + 1) = Places(q, k) \cup new
  <2>1. Places(q, k) \cap new = {}
    BY DEF Places
  <2>2. ASSUME NEW p \in Places(q, k + 1) PROVE p \in Places(q, k) \/ p \in new
    <3>1. p = <<p[1], p[2]>> /\ p[1] \in 1 .. k + 1 /\ p[2] \in DOMAIN q[p[1]] /\ p[2] \in Nat
      BY DEF Places
    <3>2. CASE p[1] = k + 1
      BY <1>1, <3>1, <3>2
    <3>3. CASE p[1] # k + 1
      BY <3>1, <3>3 DEF Places
    <3>4. QED
      BY <3>2, <3>3
  <2>3. ASSUME NEW p \in Places(q, k) PROVE p \in Places(q, k + 1)
    BY DEF Places
  <2>4. ASSUME NEW j \in 1 .. n PROVE <<k + 1, j>> \in Places(q, k + 1)
    BY <1>1 DEF Places
  <2>5. \A p \in new : p \in Places(q, k + 1)
    BY <2>4
  <2>6. QED
    BY <2>1, <2>2, <2>3, <2>5
<1> HIDE DEF new
<1>6. QED
  <2>1. /\ IsFiniteSet(Places(q, k) \cup new)
        /\ Cardinality(Places(q, k) \cup new) = Cardinality(Places(q, k)) + Cardinality(new) - Cardinality({})
    <3>1. /\ IsFiniteSet(Places(q, k) \cup new)
          /\ Cardinality(Places(q, k) \cup new)
               = Cardinality(Places(q, k)) + Cardinality(new) - Cardinality(Places(q, k) \cap new)
      BY <1>4, FS_Union
    <3>2. QED
      BY <1>5, <3>1, Zenon
  <2>2. Cardinality(Places(q, k)) \in Nat /\ Cardinality({}) = 0
    BY FS_CardinalityType, FS_EmptySet
  <2> HIDE DEF n
  <2>3. IsFiniteSet(Places(q, k + 1)) /\ Cardinality(Places(q, k + 1)) = Cardinality(Places(q, k)) + n - 0
    BY <1>4, <1>5, <2>1, <2>2, Zenon
  <2>4. n \in Nat
    BY <1>1
  <2>5. QED
    BY <2>2, <2>3, <2>4 DEF n

(* Where the element j of the sequence i comes to lie: behind those of the
   sequences before. *)
PlaceOf(q, i, j) == Cardinality(Places(q, i - 1)) + j

(* In s the elements of the first k sequences lie there. *)
Keeps(s, q, k) ==
  \A i \in 1 .. k : \A j \in DOMAIN q[i] :
    PlaceOf(q, i, j) \in DOMAIN s /\ s[PlaceOf(q, i, j)] = q[i][j]

LEMMA ConcatLength ==
  ASSUME NEW S, NEW s \in Seq(S), NEW t \in Seq(S)
  PROVE  s \o t \in Seq(S) /\ Len(s \o t) = Len(s) + Len(t)
BY ConcatProperties

LEMMA KeepsMore ==
  ASSUME NEW S, NEW q \in Seq(Seq(S)), NEW k \in 1 .. Len(q) - 1,
         \A i \in 0 .. k : IsFiniteSet(Places(q, i)),
         NEW s \in Seq(S), Len(s) = Cardinality(Places(q, k)), Keeps(s, q, k)
  PROVE  Keeps(s \o q[k + 1], q, k + 1)
<1> DEFINE t == q[k + 1]
<1>1. t \in Seq(S)
  OBVIOUS
<1>2. /\ s \o t \in Seq(S) /\ Len(s \o t) = Len(s) + Len(t) /\ Len(s) \in Nat /\ Len(t) \in Nat
      /\ \A x \in 1 .. Len(s) : (s \o t)[x] = s[x]
      /\ \A j \in 1 .. Len(t) : (s \o t)[Len(s) + j] = t[j]
      /\ DOMAIN (s \o t) = 1 .. Len(s) + Len(t) /\ DOMAIN s = 1 .. Len(s) /\ DOMAIN t = 1 .. Len(t)
  <2> HIDE DEF t
  <2>1. Len(s) \in Nat /\ Len(t) \in Nat /\ DOMAIN s = 1 .. Len(s) /\ DOMAIN t = 1 .. Len(t)
    BY <1>1
  <2>2. s \o t \in Seq(S) /\ Len(s \o t) = Len(s) + Len(t)
    BY <1>1, ConcatLength
  <2>3. \A x \in 1 .. Len(s) + Len(t) :
          (s \o t)[x] = IF x <= Len(s) THEN s[x] ELSE t[x - Len(s)]
    BY <1>1, ConcatProperties
  <2>4. DOMAIN (s \o t) = 1 .. Len(s) + Len(t)
    BY <2>1, <2>2
  <2>5. ASSUME NEW x \in 1 .. Len(s) PROVE (s \o t)[x] = s[x]
    BY <2>1, <2>3
  <2>6. ASSUME NEW j \in 1 .. Len(t) PROVE (s \o t)[Len(s) + j] = t[j]
    <3>1. Len(s) + j \in 1 .. Len(s) + Len(t) /\ ~ (Len(s) + j <= Len(s)) /\ (Len(s) + j) - Len(s) = j
      BY <2>1
    <3>2. QED
      BY <2>3, <3>1
  <2>7. QED
    BY <2>1, <2>2, <2>4, <2>5, <2>6
<1> HIDE DEF t
<1>3. ASSUME NEW i \in 1 .. k + 1, NEW j \in DOMAIN q[i]
      PROVE  PlaceOf(q, i, j) \in DOMAIN (s \o t) /\ (s \o t)[PlaceOf(q, i, j)] = q[i][j]
  <2>1. CASE i = k + 1
    <3>1. j \in 1 .. Len(t) /\ q[i][j] = t[j]
      BY <1>1, <1>3, <2>1 DEF t
    <3>2. PlaceOf(q, i, j) = Len(s) + j
      <4>1. i - 1 = k
        BY <2>1
      <4>2. QED
        BY <4>1 DEF PlaceOf
    <3>3. Len(s) + j \in DOMAIN (s \o t) /\ (s \o t)[Len(s) + j] = t[j]
      <4>1. (s \o t)[Len(s) + j] = t[j]
        BY <1>2, <3>1, Zenon
      <4>2. Len(s) + j \in 1 .. Len(s) + Len(t)
        <5>1. Len(s) \in Nat /\ Len(t) \in Nat
          BY <1>2
        <5>2. \A a, c \in Nat : \A e \in 1 .. c : a + e \in 1 .. a + c
          OBVIOUS
        <5>3. QED
          BY <3>1, <5>1, <5>2, Zenon
      <4>3. QED
        BY <1>2, <4>1, <4>2, Zenon
    <3>4. QED
      BY <3>1, <3>2, <3>3, Zenon
  <2>2. CASE i # k + 1
    <3>1. PlaceOf(q, i, j) \in DOMAIN s /\ s[PlaceOf(q, i, j)] = q[i][j]
      <4>1. i \in 1 .. k
        BY <1>3, <2>2
      <4>2. QED
        BY <1>3, <4>1, Zenon DEF Keeps
    <3>2. PlaceOf(q, i, j) \in 1 .. Len(s) /\ PlaceOf(q, i, j) \in DOMAIN (s \o t)
      <4>1. \A a, c \in Nat : 1 .. a \subseteq 1 .. a + c
        OBVIOUS
      <4>2. QED
        BY <1>2, <3>1, <4>1, Zenon
    <3>3. QED
      BY <1>2, <3>1, <3>2, Zenon
  <2>3. QED
    BY <2>1, <2>2
<1>4. QED
  BY <1>3 DEF Keeps, t

(* The loop of ShowLatencyReport puts the latencies of the threads one after
   another: an element lies behind those of the sequences before, in the order of
   its own, and there are no others. *)
LEMMA FlattenFacts ==
  ASSUME NEW S, NEW q \in Seq(Seq(S))
  PROVE  /\ FlattenSeq(q) \in Seq(S)
         /\ IsFiniteSet(Places(q, Len(q)))
         /\ Len(FlattenSeq(q)) = Cardinality(Places(q, Len(q)))
         /\ Keeps(FlattenSeq(q), q, Len(q))
<1> DEFINE n == Len(q)
           f == CHOOSE g : Flattens(g, q, n)
           Good(k) == /\ k > 0 => f[k] \in Seq(S) /\ Len(f[k]) = Cardinality(Places(q, k))
                      /\ k > 0 => Keeps(f[k], q, k)
                      /\ IsFiniteSet(Places(q, k))
           Bad == {k \in 0 .. n : ~ Good(k)}
<1>1. n \in Nat /\ \A i \in 1 .. n : q[i] \in Seq(S)
  OBVIOUS
<1>2. Flattens(f, q, n)
  BY <1>1, FlattensExists
<1>3. Places(q, 0) = {}
  BY DEF Places
<1> HIDE DEF f
<1>4. Bad = {}
  <2> SUFFICES ASSUME Bad # {} PROVE FALSE
    OBVIOUS
  <2>1. PICK m \in Bad : \A k \in Bad : m <= k
    <3>1. Bad \in SUBSET Nat
      OBVIOUS
    <3> HIDE DEF Bad
    <3>2. QED
      BY <3>1, LeastNumber
  <2>2. m # 0
    <3>1. IsFiniteSet(Places(q, 0))
      BY <1>3, FS_EmptySet, Zenon
    <3>2. Good(0)
      BY <3>1
    <3>3. QED
      BY <2>1, <3>2
  <2> DEFINE k == m - 1
  <2>3. k \in 0 .. n - 1 /\ Good(k) /\ m = k + 1 /\ m \in 1 .. n
    <3>1. k \in 0 .. n - 1 /\ k \notin Bad /\ m = k + 1 /\ m \in 1 .. n
      BY <1>1, <2>1, <2>2
    <3>2. QED
      BY <3>1
  <2>4. /\ IsFiniteSet(Places(q, m))
        /\ Cardinality(Places(q, m)) = Cardinality(Places(q, k)) + Len(q[m])
    BY <2>3, PlacesFacts
  <2>5. f[m] \in Seq(S) /\ Len(f[m]) = Cardinality(Places(q, m))
    <3>1. CASE k = 0
      <4>1. f[m] = q[m] /\ q[m] \in Seq(S)
        BY <1>1, <1>2, <2>3, <3>1, FlattensAt
      <4>2. Cardinality(Places(q, k)) = 0
        BY <1>3, <3>1, FS_EmptySet
      <4>3. QED
        BY <2>4, <4>1, <4>2
    <3>2. CASE k > 0
      <4>1. f[m] = f[k] \o q[m] /\ q[m] \in Seq(S)
        <5>1. f[m] = IF m = 1 THEN q[m] ELSE f[m - 1] \o q[m]
          BY <1>2, <2>3, FlattensAt
        <5>2. m # 1 /\ f[m - 1] = f[k]
          BY <2>3, <3>2
        <5>3. QED
          BY <1>1, <2>3, <5>1, <5>2
      <4>2. f[k] \in Seq(S) /\ Len(f[k]) = Cardinality(Places(q, k))
        BY <2>3, <3>2
      <4>3. f[m] \in Seq(S) /\ Len(f[m]) = Len(f[k]) + Len(q[m])
        <5>1. f[k] \o q[m] \in Seq(S) /\ Len(f[k] \o q[m]) = Len(f[k]) + Len(q[m])
          BY <4>1, <4>2, ConcatLength
        <5>2. QED
          BY <4>1, <5>1, Zenon
      <4>4. QED
        BY <2>4, <4>2, <4>3
    <3>3. QED
      BY <2>3, <3>1, <3>2
  <2>6. Keeps(f[m], q, m)
    <3>1. CASE k = 0
      <4>1. f[m] = q[m] /\ q[m] \in Seq(S)
        BY <1>1, <1>2, <2>3, <3>1, FlattensAt
      <4>2. ASSUME NEW j \in DOMAIN q[m]
            PROVE  PlaceOf(q, m, j) = j
        <5>1. m - 1 = 0 /\ j \in Nat
          BY <2>3, <3>1, <4>1
        <5>2. Cardinality(Places(q, 0)) = 0
          BY <1>3, FS_EmptySet, Zenon
        <5>3. PlaceOf(q, m, j) = 0 + j
          BY <5>1, <5>2, Zenon DEF PlaceOf
        <5>4. QED
          BY <5>1, <5>3
      <4>3. \A i \in 1 .. m : i = m
        BY <2>3, <3>1
      <4>4. QED
        BY <4>1, <4>2, <4>3 DEF Keeps
    <3>2. CASE k > 0
      <4>1. f[m] = f[k] \o q[k + 1]
        <5>1. f[m] = IF m = 1 THEN q[m] ELSE f[m - 1] \o q[m]
          BY <1>2, <2>3, FlattensAt
        <5>2. m # 1 /\ f[m - 1] = f[k] /\ q[m] = q[k + 1]
          BY <2>3, <3>2
        <5>3. QED
          BY <5>1, <5>2
      <4>2. \A i \in 0 .. k : IsFiniteSet(Places(q, i))
        <5>1. \A i \in 0 .. k : i \in 0 .. n /\ i \notin Bad
          BY <1>1, <2>1, <2>3
        <5>2. QED
          BY <5>1
      <4>3. k \in 1 .. Len(q) - 1
        BY <1>1, <2>3, <3>2
      <4>4. f[k] \in Seq(S) /\ Len(f[k]) = Cardinality(Places(q, k)) /\ Keeps(f[k], q, k)
        BY <2>3, <3>2
      <4>5. Keeps(f[k] \o q[k + 1], q, k + 1)
        BY <4>2, <4>3, <4>4, KeepsMore
      <4>6. QED
        BY <2>3, <4>1, <4>5
    <3>3. QED
      BY <2>3, <3>1, <3>2
  <2>7. QED
    BY <2>1, <2>4, <2>5, <2>6
<1>5. Good(n)
  BY <1>1, <1>4
<1>6. CASE n = 0
  <2>1. FlattenSeq(q) = q /\ q = << >>
    BY <1>6 DEF FlattenSeq
  <2>2. QED
    BY <1>3, <1>6, <2>1, FS_EmptySet DEF Keeps
<1>7. CASE n # 0
  <2>1. FlattenSeq(q) = f[n]
    BY <1>7 DEF FlattenSeq, Flattens, f
  <2>2. QED
    BY <1>1, <1>5, <1>7, <2>1
<1>8. QED
  BY <1>6, <1>7
=============================================================================
