------------------------- MODULE ScheduleHashProofs -------------------------
(***************************************************************************)
(* What the operations on the schedule hash compute, for lists and hashes  *)
(* of any size: the set operations of BookingStore.                        *)
(***************************************************************************)
EXTENDS ScheduleHash, FiniteSetTheorems, TLAPS

(* Sorting and selecting are defined by CHOOSE; that there is something to  *)
(* choose needs no induction: a position goes to the number of positions    *)
(* that do not come after it.                                               *)
-----------------------------------------------------------------------------
LEMMA ListFacts ==
  ASSUME NEW S, NEW l \in Seq(S)
  PROVE  /\ Len(l) \in Nat /\ DOMAIN l = 1..Len(l) /\ l \in [1..Len(l) -> S]
         /\ ToSet(l) = {l[i] : i \in 1..Len(l)} /\ ToSet(l) \subseteq S
         /\ IsFiniteSet(ToSet(l))
<1>1. /\ Len(l) \in Nat /\ DOMAIN l = 1..Len(l) /\ l \in [1..Len(l) -> S]
      /\ ToSet(l) = {l[i] : i \in 1..Len(l)} /\ ToSet(l) \subseteq S
  BY DEF ToSet
<1>2. l \in Surjection(1..Len(l), ToSet(l))
  BY <1>1 DEF Surjection
<1> QED
  BY <1>1, <1>2, FS_Surjection, FS_Interval

(* An injection of an interval into itself reaches everything. *)
LEMMA InjectionIsOnto ==
  ASSUME NEW n \in Nat, NEW q \in [1..n -> 1..n], IsInjective(q), NEW k \in 1..n
  PROVE  \E i \in 1..n : q[i] = k
<1>1. q \in Injection(1..n, 1..n) /\ IsFiniteSet(1..n)
  BY FS_Interval DEF Injection
<1>2. q \in Surjection(1..n, 1..n)
  BY <1>1, FS_Injection
<1> QED
  BY <1>2 DEF Surjection

LEMMA SortingExists ==
  ASSUME NEW n \in Nat, NEW v \in [1..n -> Nat]
  PROVE  \E q \in [1..n -> 1..n] :
           IsInjective(q) /\ \A i, j \in 1..n : i < j => v[q[i]] <= v[q[j]]
<1> DEFINE Before(i, j) == v[i] < v[j] \/ (v[i] = v[j] /\ i <= j)
           upTo(j) == {i \in 1..n : Before(i, j)}
           rank == [j \in 1..n |-> Cardinality(upTo(j))]
<1>1. \A j \in 1..n : /\ IsFiniteSet(upTo(j)) /\ Cardinality(upTo(j)) \in Nat
                      /\ Cardinality(upTo(j)) \in 1..n
  <2> TAKE j \in 1..n
  <2>1. IsFiniteSet(1..n) /\ Cardinality(1..n) = n
    BY FS_Interval
  <2>2. upTo(j) \subseteq 1..n /\ j \in upTo(j)
    OBVIOUS
  <2>3. IsFiniteSet(upTo(j)) /\ Cardinality(upTo(j)) <= n /\ Cardinality(upTo(j)) \in Nat
    BY <2>1, <2>2, FS_Subset, FS_CardinalityType
  <2>4. Cardinality(upTo(j)) # 0
    BY <2>2, <2>3, FS_EmptySet
  <2> QED
    BY <2>3, <2>4
<1>2. ASSUME NEW i \in 1..n, NEW j \in 1..n, i # j, Before(i, j)
      PROVE  rank[i] < rank[j]
  <2>1. upTo(i) \subseteq upTo(j)
    BY <1>2
  <2>2. j \in upTo(j) /\ j \notin upTo(i)
    BY <1>2
  <2> HIDE DEF upTo
  <2>3. Cardinality(upTo(i)) <= Cardinality(upTo(j)) /\ Cardinality(upTo(i)) # Cardinality(upTo(j))
    BY <1>1, <2>1, <2>2, FS_Subset
  <2> QED
    BY <1>1, <2>3
<1>3. \A i, j \in 1..n : Before(i, j) \/ Before(j, i)
  OBVIOUS
<1>4. rank \in [1..n -> 1..n]
  BY <1>1
<1> HIDE DEF rank
<1>11. \A i \in 1..n : rank[i] \in Int /\ rank[i] \in 1..n
  BY <1>4
<1>12. \A i, j \in 1..n : i # j => rank[i] < rank[j] \/ rank[j] < rank[i]
  <2> HIDE DEF Before
  <2> QED
    BY <1>2, <1>3
<1>5. \A i, j \in 1..n : rank[i] = rank[j] => i = j
  BY <1>11, <1>12
<1>6. IsInjective(rank)
  BY <1>4, <1>5 DEF IsInjective
<1> DEFINE q == [k \in 1..n |-> CHOOSE i \in 1..n : rank[i] = k]
<1>7. \A k \in 1..n : q[k] \in 1..n /\ rank[q[k]] = k
  BY <1>4, <1>6, InjectionIsOnto
<1>8. q \in [1..n -> 1..n]
  BY <1>7
<1> HIDE DEF q
<1>9. IsInjective(q)
  <2> SUFFICES ASSUME NEW i \in 1..n, NEW j \in 1..n, q[i] = q[j]
               PROVE  i = j
    BY <1>8 DEF IsInjective
  <2> QED
    BY <1>7
<1>10. ASSUME NEW i \in 1..n, NEW j \in 1..n, i < j
       PROVE  v[q[i]] <= v[q[j]]
  <2>1. q[i] \in 1..n /\ q[j] \in 1..n /\ rank[q[i]] = i /\ rank[q[j]] = j
    BY <1>7
  <2>2. Before(q[i], q[j])
    <3> HIDE DEF Before
    <3>1. CASE Before(q[j], q[i]) /\ q[j] # q[i]
      <4>1. j < i
        BY <1>2, <2>1, <3>1
      <4> QED
        BY <1>10, <4>1
    <3>2. q[i] # q[j]
      BY <1>10, <2>1
    <3> QED
      BY <1>3, <2>1, <3>1, <3>2
  <2>3. v[q[i]] \in Nat /\ v[q[j]] \in Nat
    BY <2>1
  <2> QED
    BY <2>2, <2>3
<1> QED
  BY <1>8, <1>9, <1>10

(* Sorting puts the same times in order. *)
LEMMA SortedFacts ==
  ASSUME NEW S \in SUBSET Nat, NEW l \in Seq(S)
  PROVE  /\ Sorted(l) \in Seq(S) /\ Len(Sorted(l)) = Len(l)
         /\ ToSet(Sorted(l)) = ToSet(l)
         /\ \A i, j \in 1..Len(l) : i < j => Sorted(l)[i] <= Sorted(l)[j]
<1> DEFINE n == Len(l)
           Sorting(q) == IsInjective(q) /\ \A i, j \in 1..n : i < j => l[q[i]] <= l[q[j]]
           p == CHOOSE q \in [1..n -> 1..n] : Sorting(q)
<1>1. n \in Nat /\ DOMAIN l = 1..n /\ l \in [1..n -> S] /\ l \in [1..n -> Nat]
  <2>1. n \in Nat /\ DOMAIN l = 1..n /\ l \in [1..n -> S]
    BY ListFacts
  <2> QED
    BY <2>1
<1>2. Sorted(l) = [i \in 1..n |-> l[p[i]]]
  BY <1>1 DEF Sorted
<1>3. p \in [1..n -> 1..n] /\ Sorting(p)
  BY <1>1, SortingExists
<1> HIDE DEF p
<1>4. Sorted(l) \in [1..n -> S]
  BY <1>1, <1>2, <1>3
<1>5. Sorted(l) \in Seq(S) /\ Len(Sorted(l)) = n
  BY <1>1, <1>4
<1>6. \A k \in 1..n : \E i \in 1..n : p[i] = k
  BY <1>1, <1>3, InjectionIsOnto
<1>7. {l[p[i]] : i \in 1..n} = {l[i] : i \in 1..n}
  BY <1>3, <1>6
<1>8. ToSet(Sorted(l)) = {l[p[i]] : i \in 1..n} /\ ToSet(l) = {l[i] : i \in 1..n}
  BY <1>1, <1>2 DEF ToSet
<1> QED
  BY <1>2, <1>3, <1>5, <1>7, <1>8

LEMMA AscendingFacts ==
  ASSUME NEW S \in SUBSET Nat, IsFiniteSet(S)
  PROVE  /\ Ascending(S) \in Seq(S) /\ Len(Ascending(S)) = Cardinality(S)
         /\ ToSet(Ascending(S)) = S
         /\ \A i, j \in 1..Cardinality(S) : i < j => Ascending(S)[i] <= Ascending(S)[j]
<1> DEFINE n == Cardinality(S)
           l == SetToSeq(S)
<1>1. n \in Nat /\ ExistsBijection(1..n, S)
  BY FS_CardinalityType
<1>2. l \in [1..n -> S] /\ IsInjective(l)
  BY <1>1 DEF SetToSeq, ExistsBijection, Bijection, Injection
<1>3. IsFiniteSet(1..n) /\ Cardinality(1..n) = n
  BY <1>1, FS_Interval
<1> HIDE DEF l
<1>4. l \in Injection(1..n, S)
  BY <1>2 DEF Injection
<1>5. l \in Surjection(1..n, S)
  BY <1>3, <1>4, FS_Injection
<1>6. l \in Seq(S) /\ Len(l) = n
  BY <1>1, <1>2
<1>7. ToSet(l) = S
  BY <1>2, <1>5 DEF ToSet, Surjection
<1> QED
  BY <1>6, <1>7, SortedFacts DEF Ascending, l

(* Selecting keeps what is in the set, and nothing else. *)
LEMMA AmongFacts ==
  ASSUME NEW S, NEW l \in Seq(S), NEW X
  PROVE  /\ Among(l, X) \in Seq(S)
         /\ ToSet(Among(l, X)) = ToSet(l) \cap X
<1> DEFINE K == {i \in DOMAIN l : l[i] \in X}
           k == Ascending(K)
<1>1. Len(l) \in Nat /\ DOMAIN l = 1..Len(l) /\ l \in [1..Len(l) -> S]
  BY ListFacts
<1>2. K \in SUBSET Nat /\ IsFiniteSet(K)
  <2>1. IsFiniteSet(1..Len(l))
    BY <1>1, FS_Interval
  <2>2. K \in SUBSET (1..Len(l))
    BY <1>1
  <2> QED
    BY <2>1, <2>2, FS_Subset
<1>3. k \in Seq(K) /\ ToSet(k) = K
  BY <1>2, AscendingFacts
<1>4. Among(l, X) = [n \in DOMAIN k |-> l[k[n]]]
  BY DEF Among
<1> HIDE DEF k
<1>5. DOMAIN k = 1..Len(k) /\ Len(k) \in Nat /\ k \in [1..Len(k) -> K]
  BY <1>3
<1>6. Among(l, X) \in [1..Len(k) -> S]
  BY <1>1, <1>4, <1>5
<1>7. ToSet(Among(l, X)) = {l[k[n]] : n \in DOMAIN k}
  BY <1>4 DEF ToSet
<1>8. {l[k[n]] : n \in DOMAIN k} = {l[i] : i \in K}
  BY <1>3 DEF ToSet
<1>9. {l[i] : i \in K} = ToSet(l) \cap X
  BY DEF ToSet
<1>10. Among(l, X) \in Seq(S)
  BY <1>5, <1>6
<1> QED
  BY <1>7, <1>8, <1>9, <1>10
-----------------------------------------------------------------------------
(* Operations on hashes *)

Hash(h) == DOMAIN h \subseteq Day /\ \A d \in DOMAIN h : h[d] \in Seq(Time)

LEMMA ClaimFacts ==
  ASSUME NEW c \in Claim
  PROVE  Hash(c) /\ DOMAIN c # {} /\ \A d \in DOMAIN c : c[d] \in ClaimList
  BY HashAssumption DEF Claim, Hash

LEMMA SlotFacts ==
  ASSUME NEW h, Hash(h), NEW d, NEW t
  PROVE  <<d, t>> \in SlotsOf(h) <=> d \in DOMAIN h /\ t \in ToSet(h[d])
<1>1. d \in DOMAIN h /\ t \in ToSet(h[d]) => d \in Day /\ t \in Time
  BY ListFacts DEF Hash
<1> QED
  BY <1>1 DEF SlotsOf

LEMMA EmptyList ==
  ASSUME NEW S, NEW l \in Seq(S)
  PROVE  l = <<>> <=> ToSet(l) = {}
<1>1. /\ Len(l) \in Nat /\ l \in [1..Len(l) -> S] /\ ToSet(l) = {l[i] : i \in 1..Len(l)}
  BY ListFacts
<1>2. CASE Len(l) = 0
  BY <1>1, <1>2
<1>3. CASE Len(l) # 0
  <2>1. 1 \in 1..Len(l)
    BY <1>1, <1>3
  <2> QED
    BY <1>1, <1>3, <2>1
<1> QED
  BY <1>2, <1>3

(* Two hashes with the same days and the same times have the same slots. *)
LEMMA SameSlots ==
  ASSUME NEW h, Hash(h), NEW A \in SUBSET (Day \X Time),
         \A d \in Day, t \in Time :
           (d \in DOMAIN h /\ t \in ToSet(h[d])) <=> <<d, t>> \in A
  PROVE  SlotsOf(h) = A
  BY DEF SlotsOf

LEMMA RemovingFacts ==
  ASSUME NEW h, Hash(h), NEW c, Hash(c)
  PROVE  /\ Hash(RemoveSlots(h, c))
         /\ SlotsOf(RemoveSlots(h, c)) = SlotsOf(h) \ SlotsOf(c)
         /\ \A d \in DOMAIN RemoveSlots(h, c) :
              RemoveSlots(h, c)[d] = <<>> => d \in DOMAIN h /\ h[d] = <<>>
<1> DEFINE left(d) == IF d \in DOMAIN c THEN Among(h[d], Time \ ToSet(c[d])) ELSE h[d]
           kept == {e \in DOMAIN h : DayPresent(h, e) => left(e) # <<>>}
           r == RemoveSlots(h, c)
<1>1. r = [d \in kept |-> left(d)]
  BY DEF RemoveSlots
<1>2. ASSUME NEW d \in DOMAIN h
      PROVE  /\ left(d) \in Seq(Time)
             /\ \A t \in Time : t \in ToSet(left(d)) <=>
                  t \in ToSet(h[d]) /\ ~(d \in DOMAIN c /\ t \in ToSet(c[d]))
  <2>1. CASE d \in DOMAIN c
    <3>1. h[d] \in Seq(Time)
      BY <1>2 DEF Hash
    <3>2. /\ Among(h[d], Time \ ToSet(c[d])) \in Seq(Time)
          /\ ToSet(Among(h[d], Time \ ToSet(c[d]))) = ToSet(h[d]) \cap (Time \ ToSet(c[d]))
      BY <3>1, AmongFacts
    <3> QED
      BY <2>1, <3>2
  <2>2. CASE d \notin DOMAIN c
    BY <1>2, <2>2 DEF Hash
  <2> QED
    BY <2>1, <2>2
<1> HIDE DEF left
<1>3. Hash(r)
  BY <1>1, <1>2 DEF Hash
<1>4. ASSUME NEW d \in DOMAIN h \ kept
      PROVE  left(d) = <<>> /\ ToSet(left(d)) = {}
  BY <1>2, <1>4, EmptyList
<1>5. ASSUME NEW d \in Day, NEW t \in Time
      PROVE  (d \in DOMAIN r /\ t \in ToSet(r[d])) <=> <<d, t>> \in SlotsOf(h) \ SlotsOf(c)
  <2>1. (d \in DOMAIN r /\ t \in ToSet(r[d])) <=> (d \in DOMAIN h /\ t \in ToSet(left(d)))
    BY <1>1, <1>4
  <2> QED
    BY <1>2, <2>1, SlotFacts
<1>6. SlotsOf(r) = SlotsOf(h) \ SlotsOf(c)
  <2> DEFINE A == SlotsOf(h) \ SlotsOf(c)
  <2> HIDE DEF r, kept
  <2>1. A \in SUBSET (Day \X Time)
    BY DEF SlotsOf
  <2>2. \A d \in Day, t \in Time : (d \in DOMAIN r /\ t \in ToSet(r[d])) <=> <<d, t>> \in A
    BY <1>5
  <2> HIDE DEF A
  <2>3. SlotsOf(r) = A
    BY <1>3, <2>1, <2>2, SameSlots
  <2> QED
    BY <2>3 DEF A
<1>7. \A d \in DOMAIN r : r[d] = <<>> => d \in DOMAIN h /\ h[d] = <<>>
  BY <1>1 DEF DayPresent
<1> QED
  BY <1>3, <1>6, <1>7

LEMMA MergingFacts ==
  ASSUME NEW k \in Seq(Time), NEW l \in Seq(Time)
  PROVE  /\ MergeDay(k, l) \in Seq(Time)
         /\ ToSet(MergeDay(k, l)) = ToSet(k) \cup ToSet(l)
         /\ Len(MergeDay(k, l)) = Cardinality(ToSet(k) \cup ToSet(l))
         /\ \A i, j \in 1..Len(MergeDay(k, l)) :
              i < j => MergeDay(k, l)[i] <= MergeDay(k, l)[j]
<1> DEFINE S == ToSet(k \o l)
<1>1. k \o l \in Seq(Time)
  OBVIOUS
<1>2. S = ToSet(k) \cup ToSet(l)
  <2>1. /\ Len(k) \in Nat /\ Len(l) \in Nat /\ Len(k \o l) = Len(k) + Len(l)
        /\ \A i \in 1..Len(k) : (k \o l)[i] = k[i]
        /\ \A i \in 1..Len(l) : (k \o l)[Len(k) + i] = l[i]
    OBVIOUS
  <2>2. \A i \in 1..Len(k \o l) :
          \/ i \in 1..Len(k) /\ (k \o l)[i] = k[i]
          \/ i - Len(k) \in 1..Len(l) /\ (k \o l)[i] = l[i - Len(k)]
    OBVIOUS
  <2>3. \A i \in 1..Len(k) : i \in 1..Len(k \o l)
    BY <2>1
  <2>4. \A i \in 1..Len(l) : Len(k) + i \in 1..Len(k \o l)
    BY <2>1
  <2>5. S = {(k \o l)[i] : i \in 1..Len(k \o l)}
    BY <1>1, ListFacts
  <2>6. ToSet(k) = {k[i] : i \in 1..Len(k)} /\ ToSet(l) = {l[i] : i \in 1..Len(l)}
    BY ListFacts
  <2>7. S \subseteq ToSet(k) \cup ToSet(l)
    BY <2>2, <2>5, <2>6
  <2>8. ToSet(k) \subseteq S
    BY <2>1, <2>3, <2>5, <2>6
  <2>9. ToSet(l) \subseteq S
    BY <2>1, <2>4, <2>5, <2>6
  <2> QED
    BY <2>7, <2>8, <2>9
<1>3. IsFiniteSet(S) /\ S \subseteq Time
  BY <1>1, ListFacts
<1> HIDE DEF S
<1>4. S \in SUBSET Nat
  BY <1>3, HashAssumption
<1>5. /\ Ascending(S) \in Seq(S) /\ Len(Ascending(S)) = Cardinality(S)
      /\ ToSet(Ascending(S)) = S
      /\ \A i, j \in 1..Cardinality(S) : i < j => Ascending(S)[i] <= Ascending(S)[j]
  BY <1>3, <1>4, AscendingFacts
<1>6. Ascending(S) \in Seq(Time)
  BY <1>3, <1>5
<1>7. MergeDay(k, l) = Ascending(S)
  BY DEF MergeDay, SortedUniq, S
<1> QED
  BY <1>2, <1>5, <1>6, <1>7

LEMMA RestoringFacts ==
  ASSUME NEW h, Hash(h), NEW c, Hash(c)
  PROVE  /\ Hash(RestoreSlots(h, c))
         /\ SlotsOf(RestoreSlots(h, c)) = SlotsOf(h) \cup SlotsOf(c)
         /\ \A d \in DOMAIN RestoreSlots(h, c) :
              RestoreSlots(h, c)[d] = <<>> =>
                \/ d \in DOMAIN h /\ h[d] = <<>>
                \/ d \in DOMAIN c /\ c[d] = <<>>
<1> DEFINE r == RestoreSlots(h, c)
<1>1. DOMAIN r = DOMAIN h \cup DOMAIN c
  BY DEF RestoreSlots
<1>2. ASSUME NEW d \in DOMAIN r
      PROVE  /\ r[d] \in Seq(Time)
             /\ \A t : t \in ToSet(r[d]) <=>
                  \/ d \in DOMAIN h /\ t \in ToSet(h[d])
                  \/ d \in DOMAIN c /\ t \in ToSet(c[d])
  <2>1. CASE d \notin DOMAIN c
    BY <1>1, <2>1 DEF RestoreSlots, Hash
  <2>2. CASE d \in DOMAIN c /\ DayPresent(h, d)
    <3>1. r[d] = MergeDay(h[d], c[d])
      BY <1>1, <2>2 DEF RestoreSlots
    <3>2. h[d] \in Seq(Time) /\ c[d] \in Seq(Time)
      BY <2>2 DEF DayPresent, Hash
    <3> QED
      BY <2>2, <3>1, <3>2, MergingFacts DEF DayPresent
  <2>3. CASE d \in DOMAIN c /\ ~DayPresent(h, d)
    <3>1. r[d] = Sorted(c[d])
      BY <1>1, <2>3 DEF RestoreSlots
    <3>2. c[d] \in Seq(Time) /\ Time \in SUBSET Nat
      BY <2>3, HashAssumption DEF Hash
    <3>3. Sorted(c[d]) \in Seq(Time) /\ ToSet(Sorted(c[d])) = ToSet(c[d])
      BY <3>2, SortedFacts
    <3>4. d \in DOMAIN h => ToSet(h[d]) = {}
      BY <2>3, EmptyList DEF DayPresent, Hash
    <3> QED
      BY <2>3, <3>1, <3>3, <3>4
  <2> QED
    BY <2>1, <2>2, <2>3
<1> HIDE DEF r
<1>3. Hash(r)
  BY <1>1, <1>2 DEF Hash
<1>4. SlotsOf(r) = SlotsOf(h) \cup SlotsOf(c)
  <2> DEFINE A == SlotsOf(h) \cup SlotsOf(c)
  <2>1. A \in SUBSET (Day \X Time)
    BY DEF SlotsOf
  <2>2. \A d \in Day, t \in Time : (d \in DOMAIN r /\ t \in ToSet(r[d])) <=> <<d, t>> \in A
    BY <1>1, <1>2, SlotFacts
  <2> HIDE DEF A
  <2>3. SlotsOf(r) = A
    BY <1>3, <2>1, <2>2, SameSlots
  <2> QED
    BY <2>3 DEF A
<1>5. ASSUME NEW d \in DOMAIN r, d \in DOMAIN h => h[d] # <<>>, d \in DOMAIN c => c[d] # <<>>
      PROVE  r[d] # <<>>
  <2>1. \/ d \in DOMAIN h /\ ToSet(h[d]) # {}
        \/ d \in DOMAIN c /\ ToSet(c[d]) # {}
    BY <1>1, <1>5, EmptyList DEF Hash
  <2>2. ToSet(r[d]) # {}
    <3>1. \A t : t \in ToSet(r[d]) <=> \/ d \in DOMAIN h /\ t \in ToSet(h[d])
                                       \/ d \in DOMAIN c /\ t \in ToSet(c[d])
      BY <1>2, <1>5
    <3>2. PICK t : t \in ToSet(r[d])
      BY <2>1, <3>1
    <3> QED
      BY <3>2
  <2> QED
    BY <1>2, <1>5, <2>2, EmptyList
<1> QED
  BY <1>3, <1>4, <1>5 DEF r

LEMMA BuildingFacts ==
  ASSUME NEW n \in Nat, NEW m \in Nat,
         NEW days \in [1..n -> Day \cup {Blank}], NEW times \in [1..m -> Time \cup {Blank}]
  PROVE  LET b == BuildSchedule(days, times)
         IN  /\ Hash(b) /\ NoEmptyList(b)
             /\ SlotsOf(b) = {s \in Day \X Time :
                                \E i \in 1..Len(days) :
                                  i <= Len(times) /\ s = <<days[i], times[i]>>}
<1> DEFINE Row == (Day \cup {Blank}) \X (Time \cup {Blank})
           zip == [i \in 1..Len(days) |->
                     <<days[i], IF i <= Len(times) THEN times[i] ELSE Blank>>]
           rows == Among(zip, Day \X Time)
           of(d) == Among(rows, {d} \X Time)
           b == BuildSchedule(days, times)
           sent == {s \in Day \X Time :
                      \E i \in 1..Len(days) : i <= Len(times) /\ s = <<days[i], times[i]>>}
<1>1. Len(days) = n /\ Len(times) = m
  OBVIOUS
<1>2. \A i \in 1..n : zip[i] \in Row
  BY <1>1
<1>3. zip \in Seq(Row) /\ ToSet(zip) = {zip[i] : i \in 1..n}
  BY <1>1, <1>2 DEF ToSet
<1>4. \A i \in 1..n : zip[i] = <<days[i], IF i <= m THEN times[i] ELSE Blank>>
  BY <1>1
<1>5. sent = ToSet(zip) \cap (Day \X Time)
  <2>1. ASSUME NEW d \in Day, NEW t \in Time
        PROVE  <<d, t>> \in sent <=> <<d, t>> \in ToSet(zip)
    <3>1. t # Blank
      BY HashAssumption
    <3>2. <<d, t>> \in sent <=> \E i \in 1..n : i <= m /\ days[i] = d /\ times[i] = t
      BY <1>1
    <3>3. <<d, t>> \in ToSet(zip) <=>
            \E i \in 1..n : days[i] = d /\ (IF i <= m THEN times[i] ELSE Blank) = t
      <4> HIDE DEF zip
      <4> QED
        BY <1>3, <1>4
    <3> QED
      BY <3>1, <3>2, <3>3
  <2> HIDE DEF zip
  <2>2. sent \subseteq Day \X Time
    OBVIOUS
  <2> HIDE DEF sent
  <2> QED
    BY <2>1, <2>2
<1> HIDE DEF zip, sent
<1>6. rows \in Seq(Row) /\ ToSet(rows) = sent
  BY <1>3, <1>5, AmongFacts
<1>7. sent \subseteq Day \X Time
  BY DEF sent
<1>8. b = [d \in {r[1] : r \in sent} |-> [i \in 1..Len(of(d)) |-> of(d)[i][2]]]
  BY <1>6 DEF BuildSchedule, zip
<1> HIDE DEF rows
<1>9. ASSUME NEW d
      PROVE  of(d) \in Seq(Row) /\ ToSet(of(d)) = sent \cap ({d} \X Time)
  BY <1>6, AmongFacts
<1>10. ASSUME NEW d \in DOMAIN b
       PROVE  /\ d \in Day /\ b[d] \in Seq(Time) /\ b[d] # <<>>
              /\ \A t : t \in ToSet(b[d]) <=> <<d, t>> \in sent
  <2> DEFINE l == of(d)
  <2>1. d \in Day /\ \E t \in Time : <<d, t>> \in sent
    <3>1. PICK r \in sent : r[1] = d
      BY <1>8, <1>10
    <3>2. r \in Day \X Time
      BY <1>7
    <3>3. r = <<d, r[2]>> /\ d \in Day /\ r[2] \in Time
      BY <3>1, <3>2
    <3> QED
      BY <3>3
  <2>2. /\ Len(l) \in Nat /\ ToSet(l) = {l[i] : i \in 1..Len(l)}
        /\ ToSet(l) = sent \cap ({d} \X Time)
    <3>1. l \in Seq(Row) /\ ToSet(l) = sent \cap ({d} \X Time)
      BY <1>9
    <3> HIDE DEF l, of, Row
    <3> QED
      BY <3>1, ListFacts
  <2>3. b[d] = [i \in 1..Len(l) |-> l[i][2]]
    BY <1>8, <1>10
  <2> HIDE DEF l, b, of
  <2>4. \A i \in 1..Len(l) : l[i] \in sent /\ l[i] = <<d, l[i][2]>> /\ l[i][2] \in Time
    <3> TAKE i \in 1..Len(l)
    <3>1. l[i] \in sent \cap ({d} \X Time)
      BY <2>2
    <3> QED
      BY <3>1
  <2>5. b[d] \in Seq(Time) /\ Len(b[d]) = Len(l)
    BY <2>2, <2>3, <2>4
  <2>6. \A t : t \in ToSet(b[d]) <=> \E i \in 1..Len(l) : l[i][2] = t
    BY <2>3 DEF ToSet
  <2>7. \A t : <<d, t>> \in sent <=> \E i \in 1..Len(l) : l[i] = <<d, t>>
    BY <1>7, <2>2
  <2>8. \A t : t \in ToSet(b[d]) <=> <<d, t>> \in sent
    <3>1. \A t : \A i \in 1..Len(l) : l[i][2] = t <=> l[i] = <<d, t>>
      BY <2>4
    <3> QED
      BY <2>6, <2>7, <3>1
  <2>9. b[d] # <<>>
    BY <2>1, <2>5, <2>8, EmptyList
  <2> QED
    BY <2>1, <2>5, <2>8, <2>9
<1>11. \A d \in Day, t \in Time : <<d, t>> \in sent => d \in DOMAIN b
  <2> TAKE d \in Day, t \in Time
  <2>1. <<d, t>> \in sent => <<d, t>>[1] \in {r[1] : r \in sent}
    OBVIOUS
  <2> QED
    BY <1>8, <2>1
<1> HIDE DEF b
<1>12. Hash(b) /\ NoEmptyList(b)
  BY <1>10 DEF Hash, NoEmptyList
<1>13. SlotsOf(b) = sent
  BY <1>7, <1>10, <1>11, <1>12, SameSlots
<1> QED
  BY <1>12, <1>13 DEF b, sent
-----------------------------------------------------------------------------
(* Schedules and their sets of slots go together through every step. *)
Agreement == TypeOK /\ HashIsSet

LEMMA AgreementIsHash ==
  Agreement <=> Hash(schedule) /\ offered = SlotsOf(schedule)
  BY DEF Agreement, TypeOK, HashIsSet, Hash, SlotsOf

LEMMA NextKeepsAgreement ==
  ASSUME Agreement, [Next]_vars
  PROVE  Agreement'
<1>1. Hash(schedule) /\ offered = SlotsOf(schedule)
  BY AgreementIsHash
<1>2. ASSUME Hash(schedule)', offered' = SlotsOf(schedule)'
      PROVE  Agreement'
  BY <1>2 DEF Agreement, TypeOK, HashIsSet, Hash, SlotsOf
<1>3. ASSUME NEW c \in Claim, Take(c)
      PROVE  Hash(schedule)' /\ offered' = SlotsOf(schedule)'
  <2>1. Hash(c)
    BY ClaimFacts
  <2> DEFINE h == RemoveSlots(schedule, c)
  <2>2. Hash(h) /\ SlotsOf(h) = offered \ SlotsOf(c)
    BY <1>1, <2>1, RemovingFacts
  <2>3. schedule' = h /\ offered' = SlotsOf(h)
    BY <1>3, <2>2 DEF Take
  <2> HIDE DEF h
  <2> QED
    BY <2>2, <2>3 DEF Hash, SlotsOf
<1>4. ASSUME NEW c \in Claim, GiveBack(c)
      PROVE  Hash(schedule)' /\ offered' = SlotsOf(schedule)'
  <2>1. Hash(c)
    BY ClaimFacts
  <2> DEFINE h == RestoreSlots(schedule, c)
  <2>2. Hash(h) /\ SlotsOf(h) = offered \cup SlotsOf(c)
    BY <1>1, <2>1, RestoringFacts
  <2>3. schedule' = h /\ offered' = SlotsOf(h)
    BY <1>4, <2>2 DEF GiveBack
  <2> HIDE DEF h
  <2> QED
    BY <2>2, <2>3 DEF Hash, SlotsOf
<1>5. ASSUME NEW n \in 0..FormRows, NEW m \in 0..FormRows,
             NEW days \in [1..n -> Day \cup {Blank}], NEW times \in [1..m -> Time \cup {Blank}],
             SendForm(days, times)
      PROVE  Hash(schedule)' /\ offered' = SlotsOf(schedule)'
  <2> DEFINE b == BuildSchedule(days, times)
  <2>1. n \in Nat /\ m \in Nat
    BY HashAssumption
  <2>2. /\ Hash(b) /\ NoEmptyList(b)
        /\ SlotsOf(b) = {s \in Day \X Time :
                           \E i \in 1..Len(days) : i <= Len(times) /\ s = <<days[i], times[i]>>}
    BY <2>1, BuildingFacts
  <2>3. schedule' = b /\ offered' = SlotsOf(b)
    BY <1>5, <2>2 DEF SendForm
  <2> HIDE DEF b
  <2> QED
    BY <2>2, <2>3 DEF Hash, SlotsOf
<1>6. CASE UNCHANGED vars
  BY <1>6 DEF vars, Agreement, TypeOK, HashIsSet, SlotsOf
<1> QED
  BY <1>2, <1>3, <1>4, <1>5, <1>6 DEF Next

LEMMA InitAgreement == Init => Agreement
<1> SUFFICES ASSUME Init PROVE Agreement
  OBVIOUS
<1>1. DOMAIN schedule = {} /\ offered = {}
  BY DEF Init
<1> QED
  BY <1>1 DEF Agreement, TypeOK, HashIsSet, SlotsOf

(* The hash stays a hash of lists of times, whatever the form sends: blank  *)
(* fields never get into it (facilities_controller.rb:75).                  *)
THEOREM TypeCorrect == Spec => []TypeOK
<1>1. Agreement => TypeOK
  BY DEF Agreement
<1> QED
  BY <1>1, InitAgreement, NextKeepsAgreement, PTL DEF Spec

(* Removing, restoring and building hashes of lists (booking.rb:88-136 and  *)
(* facilities_controller.rb:70) are the difference, the union and the set   *)
(* of rows with which Bookings and BookingTxn stand for them.               *)
THEOREM HashesAreSets == Spec => []HashIsSet
<1>1. Agreement => HashIsSet
  BY DEF Agreement
<1> QED
  BY <1>1, InitAgreement, NextKeepsAgreement, PTL DEF Spec

(* The overlap query finds a clash exactly when a slot is shared.           *)
THEOREM OverlapsAreFound == Spec => []OverlapsAgree
<1>1. ASSUME Agreement, NEW c \in Claim
      PROVE  Overlaps(schedule, c) <=> SlotsOf(schedule) \cap SlotsOf(c) # {}
  <2>1. Hash(schedule) /\ Hash(c)
    BY <1>1, AgreementIsHash, ClaimFacts
  <2>2. \A d \in DOMAIN c : /\ d \in Day /\ ToSet(c[d]) = {c[d][i] : i \in 1..Len(c[d])}
                            /\ ToSet(c[d]) \subseteq Time
    BY <2>1, ListFacts DEF Hash
  <2>3. ASSUME Overlaps(schedule, c)
        PROVE  SlotsOf(schedule) \cap SlotsOf(c) # {}
    <3>1. PICK d \in DOMAIN c : \E i \in 1..Len(c[d]) :
            d \in DOMAIN schedule /\ c[d][i] \in ToSet(schedule[d])
      BY <2>3 DEF Overlaps
    <3>2. PICK i \in 1..Len(c[d]) : d \in DOMAIN schedule /\ c[d][i] \in ToSet(schedule[d])
      BY <3>1
    <3>3. c[d][i] \in ToSet(c[d])
      BY <2>2
    <3>4. <<d, c[d][i]>> \in SlotsOf(schedule) /\ <<d, c[d][i]>> \in SlotsOf(c)
      BY <2>1, <3>2, <3>3, SlotFacts
    <3> QED
      BY <3>4
  <2>4. ASSUME NEW s \in SlotsOf(schedule), s \in SlotsOf(c)
        PROVE  Overlaps(schedule, c)
    <3>1. /\ s[1] \in DOMAIN schedule /\ s[2] \in ToSet(schedule[s[1]])
          /\ s[1] \in DOMAIN c /\ s[2] \in ToSet(c[s[1]])
      BY <2>4 DEF SlotsOf
    <3>2. PICK i \in 1..Len(c[s[1]]) : c[s[1]][i] = s[2]
      BY <2>2, <3>1
    <3> QED
      BY <3>1, <3>2 DEF Overlaps
  <2> QED
    BY <2>3, <2>4
<1>2. Agreement => OverlapsAgree
  BY <1>1 DEF OverlapsAgree
<1> QED
  BY <1>2, InitAgreement, NextKeepsAgreement, PTL DEF Spec

(* A day that has no times left goes with its last one (booking.rb:97); one *)
(* without times is there only since a booking that named it so was given   *)
(* back (booking.rb:131).                                                   *)
THEOREM EmptyDaysAreGiven == Spec => EmptyDaysAreGivenBack
<1> DEFINE WasEmpty(d) == d \in DOMAIN schedule /\ schedule[d] = <<>>
           Given(d) == \E c \in Claim : GiveBack(c) /\ d \in DOMAIN c /\ c[d] = <<>>
<1>1. ASSUME Agreement, Next, NEW d \in DOMAIN schedule', schedule'[d] = <<>>
      PROVE  WasEmpty(d) \/ Given(d)
  <2>1. Hash(schedule)
    BY <1>1, AgreementIsHash
  <2>2. ASSUME NEW c \in Claim, Take(c)
        PROVE  WasEmpty(d)
    BY <1>1, <2>1, <2>2, ClaimFacts, RemovingFacts DEF Take
  <2>3. ASSUME NEW c \in Claim, GiveBack(c)
        PROVE  WasEmpty(d) \/ Given(d)
    <3>1. Hash(c) /\ schedule' = RestoreSlots(schedule, c)
      BY <2>3, ClaimFacts DEF GiveBack
    <3>2. WasEmpty(d) \/ (d \in DOMAIN c /\ c[d] = <<>>)
      BY <1>1, <2>1, <3>1, RestoringFacts
    <3> QED
      BY <2>3, <3>2
  <2>4. ASSUME NEW n \in 0..FormRows, NEW m \in 0..FormRows,
               NEW days \in [1..n -> Day \cup {Blank}], NEW times \in [1..m -> Time \cup {Blank}],
               SendForm(days, times)
        PROVE  FALSE
    <3>1. n \in Nat /\ m \in Nat
      BY HashAssumption
    <3>2. NoEmptyList(BuildSchedule(days, times))
      BY <3>1, BuildingFacts
    <3> QED
      BY <1>1, <2>4, <3>2 DEF SendForm, NoEmptyList
  <2> QED
    BY <1>1, <2>2, <2>3, <2>4 DEF Next
<1>2. Agreement /\ [Next]_vars =>
        [\A d \in DOMAIN schedule' :
           schedule'[d] = <<>> =>
             \/ d \in DOMAIN schedule /\ schedule[d] = <<>>
             \/ \E c \in Claim : GiveBack(c) /\ d \in DOMAIN c /\ c[d] = <<>>]_vars
  BY <1>1
<1>3. Agreement /\ [Next]_vars => Agreement'
  BY NextKeepsAgreement
<1> QED
  BY <1>2, <1>3, InitAgreement, PTL DEF Spec, EmptyDaysAreGivenBack

(* The check of the hours asks for slots on offer, and for nothing where    *)
(* nothing is on offer (booking.rb:64); days without times only add to what *)
(* it refuses (booking.rb:70).                                              *)
THEOREM HoursAreChecked == Spec => []HoursAgree
<1>1. ASSUME Agreement, NEW c \in Claim
      PROVE  LET accepted == offered = {} \/ SlotsOf(c) \subseteq offered IN
             /\ WithinHours(schedule, c) => accepted
             /\ accepted /\ NoEmptyList(c) /\ NoEmptyList(schedule) => WithinHours(schedule, c)
  <2>1. Hash(schedule) /\ Hash(c) /\ DOMAIN c # {} /\ offered = SlotsOf(schedule)
    BY <1>1, AgreementIsHash, ClaimFacts
  <2>2. DOMAIN schedule = {} => offered = {}
    BY <2>1 DEF SlotsOf
  <2>3. ASSUME NoEmptyList(schedule), NEW d \in DOMAIN schedule
        PROVE  offered # {}
    <3>1. ToSet(schedule[d]) # {}
      BY <2>1, <2>3, EmptyList DEF NoEmptyList, Hash
    <3> QED
      BY <2>1, <3>1, SlotFacts
  <2>4. ASSUME \A d \in DOMAIN c : DayPresent(schedule, d) /\ ToSet(c[d]) \subseteq ToSet(schedule[d])
        PROVE  SlotsOf(c) \subseteq offered
    BY <2>1, <2>4 DEF SlotsOf, DayPresent
  <2>5. ASSUME SlotsOf(c) \subseteq offered, NoEmptyList(c), NoEmptyList(schedule), NEW d \in DOMAIN c
        PROVE  DayPresent(schedule, d) /\ ToSet(c[d]) \subseteq ToSet(schedule[d])
    <3>1. ToSet(c[d]) # {}
      BY <2>1, <2>5, EmptyList DEF Hash, NoEmptyList
    <3>2. \A t \in ToSet(c[d]) : <<d, t>> \in SlotsOf(schedule)
      BY <2>1, <2>5, SlotFacts
    <3>3. \A t \in ToSet(c[d]) : d \in DOMAIN schedule /\ t \in ToSet(schedule[d])
      BY <2>1, <3>2, SlotFacts
    <3> QED
      BY <2>5, <3>1, <3>3 DEF DayPresent, NoEmptyList
  <2> QED
    BY <2>2, <2>3, <2>4, <2>5 DEF WithinHours
<1>2. Agreement => HoursAgree
  BY <1>1 DEF HoursAgree
<1> QED
  BY <1>2, InitAgreement, NextKeepsAgreement, PTL DEF Spec

(* What is given back is in order and, on days that are there, once each    *)
(* (booking.rb:127).                                                        *)
THEOREM DaysAreInOrder == Spec => DaysAreTidied
<1> DEFINE Tidy(d, c) ==
             /\ \A i, j \in 1..Len(schedule'[d]) : i < j => schedule'[d][i] <= schedule'[d][j]
             /\ DayPresent(schedule, d) =>
                  Len(schedule'[d]) = Cardinality(ToSet(schedule[d]) \cup ToSet(c[d]))
<1>1. ASSUME Agreement, NEW c \in Claim, GiveBack(c), NEW d \in DOMAIN c
      PROVE  Tidy(d, c)
  <2>1. Hash(schedule) /\ Hash(c) /\ c[d] \in Seq(Time) /\ Time \in SUBSET Nat
    BY <1>1, AgreementIsHash, ClaimFacts, HashAssumption DEF Hash
  <2>2. CASE DayPresent(schedule, d)
    <3>1. schedule'[d] = MergeDay(schedule[d], c[d])
      BY <1>1, <2>2 DEF GiveBack, RestoreSlots
    <3>2. schedule[d] \in Seq(Time)
      BY <2>1, <2>2 DEF Hash, DayPresent
    <3> QED
      BY <2>1, <3>1, <3>2, MergingFacts
  <2>3. CASE ~DayPresent(schedule, d)
    <3>1. schedule'[d] = Sorted(c[d])
      BY <1>1, <2>3 DEF GiveBack, RestoreSlots
    <3>2. /\ Len(Sorted(c[d])) = Len(c[d])
          /\ \A i, j \in 1..Len(c[d]) : i < j => Sorted(c[d])[i] <= Sorted(c[d])[j]
      BY <2>1, SortedFacts
    <3> QED
      BY <2>3, <3>1, <3>2
  <2> QED
    BY <2>2, <2>3
<1>2. Agreement => [\A c \in Claim : GiveBack(c) => \A d \in DOMAIN c : Tidy(d, c)]_vars
  BY <1>1
<1>3. Agreement /\ [Next]_vars => Agreement'
  BY NextKeepsAgreement
<1> QED
  BY <1>2, <1>3, InitAgreement, PTL DEF Spec, DaysAreTidied
=============================================================================
