---------------------------- MODULE Cache_proofs ----------------------------
(***************************************************************************)
(* UsedExact, LeastRecentFirst and PutKept for any number of callers, keys *)
(* and messages, any sizes and any budget.                                 *)
(***************************************************************************)
EXTENDS Cache, SequenceTheorems, WellFoundedInduction, TLAPS
-----------------------------------------------------------------------------
(* Natural numbers and sequences                                           *)

\* A nonempty set of natural numbers has a least one.
LEMMA LeastNumber ==
  ASSUME NEW T \in SUBSET Nat, T # {}
  PROVE  \E n \in T : \A m \in T : n <= m
<1>1. PICK n \in T : \A m \in T : ~(<<m, n>> \in OpToRel(<, Nat))
  BY NatLessThanWellFounded, WFMin, Zenon
<1>2. ASSUME NEW m \in T PROVE n <= m
  <2>1. m \in Nat /\ n \in Nat
    OBVIOUS
  <2>2. ~(m < n)
    BY <1>1, <2>1, Zenon DEF OpToRel
  <2> QED
    BY <2>1, <2>2
<1> QED
  BY <1>2

\* A set with 0 and with every successor, up to a bound, of what it has.
LEMMA UpTo ==
  ASSUME NEW n \in Nat, NEW T, 0 \in T,
         \A k \in 0..(n - 1) : k \in T => k + 1 \in T
  PROVE  0..n \subseteq T
<1> SUFFICES ASSUME (0..n) \ T # {} PROVE FALSE
  OBVIOUS
<1>1. PICK k \in (0..n) \ T : \A m \in (0..n) \ T : k <= m
  <2>1. (0..n) \ T \in SUBSET Nat
    OBVIOUS
  <2> QED
    BY <2>1, LeastNumber, Zenon
<1>2. k # 0 /\ k \in 0..n
  OBVIOUS
<1>3. k - 1 \in 0..(n - 1) /\ k - 1 \in 0..n /\ ~(k <= k - 1)
  BY <1>2
<1>4. k - 1 \in T
  BY <1>1, <1>3
<1>5. (k - 1) + 1 = k
  BY <1>2
<1> QED
  BY <1>1, <1>3, <1>4, <1>5

\* Concatenation, element by element.
LEMMA ConcatFacts ==
  ASSUME NEW S, NEW a \in Seq(S), NEW b \in Seq(S)
  PROVE  /\ a \o b \in Seq(S) /\ Len(a \o b) = Len(a) + Len(b)
         /\ \A j \in 1..Len(a) : (a \o b)[j] = a[j]
         /\ \A j \in 1..Len(b) : (a \o b)[Len(a) + j] = b[j]
OBVIOUS

\* RemoveAt closes the gap.
LEMMA RemoveAtFacts ==
  ASSUME NEW S, NEW s \in Seq(S), NEW i \in 1..Len(s)
  PROVE  /\ RemoveAt(s, i) \in Seq(S) /\ Len(RemoveAt(s, i)) = Len(s) - 1
         /\ \A j \in 1..(Len(s) - 1) :
              RemoveAt(s, i)[j] = IF j < i THEN s[j] ELSE s[j + 1]
<1> DEFINE a == SubSeq(s, 1, i - 1)
           b == SubSeq(s, i + 1, Len(s))
<1>1. a \in Seq(S) /\ Len(a) = i - 1 /\ \A j \in 1..(i - 1) : a[j] = s[j]
  OBVIOUS
<1>2. b \in Seq(S) /\ Len(b) = Len(s) - i /\ \A j \in 1..(Len(s) - i) : b[j] = s[i + j]
  OBVIOUS
<1>3. RemoveAt(s, i) = a \o b
  BY DEF RemoveAt
<1> HIDE DEF a, b
<1>4. /\ a \o b \in Seq(S) /\ Len(a \o b) = Len(a) + Len(b)
      /\ \A j \in 1..Len(a) : (a \o b)[j] = a[j]
      /\ \A j \in 1..Len(b) : (a \o b)[Len(a) + j] = b[j]
  <2>1. a \in Seq(S) /\ b \in Seq(S)
    BY <1>1, <1>2
  <2> QED
    BY <2>1
<1>5. ASSUME NEW j \in 1..(Len(s) - 1), j < i PROVE (a \o b)[j] = s[j]
  BY <1>1, <1>4, <1>5
<1>6. ASSUME NEW j \in 1..(Len(s) - 1), ~(j < i) PROVE (a \o b)[j] = s[j + 1]
  <2> DEFINE k == j - (i - 1)
  <2>1. k \in 1..(Len(s) - i) /\ i + k = j + 1 /\ Len(a) + k = j
    BY <1>1, <1>6, SMTT(40)
  <2> HIDE DEF k
  <2> QED
    BY <1>2, <1>4, <2>1, Zenon
<1>7. Len(a \o b) = Len(s) - 1
  BY <1>1, <1>2, <1>4
<1> QED
  BY <1>3, <1>4, <1>5, <1>6, <1>7, Zenon

\* Suffix drops the first n elements.
LEMMA SuffixFacts ==
  ASSUME NEW S, NEW s \in Seq(S), NEW n \in 0..Len(s)
  PROVE  /\ Suffix(s, n) \in Seq(S) /\ Len(Suffix(s, n)) = Len(s) - n
         /\ \A j \in 1..(Len(s) - n) : Suffix(s, n)[j] = s[n + j]
BY DEF Suffix
-----------------------------------------------------------------------------
(* The cost of a sequence of entries                                       *)

\* What FoldLeft computes with: the cost of every set of positions.
SumsOf(g, es) ==
  g = [s \in SUBSET DOMAIN es |-> IF s = {} THEN 0 ELSE g[s \ {Max(s)}] + es[Max(s)].cost]

\* The cost of entries is the fold's value at the set of all positions, where
\* the fold is the function that FoldLeft defines (used_bytes, cache.rs).
LEMMA TotalCostDef ==
  ASSUME NEW es
  PROVE  TotalCost(es) = (CHOOSE g : SumsOf(g, es))[DOMAIN es]
BY DEF TotalCost, FoldLeft, MapThenFoldSet, SumsOf

\* Positions of a prefix: the largest one, and what is left without it.
LEMMA PrefixFacts ==
  ASSUME NEW k \in Nat
  PROVE  /\ 1..(k + 1) # {} /\ Max(1..(k + 1)) = k + 1 /\ (1..(k + 1)) \ {k + 1} = 1..k
         /\ \A s \in SUBSET (1..(k + 1)) :
              IF k + 1 \in s
              THEN Max(s) = k + 1 /\ s \ {k + 1} \in SUBSET (1..k)
              ELSE s \in SUBSET (1..k)
<1>1. ASSUME NEW s \in SUBSET (1..(k + 1)), k + 1 \in s PROVE Max(s) = k + 1
  <2>1. \A y \in s : k + 1 >= y
    OBVIOUS
  <2>2. \A x \in s : (\A y \in s : x >= y) => x = k + 1
    BY <1>1, <2>1
  <2> QED
    BY <1>1, <2>1, <2>2, Zenon DEF Max
<1>2. k + 1 \in 1..(k + 1) /\ (1..(k + 1)) \ {k + 1} = 1..k
  OBVIOUS
<1>3. ASSUME NEW s \in SUBSET (1..(k + 1))
      PROVE  s \ {k + 1} \in SUBSET (1..k)
  BY <1>2
<1> QED
  BY <1>1, <1>2, <1>3

\* The fold is well defined: the costs of the sets of the first k positions
\* give those of the first k + 1.
LEMMA SumsExist ==
  ASSUME NEW n \in Nat, NEW es, DOMAIN es = 1..n
  PROVE  \E g : SumsOf(g, es)
<1> DEFINE Upto(g, k) == g = [s \in SUBSET (1..k) |->
             IF s = {} THEN 0 ELSE g[s \ {Max(s)}] + es[Max(s)].cost]
           T == {k \in Nat : \E g : Upto(g, k)}
<1>1. 0 \in T
  <2> DEFINE g == [s \in SUBSET (1..0) |-> 0]
  <2>1. SUBSET (1..0) = {{}}
    OBVIOUS
  <2>2. g = [s \in SUBSET (1..0) |->
               IF s = {} THEN 0 ELSE g[s \ {Max(s)}] + es[Max(s)].cost]
    BY <2>1
  <2> QED
    BY <2>2
<1>2. ASSUME NEW k \in 0..(n - 1), k \in T PROVE k + 1 \in T
  <2>1. PICK g : Upto(g, k)
    BY <1>2, Zenon
  <2> DEFINE Cost(s) == IF s = {} THEN 0 ELSE g[s \ {Max(s)}] + es[Max(s)].cost
             h == [s \in SUBSET (1..(k + 1)) |->
                     IF k + 1 \in s THEN g[s \ {k + 1}] + es[k + 1].cost ELSE g[s]]
  <2>2. k \in Nat
    OBVIOUS
  <2>3. ASSUME NEW s \in SUBSET (1..k) PROVE h[s] = g[s] /\ g[s] = Cost(s)
    <3>1. s \in SUBSET (1..(k + 1)) /\ k + 1 \notin s
      BY <2>2
    <3> QED
      BY <2>1, <3>1, Zenon
  <2>4. ASSUME NEW s \in SUBSET (1..(k + 1))
        PROVE  h[s] = IF s = {} THEN 0 ELSE h[s \ {Max(s)}] + es[Max(s)].cost
    <3>1. CASE k + 1 \in s
      <4>1. Max(s) = k + 1 /\ s \ {k + 1} \in SUBSET (1..k)
        BY <2>2, <3>1, PrefixFacts, Zenon
      <4>2. h[s \ {k + 1}] = g[s \ {k + 1}]
        BY <2>3, <4>1
      <4>3. h[s] = g[s \ {k + 1}] + es[k + 1].cost
        BY <3>1
      <4> HIDE DEF h
      <4> QED
        BY <3>1, <4>1, <4>2, <4>3, Zenon
    <3>2. CASE k + 1 \notin s
      <4>1. s \in SUBSET (1..k)
        BY <2>2, <3>2, PrefixFacts, Zenon
      <4>2. h[s] = Cost(s)
        BY <2>3, <4>1, Zenon
      <4>3. h[s \ {Max(s)}] = g[s \ {Max(s)}]
        BY <2>3, <4>1, Zenon
      <4> HIDE DEF h
      <4> QED
        BY <4>2, <4>3
    <3> QED
      BY <3>1, <3>2
  <2>5. Upto(h, k + 1)
    BY <2>4, Zenon
  <2>6. k + 1 \in Nat
    OBVIOUS
  <2> HIDE DEF h
  <2> QED
    BY <2>5, <2>6, Zenon
<1> HIDE DEF T
<1>3. n \in T
  <2>1. 0..n \subseteq T
    BY <1>1, <1>2, UpTo, Zenon
  <2> QED
    BY <2>1
<1> QED
  BY <1>3, Zenon DEF T, SumsOf

Sums(es) == CHOOSE g : SumsOf(g, es)

\* The costs of the prefixes, one position after the other.
LEMMA SumsFacts ==
  ASSUME NEW n \in Nat, NEW es, DOMAIN es = 1..n, \A i \in 1..n : es[i].cost \in Nat
  PROVE  /\ Sums(es)[1..0] = 0
         /\ \A k \in 0..(n - 1) : Sums(es)[1..(k + 1)] = Sums(es)[1..k] + es[k + 1].cost
         /\ \A k \in 0..n : Sums(es)[1..k] \in Nat
<1> DEFINE g == Sums(es)
<1>1. g = [s \in SUBSET (1..n) |->
             IF s = {} THEN 0 ELSE g[s \ {Max(s)}] + es[Max(s)].cost]
  <2>1. SumsOf(g, es)
    BY SumsExist, Zenon DEF Sums
  <2> HIDE DEF g
  <2> QED
    BY <2>1, Zenon DEF SumsOf
<1> HIDE DEF g
<1>2. ASSUME NEW s \in SUBSET (1..n)
      PROVE  g[s] = IF s = {} THEN 0 ELSE g[s \ {Max(s)}] + es[Max(s)].cost
  BY <1>1, Zenon
<1>3. g[1..0] = 0
  <2>1. 1..0 \in SUBSET (1..n) /\ 1..0 = {}
    OBVIOUS
  <2> QED
    BY <1>2, <2>1, Zenon
<1>4. ASSUME NEW k \in 0..(n - 1) PROVE g[1..(k + 1)] = g[1..k] + es[k + 1].cost
  <2>1. k \in Nat /\ 1..(k + 1) \in SUBSET (1..n)
    OBVIOUS
  <2>2. 1..(k + 1) # {} /\ Max(1..(k + 1)) = k + 1 /\ (1..(k + 1)) \ {k + 1} = 1..k
    BY <2>1, PrefixFacts, Zenon
  <2> QED
    BY <1>2, <2>1, <2>2, Zenon
<1> DEFINE T == {k \in 0..n : g[1..k] \in Nat}
<1>5. 0 \in T
  BY <1>3
<1>6. ASSUME NEW k \in 0..(n - 1), k \in T PROVE k + 1 \in T
  <2>1. k + 1 \in 1..n /\ k + 1 \in 0..n
    OBVIOUS
  <2>2. g[1..k] \in Nat /\ es[k + 1].cost \in Nat
    BY <1>6, <2>1
  <2> QED
    BY <1>4, <2>1, <2>2, SMTT(30)
<1>7. 0..n \subseteq T
  <2> HIDE DEF T
  <2> QED
    BY <1>5, <1>6, UpTo, Zenon
<1>8. \A k \in 0..n : g[1..k] \in Nat
  BY <1>7
<1> QED
  BY <1>3, <1>4, <1>8, SMTT(30) DEF g

\* A sequence of entries costs what all of its positions cost.
LEMMA SeqSums ==
  ASSUME NEW S, \A e \in S : e.cost \in Nat, NEW s \in Seq(S)
  PROVE  /\ DOMAIN s = 1..Len(s) /\ Len(s) \in Nat
         /\ \A i \in 1..Len(s) : s[i].cost \in Nat
         /\ TotalCost(s) = Sums(s)[1..Len(s)] /\ TotalCost(s) \in Nat
         /\ Sums(s)[1..0] = 0
         /\ \A k \in 0..(Len(s) - 1) : Sums(s)[1..(k + 1)] = Sums(s)[1..k] + s[k + 1].cost
         /\ \A k \in 0..Len(s) : Sums(s)[1..k] \in Nat
<1>1. DOMAIN s = 1..Len(s) /\ Len(s) \in Nat /\ \A i \in 1..Len(s) : s[i] \in S
  OBVIOUS
<1>2. \A i \in 1..Len(s) : s[i].cost \in Nat
  BY <1>1, Zenon
<1>3. /\ Sums(s)[1..0] = 0
      /\ \A k \in 0..(Len(s) - 1) : Sums(s)[1..(k + 1)] = Sums(s)[1..k] + s[k + 1].cost
      /\ \A k \in 0..Len(s) : Sums(s)[1..k] \in Nat
  BY <1>1, <1>2, SumsFacts, Zenon
<1>4. TotalCost(s) = Sums(s)[1..Len(s)]
  BY <1>1, TotalCostDef, Zenon DEF Sums
<1>5. Len(s) \in 0..Len(s)
  BY <1>1
<1>6. TotalCost(s) \in Nat
  BY <1>3, <1>4, <1>5, Zenon
<1> QED
  BY <1>1, <1>2, <1>3, <1>4, <1>6, Zenon

\* Prefixes that cost the same position by position cost the same.
LEMMA SamePrefix ==
  ASSUME NEW S, \A e \in S : e.cost \in Nat, NEW s \in Seq(S), NEW t \in Seq(S),
         NEW n \in Nat, n <= Len(s), n <= Len(t), \A i \in 1..n : s[i] = t[i]
  PROVE  Sums(s)[1..n] = Sums(t)[1..n]
<1> DEFINE T == {k \in 0..n : Sums(s)[1..k] = Sums(t)[1..k]}
<1>1. /\ Sums(s)[1..0] = 0
      /\ \A k \in 0..(Len(s) - 1) : Sums(s)[1..(k + 1)] = Sums(s)[1..k] + s[k + 1].cost
  BY SeqSums, Zenon
<1>2. /\ Sums(t)[1..0] = 0
      /\ \A k \in 0..(Len(t) - 1) : Sums(t)[1..(k + 1)] = Sums(t)[1..k] + t[k + 1].cost
  BY SeqSums, Zenon
<1>3. 0 \in T
  BY <1>1, <1>2
<1>4. ASSUME NEW k \in 0..(n - 1), k \in T PROVE k + 1 \in T
  <2>1. k + 1 \in 1..n /\ k + 1 \in 0..n /\ k \in 0..(Len(s) - 1) /\ k \in 0..(Len(t) - 1)
    OBVIOUS
  <2>2. Sums(s)[1..k] = Sums(t)[1..k]
    BY <1>4
  <2>3. s[k + 1].cost = t[k + 1].cost
    BY <2>1
  <2> QED
    BY <1>1, <1>2, <2>1, <2>2, <2>3, Zenon
<1>5. 0..n \subseteq T
  <2> HIDE DEF T
  <2> QED
    BY <1>3, <1>4, UpTo, Zenon
<1> QED
  BY <1>5

\* The total of the map counts a new entry once, and an empty map is free.
LEMMA AppendCost ==
  ASSUME NEW S, \A e \in S : e.cost \in Nat, NEW s \in Seq(S), NEW e \in S
  PROVE  TotalCost(Append(s, e)) = TotalCost(s) + e.cost
<1> DEFINE t == Append(s, e)
           n == Len(s)
<1>1. t \in Seq(S) /\ Len(t) = n + 1 /\ t[n + 1] = e /\ \A i \in 1..n : s[i] = t[i]
  OBVIOUS
<1>2. n \in Nat
  OBVIOUS
<1> HIDE DEF t, n
<1>3. n <= Len(s) /\ n <= Len(t) /\ n \in 0..(Len(t) - 1)
  BY <1>1, <1>2 DEF n
<1>4. Sums(s)[1..n] = Sums(t)[1..n]
  <2>1. t \in Seq(S) /\ n \in Nat /\ n <= Len(s) /\ n <= Len(t)
    BY <1>1, <1>2, <1>3, Zenon
  <2>2. \A i \in 1..n : s[i] = t[i]
    BY <1>1
  <2> QED
    BY <2>1, <2>2, SamePrefix
<1>5. TotalCost(s) = Sums(s)[1..n]
  BY SeqSums, Zenon DEF n
<1>6. TotalCost(t) = Sums(t)[1..Len(t)]
  BY <1>1, SeqSums, Zenon
<1>7. Sums(t)[1..(n + 1)] = Sums(t)[1..n] + t[n + 1].cost
  BY <1>1, <1>3, SeqSums, Zenon
<1> QED
  BY <1>1, <1>4, <1>5, <1>6, <1>7, Zenon DEF t

\* An empty map costs nothing.
LEMMA EmptyCost == TotalCost(<<>>) = 0
<1>1. <<>> \in Seq({}) /\ Len(<<>>) = 0 /\ \A e \in {} : e.cost \in Nat
  OBVIOUS
<1>2. TotalCost(<<>>) = Sums(<<>>)[1..Len(<<>>)] /\ Sums(<<>>)[1..0] = 0
  BY <1>1, SeqSums, Zenon
<1> QED
  BY <1>1, <1>2, Zenon

\* What is removed from the map is taken off the total once.
LEMMA RemoveCost ==
  ASSUME NEW S, \A e \in S : e.cost \in Nat, NEW s \in Seq(S), NEW i \in 1..Len(s)
  PROVE  TotalCost(RemoveAt(s, i)) = TotalCost(s) - s[i].cost
<1> DEFINE r == RemoveAt(s, i)
           n == Len(s) - 1
           P(k) == Sums(r)[1..k] = IF k < i THEN Sums(s)[1..k]
                                            ELSE Sums(s)[1..(k + 1)] - s[i].cost
           T == {k \in 0..n : P(k)}
<1>1. n \in Nat /\ i \in 1..(n + 1) /\ Len(s) = n + 1
  OBVIOUS
<1>2. r \in Seq(S) /\ Len(r) = n /\ \A j \in 1..n : r[j] = IF j < i THEN s[j] ELSE s[j + 1]
  BY RemoveAtFacts, Zenon
<1>3. /\ Sums(s)[1..0] = 0
      /\ \A k \in 0..n : Sums(s)[1..(k + 1)] = Sums(s)[1..k] + s[k + 1].cost
      /\ \A k \in 0..(n + 1) : Sums(s)[1..k] \in Nat
      /\ \A k \in 1..(n + 1) : s[k].cost \in Nat
      /\ TotalCost(s) = Sums(s)[1..(n + 1)]
  <2>1. Len(s) = n + 1 /\ Len(s) - 1 = n
    BY <1>1
  <2> HIDE DEF n
  <2> QED
    BY <2>1, SeqSums, Zenon
<1> HIDE DEF r, n
<1>4. /\ Sums(r)[1..0] = 0
      /\ \A k \in 0..(n - 1) : Sums(r)[1..(k + 1)] = Sums(r)[1..k] + r[k + 1].cost
      /\ TotalCost(r) = Sums(r)[1..n]
  BY <1>2, SeqSums, Zenon
<1>5. 0 \in T
  BY <1>1, <1>3, <1>4, SMTT(30)
<1>6. ASSUME NEW k \in 0..(n - 1), k \in T PROVE k + 1 \in T
  <2>1. k \in 0..n /\ k + 1 \in 0..n /\ k + 1 \in 1..n /\ k \in Nat
    BY <1>1
  <2>2. /\ Sums(r)[1..(k + 1)] = Sums(r)[1..k] + r[k + 1].cost
        /\ Sums(s)[1..(k + 1)] = Sums(s)[1..k] + s[k + 1].cost
        /\ Sums(s)[1..(k + 1 + 1)] = Sums(s)[1..(k + 1)] + s[k + 1 + 1].cost
    BY <1>3, <1>4, <2>1, Zenon
  <2>3. /\ Sums(s)[1..k] \in Nat /\ Sums(s)[1..(k + 1)] \in Nat
        /\ s[k + 1].cost \in Nat /\ s[k + 1 + 1].cost \in Nat /\ s[i].cost \in Nat
    <3>1. k \in 0..(n + 1) /\ k + 1 \in 0..(n + 1)
      BY <1>1, <2>1
    <3>2. k + 1 \in 1..(n + 1) /\ k + 1 + 1 \in 1..(n + 1)
      BY <1>1, <2>1
    <3> QED
      BY <1>1, <1>3, <3>1, <3>2, Zenon
  <2>4. P(k)
    BY <1>6
  <2>5. CASE k + 1 < i
    <3>1. k < i
      BY <1>1, <2>1, <2>5, SMTT(30)
    <3>2. r[k + 1] = s[k + 1]
      BY <1>2, <2>1, <2>5
    <3>3. Sums(r)[1..k] = Sums(s)[1..k]
      BY <2>4, <3>1
    <3>4. Sums(r)[1..(k + 1)] = Sums(s)[1..(k + 1)]
      BY <2>2, <3>2, <3>3, Zenon
    <3> QED
      BY <2>1, <2>5, <3>4, Zenon
  <2>6. CASE k + 1 = i
    <3>1. k < i /\ ~(k + 1 < i)
      BY <1>1, <2>1, <2>6
    <3>2. r[k + 1] = s[k + 1 + 1]
      BY <1>2, <2>1, <3>1
    <3>3. Sums(r)[1..k] = Sums(s)[1..k]
      BY <2>4, <3>1
    <3>4. Sums(r)[1..(k + 1)] = Sums(s)[1..(k + 1 + 1)] - s[k + 1].cost
      BY <2>2, <2>3, <3>2, <3>3, SMTT(40)
    <3> QED
      BY <2>1, <2>6, <3>1, <3>4, Zenon
  <2>7. CASE i < k + 1
    <3>1. ~(k < i) /\ ~(k + 1 < i)
      BY <1>1, <2>1, <2>7
    <3>2. r[k + 1] = s[k + 1 + 1]
      BY <1>2, <2>1, <3>1
    <3>3. Sums(r)[1..k] = Sums(s)[1..(k + 1)] - s[i].cost
      BY <2>4, <3>1
    <3>4. Sums(r)[1..(k + 1)] = Sums(s)[1..(k + 1 + 1)] - s[i].cost
      BY <2>2, <2>3, <3>2, <3>3, SMTT(40)
    <3> QED
      BY <2>1, <3>1, <3>4, Zenon
  <2> QED
    BY <1>1, <2>1, <2>5, <2>6, <2>7, SMTT(30)
<1>7. 0..n \subseteq T
  <2> HIDE DEF T
  <2> QED
    BY <1>1, <1>5, <1>6, UpTo, Zenon
<1>8. P(n)
  BY <1>1, <1>7
<1>9. Sums(r)[1..n] = Sums(s)[1..(n + 1)] - s[i].cost
  <2>1. CASE n < i
    <3>1. i = n + 1 /\ n \in 0..n
      BY <1>1, <2>1
    <3>2. Sums(s)[1..n] \in Nat /\ s[i].cost \in Nat
      BY <1>1, <1>3, <3>1
    <3> QED
      BY <1>3, <1>8, <2>1, <3>1, <3>2
  <2> QED
    BY <1>8, <2>1
<1> QED
  BY <1>3, <1>4, <1>9, Zenon DEF r
-----------------------------------------------------------------------------
(* The inductive invariant                                                 *)

EntryType == [key : Keys, message : Messages, expires_at : Nat, cost : Nat]

\* LeastRecentFirst of any map and any history of uses.
Ordered(es, r) ==
  /\ KeysOf(es) \subseteq ToSet(r)
  /\ \A i, j \in DOMAIN es : \A a, b \in DOMAIN r :
       r[a] = es[i].key /\ r[b] = es[j].key => (i < j <=> a < b)

Distinct(r) == \A a, b \in DOMAIN r : r[a] = r[b] => a = b

\* No key is in the history of uses twice: the order of the map could not
\* follow one that is.  That no key is in the map twice follows from Ordered.
CacheInv ==
  /\ entries \in Seq(EntryType) /\ now \in Nat
  /\ UsedExact
  /\ recency \in Seq(Keys) /\ Distinct(recency)
  /\ Ordered(entries, recency)

\* t is s with some elements left out: f tells where each of t's is in s.
Thins(t, s, f) ==
  /\ f \in [1..Len(t) -> 1..Len(s)]
  /\ \A i, j \in 1..Len(t) : i < j <=> f[i] < f[j]
  /\ \A i \in 1..Len(t) : t[i] = s[f[i]]

\* Leaving out one position.
LEMMA RemoveThins ==
  ASSUME NEW S, NEW s \in Seq(S), NEW i \in 1..Len(s)
  PROVE  \E f : /\ Thins(RemoveAt(s, i), s, f)
                /\ \A j \in 1..Len(RemoveAt(s, i)) : f[j] # i
                /\ \A p \in 1..Len(s) : p # i => \E j \in 1..Len(RemoveAt(s, i)) : f[j] = p
<1> DEFINE t == RemoveAt(s, i)
           f == [j \in 1..Len(t) |-> IF j < i THEN j ELSE j + 1]
<1>1. /\ Len(t) = Len(s) - 1
      /\ \A j \in 1..(Len(s) - 1) : t[j] = IF j < i THEN s[j] ELSE s[j + 1]
  BY RemoveAtFacts, Zenon
<1>2. Len(s) \in Nat /\ i \in Nat
  OBVIOUS
<1> HIDE DEF t
<1>3. f \in [1..Len(t) -> 1..Len(s)] /\ \A j \in 1..Len(t) : f[j] # i
  BY <1>1, <1>2
<1>4. \A a, b \in 1..Len(t) : a < b <=> f[a] < f[b]
  BY <1>1, <1>2
<1>5. \A j \in 1..Len(t) : t[j] = s[f[j]]
  BY <1>1, <1>2
<1>6. ASSUME NEW p \in 1..Len(s), p # i PROVE \E j \in 1..Len(t) : f[j] = p
  <2>1. CASE p < i
    <3>1. p \in 1..Len(t) /\ f[p] = p
      BY <1>1, <1>2, <2>1
    <3> QED
      BY <3>1
  <2>2. CASE i < p
    <3>1. p - 1 \in 1..Len(t) /\ f[p - 1] = p
      BY <1>1, <1>2, <2>2
    <3> QED
      BY <3>1
  <2> QED
    BY <1>2, <1>6, <2>1, <2>2
<1>7. Thins(t, s, f)
  BY <1>3, <1>4, <1>5 DEF Thins
<1> HIDE DEF f
<1> QED
  BY <1>3, <1>6, <1>7, Zenon DEF t

\* Leaving out the front.
LEMMA SuffixThins ==
  ASSUME NEW S, NEW s \in Seq(S), NEW n \in 0..Len(s)
  PROVE  \E f : Thins(Suffix(s, n), s, f)
<1> DEFINE t == Suffix(s, n)
           f == [j \in 1..Len(t) |-> n + j]
<1>1. Len(t) = Len(s) - n /\ \A j \in 1..(Len(s) - n) : t[j] = s[n + j]
  BY SuffixFacts, Zenon
<1>2. Len(s) \in Nat /\ n \in Nat
  OBVIOUS
<1> HIDE DEF t
<1>3. Thins(t, s, f)
  BY <1>1, <1>2 DEF Thins
<1> QED
  BY <1>3, Zenon DEF t

\* Leaving out twice.
LEMMA ThinsTwice ==
  ASSUME NEW s, NEW t, NEW u, NEW f, NEW g,
         Len(s) \in Nat, Len(t) \in Nat, Len(u) \in Nat,
         Thins(t, s, f), Thins(u, t, g)
  PROVE  \E h : Thins(u, s, h) /\ \A j \in 1..Len(u) : g[j] \in 1..Len(t) /\ u[j] = t[g[j]]
<1> DEFINE h == [j \in 1..Len(u) |-> f[g[j]]]
<1>1. \A j \in 1..Len(u) : g[j] \in 1..Len(t) /\ u[j] = t[g[j]]
  BY DEF Thins
<1>2. h \in [1..Len(u) -> 1..Len(s)]
  BY <1>1 DEF Thins
<1>3. \A i, j \in 1..Len(u) : i < j <=> h[i] < h[j]
  BY <1>1 DEF Thins
<1>4. \A j \in 1..Len(u) : u[j] = s[h[j]]
  BY <1>1 DEF Thins
<1>5. Thins(u, s, h)
  BY <1>2, <1>3, <1>4 DEF Thins
<1> HIDE DEF h
<1> QED
  BY <1>1, <1>5

\* No key is in a map twice whose order follows the uses.
LEMMA KeysOnce ==
  ASSUME NEW es, NEW r, Ordered(es, r), NEW i \in DOMAIN es, NEW j \in DOMAIN es,
         es[i].key = es[j].key, i \in Nat, j \in Nat, DOMAIN r \subseteq Nat
  PROVE  i = j
<1>1. es[i].key \in ToSet(r)
  BY DEF Ordered, KeysOf
<1>2. PICK a \in DOMAIN r : r[a] = es[i].key
  BY <1>1 DEF ToSet
<1>3. (i < j <=> a < a) /\ (j < i <=> a < a)
  BY <1>2 DEF Ordered
<1>4. a \in Nat
  OBVIOUS
<1> QED
  BY <1>3, <1>4

\* entries.remove(&key) leaves the other keys, in their order.
LEMMA WithoutFacts ==
  ASSUME NEW S, NEW es \in Seq(S), NEW k, NEW R, NEW r \in Seq(R), Ordered(es, r)
  PROVE  /\ Without(es, k) \in Seq(S)
         /\ \E f : Thins(Without(es, k), es, f)
         /\ \A j \in 1..Len(Without(es, k)) : Without(es, k)[j].key # k
         /\ k \in KeysOf(es) => /\ Find(es, k) \in 1..Len(es) /\ es[Find(es, k)].key = k
                                /\ Without(es, k) = RemoveAt(es, Find(es, k))
<1>1. DOMAIN es = 1..Len(es) /\ DOMAIN r = 1..Len(r)
  OBVIOUS
<1>2. CASE k \notin KeysOf(es)
  <2>1. Without(es, k) = es
    BY <1>2 DEF Without
  <2>2. \A j \in 1..Len(es) : es[j].key # k
    BY <1>1, <1>2 DEF KeysOf
  <2> DEFINE f == [j \in 1..Len(es) |-> j]
  <2>3. Thins(es, es, f)
    BY DEF Thins
  <2> HIDE DEF f
  <2> QED
    BY <1>2, <2>1, <2>2, <2>3
<1>3. CASE k \in KeysOf(es)
  <2> DEFINE i == Find(es, k)
             t == RemoveAt(es, i)
  <2>1. i \in 1..Len(es) /\ es[i].key = k
    BY <1>1, <1>3 DEF KeysOf, Find
  <2>2. Without(es, k) = t
    BY <1>3 DEF Without
  <2> HIDE DEF i
  <2>3. t \in Seq(S)
    BY <2>1, RemoveAtFacts, Zenon
  <2>4. PICK f : Thins(t, es, f) /\ \A j \in 1..Len(t) : f[j] # i
    <3>1. \E f : /\ Thins(RemoveAt(es, i), es, f)
                 /\ \A j \in 1..Len(RemoveAt(es, i)) : f[j] # i
                 /\ \A p \in 1..Len(es) :
                      p # i => \E j \in 1..Len(RemoveAt(es, i)) : f[j] = p
      BY <2>1, RemoveThins
    <3> QED
      BY <3>1, Zenon
  <2> HIDE DEF t
  <2>5. ASSUME NEW j \in 1..Len(t) PROVE t[j].key # k
    <3>1. f[j] \in 1..Len(es) /\ t[j] = es[f[j]] /\ f[j] # i
      BY <2>4 DEF Thins
    <3>2. f[j] \in Nat /\ i \in Nat /\ DOMAIN r \subseteq Nat
      BY <1>1, <2>1, <3>1
    <3>3. es[f[j]].key # es[i].key
      BY <1>1, <2>1, <3>1, <3>2, KeysOnce, Zenon
    <3> QED
      BY <2>1, <3>1, <3>3, SMTT(30)
  <2>6. /\ t \in Seq(S) /\ \E g : Thins(t, es, g)
        /\ \A j \in 1..Len(t) : t[j].key # k
    BY <2>3, <2>4, <2>5, Zenon
  <2> QED
    BY <1>3, <2>1, <2>2, <2>6, Zenon DEF i, t
<1> QED
  BY <1>2, <1>3, Zenon

\* A key is taken out of the history of uses where it is, if it is there.
LEMMA RemoveFirstFacts ==
  ASSUME NEW R, NEW r \in Seq(R), Distinct(r), NEW k
  PROVE  /\ RemoveFirst(r, k) \in Seq(R)
         /\ \A j \in 1..Len(RemoveFirst(r, k)) : RemoveFirst(r, k)[j] # k
         /\ \E g : /\ Thins(RemoveFirst(r, k), r, g)
                   /\ \A p \in 1..Len(r) :
                        r[p] # k => \E j \in 1..Len(RemoveFirst(r, k)) : g[j] = p
<1>1. DOMAIN r = 1..Len(r)
  OBVIOUS
<1>2. CASE \A j \in 1..Len(r) : r[j] # k
  <2>1. RemoveFirst(r, k) = r
    BY <1>2 DEF RemoveFirst
  <2> DEFINE g == [j \in 1..Len(r) |-> j]
  <2>2. Thins(r, r, g) /\ \A p \in 1..Len(r) : g[p] = p
    BY DEF Thins
  <2> HIDE DEF g
  <2> QED
    BY <1>2, <2>1, <2>2, Zenon
<1>3. CASE \E j \in 1..Len(r) : r[j] = k
  <2>1. PICK i \in 1..Len(r) : r[i] = k
    BY <1>3
  <2> DEFINE t == RemoveAt(r, i)
             I == {j \in 1..Len(r) : r[j] = k}
  <2>2. I = {i}
    BY <1>1, <2>1 DEF Distinct
  <2>3. Min(I) = i /\ I # {}
    BY <2>2 DEF Min
  <2>4. RemoveFirst(r, k) = t
    BY <1>3, <2>3 DEF RemoveFirst, SelectInSeq
  <2>5. t \in Seq(R)
    BY RemoveAtFacts, Zenon
  <2>6. PICK g : /\ Thins(t, r, g)
                 /\ \A j \in 1..Len(t) : g[j] # i
                 /\ \A p \in 1..Len(r) : p # i => \E j \in 1..Len(t) : g[j] = p
    BY RemoveThins
  <2> HIDE DEF t, I
  <2>7. ASSUME NEW j \in 1..Len(t) PROVE t[j] # k
    <3>1. g[j] \in 1..Len(r) /\ t[j] = r[g[j]] /\ g[j] # i
      BY <2>6 DEF Thins
    <3> QED
      BY <1>1, <2>1, <3>1, Zenon DEF Distinct
  <2>8. \A p \in 1..Len(r) : r[p] # k => \E j \in 1..Len(t) : g[j] = p
    BY <2>1, <2>6, Zenon
  <2> QED
    BY <2>4, <2>5, <2>6, <2>7, <2>8, Zenon
<1> QED
  BY <1>2, <1>3, Zenon

\* A use: what is left of the map without the key, then the key's entry; what
\* is left of the history without the key, then the key.
LEMMA UseOrder ==
  ASSUME NEW es \in Seq(EntryType), NEW r \in Seq(Keys), Distinct(r), Ordered(es, r),
         NEW k \in Keys, NEW e \in EntryType, e.key = k,
         NEW left \in Seq(EntryType), NEW f, Thins(left, es, f),
         \A j \in 1..Len(left) : left[j].key # k
  PROVE  /\ Append(RemoveFirst(r, k), k) \in Seq(Keys)
         /\ Distinct(Append(RemoveFirst(r, k), k))
         /\ Ordered(Append(left, e), Append(RemoveFirst(r, k), k))
<1> DEFINE t == RemoveFirst(r, k)
           u == Append(t, k)
           es2 == Append(left, e)
<1>1. /\ t \in Seq(Keys) /\ \A j \in 1..Len(t) : t[j] # k
      /\ \E g : /\ Thins(t, r, g)
                /\ \A p \in 1..Len(r) : r[p] # k => \E j \in 1..Len(t) : g[j] = p
  BY RemoveFirstFacts
<1>2. PICK g : /\ Thins(t, r, g)
               /\ \A p \in 1..Len(r) : r[p] # k => \E j \in 1..Len(t) : g[j] = p
  BY <1>1, Zenon
<1> HIDE DEF t
<1>3. /\ u \in Seq(Keys) /\ DOMAIN u = 1..(Len(t) + 1) /\ Len(t) \in Nat
      /\ u[Len(t) + 1] = k /\ \A j \in 1..Len(t) : u[j] = t[j]
  BY <1>1
<1>4. /\ es2 \in Seq(EntryType) /\ DOMAIN es2 = 1..(Len(left) + 1) /\ Len(left) \in Nat
      /\ es2[Len(left) + 1] = e /\ \A j \in 1..Len(left) : es2[j] = left[j]
  OBVIOUS
<1>5. DOMAIN es = 1..Len(es) /\ DOMAIN r = 1..Len(r) /\ Len(es) \in Nat /\ Len(r) \in Nat
  OBVIOUS
<1> HIDE DEF u, es2
<1>6. /\ \A j \in 1..Len(t) : g[j] \in 1..Len(r) /\ t[j] = r[g[j]]
      /\ \A i, j \in 1..Len(t) : i < j <=> g[i] < g[j]
  BY <1>2, Zenon DEF Thins
<1>7. /\ \A j \in 1..Len(left) : f[j] \in 1..Len(es) /\ left[j] = es[f[j]]
      /\ \A i, j \in 1..Len(left) : i < j <=> f[i] < f[j]
  BY Zenon DEF Thins
<1>8. Distinct(u)
  <2> SUFFICES ASSUME NEW a \in DOMAIN u, NEW b \in DOMAIN u, u[a] = u[b] PROVE a = b
    BY DEF Distinct
  <2>1. CASE a \in 1..Len(t) /\ b \in 1..Len(t)
    <3>1. r[g[a]] = r[g[b]] /\ g[a] \in DOMAIN r /\ g[b] \in DOMAIN r
      BY <1>3, <1>5, <1>6, <2>1, Zenon
    <3>2. g[a] = g[b]
      BY <3>1 DEF Distinct
    <3>3. ~(g[a] < g[b]) /\ ~(g[b] < g[a])
      BY <1>5, <3>1, <3>2, SMTT(30)
    <3>4. ~(a < b) /\ ~(b < a)
      BY <1>6, <2>1, <3>3, Zenon
    <3> QED
      BY <1>3, <2>1, <3>4, SMTT(30)
  <2>2. ASSUME NEW x \in DOMAIN u PROVE u[x] # k <=> x \in 1..Len(t)
    <3>1. x \in 1..Len(t) \/ x = Len(t) + 1
      BY <1>3
    <3>2. Len(t) + 1 \notin 1..Len(t)
      BY <1>3
    <3> QED
      BY <1>1, <1>3, <3>1, <3>2, Zenon
  <2>3. a \in 1..Len(t) <=> b \in 1..Len(t)
    BY <2>2, Zenon
  <2>4. CASE a \notin 1..Len(t) /\ b \notin 1..Len(t)
    BY <1>3, <2>4
  <2> QED
    BY <2>1, <2>3, <2>4, Zenon
<1>9. KeysOf(es2) \subseteq ToSet(u)
  <2> SUFFICES ASSUME NEW i \in DOMAIN es2 PROVE \E a \in DOMAIN u : u[a] = es2[i].key
    BY DEF KeysOf, ToSet
  <2>1. CASE i \in 1..Len(left)
    <3>1. es2[i].key = es[f[i]].key /\ f[i] \in DOMAIN es /\ es2[i].key # k
      BY <1>4, <1>5, <1>7, <2>1, Zenon
    <3>2. PICK p \in DOMAIN r : r[p] = es2[i].key
      <4>1. es[f[i]].key \in ToSet(r)
        BY <3>1 DEF Ordered, KeysOf
      <4> QED
        BY <3>1, <4>1, Zenon DEF ToSet
    <3>3. PICK j \in 1..Len(t) : g[j] = p
      BY <1>2, <1>5, <3>1, <3>2, Zenon
    <3>4. j \in DOMAIN u /\ u[j] = r[p]
      BY <1>3, <1>6, <3>3, SMTT(30)
    <3> QED
      BY <3>2, <3>4, Zenon
  <2>2. CASE i = Len(left) + 1
    BY <1>3, <1>4, <2>2, SMTT(40)
  <2> QED
    BY <1>4, <2>1, <2>2
<1>10. ASSUME NEW i \in DOMAIN es2, NEW j \in DOMAIN es2, NEW a \in DOMAIN u, NEW b \in DOMAIN u,
              u[a] = es2[i].key, u[b] = es2[j].key
       PROVE  i < j <=> a < b
  <2>1. ASSUME NEW x \in DOMAIN es2, NEW y \in DOMAIN u, u[y] = es2[x].key
        PROVE  \/ x = Len(left) + 1 /\ y = Len(t) + 1
               \/ /\ x \in 1..Len(left) /\ y \in 1..Len(t)
                  /\ f[x] \in DOMAIN es /\ g[y] \in DOMAIN r /\ r[g[y]] = es[f[x]].key
    <3>1. x \in 1..Len(left) \/ x = Len(left) + 1
      BY <1>4
    <3>2. y \in 1..Len(t) \/ y = Len(t) + 1
      BY <1>3
    <3>3. CASE x = Len(left) + 1
      BY <1>1, <1>3, <1>4, <2>1, <3>2, <3>3, Zenon
    <3>4. CASE x \in 1..Len(left)
      <4>1. es2[x] = es[f[x]] /\ f[x] \in DOMAIN es /\ es2[x].key # k
        BY <1>4, <1>5, <1>7, <3>4, Zenon
      <4>2. y \in 1..Len(t)
        BY <1>3, <2>1, <3>2, <4>1, Zenon
      <4> QED
        BY <1>3, <1>5, <1>6, <2>1, <3>4, <4>1, <4>2, Zenon
    <3> QED
      BY <3>1, <3>3, <3>4, Zenon
  <2>2. CASE i = Len(left) + 1 /\ a = Len(t) + 1
    BY <1>3, <1>4, <2>2
  <2>3. CASE j = Len(left) + 1 /\ b = Len(t) + 1
    <3>1. i < j \/ (i = Len(left) + 1 /\ a = Len(t) + 1)
      BY <1>4, <1>10, <2>1, <2>3, SMTT(30)
    <3>2. CASE i # Len(left) + 1
      <4>1. i \in 1..Len(left) /\ a \in 1..Len(t)
        BY <1>10, <2>1, <3>2, Zenon
      <4> QED
        BY <1>3, <1>4, <2>3, <4>1, SMTT(30)
    <3> QED
      BY <1>10, <2>1, <2>2, <3>2
  <2>4. CASE i # Len(left) + 1 /\ j # Len(left) + 1
    <3>1. /\ i \in 1..Len(left) /\ a \in 1..Len(t)
          /\ f[i] \in DOMAIN es /\ g[a] \in DOMAIN r /\ r[g[a]] = es[f[i]].key
      BY <1>10, <2>1, <2>4, Zenon
    <3>2. /\ j \in 1..Len(left) /\ b \in 1..Len(t)
          /\ f[j] \in DOMAIN es /\ g[b] \in DOMAIN r /\ r[g[b]] = es[f[j]].key
      BY <1>10, <2>1, <2>4, Zenon
    <3>3. f[i] < f[j] <=> g[a] < g[b]
      BY <3>1, <3>2, Zenon DEF Ordered
    <3> QED
      BY <1>6, <1>7, <3>1, <3>2, <3>3, Zenon
  <2> QED
    BY <1>10, <2>1, <2>2, <2>3, <2>4, SMTT(30)
<1>11. Ordered(es2, u)
  BY <1>9, <1>10, Zenon DEF Ordered
<1> QED
  BY <1>3, <1>8, <1>11, Zenon DEF t, u, es2
-----------------------------------------------------------------------------
(* The steps                                                               *)

\* Entries have a cost and a key.
LEMMA EntryFacts == \A e \in EntryType : e.cost \in Nat /\ e.key \in Keys
BY DEF EntryType

\* The entry that put makes, and the cost it is accounted with.
LEMMA NewEntryFacts ==
  ASSUME NEW k \in Keys, NEW m \in Messages, now \in Nat
  PROVE  /\ Entry(k, m) \in EntryType /\ Entry(k, m).key = k
         /\ Entry(k, m).cost = entry_cost(k, m) /\ entry_cost(k, m) \in Nat
<1>1. NameLen[k] \in Nat /\ WireLen[m] \in Nat /\ Ttl[m] \in Nat /\ ENTRY_OVERHEAD \in Nat
  BY CacheAssumption
<1>2. entry_cost(k, m) \in Nat /\ now + Ttl[m] \in Nat
  BY <1>1 DEF entry_cost
<1> QED
  BY <1>2 DEF Entry, EntryType

\* Dropping from the front of a map with a new entry keeps the new entry.
LEMMA SuffixOfAppend ==
  ASSUME NEW S, NEW s \in Seq(S), NEW e \in S, NEW n \in 0..Len(s)
  PROVE  Suffix(Append(s, e), n) = Append(Suffix(s, n), e)
<1> DEFINE a == Suffix(Append(s, e), n)
           b == Append(Suffix(s, n), e)
<1>1. /\ Append(s, e) \in Seq(S) /\ Len(Append(s, e)) = Len(s) + 1 /\ Len(s) \in Nat
      /\ n \in 0..Len(Append(s, e))
  OBVIOUS
<1>2. /\ a \in Seq(S) /\ Len(a) = Len(s) + 1 - n
      /\ \A j \in 1..(Len(s) + 1 - n) : a[j] = Append(s, e)[n + j]
  <2> DEFINE w == Append(s, e)
  <2>1. w \in Seq(S) /\ n \in 0..Len(w) /\ Len(w) = Len(s) + 1
    BY <1>1
  <2> HIDE DEF w
  <2>2. /\ Suffix(w, n) \in Seq(S) /\ Len(Suffix(w, n)) = Len(w) - n
        /\ \A j \in 1..(Len(w) - n) : Suffix(w, n)[j] = w[n + j]
    BY <2>1, SuffixFacts, Zenon
  <2>3. /\ Len(Suffix(w, n)) = Len(s) + 1 - n
        /\ \A j \in 1..(Len(s) + 1 - n) : Suffix(w, n)[j] = w[n + j]
    BY <2>1, <2>2
  <2> QED
    BY <2>2, <2>3, Zenon DEF w
<1>3. /\ Suffix(s, n) \in Seq(S) /\ Len(Suffix(s, n)) = Len(s) - n
      /\ \A j \in 1..(Len(s) - n) : Suffix(s, n)[j] = s[n + j]
  BY SuffixFacts, Zenon
<1> DEFINE c == Suffix(s, n)
<1> HIDE DEF a, c
<1>4. b \in Seq(S) /\ Len(b) = Len(s) - n + 1
  BY <1>3 DEF c
<1>5. ASSUME NEW j \in 1..(Len(s) + 1 - n) PROVE a[j] = b[j]
  <2>1. CASE j = Len(s) + 1 - n
    <3>1. n + j = Len(s) + 1 /\ j = Len(c) + 1
      BY <1>1, <1>3, <2>1, SMTT(30) DEF c
    <3>2. Append(s, e)[n + j] = e /\ Append(c, e)[j] = e
      BY <1>3, <3>1 DEF c
    <3> QED
      BY <1>2, <3>2, Zenon DEF c
  <2>2. CASE j # Len(s) + 1 - n
    <3>1. j \in 1..(Len(s) - n) /\ n + j \in 1..Len(s) /\ j \in 1..Len(c)
      BY <1>1, <1>3, <2>2, SMTT(30) DEF c
    <3>2. Append(s, e)[n + j] = s[n + j]
      BY <3>1
    <3>3. Append(c, e)[j] = c[j]
      BY <1>3, <3>1 DEF c
    <3>4. c[j] = s[n + j]
      BY <1>3, <3>1, Zenon DEF c
    <3> QED
      BY <1>2, <3>2, <3>3, <3>4, Zenon DEF c
  <2> QED
    BY <2>1, <2>2, Zenon
<1> HIDE DEF b
<1>6. a = b
  <2>1. Len(a) = Len(b) /\ Len(a) \in Nat /\ 1..Len(a) = 1..(Len(s) + 1 - n)
    BY <1>1, <1>2, <1>4
  <2>2. \A j \in 1..Len(a) : a[j] = b[j]
    BY <1>5, <2>1, Zenon
  <2> QED
    BY <1>2, <1>4, <2>1, <2>2, SeqEqual, Zenon
<1> QED
  BY <1>6 DEF a, b

\* The eviction loop of put stops within the budget and before the entry that
\* was just put, which fits the budget on its own.
LEMMA TrimFacts ==
  ASSUME NEW left \in Seq(EntryType), NEW e \in EntryType, e.cost <= MaxBytes
  PROVE  \E n \in 0..Len(left) :
           LET full == Append(left, e)
           IN  /\ Trim(full, TotalCost(full)) = Append(Suffix(left, n), e)
               /\ TotalCost(Append(Suffix(left, n), e)) <= MaxBytes
<1> DEFINE full == Append(left, e)
           used == TotalCost(full)
           N == Len(left) + 1
           Over(n) == used - (TotalCost(full) - TotalCost(Suffix(full, n))) > MaxBytes
           Done(n) == (~Over(n) \/ n = Len(full)) /\ \A i \in 0..(n - 1) : Over(i)
           c == CHOOSE n \in 0..Len(full) : Done(n)
<1>0. Trim(full, used) = Suffix(full, c)
  BY DEF Trim
<1>1. full \in Seq(EntryType) /\ Len(full) = N /\ N \in Nat /\ Len(left) \in 0..(N - 1)
  OBVIOUS
<1>2. \A x \in EntryType : x.cost \in Nat
  BY EntryFacts, Zenon
<1>3. MaxBytes \in Nat
  BY CacheAssumption
<1>4. Suffix(full, Len(left)) = Append(<<>>, e)
  <2>1. Suffix(left, Len(left)) = <<>>
    <3>1. Len(left) \in 0..Len(left)
      OBVIOUS
    <3>2. /\ Suffix(left, Len(left)) \in Seq(EntryType)
          /\ Len(Suffix(left, Len(left))) = Len(left) - Len(left)
      BY <3>1, SuffixFacts
    <3> QED
      BY <3>2
  <2>2. Len(left) \in 0..Len(left)
    OBVIOUS
  <2>3. Suffix(Append(left, e), Len(left)) = Append(Suffix(left, Len(left)), e)
    BY <2>2, SuffixOfAppend, Zenon
  <2> QED
    BY <2>1, <2>3, Zenon DEF full
<1> HIDE DEF full, N
<1>5. \A n \in 0..N : Over(n) <=> TotalCost(Suffix(full, n)) > MaxBytes
  <2> SUFFICES ASSUME NEW n \in 0..N PROVE Over(n) <=> TotalCost(Suffix(full, n)) > MaxBytes
    OBVIOUS
  <2>1. Suffix(full, n) \in Seq(EntryType)
    BY <1>1, SuffixFacts, Zenon
  <2>2. TotalCost(full) \in Nat
    BY <1>1, <1>2, SeqSums, Zenon
  <2>3. TotalCost(Suffix(full, n)) \in Nat
    BY <1>2, <2>1, SeqSums, Zenon
  <2> QED
    BY <1>3, <2>2, <2>3
<1>6. ~Over(Len(left))
  <2>1. <<>> \in Seq(EntryType)
    OBVIOUS
  <2>2. TotalCost(Append(<<>>, e)) = TotalCost(<<>>) + e.cost
    BY <1>2, <2>1, AppendCost, Zenon
  <2>3. TotalCost(Suffix(full, Len(left))) <= MaxBytes
    BY <1>2, <1>4, <2>2, EmptyCost
  <2>4. e.cost \in Nat
    BY <1>2
  <2>5. TotalCost(Suffix(full, Len(left))) = e.cost
    BY <1>4, <2>2, <2>4, EmptyCost, SMTT(30)
  <2>6. ~(e.cost > MaxBytes) /\ Len(left) \in 0..N
    BY <1>1, <1>3, <2>4 DEF N
  <2> QED
    BY <1>5, <2>5, <2>6, Zenon
<1>7. \E n \in 0..N : Done(n)
  <2> DEFINE T == {n \in 0..N : ~Over(n) \/ n = N}
  <2> HIDE DEF Over
  <2>1. T \in SUBSET Nat /\ N \in T
    BY <1>1
  <2>2. PICK n \in T : \A m \in T : n <= m
    BY <2>1, LeastNumber, Zenon
  <2>3. \A i \in 0..(n - 1) : i \in 0..N /\ ~(n <= i) /\ i # N
    BY <1>1
  <2>4. \A i \in 0..(n - 1) : Over(i)
    BY <2>2, <2>3
  <2> QED
    BY <1>1, <2>4, SMTT(30)
<1>8. c \in 0..N /\ Done(c)
  <2> HIDE DEF Done
  <2> QED
    BY <1>1, <1>7, Zenon
<1> HIDE DEF c
<1>9. c \in 0..Len(left)
  <2>1. \A i \in 0..(c - 1) : Over(i)
    BY <1>8
  <2>2. Len(left) \notin 0..(c - 1)
    BY <1>6, <2>1, Zenon
  <2> QED
    BY <1>1, <1>8, <2>2, SMTT(30)
<1>10. Suffix(full, c) = Append(Suffix(left, c), e)
  BY <1>9, SuffixOfAppend DEF full
<1>11. TotalCost(Suffix(full, c)) <= MaxBytes
  <2>1. ~Over(c)
    <3>1. c # Len(full)
      BY <1>1, <1>9 DEF N
    <3> HIDE DEF Over
    <3> QED
      BY <1>8, <3>1, Zenon
  <2>2. ~(TotalCost(Suffix(full, c)) > MaxBytes)
    BY <1>5, <1>8, <2>1, Zenon
  <2>3. TotalCost(Suffix(full, c)) \in Nat
    <3>1. Suffix(full, c) \in Seq(EntryType)
      BY <1>1, <1>8, SuffixFacts, Zenon
    <3> QED
      BY <1>2, <3>1, SeqSums, Zenon
  <2> QED
    BY <1>3, <2>2, <2>3, SMTT(30)
<1> QED
  BY <1>0, <1>9, <1>10, <1>11, Zenon DEF full

\* A step that leaves the map and the history of uses alone.
LEMMA QuietKeeps ==
  ASSUME CacheInv, UNCHANGED <<map, recency>>, now' \in Nat
  PROVE  CacheInv'
BY DEF CacheInv, map, UsedExact

\* What a use does to the map: it leaves out entries, the one of the key among
\* them, and appends e; the total is exact again, and within the budget.
UsedLast(k, e) ==
  /\ k \in Keys /\ e \in EntryType /\ e.key = k /\ Touch(k) /\ now' \in Nat
  /\ \E left \in Seq(EntryType) :
       /\ \E f : Thins(left, entries, f)
       /\ \A j \in 1..Len(left) : left[j].key # k
       /\ entries' = Append(left, e)
  /\ used_bytes' = TotalCost(entries') /\ used_bytes' <= MaxBytes

\* get finds the key: its entry moves, the total stays.
LEMMA HitUses ==
  ASSUME CacheInv, NEW c \in Callers, Hit(c)
  PROVE  /\ UsedLast(looking[c], entries[Find(entries, looking[c])])
         /\ Find(entries, looking[c]) \in 1..Len(entries)
<1> DEFINE k == looking[c]
           i == Find(entries, k)
           left == Without(entries, k)
<1>1. /\ entries \in Seq(EntryType) /\ recency \in Seq(Keys) /\ Ordered(entries, recency)
      /\ UsedExact /\ now \in Nat
  BY DEF CacheInv
<1>2. /\ k \in KeysOf(entries) /\ entries' = Append(left, entries[i]) /\ Touch(k)
      /\ used_bytes' = used_bytes /\ now' = now
  BY Zenon DEF Hit
<1>3. /\ left \in Seq(EntryType)
      /\ \E f : Thins(left, entries, f)
      /\ \A j \in 1..Len(left) : left[j].key # k
      /\ k \in KeysOf(entries) => /\ i \in 1..Len(entries) /\ entries[i].key = k
                                  /\ left = RemoveAt(entries, i)
  BY <1>1, WithoutFacts, SMTT(40)
<1> HIDE DEF k, i, left
<1>4. entries[i] \in EntryType /\ entries[i].cost \in Nat /\ k \in Keys
  BY <1>1, <1>2, <1>3, EntryFacts, SMTT(30)
<1>5. used_bytes' = TotalCost(entries')
  <2>1. \A e \in EntryType : e.cost \in Nat
    BY EntryFacts
  <2>2. TotalCost(left) = TotalCost(entries) - entries[i].cost
    BY <1>1, <1>2, <1>3, <2>1, RemoveCost, Zenon
  <2>3. TotalCost(entries') = TotalCost(left) + entries[i].cost
    BY <1>2, <1>3, <1>4, <2>1, AppendCost, Zenon
  <2>4. TotalCost(entries) \in Nat
    BY <1>1, <2>1, SeqSums, Zenon
  <2> QED
    BY <1>1, <1>2, <1>4, <2>2, <2>3, <2>4 DEF UsedExact
<1>6. used_bytes' <= MaxBytes
  BY <1>1, <1>2, Zenon DEF UsedExact
<1>7. UsedLast(k, entries[i])
  BY <1>1, <1>2, <1>3, <1>4, <1>5, <1>6, Zenon DEF UsedLast
<1> QED
  BY <1>2, <1>3, <1>7, Zenon DEF k, i

\* put stores the message, whatever had to go for it.
LEMMA StoreUses ==
  ASSUME CacheInv, NEW k \in Keys, NEW m \in Messages,
         NEW refused \in 0..Len(Without(entries, k)), PutStored(k, m, refused)
  PROVE  UsedLast(k, Entry(k, m))
<1> DEFINE w == Without(entries, k)
           left == Suffix(w, refused)
           e == Entry(k, m)
           full == Append(left, e)
           used == UsedAfter(left) + entry_cost(k, m)
<1>1. /\ entries \in Seq(EntryType) /\ recency \in Seq(Keys) /\ Ordered(entries, recency)
      /\ used_bytes = TotalCost(entries) /\ now \in Nat
  BY DEF CacheInv, UsedExact
<1>2. /\ entry_cost(k, m) <= MaxBytes /\ entries' = Trim(full, used)
      /\ used_bytes' = used - (TotalCost(full) - TotalCost(entries'))
      /\ Touch(k) /\ now' = now
  BY DEF PutStored, Reserved
<1>3. /\ e \in EntryType /\ e.key = k /\ e.cost = entry_cost(k, m)
      /\ entry_cost(k, m) \in Nat
  BY <1>1, NewEntryFacts
<1>4. w \in Seq(EntryType) /\ (\E f : Thins(w, entries, f)) /\ \A j \in 1..Len(w) : w[j].key # k
  <2>1. /\ Without(entries, k) \in Seq(EntryType)
        /\ \E f : Thins(Without(entries, k), entries, f)
        /\ \A j \in 1..Len(Without(entries, k)) : Without(entries, k)[j].key # k
        /\ k \in KeysOf(entries) => /\ Find(entries, k) \in 1..Len(entries)
                                    /\ entries[Find(entries, k)].key = k
                                    /\ Without(entries, k) = RemoveAt(entries, Find(entries, k))
    BY <1>1, WithoutFacts, SMTT(40)
  <2> QED
    BY <2>1, Zenon
<1>5. used = UsedAfter(left) + e.cost
  BY <1>3
<1> HIDE DEF w, e
<1>6. left \in Seq(EntryType)
  BY <1>4, SuffixFacts, Zenon DEF w
<1>7. \A x \in EntryType : x.cost \in Nat
  BY EntryFacts
<1>8. used = TotalCost(full) /\ TotalCost(full) \in Nat
  <2> HIDE DEF left
  <2>1. TotalCost(entries) \in Nat
    BY <1>1, <1>7, SeqSums, Zenon
  <2>2. TotalCost(left) \in Nat
    BY <1>6, <1>7, SeqSums, Zenon
  <2>3. TotalCost(full) = TotalCost(left) + e.cost
    BY <1>3, <1>6, <1>7, AppendCost, Zenon
  <2>4. e.cost \in Nat
    BY <1>3
  <2> HIDE DEF full
  <2> QED
    BY <1>1, <1>5, <2>1, <2>2, <2>3, <2>4, SMTT(30) DEF UsedAfter
<1> HIDE DEF left, used
<1>9. PICK n \in 0..Len(left) :
        /\ Trim(full, TotalCost(full)) = Append(Suffix(left, n), e)
        /\ TotalCost(Append(Suffix(left, n), e)) <= MaxBytes
  BY <1>2, <1>3, <1>6, TrimFacts, Zenon
<1> DEFINE kept == Suffix(left, n)
<1>10. kept \in Seq(EntryType)
  BY <1>6, SuffixFacts, Zenon
<1>11. entries' = Append(kept, e)
  BY <1>2, <1>8, <1>9
<1>12. (\E f : Thins(kept, entries, f)) /\ \A j \in 1..Len(kept) : kept[j].key # k
  <2>1. PICK f1 : Thins(w, entries, f1)
    BY <1>4
  <2>2. PICK f2 : Thins(left, w, f2)
    BY <1>4, SuffixThins, Zenon DEF left, w
  <2>3. PICK f3 : Thins(kept, left, f3)
    BY <1>6, SuffixThins, Zenon
  <2>4. Len(entries) \in Nat /\ Len(w) \in Nat /\ Len(left) \in Nat
    BY <1>1, <1>4, <1>6
  <2> HIDE DEF kept
  <2>5. Len(kept) \in Nat
    BY <1>10
  <2>6. PICK h : Thins(kept, w, h)
    BY <2>2, <2>3, <2>4, <2>5, ThinsTwice, Zenon
  <2>7. \E f : Thins(kept, entries, f)
    BY <2>1, <2>4, <2>5, <2>6, ThinsTwice, Zenon
  <2>8. \A j \in 1..Len(kept) : h[j] \in 1..Len(w) /\ kept[j] = w[h[j]]
    BY <2>6, Zenon DEF Thins
  <2> QED
    BY <1>4, <2>7, <2>8, Zenon
<1> HIDE DEF kept, full
<1>14. used_bytes' = TotalCost(entries')
  <2>1. TotalCost(Append(kept, e)) \in Nat
    <3>1. Append(kept, e) \in Seq(EntryType)
      BY <1>3, <1>10
    <3> QED
      BY <1>7, <3>1, SeqSums, Zenon
  <2>2. TotalCost(entries') \in Nat /\ used \in Nat /\ TotalCost(full) = used
    BY <1>8, <1>11, <2>1, Zenon
  <2>3. used_bytes' = used - (used - TotalCost(entries'))
    BY <1>2, <2>2, Zenon
  <2> QED
    BY <2>2, <2>3
<1>15. used_bytes' <= MaxBytes
  BY <1>9, <1>11, <1>14, Zenon DEF kept
<1> QED
  BY <1>1, <1>2, <1>3, <1>10, <1>11, <1>12, <1>14, <1>15, Zenon DEF UsedLast, e

\* A use keeps the invariant.
LEMMA UseKeeps ==
  ASSUME CacheInv, NEW k, NEW e, UsedLast(k, e)
  PROVE  CacheInv' /\ entries' # <<>> /\ Last(entries').key = Last(recency')
<1>0. /\ k \in Keys /\ e \in EntryType /\ e.key = k /\ Touch(k) /\ now' \in Nat
      /\ used_bytes' = TotalCost(entries') /\ used_bytes' <= MaxBytes
  BY DEF UsedLast
<1> PICK left \in Seq(EntryType) : /\ \E f : Thins(left, entries, f)
                                   /\ \A j \in 1..Len(left) : left[j].key # k
                                   /\ entries' = Append(left, e)
  BY DEF UsedLast
<1> PICK f : Thins(left, entries, f)
  OBVIOUS
<1>1. entries \in Seq(EntryType) /\ recency \in Seq(Keys) /\ Distinct(recency)
      /\ Ordered(entries, recency)
  BY Zenon DEF CacheInv
<1>2. /\ Append(RemoveFirst(recency, k), k) \in Seq(Keys)
      /\ Distinct(Append(RemoveFirst(recency, k), k))
      /\ Ordered(Append(left, e), Append(RemoveFirst(recency, k), k))
  BY <1>0, <1>1, UseOrder, Zenon
<1>3. recency' \in Seq(Keys) /\ Distinct(recency') /\ Ordered(entries', recency')
  BY <1>0, <1>2, Zenon DEF Touch
<1>4. UsedExact'
  BY <1>0 DEF UsedExact
<1>5. entries' \in Seq(EntryType) /\ entries' # <<>> /\ Last(entries') = e
  BY <1>0 DEF Last
<1>6. Last(recency') = k
  <2>1. RemoveFirst(recency, k) \in Seq(Keys)
    BY <1>1, RemoveFirstFacts, Zenon
  <2> DEFINE t == RemoveFirst(recency, k)
  <2>2. recency' = Append(t, k)
    BY <1>0 DEF Touch
  <2> HIDE DEF t
  <2> QED
    BY <1>0, <2>1, <2>2 DEF t, Last
<1>7. Distinct(recency)' /\ Ordered(entries, recency)'
  BY <1>3, Zenon DEF Distinct, Ordered, KeysOf, ToSet
<1> QED
  BY <1>0, <1>3, <1>4, <1>5, <1>6, <1>7, Zenon DEF CacheInv

\* The allocator refuses even the empty map: an empty map is left.
LEMMA RefusedKeeps ==
  ASSUME CacheInv, NEW k \in Keys, NEW m \in Messages, PutRefused(k, m)
  PROVE  CacheInv' /\ recency' = recency
<1>1. entries \in Seq(EntryType) /\ used_bytes = TotalCost(entries) /\ MaxBytes \in Nat
  BY CacheAssumption DEF CacheInv, UsedExact
<1>2. /\ entries' = <<>> /\ recency' = recency /\ now' = now
      /\ used_bytes' = used_bytes - (TotalCost(entries) - TotalCost(<<>>))
  BY DEF PutRefused, UsedAfter
<1>3. TotalCost(entries) \in Nat
  BY <1>1, EntryFacts, SeqSums, Zenon
<1>4. UsedExact'
  BY <1>1, <1>2, <1>3, EmptyCost, SMTT(30) DEF UsedExact
<1>5. Ordered(entries, recency)'
  BY <1>2 DEF Ordered, KeysOf
<1> QED
  BY <1>2, <1>4, <1>5 DEF CacheInv, Distinct
-----------------------------------------------------------------------------
(* Theorems                                                                *)

\* The cache starts empty.
LEMMA CacheInitial == CacheInit => CacheInv
<1> SUFFICES ASSUME CacheInit PROVE CacheInv
  OBVIOUS
<1>1. UsedExact
  BY EmptyCost, CacheAssumption DEF CacheInit, UsedExact
<1>2. Ordered(entries, recency) /\ Distinct(recency)
  BY DEF CacheInit, Ordered, Distinct, KeysOf
<1> QED
  BY <1>1, <1>2 DEF CacheInit, CacheInv

Kept == recency' # recency => entries' # <<>> /\ Last(entries').key = Last(recency')

\* put, whichever way it ends.
LEMMA PutKeeps ==
  ASSUME CacheInv, NEW k \in Keys, NEW m \in Messages, Put(k, m)
  PROVE  CacheInv' /\ Kept
<1>1. CASE PutTooLarge(k, m)
  <2>1. UNCHANGED <<map, recency>> /\ now' \in Nat
    BY <1>1 DEF PutTooLarge, cacheVars, CacheInv
  <2> QED
    BY <2>1, QuietKeeps DEF Kept
<1>2. ASSUME NEW refused \in 0..Len(Without(entries, k)), PutStored(k, m, refused)
      PROVE  CacheInv' /\ Kept
  BY <1>2, StoreUses, UseKeeps, Zenon DEF Kept
<1>3. CASE PutRefused(k, m)
  BY <1>3, RefusedKeeps, Zenon DEF Kept
<1> QED
  BY <1>1, <1>2, <1>3, Zenon DEF Put

\* Every operation of the cache keeps the invariant, and puts at the tail of
\* the map what it notes as used.
LEMMA CacheInductive == CacheInv /\ [CacheNext]_cacheVars => CacheInv' /\ Kept
<1> SUFFICES ASSUME CacheInv, [CacheNext]_cacheVars PROVE CacheInv' /\ Kept
  OBVIOUS
<1>1. now \in Nat
  BY DEF CacheInv
<1>2. ASSUME NEW c \in Callers, Hit(c) PROVE CacheInv' /\ Kept
  BY <1>2, HitUses, UseKeeps, Zenon DEF Kept
<1>3. ASSUME UNCHANGED <<map, recency>>, now' \in Nat PROVE CacheInv' /\ Kept
  BY <1>3, QuietKeeps, Zenon DEF Kept
<1>4. ASSUME NEW c \in Callers, Miss(c) PROVE CacheInv' /\ Kept
  BY <1>1, <1>3, <1>4 DEF Miss
<1>5. ASSUME NEW c \in Callers, NEW k \in Keys, CountLookup(c, k) PROVE CacheInv' /\ Kept
  BY <1>1, <1>3, <1>5 DEF CountLookup
<1>6. ASSUME NEW k \in Keys, NEW m \in Messages, Put(k, m) PROVE CacheInv' /\ Kept
  BY <1>6, PutKeeps, Zenon
<1>7. CASE Elapse
  BY <1>1, <1>3, <1>7 DEF Elapse
<1>8. CASE UNCHANGED cacheVars
  BY <1>1, <1>3, <1>8 DEF cacheVars
<1> QED
  BY <1>2, <1>4, <1>5, <1>6, <1>7, <1>8, Zenon DEF CacheNext

\* The invariant of the cache, for callers that interleave in any way.
THEOREM CacheInvariant == CacheSpec => []CacheInv
<1>1. CacheInv /\ [CacheNext]_cacheVars => CacheInv'
  BY CacheInductive
<1> QED
  BY <1>1, CacheInitial, PTL DEF CacheSpec

\* used_bytes is the sum of the costs of the entries, and within the budget.
THEOREM UsedExactAlways == CacheSpec => []UsedExact
<1>1. CacheInv => UsedExact
  BY DEF CacheInv
<1> QED
  BY <1>1, CacheInvariant, PTL

\* The map is in the order of the last uses of its keys.
THEOREM LeastRecentFirstAlways == CacheSpec => []LeastRecentFirst
<1>1. CacheInv => LeastRecentFirst
  BY DEF CacheInv, Ordered, LeastRecentFirst
<1> QED
  BY <1>1, CacheInvariant, PTL

\* A put that stores and a get that hits leave their entry at the tail, whatever
\* was evicted for it.
THEOREM PutKeptAlways == CacheSpec => PutKept
<1>1. CacheInv /\ [CacheNext]_cacheVars
      => [recency' # recency => entries' # <<>> /\ Last(entries').key = Last(recency')]_cacheVars
  BY CacheInductive DEF Kept
<1> QED
  BY <1>1, CacheInvariant, PTL DEF CacheSpec, PutKept
=============================================================================
