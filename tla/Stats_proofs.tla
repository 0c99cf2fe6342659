---------------------------- MODULE Stats_proofs ----------------------------
(***************************************************************************)
(* SnapshotExact and PicksByWeight for any number of members, any window,  *)
(* retention period, readings of the clock and latencies, and any number   *)
(* of calls.                                                               *)
(***************************************************************************)
EXTENDS Stats, FiniteSetTheorems, SequenceTheorems, WellFoundedInduction, TLAPS
-----------------------------------------------------------------------------
(* Finite sets                                                             *)

\* A nonempty set of natural numbers has a least one (used wherever a fold or a
\* loop of stats.rs and selector.rs is followed step by step).
LEMMA LeastNumber ==
  ASSUME NEW T \in SUBSET Nat, T # {}
  PROVE  \E n \in T : \A m \in T : n <= m
<1>1. PICK n \in T : \A m \in T : ~(<<m, n>> \in OpToRel(<, Nat))
  BY NatLessThanWellFounded, WFMin, Zenon
<1>2. ASSUME NEW m \in T PROVE n <= m
  <2>1. m \in Nat /\ n \in Nat
    OBVIOUS
  <2>2. ~(m < n)
    BY <1>1, <2>1, Zenon DEF OpToRel
  <2> QED
    BY <2>1, <2>2
<1> QED
  BY <1>2

\* A set with 0 and with every successor, up to a bound, of what it has.
LEMMA Steps ==
  ASSUME NEW n \in Nat, NEW T, 0 \in T,
         \A k \in 0..(n - 1) : k \in T => k + 1 \in T
  PROVE  0..n \subseteq T
<1> SUFFICES ASSUME (0..n) \ T # {} PROVE FALSE
  OBVIOUS
<1>1. PICK k \in (0..n) \ T : \A m \in (0..n) \ T : k <= m
  <2>1. (0..n) \ T \in SUBSET Nat
    OBVIOUS
  <2> QED
    BY <2>1, LeastNumber, Zenon
<1>2. k # 0 /\ k \in 0..n
  OBVIOUS
<1>3. k - 1 \in 0..(n - 1) /\ k - 1 \in 0..n /\ ~(k <= k - 1)
  BY <1>2
<1>4. k - 1 \in T
  BY <1>1, <1>3
<1>5. (k - 1) + 1 = k
  BY <1>2
<1> QED
  BY <1>1, <1>3, <1>4, <1>5

\* What holds of a finite set as soon as it holds of the set without any one of
\* its elements holds of every subset: the form of every induction over the
\* members, buckets or calls that a fold goes through.
LEMMA SubsetInduction ==
  ASSUME NEW S, IsFiniteSet(S), NEW T,
         \A s \in SUBSET S : (\A x \in s : s \ {x} \in T) => s \in T
  PROVE  SUBSET S \subseteq T
<1> DEFINE bad == {s \in SUBSET S : s \notin T}
           sizes == {Cardinality(s) : s \in bad}
<1> SUFFICES ASSUME bad # {} PROVE FALSE
  OBVIOUS
<1>1. ASSUME NEW s \in SUBSET S PROVE IsFiniteSet(s) /\ Cardinality(s) \in Nat
  BY FS_Subset, FS_CardinalityType, Zenon
<1>2. sizes \in SUBSET Nat /\ sizes # {}
  BY <1>1
<1>3. PICK n \in sizes : \A k \in sizes : n <= k
  <2> HIDE DEF sizes
  <2> QED
    BY <1>2, LeastNumber, Zenon
<1>4. PICK s \in bad : Cardinality(s) = n
  OBVIOUS
<1>5. PICK x \in s : s \ {x} \notin T
  BY <1>4, Zenon
<1>6. s \ {x} \in bad
  BY <1>5
<1>7. Cardinality(s \ {x}) = Cardinality(s) - 1
  <2>1. IsFiniteSet(s)
    BY <1>1
  <2> QED
    BY <2>1, <1>5, FS_RemoveElement, Zenon
<1>8. Cardinality(s \ {x}) \in sizes
  BY <1>6
<1>9. Cardinality(s) \in Nat
  BY <1>1
<1>10. n <= Cardinality(s \ {x})
  BY <1>3, <1>8, Zenon
<1> QED
  BY <1>4, <1>7, <1>9, <1>10
-----------------------------------------------------------------------------
(* Folds                                                                   *)

Pick(s) == CHOOSE x \in s : TRUE

\* What a nonempty set's pick is.
LEMMA PickIn ==
  ASSUME NEW s, s # {}
  PROVE  Pick(s) \in s
BY Zenon DEF Pick

IsFold(g, S, V, base, step) ==
  /\ g \in [SUBSET S -> V]
  /\ \A s \in SUBSET S :
       g[s] = IF s = {} THEN base ELSE step[<<Pick(s), g[s \ {Pick(s)}]>>]

\* A fold over a finite set, with any step, is a well-defined function (the
\* folds of stats.rs and selector.rs).
LEMMA FoldExists ==
  ASSUME NEW S, IsFiniteSet(S), NEW V, NEW base \in V, NEW step \in [S \X V -> V]
  PROVE  \E g : IsFold(g, S, V, base, step)
<1> DEFINE Level(k) == {u \in SUBSET S : Cardinality(u) <= k}
           Rec(g, u) == IF u = {} THEN base ELSE step[<<Pick(u), g[u \ {Pick(u)}]>>]
           OK(g, k) == g \in [Level(k) -> V] /\ \A u \in Level(k) : g[u] = Rec(g, u)
           n == Cardinality(S)
           T == {k \in 0..n : \E g : OK(g, k)}
<1>1. ASSUME NEW u \in SUBSET S
      PROVE  IsFiniteSet(u) /\ Cardinality(u) \in Nat /\ Cardinality(u) <= n
  BY FS_Subset, FS_CardinalityType, Zenon
<1>2. n \in Nat
  BY FS_CardinalityType, Zenon
<1>3. ASSUME NEW u \in SUBSET S, u # {}
      PROVE  /\ Pick(u) \in S /\ u \ {Pick(u)} \in SUBSET S
             /\ Cardinality(u \ {Pick(u)}) = Cardinality(u) - 1
  <2>1. Pick(u) \in u
    BY <1>3, PickIn, Zenon
  <2>2. IsFiniteSet(u)
    BY <1>1
  <2>3. Cardinality(u \ {Pick(u)}) = Cardinality(u) - 1
    BY <2>1, <2>2, FS_RemoveElement, Zenon
  <2> QED
    BY <2>1, <2>3
<1>4. 0 \in T
  <2> DEFINE g == [u \in Level(0) |-> base]
  <2>1. ASSUME NEW u \in Level(0) PROVE u = {}
    <3>1. u \in SUBSET S /\ Cardinality(u) <= 0
      OBVIOUS
    <3>2. Cardinality(u) \in Nat /\ (u # {} => Cardinality(u \ {Pick(u)}) \in Nat)
      BY <1>1, <1>3, <3>1
    <3>3. u # {} => Cardinality(u \ {Pick(u)}) = Cardinality(u) - 1
      BY <1>3, <3>1, Zenon
    <3> QED
      BY <3>1, <3>2, <3>3
  <2>2. OK(g, 0)
    BY <2>1
  <2>3. 0 \in 0..n
    BY <1>2
  <2> HIDE DEF g, OK
  <2> QED
    BY <2>2, <2>3
<1>5. ASSUME NEW k \in 0..(n - 1), k \in T PROVE k + 1 \in T
  <2>1. PICK g : OK(g, k)
    BY <1>5, Zenon
  <2> DEFINE h == [u \in Level(k + 1) |-> Rec(g, u)]
  <2>2. k \in Nat /\ k + 1 \in 0..n
    BY <1>2
  <2>3. Level(k) \subseteq Level(k + 1)
    BY <1>1, <2>2
  <2>4. ASSUME NEW u \in Level(k + 1), u # {}
        PROVE  Pick(u) \in S /\ u \ {Pick(u)} \in Level(k)
    BY <1>1, <1>3, <2>2, <2>4
  <2>5. ASSUME NEW u \in Level(k) PROVE h[u] = g[u]
    BY <2>1, <2>3, Zenon
  <2>6. ASSUME NEW u \in Level(k + 1) PROVE h[u] = Rec(h, u) /\ h[u] \in V
    <3>1. h[u] = Rec(g, u)
      OBVIOUS
    <3>2. CASE u = {}
      BY <3>1, <3>2
    <3>3. CASE u # {}
      <4>1. Pick(u) \in S /\ u \ {Pick(u)} \in Level(k)
        BY <2>4, <3>3
      <4>2. h[u \ {Pick(u)}] = g[u \ {Pick(u)}] /\ g[u \ {Pick(u)}] \in V
        BY <2>1, <2>5, <4>1, Zenon
      <4> HIDE DEF h, Level
      <4> QED
        BY <3>1, <3>3, <4>1, <4>2, Zenon
    <3> QED
      BY <3>2, <3>3
  <2>7. OK(h, k + 1)
    BY <2>6, Zenon
  <2> HIDE DEF h, OK
  <2> QED
    BY <2>2, <2>7
<1>6. n \in T
  <2> HIDE DEF T, n
  <2>1. 0..n \subseteq T
    BY <1>2, <1>4, <1>5, Steps, Zenon
  <2> QED
    BY <1>2, <2>1
<1>7. Level(n) = SUBSET S
  BY <1>1
<1> QED
  BY <1>6, <1>7, Zenon DEF IsFold
-----------------------------------------------------------------------------
(* Sums                                                                    *)

SumsOf(g, f, S) ==
  g = [s \in SUBSET S |-> IF s = {} THEN 0 ELSE f[Pick(s)] + g[s \ {Pick(s)}]]
Sums(f, S) == CHOOSE g : SumsOf(g, f, S)
Summable(f, S) == IsFiniteSet(S) /\ \A x \in S : f[x] \in Int

\* A sum is the value, at the whole set, of the function that the fold defines.
LEMMA SumDef ==
  ASSUME NEW f, NEW S
  PROVE  SumFunctionOnSet(f, S) = Sums(f, S)[S]
BY DEF SumFunctionOnSet, FoldFunctionOnSet, MapThenFoldSet, Sums, SumsOf, Pick

\* The fold behind a sum is well defined, and gives integers.
LEMMA SumsFacts ==
  ASSUME NEW S, NEW f, Summable(f, S)
  PROVE  /\ Sums(f, S)[{}] = 0
         /\ \A s \in SUBSET S : s # {} =>
              Sums(f, S)[s] = f[Pick(s)] + Sums(f, S)[s \ {Pick(s)}]
<1> DEFINE step == [p \in S \X Int |-> f[p[1]] + p[2]]
<1>1. step \in [S \X Int -> Int]
  BY DEF Summable
<1>2. PICK g : IsFold(g, S, Int, 0, step)
  <2>1. IsFiniteSet(S) /\ 0 \in Int
    BY DEF Summable
  <2> HIDE DEF step
  <2> QED
    BY <1>1, <2>1, FoldExists, Zenon
<1>3. ASSUME NEW s \in SUBSET S, s # {}
      PROVE  step[<<Pick(s), g[s \ {Pick(s)}]>>] = f[Pick(s)] + g[s \ {Pick(s)}]
  <2>1. Pick(s) \in S
    BY <1>3, PickIn, Zenon
  <2>2. g[s \ {Pick(s)}] \in Int
    BY <1>2 DEF IsFold
  <2> QED
    BY <2>1, <2>2
<1>4. ASSUME NEW s \in SUBSET S
      PROVE  g[s] = IF s = {} THEN 0 ELSE f[Pick(s)] + g[s \ {Pick(s)}]
  BY <1>2, <1>3, Zenon DEF IsFold
<1>5. SumsOf(g, f, S)
  <2>1. g = [s \in SUBSET S |-> g[s]]
    BY <1>2 DEF IsFold
  <2> QED
    BY <1>4, <2>1, Zenon DEF SumsOf
<1>6. SumsOf(Sums(f, S), f, S)
  BY <1>5, Zenon DEF Sums
<1>7. ASSUME NEW s \in SUBSET S
      PROVE  Sums(f, S)[s] = IF s = {} THEN 0 ELSE f[Pick(s)] + Sums(f, S)[s \ {Pick(s)}]
  BY <1>6, Zenon DEF SumsOf
<1> QED
  BY <1>7, Zenon

\* Sums over a part of a set are the same whichever set they are a part of.
LEMMA SumsAgree ==
  ASSUME NEW S, NEW f, Summable(f, S), NEW R \in SUBSET S
  PROVE  Sums(f, S)[R] = Sums(f, R)[R] /\ Sums(f, S)[R] \in Int
<1> DEFINE T == {s \in SUBSET R : Sums(f, S)[s] = Sums(f, R)[s] /\ Sums(f, S)[s] \in Int}
<1>1. IsFiniteSet(R) /\ Summable(f, R)
  BY FS_Subset, Zenon DEF Summable
<1>2. ASSUME NEW s \in SUBSET R, \A x \in s : s \ {x} \in T
      PROVE  s \in T
  <2>1. s \in SUBSET S
    OBVIOUS
  <2>2. CASE s = {}
    BY <1>1, <2>1, <2>2, SumsFacts
  <2>3. CASE s # {}
    <3>1. Pick(s) \in s
      BY <2>3, PickIn, Zenon
    <3>2. s \ {Pick(s)} \in T
      BY <1>2, <3>1
    <3>3. Sums(f, S)[s] = f[Pick(s)] + Sums(f, S)[s \ {Pick(s)}]
      BY <2>1, <2>3, SumsFacts, Zenon
    <3>4. Sums(f, R)[s] = f[Pick(s)] + Sums(f, R)[s \ {Pick(s)}]
      BY <1>1, <2>3, SumsFacts, Zenon
    <3>5. f[Pick(s)] \in Int
      BY <2>1, <3>1 DEF Summable
    <3> QED
      BY <3>2, <3>3, <3>4, <3>5
  <2> QED
    BY <2>2, <2>3
<1>3. SUBSET R \subseteq T
  <2> HIDE DEF T
  <2> QED
    BY <1>1, <1>2, SubsetInduction, Zenon
<1> QED
  BY <1>3

\* What a sum is, by recursion.
LEMMA SumStep ==
  ASSUME NEW S, NEW f, Summable(f, S)
  PROVE  /\ SumFunctionOnSet(f, S) \in Int
         /\ S = {} => SumFunctionOnSet(f, S) = 0
         /\ S # {} =>
              SumFunctionOnSet(f, S) = f[Pick(S)] + SumFunctionOnSet(f, S \ {Pick(S)})
<1> DEFINE R == S \ {Pick(S)}
<1>1. SumFunctionOnSet(f, S) = Sums(f, S)[S] /\ SumFunctionOnSet(f, R) = Sums(f, R)[R]
  BY SumDef, Zenon
<1>2. Sums(f, S)[S] \in Int
  BY SumsAgree, Zenon
<1>3. R \in SUBSET S
  OBVIOUS
<1>4. Sums(f, S)[R] = Sums(f, R)[R]
  <2> HIDE DEF R
  <2> QED
    BY <1>3, SumsAgree, Zenon
<1>5. Sums(f, S)[{}] = 0 /\ (S # {} => Sums(f, S)[S] = f[Pick(S)] + Sums(f, S)[R])
  BY SumsFacts, Zenon
<1> QED
  BY <1>1, <1>2, <1>4, <1>5, Zenon

\* Any element may be taken out of a sum first.
LEMMA SumRemove ==
  ASSUME NEW S, NEW f, Summable(f, S), NEW x \in S
  PROVE  SumFunctionOnSet(f, S) = f[x] + SumFunctionOnSet(f, S \ {x})
<1> DEFINE T == {s \in SUBSET S : \A y \in s :
                   SumFunctionOnSet(f, s) = f[y] + SumFunctionOnSet(f, s \ {y})}
<1>1. ASSUME NEW s \in SUBSET S
      PROVE  Summable(f, s) /\ SumFunctionOnSet(f, s) \in Int
  <2>1. Summable(f, s)
    BY FS_Subset, Zenon DEF Summable
  <2> QED
    BY <2>1, SumStep, Zenon
<1>2. ASSUME NEW s \in SUBSET S, \A y \in s : s \ {y} \in T
      PROVE  s \in T
  <2> SUFFICES ASSUME NEW y \in s
               PROVE  SumFunctionOnSet(f, s) = f[y] + SumFunctionOnSet(f, s \ {y})
    OBVIOUS
  <2> DEFINE c == Pick(s)
             r == (s \ {c}) \ {y}
  <2>1. c \in s
    BY PickIn, Zenon
  <2>2. SumFunctionOnSet(f, s) = f[c] + SumFunctionOnSet(f, s \ {c})
    BY <1>1, <2>1, SumStep, Zenon
  <2>3. CASE y = c
    BY <2>2, <2>3
  <2>4. CASE y # c
    <3>1. SumFunctionOnSet(f, s \ {c}) = f[y] + SumFunctionOnSet(f, r)
      BY <1>2, <2>1, <2>4, Zenon
    <3>2. SumFunctionOnSet(f, s \ {y}) = f[c] + SumFunctionOnSet(f, (s \ {y}) \ {c})
      BY <1>2, <2>1, <2>4, Zenon
    <3>3. (s \ {y}) \ {c} = r
      BY Zenon
    <3>4. f[c] \in Int /\ f[y] \in Int
      BY <2>1 DEF Summable
    <3>5. r \in SUBSET S
      OBVIOUS
    <3>6. SumFunctionOnSet(f, r) \in Int
      BY <1>1, <3>5, Zenon
    <3>7. SumFunctionOnSet(f, s \ {y}) = f[c] + SumFunctionOnSet(f, r)
      BY <3>2, <3>3, Zenon
    <3>8. SumFunctionOnSet(f, s) = f[c] + (f[y] + SumFunctionOnSet(f, r))
      BY <2>2, <3>1, Zenon
    <3> DEFINE n == SumFunctionOnSet(f, r)
    <3>9. f[c] + (f[y] + n) = f[y] + (f[c] + n)
      <4>1. n \in Int
        BY <3>6
      <4> HIDE DEF n, c
      <4> QED
        BY <3>4, <4>1
    <3> QED
      BY <3>7, <3>8, <3>9, Zenon
  <2> QED
    BY <2>3, <2>4
<1>3. SUBSET S \subseteq T
  <2>1. IsFiniteSet(S)
    BY DEF Summable
  <2> HIDE DEF T
  <2> QED
    BY <1>2, <2>1, SubsetInduction, Zenon
<1> QED
  BY <1>3, Zenon

\* An element joins a sum.
LEMMA SumAdd ==
  ASSUME NEW S, NEW f, Summable(f, S), NEW x, x \notin S, f[x] \in Int
  PROVE  /\ Summable(f, S \cup {x})
         /\ SumFunctionOnSet(f, S \cup {x}) = f[x] + SumFunctionOnSet(f, S)
<1>1. Summable(f, S \cup {x})
  BY FS_AddElement, Zenon DEF Summable
<1>2. (S \cup {x}) \ {x} = S /\ x \in S \cup {x}
  OBVIOUS
<1> DEFINE U == S \cup {x}
<1>3. SumFunctionOnSet(f, U) = f[x] + SumFunctionOnSet(f, U \ {x})
  <2>1. Summable(f, U) /\ x \in U
    BY <1>1, <1>2
  <2> HIDE DEF U
  <2> QED
    BY <2>1, SumRemove, Zenon
<1> QED
  BY <1>1, <1>2, <1>3, Zenon

\* A sum depends on the values it adds.
LEMMA SumExt ==
  ASSUME NEW S, NEW f, NEW g, Summable(f, S), \A x \in S : f[x] = g[x]
  PROVE  SumFunctionOnSet(f, S) = SumFunctionOnSet(g, S)
<1> DEFINE T == {s \in SUBSET S : SumFunctionOnSet(f, s) = SumFunctionOnSet(g, s)}
<1>1. ASSUME NEW s \in SUBSET S PROVE Summable(f, s) /\ Summable(g, s)
  BY FS_Subset, Zenon DEF Summable
<1>2. ASSUME NEW s \in SUBSET S, \A y \in s : s \ {y} \in T
      PROVE  s \in T
  <2>1. CASE s = {}
    BY <1>1, <2>1, SumStep, Zenon
  <2>2. CASE s # {}
    <3>1. Pick(s) \in s
      BY <2>2, PickIn, Zenon
    <3>2. SumFunctionOnSet(f, s \ {Pick(s)}) = SumFunctionOnSet(g, s \ {Pick(s)})
      BY <1>2, <3>1, Zenon
    <3>3. SumFunctionOnSet(f, s) = f[Pick(s)] + SumFunctionOnSet(f, s \ {Pick(s)})
      BY <1>1, <2>2, SumStep, Zenon
    <3>4. SumFunctionOnSet(g, s) = g[Pick(s)] + SumFunctionOnSet(g, s \ {Pick(s)})
      BY <1>1, <2>2, SumStep, Zenon
    <3>5. f[Pick(s)] = g[Pick(s)]
      BY <3>1
    <3> QED
      BY <3>2, <3>3, <3>4, <3>5, Zenon
  <2> QED
    BY <2>1, <2>2
<1>3. SUBSET S \subseteq T
  <2>1. IsFiniteSet(S)
    BY DEF Summable
  <2> HIDE DEF T
  <2> QED
    BY <1>2, <2>1, SubsetInduction, Zenon
<1> QED
  BY <1>3, Zenon

\* A sum of zeros and ones counts the ones.
LEMMA SumCounts ==
  ASSUME NEW S, IsFiniteSet(S), NEW f, \A x \in S : f[x] \in {0, 1}
  PROVE  SumFunctionOnSet(f, S) = Cardinality({x \in S : f[x] = 1})
<1> DEFINE Ones(s) == {x \in s : f[x] = 1}
           T == {s \in SUBSET S : SumFunctionOnSet(f, s) = Cardinality(Ones(s))}
<1>1. ASSUME NEW s \in SUBSET S
      PROVE  Summable(f, s) /\ IsFiniteSet(Ones(s)) /\ Cardinality(Ones(s)) \in Nat
  <2>1. IsFiniteSet(s) /\ IsFiniteSet(Ones(s))
    <3>1. Ones(s) \subseteq S
      OBVIOUS
    <3> QED
      BY <3>1, FS_Subset, Zenon
  <2>2. \A x \in s : f[x] \in Int
    OBVIOUS
  <2> QED
    BY <2>1, <2>2, FS_CardinalityType, Zenon DEF Summable
<1>2. ASSUME NEW s \in SUBSET S, \A y \in s : s \ {y} \in T
      PROVE  s \in T
  <2>1. CASE s = {}
    <3>1. Ones(s) = {}
      BY <2>1
    <3> QED
      BY <1>1, <2>1, <3>1, SumStep, FS_EmptySet, Zenon
  <2>2. CASE s # {}
    <3> DEFINE c == Pick(s)
               r == s \ {c}
    <3>1. c \in s
      BY <2>2, PickIn, Zenon
    <3>2. SumFunctionOnSet(f, r) = Cardinality(Ones(r))
      BY <1>2, <3>1, Zenon
    <3>3. SumFunctionOnSet(f, s) = f[c] + SumFunctionOnSet(f, r)
      BY <1>1, <2>2, SumStep, Zenon
    <3>4. IsFiniteSet(Ones(r)) /\ Cardinality(Ones(r)) \in Nat
      BY <1>1
    <3>5. CASE f[c] = 1
      <4>1. Ones(s) = Ones(r) \cup {c} /\ c \notin Ones(r)
        BY <3>1, <3>5
      <4>2. Cardinality(Ones(r) \cup {c}) = Cardinality(Ones(r)) + 1
        <5> HIDE DEF Ones, r, c
        <5> QED
          BY <3>4, <4>1, FS_AddElement, Zenon
      <4>3. Cardinality(Ones(s)) = Cardinality(Ones(r)) + 1
        BY <4>1, <4>2, Zenon
      <4> HIDE DEF Ones, r, c
      <4>4. SumFunctionOnSet(f, s) = 1 + Cardinality(Ones(r))
        BY <3>2, <3>3, <3>5, Zenon
      <4>5. SumFunctionOnSet(f, s) = Cardinality(Ones(s))
        BY <3>4, <4>3, <4>4
      <4> QED
        BY <4>5
    <3>6. CASE f[c] = 0
      <4>1. Ones(s) = Ones(r)
        BY <3>1, <3>6
      <4> HIDE DEF Ones, r, c
      <4>2. SumFunctionOnSet(f, s) = 0 + Cardinality(Ones(s))
        BY <3>2, <3>3, <3>6, <4>1, Zenon
      <4>3. SumFunctionOnSet(f, s) = Cardinality(Ones(s))
        BY <3>4, <4>1, <4>2
      <4> QED
        BY <4>3
    <3>7. f[c] \in {0, 1}
      BY <3>1
    <3> QED
      BY <3>5, <3>6, <3>7
  <2> QED
    BY <2>1, <2>2
<1>3. SUBSET S \subseteq T
  <2> HIDE DEF T
  <2> QED
    BY <1>2, SubsetInduction, Zenon
<1> QED
  BY <1>3, Zenon

Image(h, S) == {h[x] : x \in S}

\* A sum over other names for the same things (the buckets of a history move up
\* when the front is popped).
LEMMA SumImage ==
  ASSUME NEW S, NEW f, NEW g, NEW h, Summable(g, S),
         \A x \in S : g[x] = f[h[x]],
         \A x, y \in S : h[x] = h[y] => x = y
  PROVE  SumFunctionOnSet(g, S) = SumFunctionOnSet(f, Image(h, S))
<1> DEFINE Im(s) == {h[x] : x \in s}
           T == {s \in SUBSET S : /\ Summable(f, Im(s))
                                  /\ SumFunctionOnSet(g, s) = SumFunctionOnSet(f, Im(s))}
<1>1. ASSUME NEW s \in SUBSET S PROVE Summable(g, s)
  BY FS_Subset, Zenon DEF Summable
<1>2. ASSUME NEW s \in SUBSET S, \A y \in s : s \ {y} \in T
      PROVE  s \in T
  <2>1. CASE s = {}
    <3>1. Im(s) = {}
      BY <2>1
    <3>2. Summable(f, {})
      BY FS_EmptySet, Zenon DEF Summable
    <3> QED
      BY <1>1, <2>1, <3>1, <3>2, SumStep, Zenon
  <2>2. CASE s # {}
    <3> DEFINE c == Pick(s)
               r == s \ {c}
    <3>1. c \in s
      BY <2>2, PickIn, Zenon
    <3>2. SumFunctionOnSet(g, r) = SumFunctionOnSet(f, Im(r))
      BY <1>2, <3>1, Zenon
    <3>3. SumFunctionOnSet(g, s) = g[c] + SumFunctionOnSet(g, r)
      BY <1>1, <2>2, SumStep, Zenon
    <3>4. Im(s) = Im(r) \cup {h[c]} /\ h[c] \notin Im(r)
      BY <3>1
    <3>5. Summable(f, Im(r)) /\ f[h[c]] \in Int
      BY <1>2, <3>1, Zenon DEF Summable
    <3>6. /\ Summable(f, Im(r) \cup {h[c]})
          /\ SumFunctionOnSet(f, Im(r) \cup {h[c]}) = f[h[c]] + SumFunctionOnSet(f, Im(r))
      <4> HIDE DEF Im, r, c
      <4> QED
        BY <3>4, <3>5, SumAdd, Zenon
    <3>7. g[c] = f[h[c]]
      BY <3>1
    <3> HIDE DEF Im, r, c
    <3>8. Summable(f, Im(s)) /\ SumFunctionOnSet(g, s) = SumFunctionOnSet(f, Im(s))
      BY <3>2, <3>3, <3>4, <3>6, <3>7, Zenon
    <3> QED
      BY <3>8
  <2> QED
    BY <2>1, <2>2
<1>3. SUBSET S \subseteq T
  <2>1. IsFiniteSet(S)
    BY DEF Summable
  <2> HIDE DEF T
  <2> QED
    BY <1>2, <2>1, SubsetInduction, Zenon
<1> QED
  BY <1>3, Zenon DEF Image

\* A part adds up to at most the whole when nothing is negative, and to the whole
\* when the rest is zero.
LEMMA SumPart ==
  ASSUME NEW S, NEW f, IsFiniteSet(S), \A x \in S : f[x] \in Nat, NEW P \in SUBSET S
  PROVE  /\ SumFunctionOnSet(f, P) \in Nat
         /\ SumFunctionOnSet(f, P) <= SumFunctionOnSet(f, S)
         /\ (\A x \in S \ P : f[x] = 0) => SumFunctionOnSet(f, P) = SumFunctionOnSet(f, S)
<1> DEFINE Part(s) == SumFunctionOnSet(f, s \cap P)
           Whole(s) == SumFunctionOnSet(f, s)
           T == {s \in SUBSET S : /\ Part(s) \in Nat /\ Whole(s) \in Nat /\ Part(s) <= Whole(s)
                                  /\ (\A x \in s \ P : f[x] = 0) => Part(s) = Whole(s)}
<1>1. ASSUME NEW s \in SUBSET S PROVE Summable(f, s) /\ Summable(f, s \cap P)
  <2>1. s \cap P \in SUBSET S
    OBVIOUS
  <2>2. \A x \in S : f[x] \in Int
    OBVIOUS
  <2> QED
    BY <2>1, <2>2, FS_Subset, Zenon DEF Summable
<1>2. ASSUME NEW s \in SUBSET S, \A y \in s : s \ {y} \in T
      PROVE  s \in T
  <2>1. CASE s = {}
    <3>1. s \cap P = {}
      BY <2>1
    <3>2. Part(s) = 0 /\ Whole(s) = 0
      BY <1>1, <2>1, <3>1, SumStep, Zenon
    <3> HIDE DEF Part, Whole
    <3> QED
      BY <3>2
  <2>2. CASE s # {}
    <3> DEFINE c == Pick(s)
               r == s \ {c}
    <3>1. c \in s
      BY <2>2, PickIn, Zenon
    <3>2. /\ Part(r) \in Nat /\ Whole(r) \in Nat /\ Part(r) <= Whole(r)
          /\ (\A x \in r \ P : f[x] = 0) => Part(r) = Whole(r)
      BY <1>2, <3>1, Zenon
    <3>3. Whole(s) = f[c] + Whole(r)
      BY <1>1, <2>2, SumStep, Zenon
    <3>4. f[c] \in Nat
      BY <3>1
    <3>5. CASE c \in P
      <4>1. s \cap P = (r \cap P) \cup {c} /\ c \notin r \cap P
        BY <3>1, <3>5
      <4>2. r \in SUBSET S /\ f[c] \in Int
        BY <3>4
      <4>3. Part(s) = f[c] + Part(r)
        <5>1. Summable(f, r \cap P)
          BY <1>1, <4>2, Zenon
        <5> HIDE DEF r, c
        <5>2. SumFunctionOnSet(f, (r \cap P) \cup {c}) = f[c] + SumFunctionOnSet(f, r \cap P)
          BY <4>1, <4>2, <5>1, SumAdd, Zenon
        <5> QED
          BY <4>1, <5>2, Zenon
      <4>4. (\A x \in s \ P : f[x] = 0) => (\A x \in r \ P : f[x] = 0)
        OBVIOUS
      <4> HIDE DEF Part, Whole, r, c
      <4> QED
        BY <3>2, <3>3, <3>4, <4>3, <4>4
    <3>6. CASE c \notin P
      <4>1. s \cap P = r \cap P
        BY <3>6
      <4>2. Part(s) = Part(r)
        BY <4>1, Zenon
      <4>3. (\A x \in s \ P : f[x] = 0) => (\A x \in r \ P : f[x] = 0) /\ f[c] = 0
        BY <3>1, <3>6
      <4> HIDE DEF Part, Whole, r, c
      <4> QED
        BY <3>2, <3>3, <3>4, <4>2, <4>3
    <3> QED
      BY <3>5, <3>6
  <2> QED
    BY <2>1, <2>2
<1>3. SUBSET S \subseteq T
  <2> HIDE DEF T
  <2> QED
    BY <1>2, SubsetInduction, Zenon
<1>4. S \cap P = P
  OBVIOUS
<1>5. S \in T
  BY <1>3, Zenon
<1> QED
  BY <1>4, <1>5, Zenon
-----------------------------------------------------------------------------
(* Products                                                                *)

ProductsOf(g, f, S) ==
  g = [s \in SUBSET S |-> IF s = {} THEN 1 ELSE f[Pick(s)] * g[s \ {Pick(s)}]]

Product(f, S) == FoldFunctionOnSet(LAMBDA d, p : d * p, 1, f, S)

\* Products of positive numbers are positive.
LEMMA ProductMore ==
  ASSUME NEW x \in Nat \ {0}, NEW y \in Nat \ {0}
  PROVE  x * y \in Nat \ {0}
OBVIOUS

\* The common denominator of positive denominators is positive.
LEMMA ProductPositive ==
  ASSUME NEW S, IsFiniteSet(S), NEW f, \A x \in S : f[x] \in Nat \ {0}
  PROVE  Product(f, S) \in Nat \ {0}
<1> DEFINE V == Nat \ {0}
           step == [p \in S \X V |-> f[p[1]] * p[2]]
<1>1. step \in [S \X V -> V]
  <2>1. ASSUME NEW p \in S \X V PROVE f[p[1]] * p[2] \in V
    <3>1. f[p[1]] \in V /\ p[2] \in V
      OBVIOUS
    <3> QED
      BY <3>1, ProductMore
  <2> HIDE DEF V
  <2> QED
    BY <2>1
<1>2. PICK g : IsFold(g, S, V, 1, step)
  <2>1. 1 \in V
    OBVIOUS
  <2> HIDE DEF step, V
  <2> QED
    BY <1>1, <2>1, FoldExists, Zenon
<1>3. ASSUME NEW s \in SUBSET S, s # {}
      PROVE  step[<<Pick(s), g[s \ {Pick(s)}]>>] = f[Pick(s)] * g[s \ {Pick(s)}]
  <2>1. Pick(s) \in S
    BY <1>3, PickIn, Zenon
  <2>2. g[s \ {Pick(s)}] \in V
    BY <1>2, Zenon DEF IsFold
  <2> HIDE DEF V
  <2> QED
    BY <2>1, <2>2
<1>4. ASSUME NEW s \in SUBSET S
      PROVE  g[s] = IF s = {} THEN 1 ELSE f[Pick(s)] * g[s \ {Pick(s)}]
  <2> HIDE DEF step, V
  <2> QED
    BY <1>2, <1>3, Zenon DEF IsFold
<1>5. ProductsOf(g, f, S)
  <2>1. g = [s \in SUBSET S |-> g[s]]
    BY <1>2, Zenon DEF IsFold
  <2> QED
    BY <1>4, <2>1, Zenon DEF ProductsOf
<1> DEFINE h == CHOOSE q : ProductsOf(q, f, S)
<1>6. ProductsOf(h, f, S)
  BY <1>5, Zenon
<1>7. Product(f, S) = h[S]
  BY DEF Product, FoldFunctionOnSet, MapThenFoldSet, ProductsOf, Pick
<1> HIDE DEF h
<1> DEFINE T == {s \in SUBSET S : h[s] \in V}
<1>8. ASSUME NEW s \in SUBSET S, \A y \in s : s \ {y} \in T
      PROVE  s \in T
  <2>1. h[s] = IF s = {} THEN 1 ELSE f[Pick(s)] * h[s \ {Pick(s)}]
    BY <1>6, Zenon DEF ProductsOf
  <2>2. CASE s = {}
    BY <2>1, <2>2
  <2>3. CASE s # {}
    <3>1. Pick(s) \in s
      BY <2>3, PickIn, Zenon
    <3>2. f[Pick(s)] \in V /\ h[s \ {Pick(s)}] \in V
      BY <1>8, <3>1, Zenon
    <3> QED
      BY <2>1, <2>3, <3>2, ProductMore
  <2> QED
    BY <2>2, <2>3
<1>9. SUBSET S \subseteq T
  <2> HIDE DEF T
  <2> QED
    BY <1>8, SubsetInduction, Zenon
<1> QED
  BY <1>7, <1>9
-----------------------------------------------------------------------------
(* The types                                                               *)

Sample == [ok : BOOLEAN, latency : Nat]
Bucket == [hour : Nat, samples : Nat, successes : Nat, latency_sum : Nat]
Call == [at : Nat, sample : Sample, counts : BOOLEAN]

TypeOK ==
  /\ retention \in Nat
  /\ samples \in [Members -> Seq(Sample)]
  /\ history \in [Members -> Seq(Bucket)]
  /\ log \in [Members -> Seq(Call)]
-----------------------------------------------------------------------------
(* The selection                                                           *)

\* Multiplying with a positive number keeps the order.
LEMMA TimesLess ==
  ASSUME NEW a \in Nat, NEW b \in Nat, NEW t \in Nat \ {0}
  PROVE  a * t < b * t <=> a < b
OBVIOUS

\* The least element of a set of numbers.
LEMMA MinIs ==
  ASSUME NEW A \in SUBSET Int, NEW m \in A, \A x \in A : m <= x
  PROVE  Min(A) = m
<1>1. \A y \in A : (\A x \in A : y <= x) => y = m
  OBVIOUS
<1> QED
  BY <1>1, Zenon DEF Min

\* A weight is a positive fraction, whatever has been recorded
\* (UpstreamStats::weight): epsilon keeps the latency from being zero.
LEMMA WeightPositive ==
  ASSUME NEW w \in Seq(Sample)
  PROVE  weight(w).num \in Nat \ {0} /\ weight(w).den \in Nat \ {0}
<1> DEFINE lat == [i \in DOMAIN w |-> w[i].latency]
<1>1. DOMAIN w = 1..Len(w) /\ Len(w) \in Nat
  OBVIOUS
<1>2. IsFiniteSet(DOMAIN w) /\ Cardinality(DOMAIN w) = Len(w)
  <2>1. IsFiniteSet(1..Len(w)) /\ Cardinality(1..Len(w)) = IF 1 > Len(w) THEN 0 ELSE Len(w) - 1 + 1
    <3>1. 1 \in Int /\ Len(w) \in Int
      BY <1>1
    <3> QED
      BY <3>1, FS_Interval, Zenon
  <2> QED
    BY <1>1, <2>1
<1>3. Failures(w) \in Nat /\ Failures(w) <= Len(w)
  <2> DEFINE F == {i \in DOMAIN w : ~w[i].ok}
  <2>1. F \in SUBSET DOMAIN w
    OBVIOUS
  <2>2. Cardinality(F) \in Nat /\ Cardinality(F) <= Cardinality(DOMAIN w)
    <3> HIDE DEF F
    <3> QED
      BY <1>2, <2>1, FS_Subset, FS_CardinalityType, Zenon
  <2>3. Failures(w) = Cardinality(F)
    BY DEF Failures, Quantify
  <2> QED
    BY <1>2, <2>2, <2>3
<1>4. LatencySum(w) \in Nat
  <2>1. ASSUME NEW i \in DOMAIN w PROVE lat[i] \in Nat
    <3>1. w[i] \in Sample
      BY <1>1
    <3> QED
      BY <3>1 DEF Sample
  <2>2. DOMAIN lat = DOMAIN w
    OBVIOUS
  <2>3. LatencySum(w) = SumFunctionOnSet(lat, DOMAIN w)
    BY <2>2 DEF LatencySum, SumFunction
  <2> HIDE DEF lat
  <2>4. SumFunctionOnSet(lat, DOMAIN w) \in Nat
    BY <1>2, <2>1, SumPart, Zenon
  <2> QED
    BY <2>3, <2>4
<1>5. Slowness(w)[1] \in Nat \ {0} /\ Slowness(w)[2] \in Nat \ {0}
  BY <1>1, <1>3, <1>4, StatsAssumption DEF Slowness
<1>6. Unreliability(w)[1] \in Nat \ {0} /\ Unreliability(w)[2] \in Nat \ {0}
  <2>1. K * Failures(w) \in Nat
    BY <1>3, StatsAssumption
  <2>2. w # <<>> => Len(w) # 0
    OBVIOUS
  <2> QED
    BY <1>1, <2>1, <2>2 DEF Unreliability
<1> QED
  BY <1>5, <1>6, ProductMore, Zenon DEF weight

\* Tried members have no weight and the others a positive one
\* (UpstreamGroup::weights).
LEMMA WeightsPositive ==
  ASSUME TypeOK, NEW tried \in SUBSET Members
  PROVE  /\ weights(tried) \in [Members -> Nat]
         /\ \A m \in Members : IF m \in tried THEN weights(tried)[m] = 0 ELSE weights(tried)[m] > 0
<1> DEFINE dens == [j \in Members |-> weight(samples[j]).den]
<1>1. ASSUME NEW m \in Members
      PROVE  weight(samples[m]).num \in Nat \ {0} /\ weight(samples[m]).den \in Nat \ {0}
  <2>1. samples[m] \in Seq(Sample)
    BY DEF TypeOK
  <2> QED
    BY <2>1, WeightPositive, Zenon
<1>2. ASSUME NEW m \in Members
      PROVE  Product(dens, Members \ {m}) \in Nat \ {0}
  <2>1. IsFiniteSet(Members)
    BY FS_Interval, StatsAssumption DEF Members
  <2>2. IsFiniteSet(Members \ {m})
    BY <2>1, FS_RemoveElement, Zenon
  <2>3. \A x \in Members \ {m} : dens[x] \in Nat \ {0}
    BY <1>1
  <2> HIDE DEF dens
  <2> QED
    BY <2>2, <2>3, ProductPositive, Zenon
<1>3. weights(tried) = [m \in Members |-> IF m \in tried THEN 0
                          ELSE weight(samples[m]).num * Product(dens, Members \ {m})]
  BY Zenon DEF weights, Product
<1>4. ASSUME NEW m \in Members
      PROVE  weight(samples[m]).num * Product(dens, Members \ {m}) \in Nat \ {0}
  <2> HIDE DEF dens
  <2> QED
    BY <1>1, <1>2, ProductMore, Zenon
<1> HIDE DEF dens
<1> QED
  BY <1>3, <1>4

\* Every roll that falls into a member's share of the cumulated weight chooses
\* this member (pick_weighted).
LEMMA RollInShare ==
  ASSUME NEW ws \in [Members -> Nat], NEW m \in Members, ws[m] > 0, NEW roll \in Nat,
         Sum(ws, 1..(m - 1)) <= roll, roll < Sum(ws, 1..(m - 1)) + ws[m]
  PROVE  pick_weighted(ws, roll, Sum(ws, Members)) = m
<1> DEFINE pos == Positive(ws)
           total == Sum(ws, Members)
           Acc(i) == Sum(ws, 1..i)
           A == {i \in pos : roll * total < Sum(ws, UpTo(pos, i)) * total}
<1>1. Members = 1..Count /\ Count \in Nat /\ IsFiniteSet(Members) /\ m \in Nat
  BY FS_Interval, StatsAssumption DEF Members
<1>2. DOMAIN ws = Members /\ \A i \in Members : ws[i] \in Nat
  OBVIOUS
<1>3. pos \in SUBSET Members /\ m \in pos /\ \A i \in Members \ pos : ws[i] = 0
  BY <1>2 DEF Positive
<1>4. ASSUME NEW i \in 0..Count
      PROVE  /\ Acc(i) \in Nat /\ Acc(i) <= total
             /\ Sum(ws, UpTo(pos, i)) = Acc(i)
             /\ \A j \in 0..i : Acc(j) <= Acc(i)
  <2>1. 1..i \in SUBSET Members
    BY <1>1
  <2>2. IsFiniteSet(1..i) /\ \A k \in 1..i : ws[k] \in Nat
    BY <1>2, <2>1, FS_Interval
  <2>3. SumFunctionOnSet(ws, 1..i) \in Nat /\ SumFunctionOnSet(ws, 1..i) <= SumFunctionOnSet(ws, Members)
    BY <1>1, <1>2, <2>1, SumPart, Zenon
  <2>4. UpTo(pos, i) \in SUBSET (1..i) /\ \A k \in (1..i) \ UpTo(pos, i) : ws[k] = 0
    BY <1>1, <1>3, <2>1 DEF UpTo
  <2>5. SumFunctionOnSet(ws, UpTo(pos, i)) = SumFunctionOnSet(ws, 1..i)
    <3> DEFINE P == UpTo(pos, i)
               R == 1..i
    <3> HIDE DEF P, R
    <3>1. IsFiniteSet(R) /\ (\A k \in R : ws[k] \in Nat) /\ P \in SUBSET R
          /\ \A k \in R \ P : ws[k] = 0
      BY <2>2, <2>4, Zenon DEF P, R
    <3>2. SumFunctionOnSet(ws, P) = SumFunctionOnSet(ws, R)
      BY <3>1, SumPart, Zenon
    <3> QED
      BY <3>2, Zenon DEF P, R
  <2>6. ASSUME NEW j \in 0..i PROVE Acc(j) <= Acc(i)
    <3>1. 1..j \in SUBSET (1..i)
      OBVIOUS
    <3>2. SumFunctionOnSet(ws, 1..j) <= SumFunctionOnSet(ws, 1..i)
      BY <2>2, <3>1, SumPart, Zenon
    <3> QED
      BY <3>2 DEF Sum
  <2> QED
    BY <2>3, <2>5, <2>6, Zenon DEF Sum
<1>5. Acc(m) = ws[m] + Acc(m - 1)
  <2>1. Summable(ws, 1..m) /\ m \in 1..m
    <3>1. IsFiniteSet(1..m)
      BY <1>1, FS_Interval
    <3>2. \A k \in 1..m : ws[k] \in Int
      BY <1>1, <1>2
    <3> QED
      BY <1>1, <3>1, <3>2 DEF Summable
  <2>2. (1..m) \ {m} = 1..(m - 1)
    BY <1>1
  <2>3. SumFunctionOnSet(ws, 1..m) = ws[m] + SumFunctionOnSet(ws, (1..m) \ {m})
    BY <2>1, SumRemove, Zenon
  <2> QED
    BY <2>2, <2>3, Zenon DEF Sum
<1>6. m \in 0..Count /\ m - 1 \in 0..Count
  BY <1>1
<1>7. /\ Acc(m - 1) \in Nat /\ Acc(m) \in Nat /\ Acc(m) <= total /\ total \in Nat
      /\ Acc(m - 1) <= roll /\ roll < Acc(m) /\ ws[m] \in Nat
  <2>1. total \in Nat
    BY <1>1, <1>2, SumPart, Zenon DEF Sum
  <2>2. Acc(m - 1) \in Nat /\ Acc(m) \in Nat /\ Acc(m) <= total
    BY <1>4, <1>6, Zenon
  <2>3. Acc(m - 1) <= roll /\ roll < Acc(m - 1) + ws[m] /\ ws[m] \in Nat
    BY <1>2
  <2> HIDE DEF Acc, total
  <2> QED
    BY <1>5, <2>1, <2>2, <2>3
<1> HIDE DEF Acc, total
<1>8. total \in Nat \ {0}
  BY <1>7
<1>9. ASSUME NEW i \in pos
      PROVE  roll * total < Sum(ws, UpTo(pos, i)) * total <=> roll < Acc(i)
  <2>1. i \in 0..Count
    BY <1>1, <1>3
  <2>2. Sum(ws, UpTo(pos, i)) = Acc(i) /\ Acc(i) \in Nat
    BY <1>4, <2>1, Zenon
  <2>3. roll * total < Acc(i) * total <=> roll < Acc(i)
    BY <1>8, <2>2, TimesLess, Zenon
  <2> QED
    BY <2>2, <2>3, Zenon
<1>10. m \in A
  BY <1>3, <1>7, <1>9, Zenon
<1>11. ASSUME NEW i \in A PROVE m <= i
  <2>1. i \in pos /\ roll < Acc(i)
    BY <1>9, Zenon
  <2>2. i \in 1..Count
    BY <1>1, <1>3, <2>1
  <2>3. ASSUME ~(m <= i) PROVE FALSE
    <3>1. i \in 0..(m - 1)
      BY <1>1, <2>2, <2>3
    <3>2. Acc(i) <= Acc(m - 1)
      BY <1>4, <1>6, <3>1, Zenon
    <3>3. Acc(i) \in Nat
      BY <1>4, <2>2
    <3> QED
      BY <1>7, <2>1, <3>2, <3>3
  <2> QED
    BY <2>3
<1>12. A \in SUBSET Int
  BY <1>1, <1>3
<1>13. Min(A) = m
  <2> HIDE DEF A
  <2> QED
    BY <1>10, <1>11, <1>12, MinIs, Zenon
<1>14. Sum(ws, pos) = total
  BY <1>1, <1>2, <1>3, SumPart, Zenon DEF Sum, total
<1>15. Sum(ws, pos) # 0
  BY <1>8, <1>14
<1> QED
  BY <1>13, <1>14, <1>15, Zenon DEF pick_weighted, total

\* The rolls of its share choose a member, from the first to the last
\* (pick_weighted and weights), in any state of the right type.
LEMMA PicksInTypes ==
  ASSUME TypeOK
  PROVE  PicksByWeight
<1> SUFFICES ASSUME NEW tried \in SUBSET Members \ {Members}, NEW m \in Members \ tried
             PROVE  LET ws == weights(tried)
                        total == Sum(ws, Members)
                        start == Sum(ws, 1..(m - 1))
                    IN  /\ ws[m] > 0
                        /\ pick_weighted(ws, start, total) = m
                        /\ pick_weighted(ws, start + ws[m] - 1, total) = m
  BY Zenon DEF PicksByWeight
<1> DEFINE ws == weights(tried)
           start == Sum(ws, 1..(m - 1))
<1>1. ws \in [Members -> Nat] /\ ws[m] > 0
  BY WeightsPositive, Zenon
<1> HIDE DEF ws
<1>2. start \in Nat
  <2>1. Members = 1..Count /\ Count \in Nat /\ IsFiniteSet(Members)
    BY FS_Interval, StatsAssumption DEF Members
  <2>2. 1..(m - 1) \in SUBSET Members /\ \A i \in Members : ws[i] \in Nat
    BY <1>1, <2>1
  <2> QED
    BY <2>1, <2>2, SumPart, Zenon DEF Sum
<1> HIDE DEF start
<1>3. /\ start <= start /\ start < start + ws[m]
      /\ start + ws[m] - 1 \in Nat /\ start <= start + ws[m] - 1
      /\ start + ws[m] - 1 < start + ws[m]
  BY <1>1, <1>2
<1>4. pick_weighted(ws, start, Sum(ws, Members)) = m
  BY <1>1, <1>2, <1>3, RollInShare, Zenon DEF start
<1> DEFINE last == start + ws[m] - 1
<1>5. pick_weighted(ws, last, Sum(ws, Members)) = m
  <2>1. last \in Nat /\ start <= last /\ last < start + ws[m]
    BY <1>3
  <2> HIDE DEF last
  <2> QED
    BY <1>1, <2>1, RollInShare, Zenon DEF start
<1> QED
  BY <1>1, <1>4, <1>5, Zenon DEF ws, start
-----------------------------------------------------------------------------
(* Recording                                                               *)

\* A sample is pushed (UpstreamStats::push).
LEMMA PushFacts ==
  ASSUME NEW S, NEW w \in Seq(S), NEW s \in S, Len(w) <= Window
  PROVE  /\ push(w, s) \in Seq(S)
         /\ Len(push(w, s)) = IF Len(w) = Window THEN Window ELSE Len(w) + 1
         /\ \A i \in 1..Len(push(w, s)) :
              push(w, s)[i] =
                IF i = Len(push(w, s)) THEN s ELSE w[i + Len(w) + 1 - Len(push(w, s))]
<1>1. Window \in Nat /\ Window > 0 /\ Len(w) \in Nat
  BY StatsAssumption
<1>2. CASE Len(w) = Window
  <2>1. w # <<>>
    BY <1>1, <1>2
  <2>2. Tail(w) \in Seq(S) /\ Len(Tail(w)) = Len(w) - 1 /\ \A i \in 1..(Len(w) - 1) : Tail(w)[i] = w[i + 1]
    BY <2>1
  <2>3. push(w, s) = Append(Tail(w), s)
    BY <1>2 DEF push
  <2> DEFINE t == Tail(w)
  <2> HIDE DEF t
  <2>4. t \in Seq(S) /\ Len(t) = Len(w) - 1 /\ \A i \in 1..(Len(w) - 1) : t[i] = w[i + 1]
    BY <2>2 DEF t
  <2>5. push(w, s) = Append(t, s)
    BY <2>3 DEF t
  <2> QED
    BY <1>1, <1>2, <2>4, <2>5
<1>3. CASE Len(w) # Window
  <2>1. push(w, s) = Append(w, s)
    BY <1>3 DEF push
  <2> QED
    BY <1>1, <1>3, <2>1
<1> QED
  BY <1>2, <1>3, Zenon
-----------------------------------------------------------------------------
(* The inductive invariant                                                 *)

Hours(h) == [i \in DOMAIN h |-> h[i].hour]
Field(h, field) == [i \in DOMAIN h |-> h[i][field]]
Filing(calls) == [i \in Counted(calls) |-> Filed(calls, i)]
Ones(calls) == [i \in Counted(calls) |-> 1]
Oks(calls) == [i \in Counted(calls) |-> IF calls[i].sample.ok THEN 1 ELSE 0]
Lats(calls) == [i \in Counted(calls) |-> calls[i].sample.latency]

Above(f, c) == {i \in DOMAIN f : f[i] > c}

\* Nothing later than c has been pruned from the history of the calls.
Settled(calls, c) ==
  retention # 0 => \A j \in Counted(calls) : c + HOUR >= calls[j].at - retention

\* The buckets and the log agree on what is later than c.
Agree(h, calls, c) ==
  LET bs == Above(Hours(h), c)
      is == Above(Filing(calls), c)
  IN  /\ SumFunctionOnSet(Field(h, "samples"), bs) = SumFunctionOnSet(Ones(calls), is)
      /\ SumFunctionOnSet(Field(h, "successes"), bs) = SumFunctionOnSet(Oks(calls), is)
      /\ SumFunctionOnSet(Field(h, "latency_sum"), bs) = SumFunctionOnSet(Lats(calls), is)

\* The buckets are in order, the last one is that of the latest hour seen, none
\* is outdated at any reading of the clock, and they agree with the log on all
\* that has not been pruned.
HistoryInv(h, calls) ==
  /\ Counted(calls) = {} => h = <<>>
  /\ Counted(calls) # {} =>
       /\ h # <<>> /\ \E j \in Counted(calls) : Hour(calls[j].at) = Back(h).hour
       /\ \E j \in Counted(calls) : \A i \in Counted(calls) : calls[i].at <= calls[j].at
  /\ \A i \in Counted(calls) : Hour(calls[i].at) <= Back(h).hour /\ Filed(calls, i) \in Nat
  /\ \A i, j \in DOMAIN h : i < j => h[i].hour < h[j].hour
  /\ \A i \in DOMAIN h, j \in Counted(calls) : ~Outdated(h[i], calls[j].at)
  /\ \A c \in Int : Settled(calls, c) => Agree(h, calls, c)

\* The window is the end of the log.
WindowInv(w, calls) ==
  /\ Len(w) = IF Len(calls) < Window THEN Len(calls) ELSE Window
  /\ \A i \in 1..Len(w) : w[i] = calls[Len(calls) - Len(w) + i].sample

Inv ==
  /\ TypeOK
  /\ \A m \in Members : HistoryInv(history[m], log[m]) /\ WindowInv(samples[m], log[m])
-----------------------------------------------------------------------------
(* A value joins a sum by hours                                            *)

\* The largest element of a set of numbers.
LEMMA MaxIs ==
  ASSUME NEW A \in SUBSET Int, NEW m \in A, \A x \in A : x <= m
  PROVE  Max(A) = m
<1>1. \A y \in A : (\A x \in A : y >= x) => y = m
  OBVIOUS
<1>2. \A x \in A : m >= x
  OBVIOUS
<1> QED
  BY <1>1, <1>2, Zenon DEF Max

\* The hour of a reading of the clock (record_history: hour_ms).
LEMMA HourFacts ==
  ASSUME NEW t \in Nat
  PROVE  Hour(t) \in Nat /\ Hour(t) <= t /\ t < Hour(t) + HOUR
<1>1. HOUR \in Nat /\ HOUR > 0
  BY StatsAssumption
<1>2. t \div HOUR \in Nat /\ (t \div HOUR) * HOUR <= t /\ t < (t \div HOUR) * HOUR + HOUR
  BY <1>1
<1>3. (t \div HOUR) * HOUR \in Nat
  BY <1>1, <1>2
<1> QED
  BY <1>2, <1>3 DEF Hour

\* What a value v of an hour adds to the sum over the hours later than c.
Gain(hour, c, v) == IF hour > c THEN v ELSE 0

\* The sum over the hours later than c goes up by d.
GainsBy(V, H, V2, H2, c, d) ==
  SumFunctionOnSet(V2, Above(H2, c)) = SumFunctionOnSet(V, Above(H, c)) + d

\* q joins D, under its hour H2[q] and with its value V2[q].
JoinsD(D, q, H, V, H2, V2, c) ==
  /\ IsFiniteSet(D) /\ q \notin D /\ DOMAIN H = D /\ DOMAIN H2 = D \cup {q}
  /\ \A i \in D : H[i] \in Int /\ V[i] \in Int /\ H2[i] = H[i] /\ V2[i] = V[i]
  /\ H2[q] \in Int /\ V2[q] \in Int /\ c \in Int

\* The value of q, which is in D, goes up by v.
GrowsIn(D, q, v, H, V, V2, c) ==
  /\ IsFiniteSet(D) /\ q \in D /\ v \in Int /\ DOMAIN H = D
  /\ \A i \in D : V[i] \in Int /\ (i # q => V2[i] = V[i])
  /\ V2[q] = V[q] + v /\ c \in Int

\* Something new joins, under an hour of its own: a bucket the history, or a call
\* the log.
LEMMA JoinNew ==
  ASSUME NEW D, NEW q, NEW H, NEW V, NEW H2, NEW V2, NEW c, JoinsD(D, q, H, V, H2, V2, c)
  PROVE  GainsBy(V, H, V2, H2, c, Gain(H2[q], c, V2[q]))
<1> USE DEF JoinsD, GainsBy
<1> DEFINE A == Above(H, c)
           B == Above(H2, c)
<1>1. A \in SUBSET D /\ q \notin A
  BY DEF Above
<1>2. Summable(V, A) /\ Summable(V2, A)
  <2>1. IsFiniteSet(A)
    BY <1>1, FS_Subset, Zenon
  <2>2. \A x \in A : V[x] \in Int /\ V2[x] \in Int
    BY <1>1
  <2> QED
    BY <2>1, <2>2, Zenon DEF Summable
<1>3. SumFunctionOnSet(V, A) = SumFunctionOnSet(V2, A) /\ SumFunctionOnSet(V, A) \in Int
  <2>1. \A x \in A : V[x] = V2[x]
    BY <1>1
  <2> HIDE DEF A
  <2> QED
    BY <1>2, <2>1, SumExt, SumStep, Zenon
<1>4. CASE H2[q] > c
  <2>1. B = A \cup {q}
    BY <1>4 DEF Above
  <2>2. SumFunctionOnSet(V2, A \cup {q}) = V2[q] + SumFunctionOnSet(V2, A)
    <3> HIDE DEF A
    <3> QED
      BY <1>1, <1>2, SumAdd, Zenon
  <2>3. SumFunctionOnSet(V2, B) = V2[q] + SumFunctionOnSet(V2, A)
    BY <2>1, <2>2, Zenon
  <2> HIDE DEF A, B
  <2>4. SumFunctionOnSet(V2, B) = SumFunctionOnSet(V, A) + V2[q]
    BY <1>3, <2>3
  <2> QED
    BY <1>4, <2>4, Zenon DEF A, B, Gain
<1>5. CASE ~(H2[q] > c)
  <2>1. B = A
    BY <1>5 DEF Above
  <2>2. SumFunctionOnSet(V2, B) = SumFunctionOnSet(V, A) + 0
    <3> HIDE DEF A, B
    <3> QED
      BY <1>3, <2>1
  <2> QED
    BY <1>5, <2>2, Zenon DEF Gain
<1> QED
  BY <1>4, <1>5

\* A sample joins a bucket that is there.
LEMMA JoinOld ==
  ASSUME NEW D, NEW q, NEW v, NEW H, NEW V, NEW V2, NEW c, GrowsIn(D, q, v, H, V, V2, c)
  PROVE  GainsBy(V, H, V2, H, c, Gain(H[q], c, v))
<1> USE DEF GrowsIn, GainsBy
<1> DEFINE A == Above(H, c)
           R == A \ {q}
<1>1. A \in SUBSET D
  BY DEF Above
<1>2. Summable(V, A) /\ Summable(V2, A) /\ Summable(V, R)
  <2>1. IsFiniteSet(A) /\ IsFiniteSet(R)
    BY <1>1, FS_Subset, FS_RemoveElement, Zenon
  <2>2. \A x \in D : V[x] \in Int /\ V2[x] \in Int
    OBVIOUS
  <2> QED
    BY <1>1, <2>1, <2>2, Zenon DEF Summable
<1>3. SumFunctionOnSet(V, R) = SumFunctionOnSet(V2, R) /\ SumFunctionOnSet(V, R) \in Int
  <2>1. \A x \in R : V[x] = V2[x]
    BY <1>1
  <2> HIDE DEF R
  <2> QED
    BY <1>2, <2>1, SumExt, SumStep, Zenon
<1>4. CASE H[q] > c
  <2>1. q \in A
    BY <1>4 DEF Above
  <2>2. SumFunctionOnSet(V2, A) = V2[q] + SumFunctionOnSet(V2, R)
    <3> HIDE DEF A
    <3> QED
      BY <1>2, <2>1, SumRemove, Zenon
  <2>3. SumFunctionOnSet(V, A) = V[q] + SumFunctionOnSet(V, R)
    <3> HIDE DEF A
    <3> QED
      BY <1>2, <2>1, SumRemove, Zenon
  <2>4. V[q] \in Int /\ V2[q] = V[q] + v
    OBVIOUS
  <2> HIDE DEF A, R
  <2>5. SumFunctionOnSet(V2, A) = SumFunctionOnSet(V, A) + v
    BY <1>3, <2>2, <2>3, <2>4
  <2> QED
    BY <1>4, <2>5, Zenon DEF A, Gain
<1>5. CASE ~(H[q] > c)
  <2>1. R = A
    BY <1>5 DEF Above
  <2>2. SumFunctionOnSet(V2, A) = SumFunctionOnSet(V, A) + 0
    <3> HIDE DEF A, R
    <3> QED
      BY <1>3, <2>1
  <2> QED
    BY <1>5, <2>2, Zenon DEF Gain
<1> QED
  BY <1>4, <1>5

\* The first k of n values are popped, and none of them is later than c.
Pops(n, k, H, V, H2, V2, c) ==
  /\ n \in Nat /\ k \in 0..n /\ DOMAIN H = 1..n /\ DOMAIN H2 = 1..(n - k)
  /\ \A i \in 1..n : V[i] \in Int
  /\ \A i \in 1..(n - k) : H2[i] = H[i + k] /\ V2[i] = V[i + k]
  /\ \A i \in 1..k : ~(H[i] > c)

SameSum(V, H, V2, H2, c) ==
  SumFunctionOnSet(V2, Above(H2, c)) = SumFunctionOnSet(V, Above(H, c))

\* The front is popped: nothing that is popped is later than c.
LEMMA PopFront ==
  ASSUME NEW n, NEW k, NEW H, NEW V, NEW H2, NEW V2, NEW c, Pops(n, k, H, V, H2, V2, c)
  PROVE  SameSum(V, H, V2, H2, c)
<1> USE DEF Pops
<1> DEFINE A == Above(H2, c)
           up == [i \in A |-> i + k]
<1>1. A \in SUBSET (1..(n - k)) /\ IsFiniteSet(A)
  <2>1. A \in SUBSET (1..(n - k))
    BY DEF Above
  <2>2. IsFiniteSet(1..(n - k))
    BY FS_Interval
  <2> QED
    BY <2>1, <2>2, FS_Subset, Zenon
<1>2. Above(H, c) = {up[i] : i \in A}
  <2>1. ASSUME NEW j \in Above(H, c) PROVE \E i \in A : up[i] = j
    <3>1. j \in 1..n /\ H[j] > c
      BY <2>1 DEF Above
    <3>2. ~(j \in 1..k)
      BY <3>1
    <3>3. j - k \in 1..(n - k) /\ (j - k) + k = j
      BY <3>1, <3>2
    <3>4. j - k \in A
      BY <3>1, <3>3 DEF Above
    <3> QED
      BY <3>3, <3>4
  <2>2. ASSUME NEW i \in A PROVE up[i] \in Above(H, c)
    <3>1. i \in 1..(n - k) /\ H2[i] > c
      BY <2>2 DEF Above
    <3>2. i + k \in 1..n /\ H[i + k] > c
      BY <3>1
    <3> QED
      BY <3>2 DEF Above
  <2> HIDE DEF A, up
  <2> QED
    BY <2>1, <2>2
<1>3. Summable(V2, A)
  BY <1>1 DEF Summable
<1>4. \A i \in A : V2[i] = V[up[i]]
  BY <1>1
<1>5. \A i, j \in A : up[i] = up[j] => i = j
  BY <1>1
<1> HIDE DEF A, up
<1>6. SumFunctionOnSet(V2, A) = SumFunctionOnSet(V, Image(up, A))
  BY <1>3, <1>4, <1>5, SumImage, SMTT(40)
<1> QED
  BY <1>2, <1>6, Zenon DEF A, Image, SameSum
-----------------------------------------------------------------------------
(* A call joins the log                                                    *)

\* The calls of a log keep their places and hours when one is added.
LEMMA LogAppend ==
  ASSUME NEW calls \in Seq(Call), NEW e \in Call
  PROVE  LET more == Append(calls, e)
             q == Len(calls) + 1
         IN  /\ more \in Seq(Call) /\ Len(more) = q /\ more[q] = e
             /\ \A i \in Counted(calls) : i \in 1..Len(calls) /\ more[i] = calls[i] /\ calls[i] \in Call
             /\ IsFiniteSet(Counted(calls)) /\ q \notin Counted(calls)
             /\ Counted(more) = IF e.counts THEN Counted(calls) \cup {q} ELSE Counted(calls)
             /\ \A i \in Counted(calls) : Filed(more, i) = Filed(calls, i)
<1> DEFINE more == Append(calls, e)
           q == Len(calls) + 1
<1>1. /\ more \in Seq(Call) /\ Len(more) = q /\ more[q] = e /\ Len(calls) \in Nat
      /\ \A i \in 1..Len(calls) : more[i] = calls[i]
      /\ DOMAIN calls = 1..Len(calls) /\ DOMAIN more = 1..q
  OBVIOUS
<1>2. \A i \in 1..Len(calls) : calls[i] \in Call
  OBVIOUS
<1> HIDE DEF more
<1>3. Counted(calls) \in SUBSET (1..Len(calls))
  BY <1>1 DEF Counted
<1>4. IsFiniteSet(Counted(calls)) /\ q \notin Counted(calls)
  <2>1. IsFiniteSet(1..Len(calls))
    BY <1>1, FS_Interval
  <2>2. q \notin 1..Len(calls)
    BY <1>1
  <2> QED
    BY <1>3, <2>1, <2>2, FS_Subset, Zenon
<1>5. Counted(more) = IF e.counts THEN Counted(calls) \cup {q} ELSE Counted(calls)
  <2>1. 1..q = (1..Len(calls)) \cup {q}
    BY <1>1
  <2>2. q \notin 1..Len(calls)
    BY <1>1
  <2> HIDE DEF q
  <2> QED
    BY <1>1, <2>1, <2>2 DEF Counted
<1>6. ASSUME NEW i \in Counted(calls) PROVE Filed(more, i) = Filed(calls, i)
  <2>1. i \in 1..Len(calls)
    BY <1>3
  <2>2. ~(q <= i)
    BY <1>1, <2>1
  <2>3. UpTo(Counted(more), i) = UpTo(Counted(calls), i)
    BY <1>5, <2>2 DEF UpTo
  <2>4. \A j \in UpTo(Counted(calls), i) : more[j] = calls[j]
    BY <1>1, <1>3 DEF UpTo
  <2>5. {Hour(more[j].at) : j \in UpTo(Counted(more), i)}
          = {Hour(calls[j].at) : j \in UpTo(Counted(calls), i)}
    BY <2>3, <2>4
  <2> QED
    BY <2>5, Zenon DEF Filed
<1>7. \A i \in Counted(calls) : i \in 1..Len(calls) /\ more[i] = calls[i] /\ calls[i] \in Call
  BY <1>1, <1>2, <1>3
<1> QED
  BY <1>1, <1>4, <1>5, <1>6, <1>7, Zenon DEF more

\* A call that does not count leaves the history as it is (record_soft_fail).
LEMMA UncountedCall ==
  ASSUME NEW h, NEW calls \in Seq(Call), NEW e \in Call, ~e.counts, HistoryInv(h, calls)
  PROVE  HistoryInv(h, Append(calls, e))
<1> DEFINE more == Append(calls, e)
<1> HIDE DEF more
<1>1. /\ Counted(more) = Counted(calls)
      /\ \A i \in Counted(calls) : more[i] = calls[i] /\ Filed(more, i) = Filed(calls, i)
  BY LogAppend, Zenon DEF more
<1>2. Filing(more) = Filing(calls) /\ Ones(more) = Ones(calls)
  BY <1>1 DEF Filing, Ones
<1>3. Oks(more) = Oks(calls)
  BY <1>1 DEF Oks
<1>4. Lats(more) = Lats(calls)
  BY <1>1 DEF Lats
<1>5. \A c : Settled(more, c) => Settled(calls, c)
  BY <1>1 DEF Settled
<1>6. \A c : Agree(h, calls, c) => Agree(h, more, c)
  BY <1>2, <1>3, <1>4, Zenon DEF Agree
<1>7. HistoryInv(h, more)
  <2>1. /\ Counted(more) = {} => h = <<>>
        /\ Counted(more) # {} =>
             /\ h # <<>> /\ \E j \in Counted(more) : Hour(more[j].at) = Back(h).hour
             /\ \E j \in Counted(more) : \A i \in Counted(more) : more[i].at <= more[j].at
    BY <1>1, Zenon DEF HistoryInv
  <2>2. \A i \in Counted(more) : Hour(more[i].at) <= Back(h).hour /\ Filed(more, i) \in Nat
    BY <1>1, Zenon DEF HistoryInv
  <2>3. \A i, j \in DOMAIN h : i < j => h[i].hour < h[j].hour
    BY Zenon DEF HistoryInv
  <2>4. \A i \in DOMAIN h, j \in Counted(more) : ~Outdated(h[i], more[j].at)
    BY <1>1, Zenon DEF HistoryInv
  <2>5. \A c \in Int : Settled(more, c) => Agree(h, more, c)
    BY <1>5, <1>6, Zenon DEF HistoryInv
  <2> QED
    BY <2>1, <2>2, <2>3, <2>4, <2>5, Zenon DEF HistoryInv
<1> QED
  BY <1>7 DEF more
-----------------------------------------------------------------------------
(* A sample joins the history                                              *)

\* A sample joins the last bucket, whose hour is kept.
JoinsLast(h, b, s) ==
  /\ h # <<>> /\ Len(b) = Len(h)
  /\ \A i \in 1..Len(h) : b[i].hour = h[i].hour /\ (i # Len(h) => b[i] = h[i])
  /\ LET n == Len(h)
     IN  /\ b[n].samples = h[n].samples + 1
         /\ b[n].successes = h[n].successes + (IF s.ok THEN 1 ELSE 0)
         /\ b[n].latency_sum = h[n].latency_sum + s.latency

\* A sample has a bucket of its own.
OpensNext(h, b, s) ==
  /\ Len(b) = Len(h) + 1
  /\ \A i \in 1..Len(h) : b[i] = h[i]
  /\ LET n == Len(h) + 1
     IN  /\ b[n].samples = 1 /\ b[n].successes = (IF s.ok THEN 1 ELSE 0)
         /\ b[n].latency_sum = s.latency

\* A bucket that counts one more.
LEMMA CountingFacts ==
  ASSUME NEW l \in Bucket, NEW s \in Sample
  PROVE  Counting(l, s) \in Bucket
<1>1. l.hour \in Nat /\ l.samples \in Nat /\ l.successes \in Nat /\ l.latency_sum \in Nat
  BY DEF Bucket
<1>2. s.latency \in Nat
  BY DEF Sample
<1> QED
  BY <1>1, <1>2 DEF Counting, Bucket

\* The last bucket after a sample is that of the latest hour
\* (record_history: the bucket).
LEMMA BucketedFacts ==
  ASSUME NEW h \in Seq(Bucket), NEW t \in Nat, NEW s \in Sample
  PROVE  LET b == Bucketed(h, t, s)
             x == Back(b).hour
         IN  /\ b \in Seq(Bucket) /\ b # <<>> /\ x \in Nat /\ Hour(t) <= x
             /\ \/ h # <<>> /\ x = Back(h).hour /\ JoinsLast(h, b, s)
                \/ x = Hour(t) /\ (h # <<>> => Back(h).hour < x) /\ OpensNext(h, b, s)
<1> DEFINE b == Bucketed(h, t, s)
<1>1. s.ok \in BOOLEAN /\ s.latency \in Nat /\ Hour(t) \in Nat
  BY HourFacts DEF Sample
<1>2. CASE h # <<>> /\ Back(h).hour >= Hour(t)
  <2> DEFINE o == Counting(Back(h), s)
  <2>1. Len(h) \in 1..Len(h) /\ Len(h) \in Nat
    BY <1>2
  <2>2. Back(h) \in Bucket /\ Back(h) = h[Len(h)]
    BY <2>1 DEF Back
  <2>3. b = [h EXCEPT ![Len(h)] = o]
    BY <1>2, Zenon DEF Bucketed
  <2>4. o \in Bucket
    BY <2>2, CountingFacts, Zenon
  <2>5. /\ o.hour = h[Len(h)].hour /\ o.samples = h[Len(h)].samples + 1
        /\ o.successes = h[Len(h)].successes + (IF s.ok THEN 1 ELSE 0)
        /\ o.latency_sum = h[Len(h)].latency_sum + s.latency
    BY <2>2 DEF Counting
  <2> HIDE DEF o, b
  <2>6. /\ b \in Seq(Bucket) /\ Len(b) = Len(h) /\ b[Len(h)] = o
        /\ \A i \in 1..Len(h) : i # Len(h) => b[i] = h[i]
    BY <2>1, <2>3, <2>4
  <2>7. Back(b) = o /\ b # <<>>
    BY <1>2, <2>1, <2>6 DEF Back
  <2>8. Back(h).hour \in Nat
    BY <2>2 DEF Bucket
  <2>9. JoinsLast(h, b, s)
    BY <1>2, <2>5, <2>6 DEF JoinsLast
  <2> QED
    BY <1>1, <1>2, <2>2, <2>5, <2>6, <2>7, <2>8, <2>9, Zenon DEF b
<1>3. CASE ~(h # <<>> /\ Back(h).hour >= Hour(t))
  <2> DEFINE o == Counting(NewBucket(Hour(t)), s)
  <2>1. b = Append(h, o)
    BY <1>3, Zenon DEF Bucketed
  <2>2. NewBucket(Hour(t)) \in Bucket
    BY <1>1 DEF Bucket, NewBucket
  <2>3. o \in Bucket
    BY <2>2, CountingFacts, Zenon
  <2>4. /\ o.hour = Hour(t) /\ o.samples = 1 /\ o.successes = (IF s.ok THEN 1 ELSE 0)
        /\ o.latency_sum = s.latency
    BY <1>1 DEF Counting, NewBucket
  <2> HIDE DEF o, b
  <2>5. /\ b \in Seq(Bucket) /\ Len(b) = Len(h) + 1 /\ b[Len(h) + 1] = o
        /\ \A i \in 1..Len(h) : b[i] = h[i]
    BY <2>1, <2>3
  <2>6. Back(b) = o /\ b # <<>>
    BY <2>5 DEF Back
  <2>7. OpensNext(h, b, s)
    BY <2>4, <2>5 DEF OpensNext
  <2>8. h # <<>> => Back(h).hour \in Nat
    <3>1. h # <<>> => Len(h) \in 1..Len(h)
      OBVIOUS
    <3>2. h # <<>> => Back(h) \in Bucket
      BY <3>1 DEF Back
    <3> QED
      BY <3>2 DEF Bucket
  <2>9. h # <<>> => Back(h).hour < Hour(t)
    BY <1>1, <1>3, <2>8
  <2> QED
    BY <1>1, <2>4, <2>5, <2>6, <2>7, <2>9 DEF b
<1> QED
  BY <1>2, <1>3

\* The sums by hours after a sample.
SumsJoin(h, b, s, x, c) ==
  /\ GainsBy(Field(h, "samples"), Hours(h), Field(b, "samples"), Hours(b), c, Gain(x, c, 1))
  /\ GainsBy(Field(h, "successes"), Hours(h), Field(b, "successes"), Hours(b), c,
             Gain(x, c, IF s.ok THEN 1 ELSE 0))
  /\ GainsBy(Field(h, "latency_sum"), Hours(h), Field(b, "latency_sum"), Hours(b), c,
             Gain(x, c, s.latency))

\* What the fields of buckets are.
LEMMA FieldFacts ==
  ASSUME NEW h \in Seq(Bucket)
  PROVE  /\ DOMAIN Hours(h) = 1..Len(h) /\ IsFiniteSet(1..Len(h))
         /\ \A i \in 1..Len(h) :
              /\ Hours(h)[i] = h[i].hour /\ h[i].hour \in Int
              /\ Field(h, "samples")[i] = h[i].samples /\ h[i].samples \in Int
              /\ Field(h, "successes")[i] = h[i].successes /\ h[i].successes \in Int
              /\ Field(h, "latency_sum")[i] = h[i].latency_sum /\ h[i].latency_sum \in Int
<1>1. DOMAIN h = 1..Len(h) /\ Len(h) \in Nat
  OBVIOUS
<1>2. IsFiniteSet(1..Len(h))
  BY <1>1, FS_Interval
<1>3. ASSUME NEW i \in 1..Len(h)
      PROVE  /\ Hours(h)[i] = h[i].hour /\ h[i].hour \in Int
             /\ Field(h, "samples")[i] = h[i].samples /\ h[i].samples \in Int
             /\ Field(h, "successes")[i] = h[i].successes /\ h[i].successes \in Int
             /\ Field(h, "latency_sum")[i] = h[i].latency_sum /\ h[i].latency_sum \in Int
  <2>1. h[i] \in Bucket
    OBVIOUS
  <2> QED
    BY <1>1, <2>1 DEF Bucket, Hours, Field
<1>4. DOMAIN Hours(h) = 1..Len(h)
  BY <1>1 DEF Hours
<1> QED
  BY <1>2, <1>3, <1>4, Zenon

\* A sample joins the sums of the hours before its own: it is in the last bucket,
\* whether it has joined it or opened it (record_history).
LEMMA BucketSums ==
  ASSUME NEW h \in Seq(Bucket), NEW b \in Seq(Bucket), NEW s \in Sample,
         JoinsLast(h, b, s) \/ OpensNext(h, b, s), b # <<>>, NEW c \in Int
  PROVE  SumsJoin(h, b, s, Back(b).hour, c)
<1> DEFINE x == Back(b).hour
           n == Len(b)
<1>1. s.latency \in Int /\ (IF s.ok THEN 1 ELSE 0) \in Int /\ 1 \in Int
  BY DEF Sample
<1>2. n \in 1..n /\ n \in Nat /\ x = b[n].hour
  BY DEF Back
<1> DEFINE Hh == Hours(h)
           Hb == Hours(b)
<1>3. /\ DOMAIN Hh = 1..Len(h) /\ IsFiniteSet(1..Len(h)) /\ DOMAIN Hb = 1..n
      /\ \A i \in 1..Len(h) : Hh[i] = h[i].hour /\ h[i].hour \in Int
      /\ \A i \in 1..n : Hb[i] = b[i].hour /\ b[i].hour \in Int
      /\ \A i \in 1..Len(h) :
           /\ Field(h, "samples")[i] = h[i].samples /\ h[i].samples \in Int
           /\ Field(h, "successes")[i] = h[i].successes /\ h[i].successes \in Int
           /\ Field(h, "latency_sum")[i] = h[i].latency_sum /\ h[i].latency_sum \in Int
      /\ \A i \in 1..n :
           /\ Field(b, "samples")[i] = b[i].samples /\ b[i].samples \in Int
           /\ Field(b, "successes")[i] = b[i].successes /\ b[i].successes \in Int
           /\ Field(b, "latency_sum")[i] = b[i].latency_sum /\ b[i].latency_sum \in Int
  BY FieldFacts, Zenon
<1>4. Hb[n] = x
  BY <1>2, <1>3
<1> DEFINE k == IF s.ok THEN 1 ELSE 0
<1>k. k \in Int
  BY <1>1
<1> HIDE DEF Hh, Hb, x, k
<1>5. CASE JoinsLast(h, b, s)
  <2>1. n = Len(h) /\ Hb = Hh
    <3>1. n = Len(h) /\ \A i \in 1..n : Hb[i] = Hh[i]
      BY <1>3, <1>5, Zenon DEF JoinsLast
    <3>2. DOMAIN Hb = DOMAIN h /\ DOMAIN Hh = DOMAIN h
      BY <1>3, <3>1
    <3> QED
      BY <1>5, <3>1, <1>3, Zenon DEF Hb, Hh, Hours
  <2>2. ASSUME NEW V, NEW V2, NEW v \in Int,
               \A i \in 1..n : V[i] \in Int /\ (i # n => V2[i] = V[i]), V2[n] = V[n] + v
        PROVE  GainsBy(V, Hh, V2, Hb, c, Gain(x, c, v))
    <3>1. GrowsIn(1..n, n, v, Hb, V, V2, c)
      BY <1>2, <1>3, <2>1, <2>2 DEF GrowsIn
    <3>2. GainsBy(V, Hb, V2, Hb, c, Gain(Hb[n], c, v))
      BY <3>1, JoinOld, Zenon
    <3> QED
      BY <1>4, <2>1, <3>2, Zenon
  <2>3. /\ \A i \in 1..n : i # n => b[i] = h[i]
        /\ b[n].samples = h[n].samples + 1
        /\ b[n].successes = h[n].successes + k
        /\ b[n].latency_sum = h[n].latency_sum + s.latency
    BY <1>5, <2>1 DEF JoinsLast, k
  <2> DEFINE Joined(f, v) ==
        /\ \A i \in 1..n : Field(h, f)[i] \in Int /\ (i # n => Field(b, f)[i] = Field(h, f)[i])
        /\ Field(b, f)[n] = Field(h, f)[n] + v
  <2>4. Joined("samples", 1)
    BY <1>2, <1>3, <2>1, <2>3
  <2>5. Joined("successes", k)
    BY <1>2, <1>3, <2>1, <2>3, ZenonT(40)
  <2>6. Joined("latency_sum", s.latency)
    BY <1>2, <1>3, <2>1, <2>3, ZenonT(40)
  <2> DEFINE Summed(f, v) == GainsBy(Field(h, f), Hh, Field(b, f), Hb, c, Gain(x, c, v))
  <2>7. \A f, v : v \in Int /\ Joined(f, v) => Summed(f, v)
    <3> HIDE DEF n
    <3> QED
      BY <2>2, Zenon
  <2> HIDE DEF Joined
  <2>8. Summed("samples", 1) /\ Summed("successes", k) /\ Summed("latency_sum", s.latency)
    <3> HIDE DEF Summed
    <3> QED
      BY <1>1, <1>k, <2>4, <2>5, <2>6, <2>7, Zenon
  <2> QED
    BY <2>8, Zenon DEF SumsJoin, x, Hh, Hb, k
<1>6. CASE OpensNext(h, b, s)
  <2>1. n = Len(h) + 1 /\ 1..n = (1..Len(h)) \cup {n} /\ n \notin 1..Len(h)
    BY <1>6 DEF OpensNext
  <2>2. \A i \in 1..Len(h) : i \in 1..n /\ b[i] = h[i] /\ Hb[i] = Hh[i] /\ Hh[i] \in Int
    BY <1>3, <1>6, <2>1 DEF OpensNext
  <2>3. ASSUME NEW V, NEW V2, NEW v,
               \A i \in 1..Len(h) : V[i] \in Int /\ V2[i] = V[i], V2[n] = v, v \in Int
        PROVE  GainsBy(V, Hh, V2, Hb, c, Gain(x, c, v))
    <3>1. JoinsD(1..Len(h), n, Hh, V, Hb, V2, c)
      BY <1>2, <1>3, <2>1, <2>2, <2>3, Zenon DEF JoinsD
    <3>2. GainsBy(V, Hh, V2, Hb, c, Gain(Hb[n], c, V2[n]))
      BY <3>1, JoinNew, Zenon
    <3> QED
      BY <1>4, <2>3, <3>2, Zenon
  <2>4. /\ b[n].samples = 1 /\ b[n].successes = k
        /\ b[n].latency_sum = s.latency
    BY <1>6, <2>1 DEF OpensNext, k
  <2> DEFINE Joined(f, v) ==
        /\ \A i \in 1..Len(h) : Field(h, f)[i] \in Int /\ Field(b, f)[i] = Field(h, f)[i]
        /\ Field(b, f)[n] = v
  <2>5. Joined("samples", 1)
    <3>1. \A i \in 1..Len(h) : /\ Field(h, "samples")[i] \in Int
                               /\ Field(b, "samples")[i] = Field(h, "samples")[i]
      BY <1>3, <2>2, ZenonT(40)
    <3>2. Field(b, "samples")[n] = 1
      BY <1>2, <1>3, <2>4, Zenon
    <3> QED
      BY <3>1, <3>2, Zenon
  <2>6. Joined("successes", k)
    <3>1. \A i \in 1..Len(h) : /\ Field(h, "successes")[i] \in Int
                               /\ Field(b, "successes")[i] = Field(h, "successes")[i]
      BY <1>3, <2>2, ZenonT(40)
    <3>2. Field(b, "successes")[n] = k
      BY <1>2, <1>3, <2>4, Zenon
    <3> QED
      BY <3>1, <3>2, Zenon
  <2>7. Joined("latency_sum", s.latency)
    <3>1. \A i \in 1..Len(h) : /\ Field(h, "latency_sum")[i] \in Int
                               /\ Field(b, "latency_sum")[i] = Field(h, "latency_sum")[i]
      BY <1>3, <2>2, ZenonT(40)
    <3>2. Field(b, "latency_sum")[n] = s.latency
      BY <1>2, <1>3, <2>4, Zenon
    <3> QED
      BY <3>1, <3>2, Zenon
  <2> DEFINE Summed(f, v) == GainsBy(Field(h, f), Hh, Field(b, f), Hb, c, Gain(x, c, v))
  <2>8. \A f, v : v \in Int /\ Joined(f, v) => Summed(f, v)
    <3> HIDE DEF n
    <3> QED
      BY <2>3, Zenon
  <2> HIDE DEF Joined
  <2>9. Summed("samples", 1) /\ Summed("successes", k) /\ Summed("latency_sum", s.latency)
    <3> HIDE DEF Summed
    <3> QED
      BY <1>1, <1>k, <2>5, <2>6, <2>7, <2>8, Zenon
  <2> QED
    BY <2>9, Zenon DEF SumsJoin, x, Hh, Hb, k
<1> QED
  BY <1>5, <1>6

\* What is left of buckets b when the first k are dropped.
Drops(b, p, k) ==
  /\ k \in 0..(Len(b) - 1) /\ p \in Seq(Bucket) /\ Len(p) = Len(b) - k
  /\ \A i \in 1..(Len(b) - k) : p[i] = b[i + k]

\* Pruning drops the buckets that are outdated, from the front, and never the
\* bucket of the latest hour (record_history: the loop over pop_front).
LEMMA PrunedFacts ==
  ASSUME NEW b \in Seq(Bucket), b # <<>>, NEW t \in Nat, retention \in Nat,
         Hour(t) <= Back(b).hour,
         \A i, j \in DOMAIN b : i < j => b[i].hour < b[j].hour
  PROVE  \E k \in 0..(Len(b) - 1) :
           /\ Drops(b, Pruned(b, t), k)
           /\ \A i \in 1..k : Outdated(b[i], t)
           /\ \A i \in (k + 1)..Len(b) : ~Outdated(b[i], t)
<1> DEFINE n == Len(b)
           kept == {i \in DOMAIN b : ~Outdated(b[i], t)}
<1>1. n \in Nat /\ n \in 1..n /\ DOMAIN b = 1..n /\ Back(b) = b[n]
  BY DEF Back
<1>2. \A i \in 1..n : b[i].hour \in Nat
  <2>1. \A i \in 1..n : b[i] \in Bucket
    BY <1>1
  <2> QED
    BY <2>1, Zenon DEF Bucket
<1>3. HOUR \in Nat /\ Hour(t) \in Nat /\ t < Hour(t) + HOUR
  BY HourFacts, StatsAssumption, Zenon
<1>4. n \in kept /\ kept \in SUBSET Nat
  BY <1>1, <1>2, <1>3 DEF Outdated
<1>5. PICK m \in kept : \A i \in kept : m <= i
  <2> HIDE DEF kept
  <2> QED
    BY <1>4, LeastNumber, Zenon
<1>6. Min(kept) = m
  <2>1. kept \in SUBSET Int
    BY <1>4
  <2> HIDE DEF kept
  <2> QED
    BY <1>5, <2>1, MinIs, Zenon
<1>7. m \in 1..n /\ ~Outdated(b[m], t)
  BY <1>1, <1>5
<1>8. Pruned(b, t) = SubSeq(b, m, n)
  BY <1>4, <1>6, Zenon DEF Pruned
<1> DEFINE k == m - 1
<1>9. k \in 0..(n - 1) /\ k + 1 = m
  BY <1>1, <1>7
<1>10. \A i \in 1..k : Outdated(b[i], t)
  <2>1. \A i \in 1..k : i \in 1..n /\ ~(m <= i)
    BY <1>1, <1>7
  <2> QED
    BY <1>1, <1>5, <2>1, Zenon
<1>11. ASSUME NEW i \in (k + 1)..n PROVE ~Outdated(b[i], t)
  <2>1. i \in 1..n /\ (i = m \/ m < i)
    BY <1>1, <1>7
  <2>2. b[m].hour <= b[i].hour
    BY <1>1, <1>2, <1>7, <2>1
  <2> QED
    BY <1>2, <1>3, <1>7, <2>1, <2>2, SMTT(30) DEF Outdated
<1>12. /\ SubSeq(b, m, n) \in Seq(Bucket) /\ Len(SubSeq(b, m, n)) = n - k
       /\ \A i \in 1..(n - k) : SubSeq(b, m, n)[i] = b[i + k]
  BY <1>1, <1>7, SMTT(30)
<1>13. Drops(b, Pruned(b, t), k)
  BY <1>8, <1>9, <1>12, Zenon DEF Drops
<1> QED
  <2> HIDE DEF k
  <2> QED
    BY <1>9, <1>10, <1>11, <1>13, Zenon

SameSums(b, p, c) ==
  /\ SameSum(Field(b, "samples"), Hours(b), Field(p, "samples"), Hours(p), c)
  /\ SameSum(Field(b, "successes"), Hours(b), Field(p, "successes"), Hours(p), c)
  /\ SameSum(Field(b, "latency_sum"), Hours(b), Field(p, "latency_sum"), Hours(p), c)

\* Dropping buckets leaves the sums over later hours as they are.
LEMMA DroppedSums ==
  ASSUME NEW b \in Seq(Bucket), NEW p, NEW k, Drops(b, p, k), NEW c \in Int,
         \A i \in 1..k : ~(b[i].hour > c)
  PROVE  SameSums(b, p, c)
<1> DEFINE n == Len(b)
           Hb == Hours(b)
           Hp == Hours(p)
<1>1. n \in Nat /\ k \in 0..n /\ p \in Seq(Bucket) /\ Len(p) = n - k
  BY DEF Drops
<1>2. /\ DOMAIN Hb = 1..n /\ DOMAIN Hp = 1..(n - k)
      /\ \A i \in 1..n : Hb[i] = b[i].hour
      /\ \A i \in 1..(n - k) : Hp[i] = p[i].hour
      /\ \A i \in 1..n :
           /\ Field(b, "samples")[i] = b[i].samples /\ b[i].samples \in Int
           /\ Field(b, "successes")[i] = b[i].successes /\ b[i].successes \in Int
           /\ Field(b, "latency_sum")[i] = b[i].latency_sum /\ b[i].latency_sum \in Int
      /\ \A i \in 1..(n - k) :
           /\ Field(p, "samples")[i] = p[i].samples
           /\ Field(p, "successes")[i] = p[i].successes
           /\ Field(p, "latency_sum")[i] = p[i].latency_sum
  BY <1>1, FieldFacts, Zenon
<1> HIDE DEF Hb, Hp
<1>3. \A i \in 1..(n - k) : i + k \in 1..n /\ p[i] = b[i + k]
  BY <1>1 DEF Drops
<1>4. \A i \in 1..k : i \in 1..n
  BY <1>1
<1>5. \A i \in 1..k : ~(Hb[i] > c)
  BY <1>2, <1>4, Zenon
<1>6. \A i \in 1..(n - k) : Hp[i] = Hb[i + k]
  BY <1>2, <1>3
<1>7. Pops(n, k, Hb, Field(b, "samples"), Hp, Field(p, "samples"), c)
  <2>1. \A i \in 1..(n - k) : Field(p, "samples")[i] = Field(b, "samples")[i + k]
    <3> SUFFICES ASSUME NEW i \in 1..(n - k)
                 PROVE  Field(p, "samples")[i] = Field(b, "samples")[i + k]
      BY Zenon
    <3>1. i + k \in 1..n /\ p[i] = b[i + k]
      BY <1>3, Zenon
    <3> QED
      BY <1>2, <3>1, Zenon
  <2> QED
    BY <1>1, <1>2, <1>5, <1>6, <2>1, Zenon DEF Pops
<1>8. Pops(n, k, Hb, Field(b, "successes"), Hp, Field(p, "successes"), c)
  <2>1. \A i \in 1..(n - k) : Field(p, "successes")[i] = Field(b, "successes")[i + k]
    <3> SUFFICES ASSUME NEW i \in 1..(n - k)
                 PROVE  Field(p, "successes")[i] = Field(b, "successes")[i + k]
      BY Zenon
    <3>1. i + k \in 1..n /\ p[i] = b[i + k]
      BY <1>3, Zenon
    <3> QED
      BY <1>2, <3>1, Zenon
  <2> QED
    BY <1>1, <1>2, <1>5, <1>6, <2>1, Zenon DEF Pops
<1>9. Pops(n, k, Hb, Field(b, "latency_sum"), Hp, Field(p, "latency_sum"), c)
  <2>1. \A i \in 1..(n - k) : Field(p, "latency_sum")[i] = Field(b, "latency_sum")[i + k]
    <3> SUFFICES ASSUME NEW i \in 1..(n - k)
                 PROVE  Field(p, "latency_sum")[i] = Field(b, "latency_sum")[i + k]
      BY Zenon
    <3>1. i + k \in 1..n /\ p[i] = b[i + k]
      BY <1>3, Zenon
    <3> QED
      BY <1>2, <3>1, Zenon
  <2> QED
    BY <1>1, <1>2, <1>5, <1>6, <2>1, Zenon DEF Pops
<1> QED
  BY <1>7, <1>8, <1>9, PopFront, Zenon DEF SameSums, Hb, Hp
-----------------------------------------------------------------------------
(* A call that counts                                                      *)

\* What the log's sums gain from a call filed under the hour x.
LogGains(calls, more, s, x, c) ==
  /\ GainsBy(Ones(calls), Filing(calls), Ones(more), Filing(more), c, Gain(x, c, 1))
  /\ GainsBy(Oks(calls), Filing(calls), Oks(more), Filing(more), c,
             Gain(x, c, IF s.ok THEN 1 ELSE 0))
  /\ GainsBy(Lats(calls), Filing(calls), Lats(more), Filing(more), c, Gain(x, c, s.latency))

\* A call joins the sums of the log under the hour it is filed under.
LEMMA CallSums ==
  ASSUME NEW calls \in Seq(Call), NEW e \in Call, e.counts,
         \A i \in Counted(calls) : Filed(calls, i) \in Nat,
         NEW x \in Nat, Filed(Append(calls, e), Len(calls) + 1) = x, NEW c \in Int
  PROVE  LogGains(calls, Append(calls, e), e.sample, x, c)
<1> DEFINE more == Append(calls, e)
           q == Len(calls) + 1
           D == Counted(calls)
<1>1. /\ more[q] = e /\ IsFiniteSet(D) /\ q \notin D /\ Counted(more) = D \cup {q}
      /\ \A i \in D : more[i] = calls[i] /\ calls[i] \in Call /\ Filed(more, i) = Filed(calls, i)
  BY LogAppend, Zenon
<1>2. Filed(more, q) = x
  OBVIOUS
<1>3. e.sample.latency \in Nat /\ \A i \in D : calls[i].sample.latency \in Nat
  BY <1>1 DEF Call, Sample
<1> HIDE DEF more, q, D
<1>4. /\ DOMAIN Filing(calls) = D /\ DOMAIN Filing(more) = D \cup {q} /\ Filing(more)[q] = x
      /\ \A i \in D : Filing(calls)[i] \in Int /\ Filing(more)[i] = Filing(calls)[i]
  BY <1>1, <1>2 DEF Filing, D
<1> DEFINE Joins(V, V2, v) == /\ \A i \in D : V[i] \in Int /\ V2[i] = V[i]
                              /\ v \in Int /\ V2[q] = v
<1>5. Joins(Ones(calls), Ones(more), 1)
  BY <1>1 DEF Ones, D
<1>6. Joins(Oks(calls), Oks(more), IF e.sample.ok THEN 1 ELSE 0)
  BY <1>1 DEF Oks, D
<1>7. Joins(Lats(calls), Lats(more), e.sample.latency)
  BY <1>1, <1>3 DEF Lats, D
<1>8. ASSUME NEW V, NEW V2, NEW v, Joins(V, V2, v)
      PROVE  GainsBy(V, Filing(calls), V2, Filing(more), c, Gain(x, c, v))
  <2>1. JoinsD(D, q, Filing(calls), V, Filing(more), V2, c)
    BY <1>1, <1>4, <1>8 DEF JoinsD
  <2>2. GainsBy(V, Filing(calls), V2, Filing(more), c, Gain(Filing(more)[q], c, V2[q]))
    BY <2>1, JoinNew, Zenon
  <2> QED
    BY <1>4, <1>8, <2>2, Zenon
<1> HIDE DEF Joins
<1> QED
  BY <1>5, <1>6, <1>7, <1>8, Zenon DEF LogGains, more

\* Buckets and log agree on the later hours again, once both have the call.
LEMMA AgreeAgain ==
  ASSUME NEW h, NEW b, NEW p, NEW calls, NEW more, NEW s, NEW x, NEW c,
         Agree(h, calls, c), SumsJoin(h, b, s, x, c), LogGains(calls, more, s, x, c),
         SameSums(b, p, c)
  PROVE  Agree(p, more, c)
BY Zenon DEF Agree, SumsJoin, LogGains, SameSums, SameSum, GainsBy

\* The buckets stay in order, and outlast every earlier reading of the clock.
LEMMA BucketOrder ==
  ASSUME NEW h \in Seq(Bucket), NEW b \in Seq(Bucket), NEW s \in Sample, b # <<>>,
         \A i, j \in DOMAIN h : i < j => h[i].hour < h[j].hour,
         \/ JoinsLast(h, b, s)
         \/ OpensNext(h, b, s) /\ (h # <<>> => Back(h).hour < Back(b).hour)
  PROVE  /\ \A i, j \in DOMAIN b : i < j => b[i].hour < b[j].hour
         /\ h # <<>> => \A i \in DOMAIN b : \E j \in DOMAIN h : h[j].hour <= b[i].hour
<1>1. /\ DOMAIN h = 1..Len(h) /\ Len(h) \in Nat /\ DOMAIN b = 1..Len(b) /\ Len(b) \in Nat
      /\ Back(b) = b[Len(b)] /\ Back(h) = h[Len(h)]
  BY DEF Back
<1>2. (\A i \in 1..Len(h) : h[i].hour \in Nat) /\ (\A i \in 1..Len(b) : b[i].hour \in Nat)
  <2>1. (\A i \in 1..Len(h) : h[i] \in Bucket) /\ (\A i \in 1..Len(b) : b[i] \in Bucket)
    BY <1>1
  <2> QED
    BY <2>1, Zenon DEF Bucket
<1>3. CASE JoinsLast(h, b, s)
  <2>1. Len(b) = Len(h) /\ \A i \in 1..Len(h) : b[i].hour = h[i].hour
    BY <1>3 DEF JoinsLast
  <2>2. \A i \in 1..Len(h) : h[i].hour <= b[i].hour
    BY <1>2, <2>1
  <2>3. \A i, j \in DOMAIN b : i < j => b[i].hour < b[j].hour
    BY <1>1, <2>1, Zenon
  <2> QED
    BY <1>1, <2>1, <2>2, <2>3, Zenon
<1>4. CASE OpensNext(h, b, s) /\ (h # <<>> => Back(h).hour < Back(b).hour)
  <2> DEFINE n == Len(h)
  <2>1. Len(b) = n + 1 /\ \A i \in 1..n : b[i] = h[i]
    BY <1>4 DEF OpensNext
  <2>2. n # 0 => h # <<>> /\ n \in 1..n /\ h[n].hour < b[n + 1].hour
    BY <1>1, <1>4, <2>1
  <2>3. ASSUME NEW i \in 1..n PROVE b[i].hour <= h[n].hour
    <3>1. n \in Nat /\ n \in 1..n /\ i \in 1..n
      BY <1>1
    <3>2. i = n \/ i < n
      <4> HIDE DEF n
      <4> QED
        BY <3>1
    <3>3. h[i].hour \in Nat /\ h[n].hour \in Nat /\ b[i] = h[i]
      BY <1>2, <2>1, <3>1, Zenon
    <3>4. i < n => h[i].hour < h[n].hour
      BY <1>1, <3>1
    <3> QED
      BY <3>2, <3>3, <3>4
  <2>4. ASSUME NEW i \in DOMAIN b, NEW j \in DOMAIN b, i < j PROVE b[i].hour < b[j].hour
    <3>1. i \in 1..n /\ (j \in 1..n \/ j = n + 1)
      BY <1>1, <2>1, <2>4
    <3>2. CASE j \in 1..n
      BY <1>1, <2>1, <2>4, <3>1, <3>2, Zenon
    <3>3. CASE j = n + 1
      <4>1. n # 0 /\ n \in 1..n /\ n + 1 \in 1..Len(b) /\ i \in 1..Len(b)
        BY <1>1, <2>1, <3>1
      <4> QED
        BY <1>2, <2>2, <2>3, <3>1, <3>3, <4>1, SMTT(30)
    <3> QED
      BY <3>1, <3>2, <3>3
  <2>5. ASSUME h # <<>>, NEW i \in DOMAIN b PROVE \E j \in DOMAIN h : h[j].hour <= b[i].hour
    <3>1. n # 0 /\ n \in 1..n /\ n + 1 \in 1..Len(b)
      BY <1>1, <2>1, <2>5
    <3>2. CASE i \in 1..n
      BY <1>1, <1>2, <2>1, <3>2
    <3>3. CASE i = n + 1
      <4>1. h[n].hour <= b[i].hour
        BY <1>2, <2>2, <3>1, <3>3
      <4> QED
        BY <1>1, <3>1, <4>1, Zenon
    <3> QED
      BY <1>1, <2>1, <3>2, <3>3
  <2> QED
    BY <2>4, <2>5
<1> QED
  BY <1>3, <1>4

\* A new call is filed under the hour of the last bucket.
LEMMA NewFiled ==
  ASSUME NEW h \in Seq(Bucket), NEW calls \in Seq(Call), NEW e \in Call, e.counts,
         HistoryInv(h, calls), NEW x \in Nat, Hour(e.at) <= x,
         h # <<>> => Back(h).hour <= x,
         x = Hour(e.at) \/ (h # <<>> /\ x = Back(h).hour)
  PROVE  LET more == Append(calls, e)
         IN  /\ Filed(more, Len(calls) + 1) = x
             /\ \A i \in Counted(more) : Hour(more[i].at) <= x
             /\ \E i \in Counted(more) : Hour(more[i].at) = x
<1> DEFINE more == Append(calls, e)
           q == Len(calls) + 1
           D == Counted(calls)
<1>1. /\ more[q] = e /\ Counted(more) = D \cup {q}
      /\ \A i \in D : i \in 1..Len(calls) /\ more[i] = calls[i] /\ calls[i] \in Call
  BY LogAppend, Zenon
<1>2. \A i \in D \cup {q} : Hour(more[i].at) \in Nat
  <2>1. \A i \in D \cup {q} : more[i].at \in Nat
    BY <1>1, Zenon DEF Call
  <2> HIDE DEF more, q, D
  <2> QED
    BY <2>1, HourFacts, Zenon
<1> HIDE DEF more, D
<1>3. \A i \in Counted(more) : Hour(more[i].at) <= x
  <2>1. ASSUME NEW i \in D PROVE Hour(more[i].at) <= x
    <3>1. h # <<>> /\ Hour(more[i].at) <= Back(h).hour
      BY <1>1, Zenon DEF HistoryInv, D
    <3>2. Len(h) \in 1..Len(h)
      BY <3>1
    <3>3. Back(h) \in Bucket
      BY <3>2 DEF Back
    <3>4. Back(h).hour \in Nat
      BY <3>3 DEF Bucket
    <3> QED
      BY <1>2, <3>1, <3>4
  <2> QED
    BY <1>1, <2>1
<1>4. \E i \in Counted(more) : Hour(more[i].at) = x
  <2>1. CASE x = Hour(e.at)
    BY <1>1, <2>1
  <2>2. CASE h # <<>> /\ x = Back(h).hour
    BY <1>1, <2>2, Zenon DEF HistoryInv, D
  <2> QED
    BY <2>1, <2>2
<1> DEFINE A == {Hour(more[i].at) : i \in UpTo(Counted(more), q)}
<1>5. UpTo(Counted(more), q) = Counted(more)
  BY <1>1 DEF UpTo
<1>6. x \in A /\ A \in SUBSET Int /\ \A y \in A : y <= x
  <2>1. x \in A
    BY <1>4, <1>5, Zenon
  <2>2. \A y \in A : \E i \in Counted(more) : y = Hour(more[i].at)
    BY <1>5, Zenon
  <2> HIDE DEF A
  <2>3. \A y \in A : y \in Int /\ y <= x
    BY <1>1, <1>2, <1>3, <2>2
  <2> QED
    BY <2>1, <2>3
<1>7. Max(A) = x
  <2> HIDE DEF A
  <2> QED
    BY <1>6, MaxIs, Zenon
<1> QED
  BY <1>3, <1>4, <1>7, Zenon DEF Filed, more

\* A call that counts keeps history and log in agreement, whatever the clock
\* reads (record_history).
LEMMA CountedCall ==
  ASSUME NEW h \in Seq(Bucket), NEW calls \in Seq(Call), NEW e \in Call, e.counts,
         retention \in Nat, HistoryInv(h, calls)
  PROVE  LET p == record_history(h, e.at, e.sample)
         IN  p \in Seq(Bucket) /\ HistoryInv(p, Append(calls, e))
<1> DEFINE t == e.at
           s == e.sample
           b == Bucketed(h, t, s)
           x == Back(b).hour
           p == Pruned(b, t)
           more == Append(calls, e)
           q == Len(calls) + 1
           D == Counted(calls)
<1>1. t \in Nat /\ s \in Sample
  BY DEF Call
<1>2. /\ b \in Seq(Bucket) /\ b # <<>> /\ x \in Nat /\ Hour(t) <= x
      /\ \/ h # <<>> /\ x = Back(h).hour /\ JoinsLast(h, b, s)
         \/ x = Hour(t) /\ (h # <<>> => Back(h).hour < x) /\ OpensNext(h, b, s)
  BY <1>1, BucketedFacts, Zenon
<1>3. /\ \A i, j \in DOMAIN h : i < j => h[i].hour < h[j].hour
      /\ \A i \in DOMAIN h, j \in D : ~Outdated(h[i], calls[j].at)
      /\ \A i \in D : Filed(calls, i) \in Nat
      /\ D # {} => h # <<>> /\ \E j \in D : \A i \in D : calls[i].at <= calls[j].at
      /\ \A c \in Int : Settled(calls, c) => Agree(h, calls, c)
  BY Zenon DEF HistoryInv
<1>4. /\ more \in Seq(Call) /\ more[q] = e /\ Counted(more) = D \cup {q}
      /\ \A i \in D : more[i] = calls[i] /\ calls[i] \in Call /\ Filed(more, i) = Filed(calls, i)
  BY LogAppend, Zenon
<1> HIDE DEF b, p, more, q, D
<1>5. h # <<>> => Back(h).hour <= x
  <2>1. ASSUME h # <<>> PROVE Back(h).hour \in Nat
    <3>1. Len(h) \in 1..Len(h)
      BY <2>1
    <3>2. Back(h) \in Bucket
      BY <3>1 DEF Back
    <3> QED
      BY <3>2 DEF Bucket
  <2> QED
    BY <1>2, <2>1
<1>6. /\ Filed(more, q) = x
      /\ \A i \in Counted(more) : Hour(more[i].at) <= x
      /\ \E i \in Counted(more) : Hour(more[i].at) = x
  <2>1. x = Hour(e.at) \/ (h # <<>> /\ x = Back(h).hour)
    BY <1>2
  <2> HIDE DEF x
  <2> QED
    BY <1>2, <1>5, <2>1, NewFiled, Zenon DEF more, q
<1>7. /\ \A i, j \in DOMAIN b : i < j => b[i].hour < b[j].hour
      /\ h # <<>> => \A i \in DOMAIN b : \E j \in DOMAIN h : h[j].hour <= b[i].hour
  <2>1. \/ JoinsLast(h, b, s)
        \/ OpensNext(h, b, s) /\ (h # <<>> => Back(h).hour < Back(b).hour)
    BY <1>2
  <2> HIDE DEF s
  <2> QED
    BY <1>1, <1>2, <1>3, <2>1, BucketOrder, Zenon
<1>8. PICK k \in 0..(Len(b) - 1) :
        /\ Drops(b, p, k)
        /\ \A i \in 1..k : Outdated(b[i], t)
        /\ \A i \in (k + 1)..Len(b) : ~Outdated(b[i], t)
  <2> HIDE DEF t
  <2> QED
    BY <1>1, <1>2, <1>7, PrunedFacts, Zenon DEF p
<1>9. /\ p \in Seq(Bucket) /\ Len(p) = Len(b) - k /\ Len(b) \in Nat /\ k \in Nat /\ k < Len(b)
      /\ DOMAIN p = 1..(Len(b) - k) /\ DOMAIN b = 1..Len(b)
      /\ \A i \in 1..(Len(b) - k) : p[i] = b[i + k] /\ i + k \in (k + 1)..Len(b) /\ i + k \in 1..Len(b)
  BY <1>2, <1>8 DEF Drops
<1>10. p # <<>> /\ Back(p) = Back(b)
  BY <1>9 DEF Back
<1>11. \E j \in D \cup {q} : \A i \in D \cup {q} : more[i].at <= more[j].at
  <2>1. more[q].at = t /\ \A i \in D : more[i].at \in Nat
    BY <1>4, Zenon DEF Call
  <2>2. CASE D = {}
    BY <1>1, <2>1, <2>2
  <2>3. CASE D # {}
    <3>1. PICK j \in D : \A i \in D : more[i].at <= more[j].at
      BY <1>3, <1>4, <2>3, Zenon
    <3>2. CASE more[j].at <= t
      <4>1. \A i \in D \cup {q} : more[i].at <= more[q].at
        BY <1>1, <2>1, <3>1, <3>2
      <4> QED
        BY <4>1, Zenon
    <3>3. CASE ~(more[j].at <= t)
      <4>1. \A i \in D \cup {q} : more[i].at <= more[j].at
        BY <1>1, <2>1, <3>1, <3>3
      <4> QED
        BY <3>1, <4>1, Zenon
    <3> QED
      BY <3>2, <3>3
  <2> QED
    BY <2>2, <2>3
<1>12. \A i, j \in DOMAIN p : i < j => p[i].hour < p[j].hour
  <2> SUFFICES ASSUME NEW i \in DOMAIN p, NEW j \in DOMAIN p, i < j
               PROVE  p[i].hour < p[j].hour
    OBVIOUS
  <2>1. i + k < j + k /\ p[i] = b[i + k] /\ p[j] = b[j + k] /\ i + k \in DOMAIN b /\ j + k \in DOMAIN b
    BY <1>9
  <2> QED
    BY <1>7, <2>1
<1>13. ASSUME NEW i \in DOMAIN p, NEW j \in Counted(more) PROVE ~Outdated(p[i], more[j].at)
  <2>1. p[i] = b[i + k] /\ i + k \in DOMAIN b /\ ~Outdated(b[i + k], t)
    BY <1>8, <1>9, Zenon
  <2>2. CASE j = q
    BY <1>4, <2>1, <2>2, Zenon
  <2>3. CASE j \in D
    <3>1. h # <<>> /\ more[j] = calls[j] /\ calls[j].at \in Nat
      BY <1>3, <1>4, <2>3 DEF Call
    <3>2. PICK l \in DOMAIN h : h[l].hour <= b[i + k].hour
      BY <1>7, <2>1, <3>1, Zenon
    <3>3. ~Outdated(h[l], calls[j].at)
      BY <1>3, <2>3, Zenon
    <3>4. h[l] \in Bucket /\ b[i + k] \in Bucket
      BY <1>2, <2>1
    <3>5. h[l].hour \in Nat /\ b[i + k].hour \in Nat /\ HOUR \in Nat
      BY <3>4, StatsAssumption, Zenon DEF Bucket
    <3> DEFINE u == h[l].hour
               v == b[i + k].hour
               at == calls[j].at
    <3>6. ~(retention # 0 /\ v + HOUR <= at - retention)
      <4>1. u \in Nat /\ v \in Nat /\ HOUR \in Nat /\ at \in Nat /\ u <= v
        BY <3>1, <3>2, <3>5
      <4>2. ~(retention # 0 /\ u + HOUR <= at - retention)
        BY <3>3, Zenon DEF Outdated
      <4> HIDE DEF u, v, at
      <4> QED
        BY <4>1, <4>2
    <3>7. ~Outdated(b[i + k], calls[j].at)
      BY <3>6, Zenon DEF Outdated
    <3> QED
      BY <2>1, <3>1, <3>7, Zenon
  <2> QED
    BY <1>4, <2>2, <2>3, Zenon
<1>14. ASSUME NEW c \in Int, Settled(more, c) PROVE Agree(p, more, c)
  <2>1. Settled(calls, c)
    BY <1>4, <1>14 DEF Settled, D
  <2>2. Agree(h, calls, c)
    BY <1>3, <2>1
  <2>3. retention # 0 => c + HOUR >= t - retention
    BY <1>4, <1>14 DEF Settled
  <2>4. ASSUME NEW i \in 1..k PROVE ~(b[i].hour > c)
    <3>1. i \in DOMAIN b /\ Outdated(b[i], t)
      BY <1>8, <1>9
    <3>2. b[i] \in Bucket
      BY <1>2, <3>1
    <3>3. b[i].hour \in Nat /\ HOUR \in Nat
      BY <3>2, StatsAssumption DEF Bucket
    <3> QED
      <4> DEFINE u == b[i].hour
      <4>1. retention # 0 /\ u + HOUR <= t - retention
        BY <3>1, Zenon DEF Outdated
      <4>2. u \in Nat
        BY <3>3, Zenon
      <4> HIDE DEF u
      <4>3. ~(u > c)
        BY <1>1, <2>3, <3>3, <4>1, <4>2
      <4> QED
        BY <4>3, Zenon DEF u
  <2>5. SameSums(b, p, c)
    BY <1>2, <1>8, <2>4, DroppedSums, Zenon
  <2>6. SumsJoin(h, b, s, x, c)
    <3> HIDE DEF s
    <3> QED
      BY <1>1, <1>2, BucketSums, Zenon
  <2>7. LogGains(calls, more, s, x, c)
    <3> HIDE DEF x
    <3> QED
      BY <1>2, <1>3, <1>6, CallSums, Zenon DEF D, more, q
  <2> QED
    <3> HIDE DEF x, s
    <3> QED
      BY <2>2, <2>5, <2>6, <2>7, AgreeAgain, Zenon
<1>15. HistoryInv(p, more)
  <2>1. Counted(more) # {} /\ \A i \in Counted(more) : Filed(more, i) \in Nat
    BY <1>2, <1>3, <1>4, <1>6, Zenon
  <2> QED
    BY <1>4, <1>6, <1>10, <1>11, <1>12, <1>13, <1>14, <2>1, Zenon DEF HistoryInv
<1> QED
  BY <1>9, <1>15, Zenon DEF record_history, p, b, more
-----------------------------------------------------------------------------
(* What is shown                                                           *)

\* The window stays the end of the log (UpstreamStats::push).
LEMMA WindowStep ==
  ASSUME NEW w \in Seq(Sample), NEW calls \in Seq(Call), NEW e \in Call, WindowInv(w, calls)
  PROVE  push(w, e.sample) \in Seq(Sample) /\ WindowInv(push(w, e.sample), Append(calls, e))
<1> DEFINE s == e.sample
           v == push(w, s)
           more == Append(calls, e)
           n == Len(calls)
<1>1. s \in Sample /\ Window \in Nat /\ Window > 0
  BY StatsAssumption DEF Call
<1>2. n \in Nat /\ Len(w) \in Nat /\ Len(w) = IF n < Window THEN n ELSE Window
  BY DEF WindowInv
<1>3. \A i \in 1..Len(w) : w[i] = calls[n - Len(w) + i].sample
  BY DEF WindowInv
<1>4. Len(w) <= Window
  BY <1>1, <1>2
<1>5. /\ v \in Seq(Sample)
      /\ Len(v) = IF Len(w) = Window THEN Window ELSE Len(w) + 1
      /\ \A i \in 1..Len(v) :
           v[i] = IF i = Len(v) THEN s ELSE w[i + Len(w) + 1 - Len(v)]
  <2> HIDE DEF s
  <2> QED
    BY <1>1, <1>4, PushFacts, Zenon
<1>6. Len(more) = n + 1 /\ more[n + 1] = e /\ \A i \in 1..n : more[i] = calls[i]
  OBVIOUS
<1> HIDE DEF v, more, n
<1>7. Len(v) = IF Len(more) < Window THEN Len(more) ELSE Window
  BY <1>1, <1>2, <1>5, <1>6
<1>8. ASSUME NEW i \in 1..Len(v) PROVE v[i] = more[Len(more) - Len(v) + i].sample
  <2>1. Len(v) \in Nat
    BY <1>5
  <2>2. CASE i = Len(v)
    <3>1. Len(more) - Len(v) + i = n + 1
      BY <1>2, <1>6, <2>1, <2>2
    <3> QED
      BY <1>5, <1>6, <2>2, <3>1, Zenon
  <2>3. CASE i # Len(v)
    <3> DEFINE j == i + Len(w) + 1 - Len(v)
    <3>1. j \in 1..Len(w) /\ n - Len(w) + j = Len(more) - Len(v) + i /\ n - Len(w) + j \in 1..n
      <4> DEFINE a == Len(w)
                 d == Len(v)
                 l == Len(more)
      <4>1. (d = a \/ d = a + 1) /\ a <= n /\ a \in Nat /\ d \in Nat /\ n \in Nat /\ l = n + 1
        BY <1>1, <1>2, <1>5, <1>6, <2>1
      <4>2. i \in 1..d /\ i # d
        BY <2>3
      <4> HIDE DEF a, d, l
      <4>3. i + a + 1 - d \in 1..a /\ n - a + (i + a + 1 - d) = l - d + i /\ n - a + (i + a + 1 - d) \in 1..n
        BY <4>1, <4>2
      <4> QED
        BY <4>3, Zenon DEF a, d, l
    <3>2. v[i] = w[j]
      BY <1>5, <2>3
    <3> HIDE DEF j
    <3> QED
      BY <1>3, <1>6, <3>1, <3>2
  <2> QED
    BY <2>2, <2>3
<1> QED
  BY <1>5, <1>7, <1>8, Zenon DEF WindowInv, v, more

\* What is current and what is shown are what is later than some hour that no
\* pruning has reached (snapshot_at).
LEMMA ShownHours ==
  ASSUME NEW h \in Seq(Bucket), NEW calls \in Seq(Call), retention \in Nat,
         HistoryInv(h, calls), NEW t \in Nat
  PROVE  \E c \in Int :
           /\ Settled(calls, c)
           /\ {i \in DOMAIN h : ~Outdated(h[i], t)} = Above(Hours(h), c)
           /\ Shown(calls, t) = Above(Filing(calls), c)
<1> DEFINE D == Counted(calls)
<1>1. /\ \A i \in DOMAIN h, j \in D : ~Outdated(h[i], calls[j].at)
      /\ \A i \in D : Filed(calls, i) \in Nat
      /\ D # {} => \E j \in D : \A i \in D : calls[i].at <= calls[j].at
  BY Zenon DEF HistoryInv
<1>2. \A j \in D : calls[j].at \in Nat
  <2>1. \A j \in D : calls[j] \in Call
    BY DEF Counted
  <2> QED
    BY <2>1 DEF Call
<1>3. \A i \in DOMAIN h : h[i].hour \in Nat
  <2>1. \A i \in DOMAIN h : h[i] \in Bucket
    OBVIOUS
  <2> QED
    BY <2>1 DEF Bucket
<1>4. HOUR \in Nat
  BY StatsAssumption
<1>5. CASE retention = 0
  <2>1. Settled(calls, -1)
    BY <1>5 DEF Settled
  <2>2. {i \in DOMAIN h : ~Outdated(h[i], t)} = Above(Hours(h), -1)
    BY <1>3, <1>5 DEF Outdated, Above, Hours
  <2>3. Shown(calls, t) = Above(Filing(calls), -1)
    BY <1>1, <1>5 DEF Shown, Above, Filing
  <2> QED
    BY <2>1, <2>2, <2>3
<1>6. CASE retention # 0
  <2> DEFINE A == {t} \cup {calls[i].at : i \in D}
  <2>1. PICK M \in A : \A y \in A : y <= M
    <3>1. CASE D = {}
      BY <3>1
    <3>2. CASE D # {}
      <4>1. PICK j \in D : \A i \in D : calls[i].at <= calls[j].at
        BY <1>1, <3>2
      <4>2. CASE calls[j].at <= t
        <5>1. \A y \in A : y <= t
          BY <1>2, <4>1, <4>2
        <5> QED
          BY <5>1
      <4>3. CASE ~(calls[j].at <= t)
        <5>1. \A y \in A : y <= calls[j].at
          BY <1>2, <4>1, <4>3
        <5> QED
          BY <4>1, <5>1, Zenon
      <4> QED
        BY <4>2, <4>3
    <3> QED
      BY <3>1, <3>2
  <2>2. A \in SUBSET Int
    BY <1>2
  <2>3. Max(A) = M
    <3> HIDE DEF A
    <3> QED
      BY <2>1, <2>2, MaxIs, Zenon
  <2>4. M \in Nat /\ t <= M /\ \A i \in D : calls[i].at <= M
    BY <1>2, <2>1
  <2> DEFINE c == M - retention - HOUR
  <2>5. c \in Int /\ c + HOUR = M - retention
    BY <1>4, <2>4
  <2>6. Settled(calls, c)
    BY <1>2, <2>4, <2>5 DEF Settled
  <2>7. ASSUME NEW i \in DOMAIN h PROVE ~Outdated(h[i], t) <=> h[i].hour > c
    <3>1. M = t \/ ~Outdated(h[i], M)
      BY <1>1, <2>1
    <3> DEFINE hour == h[i].hour
    <3>2. hour \in Nat /\ (M = t \/ ~(hour + HOUR <= M - retention))
      BY <1>3, <1>6, <3>1 DEF Outdated
    <3>3. ~(hour + HOUR <= t - retention) <=> hour > c
      <4> HIDE DEF hour
      <4> QED
        BY <1>4, <2>4, <3>2
    <3> QED
      BY <1>6, <3>3 DEF Outdated
  <2>8. {i \in DOMAIN h : ~Outdated(h[i], t)} = Above(Hours(h), c)
    <3> HIDE DEF c
    <3> QED
      BY <2>7 DEF Above, Hours
  <2>9. Shown(calls, t) = {i \in D : Filed(calls, i) + HOUR > M - retention}
    BY <1>6, <2>3, Zenon DEF Shown
  <2>10. \A i \in D : Filed(calls, i) + HOUR > M - retention <=> Filed(calls, i) > c
    BY <1>1, <1>4, <2>4
  <2>11. Shown(calls, t) = Above(Filing(calls), c)
    <3> HIDE DEF c
    <3> QED
      BY <2>9, <2>10 DEF Above, Filing
  <2> HIDE DEF c
  <2> QED
    BY <2>5, <2>6, <2>8, <2>11, Zenon
<1> QED
  BY <1>5, <1>6

\* The buckets that are current add up to the calls to be shown (snapshot_at).
LEMMA ShownSums ==
  ASSUME NEW h \in Seq(Bucket), NEW calls \in Seq(Call), retention \in Nat,
         HistoryInv(h, calls), NEW t \in Nat
  PROVE  LET current == {i \in DOMAIN h : ~Outdated(h[i], t)}
             shown == Shown(calls, t)
         IN  /\ SumOf(h, current, "samples") = Cardinality(shown)
             /\ SumOf(h, current, "successes") = Quantify(shown, LAMBDA i : calls[i].sample.ok)
             /\ SumOf(h, current, "latency_sum")
                  = SumFunctionOnSet([i \in shown |-> calls[i].sample.latency], shown)
<1> DEFINE current == {i \in DOMAIN h : ~Outdated(h[i], t)}
           shown == Shown(calls, t)
<1>1. PICK c \in Int : /\ Settled(calls, c) /\ current = Above(Hours(h), c)
                       /\ shown = Above(Filing(calls), c)
  BY ShownHours, Zenon
<1>2. Agree(h, calls, c)
  BY <1>1, Zenon DEF HistoryInv
<1>3. /\ SumOf(h, current, "samples") = SumFunctionOnSet(Ones(calls), shown)
      /\ SumOf(h, current, "successes") = SumFunctionOnSet(Oks(calls), shown)
      /\ SumOf(h, current, "latency_sum") = SumFunctionOnSet(Lats(calls), shown)
  BY <1>1, <1>2, Zenon DEF Agree, SumOf, Field
<1>4. shown \in SUBSET Counted(calls) /\ Counted(calls) \in SUBSET (1..Len(calls))
  BY DEF Shown, Counted
<1>5. IsFiniteSet(shown)
  <2>1. IsFiniteSet(1..Len(calls))
    BY FS_Interval
  <2> QED
    BY <1>4, <2>1, FS_Subset, Zenon
<1> HIDE DEF current, shown
<1>6. SumFunctionOnSet(Ones(calls), shown) = Cardinality(shown)
  <2>1. \A i \in shown : Ones(calls)[i] = 1
    BY <1>4 DEF Ones
  <2>2. \A i \in shown : Ones(calls)[i] \in {0, 1}
    BY <2>1
  <2>3. {i \in shown : Ones(calls)[i] = 1} = shown
    BY <2>1
  <2> QED
    BY <1>5, <2>2, <2>3, SumCounts, Zenon
<1>7. SumFunctionOnSet(Oks(calls), shown) = Quantify(shown, LAMBDA i : calls[i].sample.ok)
  <2>1. \A i \in shown : Oks(calls)[i] = IF calls[i].sample.ok THEN 1 ELSE 0
    BY <1>4 DEF Oks
  <2>2. \A i \in shown : Oks(calls)[i] \in {0, 1}
    BY <2>1
  <2>3. {i \in shown : Oks(calls)[i] = 1} = {i \in shown : calls[i].sample.ok}
    BY <2>1
  <2>4. SumFunctionOnSet(Oks(calls), shown) = Cardinality({i \in shown : Oks(calls)[i] = 1})
    BY <1>5, <2>2, SumCounts, Zenon
  <2> QED
    BY <2>3, <2>4, Zenon DEF Quantify
<1>8. SumFunctionOnSet(Lats(calls), shown)
        = SumFunctionOnSet([i \in shown |-> calls[i].sample.latency], shown)
  <2> DEFINE g == [i \in shown |-> calls[i].sample.latency]
  <2>1. \A i \in shown : Lats(calls)[i] = g[i] /\ calls[i] \in Call
    BY <1>4 DEF Lats
  <2>2. \A i \in shown : Lats(calls)[i] \in Int
    BY <2>1 DEF Call, Sample
  <2>3. Summable(Lats(calls), shown)
    BY <1>5, <2>2, Zenon DEF Summable
  <2> HIDE DEF g
  <2>4. \A i \in shown : Lats(calls)[i] = g[i]
    BY <2>1, Zenon
  <2> QED
    BY <2>3, <2>4, SumExt, Zenon DEF g
<1> QED
  BY <1>3, <1>6, <1>7, <1>8, Zenon DEF current, shown

\* The invariant gives the exactness of what is shown.
LEMMA InvShows ==
  ASSUME Inv
  PROVE  SnapshotExact
<1> SUFFICES ASSUME NEW m \in Members, NEW t \in Clock
             PROVE  LET calls == log[m]
                        shown == Shown(calls, t)
                        recent == Min({Window, Len(calls)})
                    IN  /\ snapshot_at(m, t) =
                             [samples |-> Cardinality(shown),
                              successes |-> Quantify(shown, LAMBDA i : calls[i].sample.ok),
                              latency_sum |-> SumFunctionOnSet([i \in shown |-> calls[i].sample.latency], shown)]
                        /\ samples[m] = [i \in 1..recent |-> calls[Len(calls) - recent + i].sample]
  BY Zenon DEF SnapshotExact
<1> DEFINE calls == log[m]
           h == history[m]
           w == samples[m]
           shown == Shown(calls, t)
           recent == Min({Window, Len(calls)})
<1>1. /\ retention \in Nat /\ calls \in Seq(Call) /\ h \in Seq(Bucket) /\ w \in Seq(Sample)
      /\ HistoryInv(h, calls) /\ WindowInv(w, calls)
  BY DEF Inv, TypeOK
<1>2. t \in Nat /\ Window \in Nat
  BY StatsAssumption
<1>3. snapshot_at(m, t) =
        [samples |-> Cardinality(shown),
         successes |-> Quantify(shown, LAMBDA i : calls[i].sample.ok),
         latency_sum |-> SumFunctionOnSet([i \in shown |-> calls[i].sample.latency], shown)]
  <2> DEFINE current == {i \in DOMAIN h : ~Outdated(h[i], t)}
  <2>1. /\ SumOf(h, current, "samples") = Cardinality(shown)
        /\ SumOf(h, current, "successes") = Quantify(shown, LAMBDA i : calls[i].sample.ok)
        /\ SumOf(h, current, "latency_sum")
             = SumFunctionOnSet([i \in shown |-> calls[i].sample.latency], shown)
    <3> HIDE DEF h, calls
    <3> QED
      BY <1>1, <1>2, ShownSums, Zenon
  <2>2. snapshot_at(m, t) = [samples |-> SumOf(h, current, "samples"),
                             successes |-> SumOf(h, current, "successes"),
                             latency_sum |-> SumOf(h, current, "latency_sum")]
    BY Zenon DEF snapshot_at
  <2> QED
    BY <2>1, <2>2, Zenon
<1>4. w = [i \in 1..recent |-> calls[Len(calls) - recent + i].sample]
  <2>1. Len(calls) \in Nat /\ Len(w) \in Nat
    BY <1>1
  <2>2. recent = Len(w)
    <3> DEFINE A == {Window, Len(calls)}
    <3>1. Len(w) \in A /\ A \in SUBSET Int /\ \A y \in A : Len(w) <= y
      BY <1>1, <1>2, <2>1 DEF WindowInv
    <3> HIDE DEF A
    <3>2. Min(A) = Len(w)
      BY <3>1, MinIs, Zenon
    <3> QED
      BY <3>2, Zenon DEF A
  <2> HIDE DEF recent, w, calls
  <2>3. w = [i \in 1..Len(w) |-> w[i]]
    BY <1>1
  <2>4. \A i \in 1..Len(w) : w[i] = calls[Len(calls) - Len(w) + i].sample
    BY <1>1, Zenon DEF WindowInv
  <2>5. [i \in 1..Len(w) |-> w[i]] = [i \in 1..Len(w) |-> calls[Len(calls) - Len(w) + i].sample]
    BY <2>4
  <2> QED
    BY <2>2, <2>3, <2>5, Zenon
<1> QED
  BY <1>3, <1>4, Zenon

\* Without calls there is neither history nor window (with_retention).
LEMMA InvInit ==
  ASSUME Init
  PROVE  Inv
<1>1. TypeOK
  <2>1. retention \in Nat
    BY StatsAssumption DEF Init
  <2>2. \A S : <<>> \in Seq(S)
    OBVIOUS
  <2> QED
    BY <2>1, <2>2, Zenon DEF Init, TypeOK
<1>2. \A m \in Members : history[m] = <<>> /\ log[m] = <<>> /\ samples[m] = <<>>
  BY DEF Init
<1>3. Counted(<<>>) = {}
  BY DEF Counted
<1>4. WindowInv(<<>>, <<>>)
  BY StatsAssumption DEF WindowInv
<1>5. ASSUME NEW c PROVE Agree(<<>>, <<>>, c)
  <2>1. Above(Hours(<<>>), c) = {} /\ Above(Filing(<<>>), c) = {}
    BY <1>3 DEF Above, Hours, Filing
  <2>2. \A f : Summable(f, {})
    BY FS_EmptySet DEF Summable
  <2>3. \A f : SumFunctionOnSet(f, {}) = 0
    BY <2>2, SumStep, Zenon
  <2> QED
    BY <2>1, <2>3, Zenon DEF Agree
<1>6. HistoryInv(<<>>, <<>>)
  <2>1. \A i \in DOMAIN <<>> : FALSE
    OBVIOUS
  <2> QED
    BY <1>3, <1>5, <2>1, Zenon DEF HistoryInv
<1> QED
  BY <1>1, <1>2, <1>4, <1>6, Zenon DEF Inv

\* The invariant of a member's history is about the retention period, which no
\* step changes.
LEMMA SameRetention ==
  ASSUME NEW h, NEW calls, retention' = retention, HistoryInv(h, calls)
  PROVE  HistoryInv(h, calls)'
<1>1. \A b, t : Outdated(b, t)' <=> Outdated(b, t)
  BY DEF Outdated
<1>2. \A c : Settled(calls, c)' <=> Settled(calls, c)
  BY DEF Settled
<1> QED
  BY <1>1, <1>2, Zenon DEF HistoryInv

\* Any call recorded, of any member (Record).
LEMMA RecordInv ==
  ASSUME Inv, NEW m \in Members, NEW t \in Nat, NEW s \in Sample, NEW counts \in BOOLEAN,
         Record(m, t, s, counts)
  PROVE  Inv'
<1> DEFINE e == [at |-> t, sample |-> s, counts |-> counts]
           h == history[m]
           calls == log[m]
           p == IF counts THEN record_history(h, t, s) ELSE h
           more == Append(calls, e)
           v == push(samples[m], s)
<1>1. e \in Call /\ e.at = t /\ e.sample = s /\ e.counts = counts
  BY DEF Call
<1>2. /\ retention \in Nat /\ retention' = retention
      /\ samples \in [Members -> Seq(Sample)] /\ samples' = [samples EXCEPT ![m] = v]
      /\ history \in [Members -> Seq(Bucket)] /\ history' = [history EXCEPT ![m] = p]
      /\ log \in [Members -> Seq(Call)] /\ log' = [log EXCEPT ![m] = more]
  BY Zenon DEF Inv, TypeOK, Record
<1>3. /\ h \in Seq(Bucket) /\ calls \in Seq(Call) /\ samples[m] \in Seq(Sample)
      /\ HistoryInv(h, calls) /\ WindowInv(samples[m], calls)
  BY <1>2, Zenon DEF Inv
<1> HIDE DEF e
<1>4. p \in Seq(Bucket) /\ HistoryInv(p, more)
  <2>1. CASE counts
    <3> HIDE DEF h, calls
    <3>1. record_history(h, t, s) \in Seq(Bucket) /\ HistoryInv(record_history(h, t, s), more)
      BY <1>1, <1>2, <1>3, <2>1, CountedCall, Zenon
    <3> QED
      BY <2>1, <3>1, Zenon
  <2>2. CASE ~counts
    <3> HIDE DEF h, calls
    <3>1. HistoryInv(h, more)
      BY <1>1, <1>3, <2>2, UncountedCall, Zenon
    <3> QED
      BY <1>3, <2>2, <3>1, Zenon
  <2> QED
    BY <2>1, <2>2
<1>5. v \in Seq(Sample) /\ WindowInv(v, more)
  <2> HIDE DEF calls
  <2> QED
    BY <1>1, <1>3, WindowStep, Zenon
<1>6. more \in Seq(Call)
  BY <1>1, <1>3
<1> HIDE DEF p, more, v
<1>7. TypeOK'
  BY <1>2, <1>4, <1>5, <1>6, Zenon DEF TypeOK
<1>8. ASSUME NEW o \in Members
      PROVE  HistoryInv(history'[o], log'[o]) /\ WindowInv(samples'[o], log'[o])
  <2>1. CASE o = m
    BY <1>2, <1>4, <1>5, <2>1, Zenon
  <2>2. CASE o # m
    <3>1. history'[o] = history[o] /\ log'[o] = log[o] /\ samples'[o] = samples[o]
      BY <1>2, <2>2
    <3> QED
      BY <3>1, Zenon DEF Inv
  <2> QED
    BY <2>1, <2>2
<1> QED
  BY <1>2, <1>7, <1>8, SameRetention DEF Inv

\* What is recorded has the right types, the hourly history agrees with the full
\* log of the calls on every hour that no pruning has reached, and the window is
\* the end of that log, after any sequence of calls and settings of the clock
\* (record_success, record_soft_fail, record_timeout).
THEOREM HistoryAgrees == Spec => []Inv
<1>1. Init => Inv
  BY InvInit
<1>2. Inv /\ [Next]_vars => Inv'
  <2> SUFFICES ASSUME Inv, [Next]_vars PROVE Inv'
    OBVIOUS
  <2>1. CASE UNCHANGED vars
    <3>1. /\ retention' = retention /\ samples' = samples /\ history' = history /\ log' = log
      BY <2>1 DEF vars
    <3>2. TypeOK'
      BY <3>1 DEF Inv, TypeOK
    <3>3. \A m \in Members : HistoryInv(history'[m], log'[m]) /\ WindowInv(samples'[m], log'[m])
      BY <3>1, Zenon DEF Inv
    <3> QED
      BY <3>1, <3>2, <3>3, SameRetention DEF Inv
  <2>2. Failure \in Sample /\ \A l \in Latencies : Success(l) \in Sample
    BY StatsAssumption DEF Failure, Success, Sample
  <2>3. ASSUME NEW m \in Members, NEW t \in Clock, record_timeout(m, t) PROVE Inv'
    <3>1. t \in Nat
      BY StatsAssumption
    <3> QED
      BY <2>2, <2>3, <3>1, RecordInv, Zenon DEF record_timeout
  <2>4. ASSUME NEW m \in Members, NEW t \in Clock, NEW l \in Latencies, record_success(m, t, l)
        PROVE  Inv'
    <3>1. t \in Nat
      BY StatsAssumption
    <3> QED
      BY <2>2, <2>4, <3>1, RecordInv, Zenon DEF record_success
  <2>5. ASSUME NEW m \in Members, record_soft_fail(m) PROVE Inv'
    <3>1. 0 \in Nat
      OBVIOUS
    <3> QED
      BY <2>2, <2>5, <3>1, RecordInv, Zenon DEF record_soft_fail
  <2> QED
    BY <2>1, <2>3, <2>4, <2>5, Zenon DEF Next
<1> QED
  BY <1>1, <1>2, PTL DEF Spec

\* What the dashboard shows is exactly what the log of the calls says, and the
\* window of the selection is the end of that log, however the clock is set
\* (snapshot_at, record_history and push).
THEOREM DashboardExact == Spec => []SnapshotExact
<1>1. Inv => SnapshotExact
  BY InvShows
<1> QED
  BY <1>1, HistoryAgrees, PTL

\* The rolls that choose a member are its share of the weight, and no roll gives
\* a member that was tried (pick_weighted and UpstreamGroup::weights).
THEOREM SelectionFair == Spec => []PicksByWeight
<1>1. Inv => PicksByWeight
  BY PicksInTypes DEF Inv
<1> QED
  BY <1>1, HistoryAgrees, PTL
=============================================================================
