---------------------------- MODULE NumberLemmas ----------------------------
(***************************************************************************)
(* Facts about numbers that the proofs about several components cite: the  *)
(* least-number principle, induction, and what Max and Min of the          *)
(* community modules return.  Max and Min are CHOOSE expressions, so that  *)
(* a maximum exists has to be shown: for a set of integers with an upper   *)
(* bound it follows from the well-foundedness of < on Nat.  Sums over sets *)
(* are CHOOSE expressions likewise: SumExists and SumUnique say that there *)
(* is one, the lemmas after them that it adds up as sums do.               *)
(***************************************************************************)
EXTENDS Integers, FiniteSetsExt, FiniteSetTheorems, WellFoundedInduction, TLAPS

\* Every non-empty set of naturals has a least element.
LEMMA LeastNat ==
    ASSUME NEW T \in SUBSET Nat, T # {}
    PROVE  \E n \in T : \A m \in T : n <= m
<1> DEFINE R == OpToRel(<, Nat)
<1>1. IsWellFoundedOn(R, Nat)
  BY NatLessThanWellFounded
<1>2. \A i, j \in Nat : <<i, j>> \in R <=> i < j
  BY DEF OpToRel
<1> HIDE DEF R
<1>3. PICK n \in T : \A m \in T : ~ (<<m, n>> \in R)
  BY <1>1, WFMin
<1>4. ASSUME NEW m \in T PROVE n <= m
  <2>1. m \in Nat /\ n \in Nat
    OBVIOUS
  <2>2. ~ (m < n)
    BY <1>2, <1>3, <2>1
  <2> QED
    BY <2>1, <2>2
<1> QED
  BY <1>3, <1>4

\* Induction over the naturals, for a set rather than a predicate.
LEMMA SetInduction ==
    ASSUME NEW G, 0 \in G, \A n \in Nat : n \in G => n + 1 \in G
    PROVE  \A n \in Nat : n \in G
<1> SUFFICES ASSUME Nat \ G # {} PROVE FALSE
  OBVIOUS
<1>1. PICK n \in Nat \ G : \A m \in Nat \ G : n <= m
  BY LeastNat
<1>2. n # 0
  BY <1>1
<1>3. n - 1 \in Nat /\ ~ (n <= n - 1)
  BY <1>1, <1>2
<1>4. n - 1 \in G
  BY <1>1, <1>3
<1> QED
  BY <1>1, <1>3, <1>4

\* The minimum of a non-empty set of naturals.
LEMMA MinOfNats ==
    ASSUME NEW S \in SUBSET Nat, S # {}
    PROVE  Min(S) \in S /\ \A n \in S : Min(S) <= n
  BY LeastNat DEF Min

\* The maximum of a non-empty set of integers with an upper bound.
LEMMA MaxOfBounded ==
    ASSUME NEW b \in Int, NEW S \in SUBSET Int, S # {}, \A n \in S : n <= b
    PROVE  Max(S) \in S /\ \A n \in S : Max(S) >= n
<1> DEFINE D == {b - n : n \in S}
<1>1. D \in SUBSET Nat /\ D # {}
  <2>1. \A n \in S : b - n \in Nat
    OBVIOUS
  <2> QED
    BY <2>1
<1>2. PICK d \in D : \A e \in D : d <= e
  <2> HIDE DEF D
  <2> QED
    BY <1>1, LeastNat
<1>3. PICK m \in S : d = b - m
  OBVIOUS
<1>4. \A n \in S : m >= n
  BY <1>2, <1>3
<1> QED
  BY <1>4 DEF Max

\* Two numbers have the smaller and the larger of them.
LEMMA MinMaxOfTwo ==
    ASSUME NEW i \in Int, NEW j \in Int
    PROVE  /\ Min({i, j}) = IF i <= j THEN i ELSE j
           /\ Max({i, j}) = IF i >= j THEN i ELSE j
<1>1. PICK m \in {i, j} : \A n \in {i, j} : m <= n
  OBVIOUS
<1>2. Min({i, j}) \in {i, j} /\ \A n \in {i, j} : Min({i, j}) <= n
  BY <1>1 DEF Min
<1>3. PICK l \in {i, j} : \A n \in {i, j} : l >= n
  OBVIOUS
<1>4. Max({i, j}) \in {i, j} /\ \A n \in {i, j} : Max({i, j}) >= n
  BY <1>3 DEF Max
<1> QED
  BY <1>2, <1>4

\* The product of integers keeps their order.
LEMMA TimesMonotone ==
    ASSUME NEW i \in Int, NEW j \in Int, NEW k \in Nat, i <= j
    PROVE  i * k <= j * k
<1>1. (j - i) * k \in Nat
  BY SMT
<1>2. j * k = i * k + (j - i) * k
  BY SMT
<1> QED
  BY <1>1, <1>2

\* What a quotient is: the most that fit.
LEMMA QuotientIsMost ==
    ASSUME NEW q \in Int, NEW k \in Nat, k >= 1, NEW n \in Int
    PROVE  /\ q \div k \in Int
           /\ n <= q \div k <=> n * k <= q
<1>1. q \div k \in Int /\ q = (q \div k) * k + (q % k) /\ q % k \in 0..(k - 1)
  BY SMT
<1>2. PICK d \in Int : d = q \div k
  BY <1>1
<1>3. ASSUME n <= d PROVE n * k <= q
  <2>1. n * k <= d * k
    BY <1>3, TimesMonotone
  <2>2. d * k \in Int /\ n * k \in Int
    OBVIOUS
  <2> QED
    BY <1>1, <1>2, <2>1, <2>2
<1>4. ASSUME ~(n <= d) PROVE ~(n * k <= q)
  <2>1. (d + 1) * k <= n * k
    BY <1>4, TimesMonotone
  <2>2. (d + 1) * k = d * k + k
    BY SMT
  <2>3. d * k \in Int /\ n * k \in Int
    OBVIOUS
  <2> QED
    BY <1>1, <1>2, <2>1, <2>2, <2>3
<1> QED
  BY <1>1, <1>2, <1>3, <1>4

-----------------------------------------------------------------------------
(* Finite sets and sums *)

\* Induction over the subsets of a finite set from those that lack any one element.
LEMMA SmallerInduction ==
    ASSUME NEW S, IsFiniteSet(S), NEW G,
           \A T \in SUBSET S : (\A x \in T : T \ {x} \in G) => T \in G
    PROVE  \A T \in SUBSET S : T \in G
<1> DEFINE H == {n \in Nat : \A T \in SUBSET S : Cardinality(T) = n => T \in G}
<1>1. ASSUME NEW T \in SUBSET S PROVE IsFiniteSet(T) /\ Cardinality(T) \in Nat
  BY FS_Subset, FS_CardinalityType
<1>2. 0 \in H
  <2>1. ASSUME NEW T \in SUBSET S, Cardinality(T) = 0 PROVE T \in G
    BY <1>1, <2>1, FS_EmptySet
  <2> QED
    BY <2>1
<1>3. ASSUME NEW n \in Nat, n \in H PROVE n + 1 \in H
  <2>1. ASSUME NEW T \in SUBSET S, Cardinality(T) = n + 1 PROVE T \in G
    <3>1. ASSUME NEW x \in T PROVE T \ {x} \in G
      <4>1. Cardinality(T \ {x}) = n
        BY <1>1, <2>1, FS_RemoveElement
      <4> QED
        BY <1>3, <4>1
    <3> QED
      BY <3>1
  <2> QED
    BY <2>1
<1>4. \A n \in Nat : n \in H
  <2> HIDE DEF H
  <2> QED
    BY <1>2, <1>3, SetInduction
<1> QED
  BY <1>1, <1>4

\* Two disjoint sets are as large as their union.
LEMMA DisjointUnion ==
    ASSUME NEW S, IsFiniteSet(S), NEW T, IsFiniteSet(T), S \cap T = {}
    PROVE  IsFiniteSet(S \cup T) /\ Cardinality(S \cup T) = Cardinality(S) + Cardinality(T)
<1>1. /\ IsFiniteSet(S \cup T)
      /\ Cardinality(S \cup T) = Cardinality(S) + Cardinality(T) - Cardinality(S \cap T)
  BY FS_Union
<1>2. PICK i \in Nat, j \in Nat : i = Cardinality(S) /\ j = Cardinality(T)
  BY FS_CardinalityType
<1>3. Cardinality(S \cap T) = 0
  BY FS_EmptySet
<1>4. i + j - 0 = i + j
  OBVIOUS
<1> QED
  BY <1>1, <1>2, <1>3, <1>4

\* Induction over the subsets of a finite set, adding one element at a time.
LEMMA SubsetInduction ==
    ASSUME NEW S, IsFiniteSet(S), NEW G, {} \in G,
           \A T \in SUBSET S : \A x \in S \ T : T \in G => T \cup {x} \in G
    PROVE  \A T \in SUBSET S : T \in G
<1>1. ASSUME NEW T \in SUBSET S, \A x \in T : T \ {x} \in G PROVE T \in G
  <2>1. CASE T = {}
    BY <2>1
  <2>2. CASE T # {}
    <3>1. PICK x \in T : TRUE
      BY <2>2
    <3>2. T \ {x} \in SUBSET S /\ T \ {x} \in G /\ x \in S \ (T \ {x})
      BY <1>1
    <3>3. (T \ {x}) \cup {x} = T
      OBVIOUS
    <3>4. (T \ {x}) \cup {x} \in G
      BY <3>2
    <3> QED
      BY <3>3, <3>4
  <2> QED
    BY <2>1, <2>2
<1> QED
  BY <1>1, SmallerInduction

\* What MapThenSumSet of the community modules computes, with the weights as a function.
IsSum(g, S, w) ==
    g = [s \in SUBSET S |->
            IF s = {} THEN 0
            ELSE w[CHOOSE x \in s : TRUE] + g[s \ {CHOOSE x \in s : TRUE}]]

SumOver(w, S) == (CHOOSE g : IsSum(g, S, w))[S]

LEMMA SumExists ==
    ASSUME NEW S, IsFiniteSet(S), NEW w
    PROVE  \E g : IsSum(g, S, w)
<1> DEFINE pick(s) == CHOOSE x \in s : TRUE
           Good(g, s) == g[s] = IF s = {} THEN 0 ELSE w[pick(s)] + g[s \ {pick(s)}]
           H == {n \in Nat : \E g : \A s \in SUBSET S : Cardinality(s) <= n => Good(g, s)}
<1>1. ASSUME NEW s \in SUBSET S PROVE IsFiniteSet(s) /\ Cardinality(s) \in Nat
  BY FS_Subset, FS_CardinalityType
<1>2. ASSUME NEW s \in SUBSET S, s # {}
      PROVE  /\ s \ {pick(s)} \in SUBSET S
             /\ Cardinality(s \ {pick(s)}) = Cardinality(s) - 1
  <2>1. pick(s) \in s
    BY <1>2
  <2> QED
    BY <1>1, <2>1, FS_RemoveElement
<1>3. 0 \in H
  <2>1. ASSUME NEW s \in SUBSET S, Cardinality(s) <= 0 PROVE Good([t \in SUBSET S |-> 0], s)
    <3>1. s = {}
      BY <1>1, <2>1, FS_EmptySet
    <3> QED
      BY <3>1
  <2> HIDE DEF Good
  <2> QED
    BY <2>1
<1>4. ASSUME NEW n \in Nat, n \in H PROVE n + 1 \in H
  <2>1. PICK g : \A s \in SUBSET S : Cardinality(s) <= n => Good(g, s)
    BY <1>4
  <2> DEFINE h == [s \in SUBSET S |-> IF Cardinality(s) <= n THEN g[s]
                                      ELSE w[pick(s)] + g[s \ {pick(s)}]]
  <2>2. ASSUME NEW s \in SUBSET S, Cardinality(s) <= n + 1 PROVE Good(h, s)
    <3>1. CASE s = {}
      <4>1. Cardinality(s) = 0
        BY <3>1, FS_EmptySet
      <4>2. Cardinality(s) <= n
        BY <1>4, <4>1
      <4>3. h[s] = g[s]
        BY <4>2
      <4>4. g[s] = 0
        BY <2>1, <3>1, <4>2
      <4> QED
        BY <3>1, <4>3, <4>4
    <3>2. CASE s # {}
      <4>1. /\ s \ {pick(s)} \in SUBSET S
            /\ Cardinality(s \ {pick(s)}) <= n
        BY <1>1, <1>2, <2>2, <3>2
      <4>2. h[s \ {pick(s)}] = g[s \ {pick(s)}]
        BY <4>1
      <4>3. h[s] = w[pick(s)] + g[s \ {pick(s)}]
        <5>1. CASE Cardinality(s) <= n
          BY <2>1, <3>2, <5>1
        <5>2. CASE ~(Cardinality(s) <= n)
          BY <5>2
        <5> QED
          BY <5>1, <5>2
      <4> QED
        BY <3>2, <4>2, <4>3
    <3> QED
      BY <3>1, <3>2
  <2> HIDE DEF Good, h
  <2> QED
    BY <2>2
<1>5. \A n \in Nat : n \in H
  <2> HIDE DEF H
  <2> QED
    BY <1>3, <1>4, SetInduction
<1>6. PICK g : \A s \in SUBSET S : Cardinality(s) <= Cardinality(S) => Good(g, s)
  <2>1. Cardinality(S) \in H
    BY <1>1, <1>5
  <2> HIDE DEF Good
  <2> QED
    BY <2>1
<1>7. \A s \in SUBSET S : Good(g, s)
  <2>1. \A s \in SUBSET S : Cardinality(s) <= Cardinality(S)
    BY FS_Subset
  <2> HIDE DEF Good
  <2> QED
    BY <1>6, <2>1
<1> DEFINE h == [s \in SUBSET S |-> g[s]]
<1>8. ASSUME NEW s \in SUBSET S
      PROVE  h[s] = IF s = {} THEN 0 ELSE w[pick(s)] + h[s \ {pick(s)}]
  BY <1>2, <1>7
<1>9. IsSum(h, S, w)
  BY <1>8 DEF IsSum
<1> QED
  BY <1>9

\* One sum function is enough for all subsets.
LEMMA SumUnique ==
    ASSUME NEW S, IsFiniteSet(S), NEW w, NEW g, IsSum(g, S, w),
           NEW T \in SUBSET S, NEW h, IsSum(h, T, w)
    PROVE  \A s \in SUBSET T : h[s] = g[s]
<1> DEFINE G == {s \in SUBSET T : h[s] = g[s]}
           pick(s) == CHOOSE x \in s : TRUE
<1>1. IsFiniteSet(T)
  BY FS_Subset
<1>2. ASSUME NEW s \in SUBSET T, \A x \in s : s \ {x} \in G PROVE s \in G
  <2>1. CASE s = {}
    BY <2>1 DEF IsSum
  <2>2. CASE s # {}
    <3>1. pick(s) \in s
      BY <2>2
    <3>2. h[s \ {pick(s)}] = g[s \ {pick(s)}]
      BY <1>2, <3>1
    <3>3. h[s] = w[pick(s)] + h[s \ {pick(s)}]
      BY <2>2 DEF IsSum
    <3>4. g[s] = w[pick(s)] + g[s \ {pick(s)}]
      BY <2>2 DEF IsSum
    <3> QED
      BY <3>2, <3>3, <3>4
  <2> QED
    BY <2>1, <2>2
<1>3. \A s \in SUBSET T : s \in G
  <2> HIDE DEF G
  <2> QED
    BY <1>1, <1>2, SmallerInduction
<1> QED
  BY <1>3

\* The recursion that a sum follows.
LEMMA SumEmpty == \A w : SumOver(w, {}) = 0
<1> SUFFICES ASSUME NEW w PROVE SumOver(w, {}) = 0
  OBVIOUS
<1>1. IsFiniteSet({})
  BY FS_EmptySet
<1>2. PICK g : g = CHOOSE f : IsSum(f, {}, w)
  OBVIOUS
<1>3. IsSum(g, {}, w)
  BY <1>1, <1>2, SumExists
<1> QED
  BY <1>2, <1>3 DEF IsSum, SumOver

LEMMA SumStep ==
    ASSUME NEW S, IsFiniteSet(S), NEW w, S # {}
    PROVE  \E y \in S : /\ y = CHOOSE x \in S : TRUE
                        /\ SumOver(w, S) = w[y] + SumOver(w, S \ {y})
<1>1. PICK y : y = CHOOSE x \in S : TRUE
  OBVIOUS
<1>2. y \in S
  BY <1>1
<1>3. PICK T : T = S \ {y}
  OBVIOUS
<1>4. T \in SUBSET S /\ IsFiniteSet(T)
  BY <1>3, FS_Subset
<1>5. PICK g : g = CHOOSE f : IsSum(f, S, w)
  OBVIOUS
<1>6. PICK h : h = CHOOSE f : IsSum(f, T, w)
  OBVIOUS
<1>7. IsSum(g, S, w) /\ IsSum(h, T, w)
  BY <1>4, <1>5, <1>6, SumExists
<1>8. h[T] = g[T]
  BY <1>4, <1>7, SumUnique
<1>9. g[S] = w[y] + g[T]
  BY <1>1, <1>2, <1>3, <1>7 DEF IsSum
<1>10. SumOver(w, S) = w[y] + SumOver(w, S \ {y})
  BY <1>3, <1>5, <1>6, <1>8, <1>9 DEF SumOver
<1> QED
  BY <1>1, <1>2, <1>10

\* Any function that satisfies the recursion has the sum as its value at S.
LEMMA SumIs ==
    ASSUME NEW S, IsFiniteSet(S), NEW w, NEW g, IsSum(g, S, w)
    PROVE  g[S] = SumOver(w, S)
<1>1. PICK h : h = CHOOSE f : IsSum(f, S, w)
  OBVIOUS
<1>2. IsSum(h, S, w)
  BY <1>1
<1>3. h[S] = g[S]
  BY <1>2, SumUnique
<1> QED
  BY <1>1, <1>3 DEF SumOver

\* A sum of integers is one.
LEMMA SumType ==
    ASSUME NEW S, IsFiniteSet(S), NEW w, \A x \in S : w[x] \in Int
    PROVE  SumOver(w, S) \in Int
<1> DEFINE G == {T \in SUBSET S : SumOver(w, T) \in Int}
<1>1. ASSUME NEW T \in SUBSET S, \A x \in T : T \ {x} \in G PROVE T \in G
  <2>1. CASE T = {}
    BY <2>1, SumEmpty
  <2>2. CASE T # {}
    <3>1. PICK y \in T : SumOver(w, T) = w[y] + SumOver(w, T \ {y})
      BY <2>2, FS_Subset, SumStep
    <3>2. SumOver(w, T \ {y}) \in Int
      BY <1>1
    <3> QED
      BY <3>1, <3>2
  <2> QED
    BY <2>1, <2>2
<1>2. \A T \in SUBSET S : T \in G
  <2> HIDE DEF G
  <2> QED
    BY <1>1, SmallerInduction
<1> QED
  BY <1>2

\* Any element may be taken out first.
LEMMA SumRemove ==
    ASSUME NEW S, IsFiniteSet(S), NEW w, \A x \in S : w[x] \in Int
    PROVE  \A x \in S : SumOver(w, S) = w[x] + SumOver(w, S \ {x})
<1> DEFINE Good(T) == \A x \in T : SumOver(w, T) = w[x] + SumOver(w, T \ {x})
           G == {T \in SUBSET S : Good(T)}
<1>1. \A T \in SUBSET S : SumOver(w, T) \in Int
  <2>1. ASSUME NEW T \in SUBSET S PROVE SumOver(w, T) \in Int
    <3>1. IsFiniteSet(T) /\ \A x \in T : w[x] \in Int
      BY FS_Subset
    <3> QED
      BY <3>1, SumType
  <2> QED
    BY <2>1
<1>2. ASSUME NEW T \in SUBSET S, \A x \in T : T \ {x} \in G PROVE T \in G
  <2>1. ASSUME NEW x \in T PROVE SumOver(w, T) = w[x] + SumOver(w, T \ {x})
    <3>1. PICK y \in T : SumOver(w, T) = w[y] + SumOver(w, T \ {y})
      BY <2>1, FS_Subset, SumStep
    <3>2. CASE x = y
      BY <3>1, <3>2
    <3>3. CASE x # y
      <4>1. SumOver(w, T \ {y}) = w[x] + SumOver(w, (T \ {y}) \ {x})
        BY <1>2, <3>3
      <4>2. SumOver(w, T \ {x}) = w[y] + SumOver(w, (T \ {x}) \ {y})
        BY <1>2, <3>3
      <4>3. (T \ {x}) \ {y} = (T \ {y}) \ {x}
        OBVIOUS
      <4>4. PICK r : r = SumOver(w, (T \ {y}) \ {x})
        OBVIOUS
      <4>5. r \in Int
        BY <1>1, <4>4
      <4>6. SumOver(w, T \ {x}) = w[y] + r
        BY <4>2, <4>3, <4>4
      <4>7. SumOver(w, T) = w[y] + (w[x] + r)
        BY <3>1, <4>1, <4>4
      <4> QED
        BY <4>5, <4>6, <4>7
    <3> QED
      BY <3>2, <3>3
  <2> QED
    BY <2>1
<1>3. \A T \in SUBSET S : T \in G
  <2> HIDE DEF G
  <2> QED
    BY <1>2, SmallerInduction
<1> QED
  BY <1>3

\* Equal weights have equal sums.
LEMMA SumEqual ==
    ASSUME NEW S, IsFiniteSet(S), NEW v, NEW w, \A x \in S : v[x] = w[x]
    PROVE  SumOver(v, S) = SumOver(w, S)
<1> DEFINE G == {T \in SUBSET S : SumOver(v, T) = SumOver(w, T)}
<1>1. ASSUME NEW T \in SUBSET S, \A x \in T : T \ {x} \in G PROVE T \in G
  <2>1. CASE T = {}
    BY <2>1, SumEmpty
  <2>2. CASE T # {}
    <3>1. IsFiniteSet(T)
      BY FS_Subset
    <3>2. PICK y \in T : /\ y = CHOOSE x \in T : TRUE
                        /\ SumOver(v, T) = v[y] + SumOver(v, T \ {y})
      BY <2>2, <3>1, SumStep
    <3>3. PICK z \in T : /\ z = CHOOSE x \in T : TRUE
                        /\ SumOver(w, T) = w[z] + SumOver(w, T \ {z})
      BY <2>2, <3>1, SumStep
    <3>4. y = z
      BY <3>2, <3>3
    <3>5. SumOver(v, T \ {y}) = SumOver(w, T \ {y})
      BY <1>1
    <3> QED
      BY <3>2, <3>3, <3>4, <3>5
  <2> QED
    BY <2>1, <2>2
<1>2. \A T \in SUBSET S : T \in G
  <2> HIDE DEF G
  <2> QED
    BY <1>1, SmallerInduction
<1> QED
  BY <1>2

\* The sum over two disjoint sets.
LEMMA SumUnion ==
    ASSUME NEW S, IsFiniteSet(S), NEW w, \A x \in S : w[x] \in Int,
           NEW T \in SUBSET S
    PROVE  SumOver(w, S) = SumOver(w, T) + SumOver(w, S \ T)
<1> DEFINE G == {U \in SUBSET S : SumOver(w, S) = SumOver(w, U) + SumOver(w, S \ U)}
<1>1. \A U \in SUBSET S : IsFiniteSet(U) /\ SumOver(w, U) \in Int
  <2>1. ASSUME NEW U \in SUBSET S PROVE IsFiniteSet(U) /\ SumOver(w, U) \in Int
    <3>1. IsFiniteSet(U) /\ \A x \in U : w[x] \in Int
      BY FS_Subset
    <3> QED
      BY <3>1, SumType
  <2> QED
    BY <2>1
<1>2. ASSUME NEW U \in SUBSET S, \A x \in U : U \ {x} \in G PROVE U \in G
  <2>1. CASE U = {}
    <3>1. S \ U = S /\ SumOver(w, U) = 0
      BY <2>1, SumEmpty
    <3>2. SumOver(w, S) \in Int
      BY <1>1
    <3>3. SumOver(w, S \ U) = SumOver(w, S)
      BY <3>1
    <3> QED
      BY <3>1, <3>2, <3>3
  <2>2. CASE U # {}
    <3>1. PICK x \in U : TRUE
      BY <2>2
    <3>2. SumOver(w, S) = SumOver(w, U \ {x}) + SumOver(w, S \ (U \ {x}))
      BY <1>2
    <3>3. SumOver(w, U) = w[x] + SumOver(w, U \ {x})
      <4>1. IsFiniteSet(U) /\ \A u \in U : w[u] \in Int
        BY <1>1
      <4> QED
        BY <4>1, SumRemove
    <3>4. SumOver(w, S \ (U \ {x})) = w[x] + SumOver(w, S \ U)
      <4>1. PICK R : R = S \ (U \ {x})
        OBVIOUS
      <4>2. R \in SUBSET S /\ x \in R /\ R \ {x} = S \ U
        BY <3>1, <4>1
      <4>3. IsFiniteSet(R) /\ \A u \in R : w[u] \in Int
        BY <1>1, <4>2
      <4>4. SumOver(w, R) = w[x] + SumOver(w, R \ {x})
        BY <4>2, <4>3, SumRemove
      <4> QED
        BY <4>1, <4>2, <4>4
    <3>5. w[x] \in Int /\ SumOver(w, U \ {x}) \in Int /\ SumOver(w, S \ U) \in Int
      BY <1>1
    <3> QED
      BY <3>2, <3>3, <3>4, <3>5
  <2> QED
    BY <2>1, <2>2
<1>3. \A U \in SUBSET S : U \in G
  <2> HIDE DEF G
  <2> QED
    BY <1>2, SmallerInduction
<1> QED
  BY <1>3

\* A sum of naturals is a natural, no less than any of them.
LEMMA SumOfNats ==
    ASSUME NEW S, IsFiniteSet(S), NEW w, \A x \in S : w[x] \in Nat
    PROVE  SumOver(w, S) \in Nat /\ \A x \in S : SumOver(w, S) >= w[x]
<1> DEFINE G == {T \in SUBSET S : SumOver(w, T) \in Nat}
<1>1. ASSUME NEW T \in SUBSET S, \A x \in T : T \ {x} \in G PROVE T \in G
  <2>1. CASE T = {}
    BY <2>1, SumEmpty
  <2>2. CASE T # {}
    <3>1. PICK y \in T : SumOver(w, T) = w[y] + SumOver(w, T \ {y})
      BY <2>2, FS_Subset, SumStep
    <3>2. SumOver(w, T \ {y}) \in Nat
      BY <1>1
    <3> QED
      BY <3>1, <3>2
  <2> QED
    BY <2>1, <2>2
<1>2. \A T \in SUBSET S : T \in G
  <2> HIDE DEF G
  <2> QED
    BY <1>1, SmallerInduction
<1>3. ASSUME NEW x \in S PROVE SumOver(w, S) >= w[x]
  <2>1. SumOver(w, S) = w[x] + SumOver(w, S \ {x})
    BY SumRemove
  <2>2. SumOver(w, S \ {x}) \in Nat
    BY <1>2
  <2> QED
    BY <2>1, <2>2
<1> QED
  BY <1>2, <1>3

\* A sum of ones and zeros counts the ones.
LEMMA SumOfOnes ==
    ASSUME NEW S, IsFiniteSet(S), NEW w, \A x \in S : w[x] \in {0, 1}
    PROVE  SumOver(w, S) = Cardinality({x \in S : w[x] = 1})
<1> DEFINE ones(T) == {x \in T : w[x] = 1}
           G == {T \in SUBSET S : SumOver(w, T) = Cardinality(ones(T))}
<1>1. ASSUME NEW T \in SUBSET S, \A x \in T : T \ {x} \in G PROVE T \in G
  <2>1. CASE T = {}
    <3>1. ones(T) = {}
      BY <2>1
    <3>2. Cardinality(ones(T)) = 0
      BY <3>1, FS_EmptySet
    <3> QED
      BY <2>1, <3>2, SumEmpty
  <2>2. CASE T # {}
    <3>1. PICK y \in T : SumOver(w, T) = w[y] + SumOver(w, T \ {y})
      BY <2>2, FS_Subset, SumStep
    <3>2. SumOver(w, T \ {y}) = Cardinality(ones(T \ {y}))
      BY <1>1
    <3>3. ones(T \ {y}) = ones(T) \ {y} /\ IsFiniteSet(ones(T))
      BY FS_Subset
    <3>4. Cardinality(ones(T)) \in Nat
      BY <3>3, FS_CardinalityType
    <3>5. Cardinality(ones(T) \ {y}) = IF y \in ones(T) THEN Cardinality(ones(T)) - 1 ELSE Cardinality(ones(T))
      BY <3>3, FS_RemoveElement
    <3>6. w[y] = IF y \in ones(T) THEN 1 ELSE 0
      OBVIOUS
    <3> HIDE DEF ones
    <3>7. CASE y \in ones(T)
      <4>1. SumOver(w, T \ {y}) = Cardinality(ones(T)) - 1 /\ w[y] = 1
        BY <3>2, <3>3, <3>5, <3>6, <3>7
      <4> QED
        BY <3>1, <3>4, <4>1
    <3>8. CASE y \notin ones(T)
      <4>1. SumOver(w, T \ {y}) = Cardinality(ones(T)) /\ w[y] = 0
        BY <3>2, <3>3, <3>5, <3>6, <3>8
      <4> QED
        BY <3>1, <3>4, <4>1
    <3>9. SumOver(w, T) = Cardinality(ones(T))
      BY <3>7, <3>8
    <3> QED
      BY <3>9
  <2> QED
    BY <2>1, <2>2
<1>2. \A T \in SUBSET S : T \in G
  <2> HIDE DEF G
  <2> QED
    BY <1>1, SmallerInduction
<1> QED
  BY <1>2

\* Quotients keep the order of fractions.
LEMMA QuotientsInOrder ==
    ASSUME NEW a \in Int, NEW c \in Nat, c >= 1, NEW b \in Int, NEW d \in Nat, d >= 1,
           a * d <= b * c
    PROVE  a \div c <= b \div d
<1>1. a \div c \in Int /\ (a \div c) * c <= a
  BY QuotientIsMost
<1>2. PICK n \in Int : n = a \div c
  BY <1>1
<1>3. (n * c) * d <= a * d
  BY <1>1, <1>2, TimesMonotone
<1>4. (n * c) * d = (n * d) * c
  BY SMT
<1>5. n * d <= b
  <2>1. SUFFICES ASSUME b + 1 <= n * d PROVE FALSE
    BY SMT
  <2>2. (b + 1) * c <= (n * d) * c
    BY <2>1, TimesMonotone
  <2>3. (b + 1) * c = b * c + c
    BY SMT
  <2>4. (n * d) * c \in Int /\ b * c \in Int /\ a * d \in Int
    BY SMT
  <2> QED
    BY <1>3, <1>4, <2>2, <2>3, <2>4
<1> QED
  BY <1>2, <1>5, QuotientIsMost

\* What groups add up to adds up to the whole: w summed over each g-fibre gives v.
LEMMA SumByFibres ==
    ASSUME NEW S, IsFiniteSet(S), NEW w, \A x \in S : w[x] \in Int,
           NEW B, IsFiniteSet(B), NEW g, \A x \in S : g[x] \in B,
           NEW fibre, \A b \in B : fibre[b] = {x \in S : g[x] = b},
           NEW v, \A b \in B : v[b] = SumOver(w, fibre[b])
    PROVE  SumOver(v, B) = SumOver(w, S)
<1> DEFINE Into(T) == {x \in S : g[x] \in T}
           G == {T \in SUBSET B : SumOver(v, T) = SumOver(w, Into(T))}
<1>1. ASSUME NEW T \in SUBSET S PROVE IsFiniteSet(T) /\ SumOver(w, T) \in Int
  <2>1. IsFiniteSet(T) /\ \A x \in T : w[x] \in Int
    BY FS_Subset
  <2> QED
    BY <2>1, SumType
<1>2. \A b \in B : v[b] \in Int
  <2>1. \A b \in B : fibre[b] \in SUBSET S
    OBVIOUS
  <2> QED
    BY <1>1, <2>1
<1>3. {} \in G
  <2>1. Into({}) = {}
    OBVIOUS
  <2> QED
    BY <2>1, SumEmpty
<1>4. ASSUME NEW T \in SUBSET B, NEW b \in B \ T, T \in G PROVE T \cup {b} \in G
  <2>1. PICK U : U = T \cup {b}
    OBVIOUS
  <2>2. IsFiniteSet(U) /\ \A x \in U : v[x] \in Int
    BY <1>2, <2>1, FS_Subset
  <2>3. SumOver(v, U) = v[b] + SumOver(v, U \ {b})
    BY <2>1, <2>2, SumRemove
  <2>4. U \ {b} = T
    BY <2>1
  <2>5. PICK R : R = Into(U)
    OBVIOUS
  <2>6. R \in SUBSET S /\ Into(T) \in SUBSET R
    BY <2>1, <2>5
  <2>7. IsFiniteSet(R) /\ \A x \in R : w[x] \in Int
    BY <1>1, <2>6
  <2>8. SumOver(w, R) = SumOver(w, Into(T)) + SumOver(w, R \ Into(T))
    <3> HIDE DEF Into
    <3> QED
      BY <2>6, <2>7, SumUnion
  <2>9. R \ Into(T) = fibre[b]
    BY <1>4, <2>1, <2>5
  <2>10. v[b] = SumOver(w, R \ Into(T))
    BY <2>9
  <2>11. SumOver(v, T) = SumOver(w, Into(T))
    BY <1>4
  <2>12. SumOver(w, Into(T)) \in Int /\ v[b] \in Int
    BY <1>1, <1>2
  <2>13. SumOver(v, U) = SumOver(w, R)
    <3>1. PICK i \in Int, j \in Int : i = v[b] /\ j = SumOver(w, Into(T))
      BY <2>12
    <3>2. SumOver(v, U) = i + j
      BY <2>3, <2>4, <2>11, <3>1
    <3>3. SumOver(w, R) = j + i
      BY <2>8, <2>10, <3>1
    <3> QED
      BY <3>2, <3>3
  <2> QED
    BY <2>1, <2>5, <2>13
<1>5. \A T \in SUBSET B : T \in G
  <2> HIDE DEF G
  <2> QED
    BY <1>3, <1>4, SubsetInduction
<1>6. B \in G
  BY <1>5
<1>7. Into(B) = S
  OBVIOUS
<1> QED
  BY <1>6, <1>7

LEMMA SumOfOne ==
    ASSUME NEW x, NEW w, w[x] \in Int
    PROVE  SumOver(w, {x}) = w[x]
<1>1. IsFiniteSet({x}) /\ {x} \ {x} = {}
  BY FS_Singleton
<1>2. SumOver(w, {x}) = w[x] + SumOver(w, {x} \ {x})
  BY <1>1, SumRemove
<1> QED
  BY <1>1, <1>2, SumEmpty

\* h takes the elements of S to those of T, one to one, and each weight with it.
Renames(h, S, T) ==
    /\ \A x \in S : h[x] \in T
    /\ \A y \in T : \E x \in S : y = h[x]
    /\ \A x, y \in S : h[x] = h[y] => x = y

LEMMA SumRenamed ==
    ASSUME NEW S, IsFiniteSet(S), NEW w, \A x \in S : w[x] \in Int,
           NEW T, NEW h, Renames(h, S, T), NEW v, \A x \in S : v[h[x]] = w[x]
    PROVE  IsFiniteSet(T) /\ SumOver(v, T) = SumOver(w, S)
<1> USE DEF Renames
<1> DEFINE f == [x \in S |-> h[x]]
<1>1. f \in Surjection(S, T)
  BY DEF Surjection
<1>2. IsFiniteSet(T)
  BY <1>1, FS_Surjection
<1> DEFINE fibre == [b \in T |-> {x \in S : h[x] = b}]
<1>3. ASSUME NEW b \in T PROVE v[b] = SumOver(w, fibre[b])
  <2>1. PICK y \in S : b = h[y]
    OBVIOUS
  <2>2. fibre[b] = {y}
    BY <2>1
  <2>3. SumOver(w, {y}) = w[y] /\ v[b] = w[y]
    BY <2>1, SumOfOne
  <2> QED
    BY <2>2, <2>3
<1>4. \A x \in S : h[x] \in T
  OBVIOUS
<1>5. \A b \in T : fibre[b] = {x \in S : h[x] = b}
  OBVIOUS
<1>6. SumOver(v, T) = SumOver(w, S)
  <2> HIDE DEF fibre
  <2> QED
    BY <1>2, <1>3, <1>4, <1>5, SumByFibres
<1> QED
  BY <1>2, <1>6

LEMMA CountIsSum ==
    ASSUME NEW S, IsFiniteSet(S)
    PROVE  SumOver([x \in S |-> 1], S) = Cardinality(S)
<1> DEFINE w == [x \in S |-> 1]
<1>1. \A x \in S : w[x] \in {0, 1} /\ w[x] = 1
  OBVIOUS
<1>2. {x \in S : w[x] = 1} = S
  BY <1>1
<1>3. SumOver(w, S) = Cardinality({x \in S : w[x] = 1})
  <2> HIDE DEF w
  <2> QED
    BY <1>1, SumOfOnes
<1> QED
  BY <1>2, <1>3

\* The groups have together as many as there are.
LEMMA CountByFibres ==
    ASSUME NEW S, IsFiniteSet(S), NEW B, IsFiniteSet(B), NEW g, \A x \in S : g[x] \in B,
           NEW fibre, \A b \in B : fibre[b] = {x \in S : g[x] = b},
           NEW v, \A b \in B : v[b] = Cardinality(fibre[b])
    PROVE  SumOver(v, B) = Cardinality(S)
<1> DEFINE w == [x \in S |-> 1]
<1>1. ASSUME NEW b \in B PROVE v[b] = SumOver(w, fibre[b])
  <2>1. PICK T : T = fibre[b]
    OBVIOUS
  <2>2. T \in SUBSET S /\ IsFiniteSet(T)
    BY <2>1, FS_Subset
  <2>3. SumOver([x \in T |-> 1], T) = Cardinality(T)
    BY <2>2, CountIsSum
  <2>4. \A x \in T : w[x] = [y \in T |-> 1][x]
    BY <2>2
  <2>5. SumOver(w, T) = SumOver([x \in T |-> 1], T)
    <3> HIDE DEF w
    <3> QED
      BY <2>2, <2>4, SumEqual
  <2> QED
    BY <2>1, <2>3, <2>5
<1>2. \A x \in S : w[x] \in Int
  OBVIOUS
<1>3. SumOver(v, B) = SumOver(w, S)
  <2> HIDE DEF w
  <2> QED
    BY <1>1, <1>2, SumByFibres
<1> QED
  BY <1>3, CountIsSum

\* A sum of positive numbers is no less than their number.
LEMMA SumOfPositives ==
    ASSUME NEW S, IsFiniteSet(S), NEW w, \A x \in S : w[x] \in Nat \ {0}
    PROVE  SumOver(w, S) \in Nat /\ Cardinality(S) <= SumOver(w, S)
<1> DEFINE G == {T \in SUBSET S : Cardinality(T) <= SumOver(w, T)}
<1>1. ASSUME NEW T \in SUBSET S PROVE IsFiniteSet(T) /\ Cardinality(T) \in Nat /\ SumOver(w, T) \in Nat
  <2>1. IsFiniteSet(T) /\ \A x \in T : w[x] \in Nat
    BY FS_Subset
  <2> QED
    BY <2>1, FS_CardinalityType, SumOfNats
<1>2. ASSUME NEW T \in SUBSET S, \A x \in T : T \ {x} \in G PROVE T \in G
  <2>1. CASE T = {}
    BY <2>1, SumEmpty, FS_EmptySet
  <2>2. CASE T # {}
    <3>1. PICK y \in T : SumOver(w, T) = w[y] + SumOver(w, T \ {y})
      BY <1>1, <2>2, SumStep
    <3>2. Cardinality(T \ {y}) = Cardinality(T) - 1 /\ Cardinality(T \ {y}) <= SumOver(w, T \ {y})
      BY <1>1, <1>2, FS_RemoveElement
    <3>3. w[y] >= 1 /\ w[y] \in Nat /\ SumOver(w, T \ {y}) \in Nat /\ Cardinality(T) \in Nat
      BY <1>1
    <3> QED
      BY <3>1, <3>2, <3>3
  <2> QED
    BY <2>1, <2>2
<1>3. \A T \in SUBSET S : T \in G
  <2> HIDE DEF G
  <2> QED
    BY <1>2, SmallerInduction
<1> QED
  BY <1>1, <1>3
=============================================================================
