-------------------------- MODULE CatalogueProofs --------------------------
(***************************************************************************)
(* Theorems about the catalogue and what its channels are told of it:      *)
(* ChannelPush, for every set of bundles, components, jobs and retries,    *)
(* SkuRoles under every change of Catalogue, MappingGap under every step   *)
(* of MappingRound, and VariantPlan under every run of RakutenVariants.    *)
(*                                                                         *)
(* The pushes.  The code computes the availability of a bundle as a        *)
(* minimum of quotients; the model says, apart from it, what that number   *)
(* is meant to be.  That the two agree is a lemma about numbers            *)
(* (AvailableIsCanMake).                                                   *)
(* From it follows the invariant of a transaction: the quantity of every   *)
(* row it has flushed was what could be made at some moment since it       *)
(* began, or is negative and never sent.                                   *)
(***************************************************************************)
EXTENDS ChannelPush, SkuRoles, MappingGap, VariantPlan,
        NumberLemmas, FiniteSetTheorems, TLAPS

-----------------------------------------------------------------------------
(* Numbers *)

\* A finite set of integers lies between two of them.
LEMMA FiniteIsBounded ==
    ASSUME NEW S \in SUBSET Int, IsFiniteSet(S)
    PROVE  \E lo, hi \in Int : \A n \in S : lo <= n /\ n <= hi
<1> DEFINE Bounded(T) == \E lo, hi \in Int : \A n \in T : lo <= n /\ n <= hi
           G == {k \in Nat : \A T \in SUBSET Int :
                    IsFiniteSet(T) /\ Cardinality(T) = k => Bounded(T)}
<1>1. 0 \in G
  <2>1. ASSUME NEW T \in SUBSET Int, IsFiniteSet(T), Cardinality(T) = 0
        PROVE  Bounded(T)
    <3>1. T = {}
      BY <2>1, FS_EmptySet
    <3> QED
      BY <3>1
  <2> HIDE DEF Bounded
  <2> QED
    BY <2>1
<1>2. ASSUME NEW k \in Nat, k \in G PROVE k + 1 \in G
  <2>1. ASSUME NEW T \in SUBSET Int, IsFiniteSet(T), Cardinality(T) = k + 1
        PROVE  Bounded(T)
    <3>1. T # {}
      BY <2>1, FS_EmptySet
    <3>2. PICK x \in T : TRUE
      BY <3>1
    <3>3. IsFiniteSet(T \ {x}) /\ Cardinality(T \ {x}) = k
      <4>1. IsFiniteSet(T \ {x}) /\ Cardinality(T \ {x}) = Cardinality(T) - 1
        BY <2>1, FS_RemoveElement
      <4> QED
        BY <2>1, <4>1
    <3>4. Bounded(T \ {x})
      <4> HIDE DEF Bounded
      <4> QED
        BY <1>2, <3>3
    <3>5. PICK lo, hi \in Int : \A n \in T \ {x} : lo <= n /\ n <= hi
      BY <3>4
    <3> DEFINE l == IF lo <= x THEN lo ELSE x
               h == IF hi >= x THEN hi ELSE x
    <3>6. l \in Int /\ h \in Int /\ l <= x /\ l <= lo /\ h >= x /\ h >= hi
      OBVIOUS
    <3>7. \A n \in T : l <= n /\ n <= h
      <4> HIDE DEF l, h
      <4> QED
        BY <3>5, <3>6
    <3> QED
      BY <3>6, <3>7
  <2> HIDE DEF Bounded
  <2> QED
    BY <2>1
<1>3. \A k \in Nat : k \in G
  <2> HIDE DEF G
  <2> QED
    BY <1>1, <1>2, SetInduction
<1>4. Cardinality(S) \in Nat
  BY FS_CardinalityType
<1> QED
  BY <1>3, <1>4

\* The minimum of a non-empty set of integers with a lower bound.
LEMMA MinOfBounded ==
    ASSUME NEW a \in Int, NEW S \in SUBSET Int, S # {}, \A n \in S : a <= n
    PROVE  Min(S) \in S /\ \A n \in S : Min(S) <= n
<1> DEFINE D == {n - a : n \in S}
<1>1. D \in SUBSET Nat /\ D # {}
  <2>1. \A n \in S : n - a \in Nat
    OBVIOUS
  <2> QED
    BY <2>1
<1>2. PICK d \in D : \A e \in D : d <= e
  <2> HIDE DEF D
  <2> QED
    BY <1>1, LeastNat
<1>3. PICK m \in S : d = m - a
  OBVIOUS
<1>4. ASSUME NEW n \in S PROVE m <= n
  <2>1. n - a \in D
    OBVIOUS
  <2>2. m - a <= n - a
    BY <1>2, <1>3, <2>1
  <2> QED
    BY <2>2
<1> QED
  BY <1>4 DEF Min

-----------------------------------------------------------------------------
(* Availability *)

LEMMA MostQuantity ==
    /\ Max(Quantity) \in Int
    /\ \A q \in Quantity : q \in Int /\ q <= Max(Quantity)
<1>1. PICK lo, hi \in Int : \A q \in Quantity : lo <= q /\ q <= hi
  BY QuantityAssumption, FiniteIsBounded
<1>2. \A q \in Quantity : q <= hi
  BY <1>1
<1>3. Max(Quantity) \in Quantity /\ \A q \in Quantity : Max(Quantity) >= q
  BY <1>2, QuantityAssumption, MaxOfBounded
<1> QED
  BY <1>3, QuantityAssumption

\* What can be made of a bundle is known once it is known how many are too many.
LEMMA MostThatFit ==
    ASSUME NEW b \in Bundle, NEW qty, NEW m \in Int, m <= Max(Quantity) \/ m < 0,
           NEW Fit, Fit \subseteq Nat,
           \A n \in 1..Max(Quantity) : n \in Fit <=> n <= m
    PROVE  Max({0} \cup {n \in 1..Max(Quantity) : n \in Fit})
                = IF m >= 0 THEN m ELSE 0
<1> DEFINE S == {0} \cup {n \in 1..Max(Quantity) : n \in Fit}
           top == IF m >= 0 THEN m ELSE 0
<1>0. Max(Quantity) \in Int
  BY MostQuantity
<1>1. top \in Int /\ top \in S
  BY <1>0
<1>2. \A n \in S : n \in Int /\ n <= top
  BY <1>0
<1> HIDE DEF S, top
<1>3. Max(S) \in S /\ \A n \in S : Max(S) >= n
  BY <1>1, <1>2, MaxOfBounded
<1>4. Max(S) = top
  <2>1. PICK x \in S : x = Max(S)
    BY <1>3
  <2>2. x \in Int /\ x <= top /\ top <= x
    BY <1>1, <1>2, <1>3, <2>1
  <2> QED
    BY <1>1, <2>1, <2>2
<1> QED
  BY <1>4 DEF S, top

LEMMA CanMakeType ==
    ASSUME NEW b \in Bundle, NEW qty
    PROVE  CanMake(b, qty) \in Nat
<1> DEFINE need(c) == IF Parts(b) = {} /\ c = b THEN 1 ELSE Per[b][c]
           enough(n) == \A c \in Stocked : need(c) > 0 => n * need(c) <= qty[c]
           S == {0} \cup {n \in 1..Max(Quantity) : enough(n)}
<1>1. Max(Quantity) \in Int
  BY MostQuantity
<1>2. CanMake(b, qty) = Max(S)
  BY DEF CanMake
<1> HIDE DEF need, enough
<1>3. S \in SUBSET Nat /\ S \in SUBSET Int /\ S # {}
  BY <1>1
<1>4. \E h \in Int : \A n \in S : n <= h
  <2>1. CASE Max(Quantity) >= 0
    <3>1. \A n \in S : n <= Max(Quantity)
      BY <1>1, <2>1
    <3> QED
      BY <1>1, <3>1
  <2>2. CASE ~(Max(Quantity) >= 0)
    <3>1. \A n \in S : n <= 0
      BY <1>1, <2>2
    <3> QED
      BY <3>1
  <2> QED
    BY <2>1, <2>2
<1> HIDE DEF S
<1>5. PICK h \in Int : \A n \in S : n <= h
  BY <1>4
<1>6. Max(S) \in S
  BY <1>3, <1>5, MaxOfBounded
<1> QED
  BY <1>2, <1>3, <1>6

\* The components of a bundle have stock of their own.
LEMMA PartsAreStocked ==
    ASSUME NEW b \in Bundle
    PROVE  /\ Parts(b) \subseteq Stocked
           /\ Parts(b) = {} => b \in Stocked
           /\ \A c \in Sku : Per[b][c] \in Nat
           /\ b \in Sku
<1>1. \A c \in Sku : Per[b][c] \in Nat
  BY BundleAssumption
<1>2. ASSUME NEW c \in Parts(b) PROVE c \in Stocked
  <2>1. c \in Sku /\ Per[b][c] > 0
    BY DEF Parts
  <2>2. ASSUME c \in Bundle PROVE Parts(c) = {}
    <3>1. Per[c] = [s \in Sku |-> 0]
      BY <2>1, <2>2, BundleAssumption
    <3> QED
      BY <3>1 DEF Parts
  <2> QED
    BY <2>1, <2>2 DEF Stocked
<1> QED
  BY <1>1, <1>2, BundleAssumption DEF Stocked

\* The quotient formula of the code is the most of the bundle that can be made, unless
\* it is negative.
LEMMA AvailableIsCanMake ==
    ASSUME NEW b \in Bundle, stock \in [Stocked -> Quantity]
    PROVE  /\ Available(b) \in Int
           /\ Available(b) >= 0 => Available(b) = CanMake(b, stock)
<1> DEFINE need(c) == IF Parts(b) = {} /\ c = b THEN 1 ELSE Per[b][c]
           enough(n) == \A c \in Stocked : need(c) > 0 => n * need(c) <= stock[c]
           Fit == {n \in Nat : enough(n)}
<1>0. Max(Quantity) \in Int
  BY MostQuantity
<1>1. \A c \in Stocked : stock[c] \in Int /\ stock[c] <= Max(Quantity)
  BY MostQuantity
<1>2. CanMake(b, stock) = Max({0} \cup {n \in 1..Max(Quantity) : n \in Fit})
  <2>1. CanMake(b, stock) = Max({0} \cup {n \in 1..Max(Quantity) : enough(n)})
    BY DEF CanMake
  <2>2. \A n \in 1..Max(Quantity) : n \in Fit <=> enough(n)
    <3> HIDE DEF enough
    <3> QED
      BY <1>0
  <2>3. {n \in 1..Max(Quantity) : n \in Fit} = {n \in 1..Max(Quantity) : enough(n)}
    <3> HIDE DEF enough, Fit
    <3> QED
      BY <2>2
  <2> QED
    BY <2>1, <2>3
<1>3. CASE Parts(b) = {}
  <2>1. Available(b) = stock[b] /\ b \in Stocked
    BY <1>3, PartsAreStocked DEF Available
  <2>2. ASSUME NEW c \in Stocked PROVE need(c) > 0 <=> c = b
    <3>1. c \in Sku /\ Per[b][c] \in Nat /\ ~(Per[b][c] > 0)
      BY <1>3, PartsAreStocked DEF Stocked, Parts
    <3> QED
      BY <1>3, <3>1
  <2>3. need(b) = 1
    BY <1>3
  <2>4. ASSUME NEW n \in Nat PROVE n \in Fit <=> n <= stock[b]
    <3> HIDE DEF need
    <3>1. n * 1 = n
      OBVIOUS
    <3> QED
      BY <2>1, <2>2, <2>3, <3>1
  <2>5. \A n \in 1..Max(Quantity) : n \in Fit <=> n <= stock[b]
    <3> HIDE DEF Fit
    <3> QED
      BY <1>0, <2>4
  <2>6. stock[b] \in Int /\ stock[b] <= Max(Quantity) /\ Fit \subseteq Nat
    BY <1>1, <2>1
  <2> HIDE DEF Fit
  <2>7. CanMake(b, stock) = IF stock[b] >= 0 THEN stock[b] ELSE 0
    BY <1>2, <2>5, <2>6, MostThatFit
  <2> QED
    BY <2>1, <2>6, <2>7
<1>4. CASE Parts(b) # {}
  <2> DEFINE Shares == {Share(b, c) : c \in Parts(b)}
             m == Min(Shares)
  <2>1. ASSUME NEW c \in Parts(b)
        PROVE  /\ c \in Stocked /\ Per[b][c] \in Nat /\ Per[b][c] >= 1
               /\ stock[c] \in Int /\ stock[c] <= Max(Quantity)
    BY <1>1, PartsAreStocked DEF Parts
  <2>2. ASSUME NEW c \in Parts(b)
        PROVE  /\ Share(b, c) \in Int
               /\ \A n \in Int : n <= Share(b, c) <=> n * Per[b][c] <= stock[c]
    BY <2>1, QuotientIsMost DEF Share
  <2>3. \E a \in Int : \A c \in Parts(b) : a <= Share(b, c)
    <3>1. PICK lo, hi \in Int : \A q \in Quantity : lo <= q /\ q <= hi
      BY QuantityAssumption, FiniteIsBounded
    <3> DEFINE a == IF lo <= 0 THEN lo ELSE 0
    <3>2. a \in Int /\ a <= 0 /\ a <= lo
      OBVIOUS
    <3> HIDE DEF a
    <3>3. ASSUME NEW c \in Parts(b) PROVE a <= Share(b, c)
      <4>1. a <= stock[c]
        BY <2>1, <3>1, <3>2
      <4>2. PICK k \in Nat : k = Per[b][c] /\ k >= 1
        BY <2>1
      <4>3. (-a) * 1 <= (-a) * k
        BY <3>2, <4>2, SMT
      <4>4. a * k \in Int /\ a * k <= a
        BY <3>2, <4>2, SMT
      <4>5. a * Per[b][c] <= stock[c]
        BY <2>1, <3>2, <4>1, <4>2, <4>4
      <4> QED
        BY <2>2, <3>2, <4>5
    <3> QED
      BY <3>2, <3>3
  <2>4. PICK a \in Int : \A c \in Parts(b) : a <= Share(b, c)
    BY <2>3
  <2>5. Shares \in SUBSET Int /\ Shares # {} /\ \A s \in Shares : a <= s
    BY <1>4, <2>2, <2>4
  <2>6. m \in Shares /\ \A s \in Shares : m <= s
    <3> HIDE DEF Shares
    <3> QED
      BY <2>5, MinOfBounded
  <2>7. m \in Int /\ (m <= Max(Quantity) \/ m < 0)
    <3>1. PICK c \in Parts(b) : m = Share(b, c)
      BY <2>6
    <3>2. PICK k \in Nat : k = Per[b][c] /\ k >= 1
      BY <2>1
    <3> HIDE DEF m
    <3>3. m \in Int /\ m * k <= stock[c]
      BY <2>2, <3>1, <3>2
    <3>4. m >= 0 => m <= m * k
      <4>1. m >= 0 => m * (k - 1) \in Nat
        BY <3>2, <3>3, SMT
      <4>2. m * (k - 1) = m * k - m /\ m * k \in Int
        BY <3>2, <3>3, SMT
      <4> QED
        BY <3>3, <4>1, <4>2
    <3>5. m * k \in Int
      BY <3>2, <3>3
    <3> QED
      BY <1>0, <2>1, <3>3, <3>4, <3>5
  <2>8. ASSUME NEW n \in Nat PROVE n \in Fit <=> n <= m
    <3>1. \A c \in Stocked : need(c) = Per[b][c]
      BY <1>4
    <3>2. n \in Fit <=> \A c \in Parts(b) : n * Per[b][c] <= stock[c]
      <4>1. \A c \in Stocked : c \in Parts(b) <=> Per[b][c] > 0
        BY DEF Parts, Stocked
      <4> HIDE DEF need
      <4> QED
        BY <2>1, <3>1, <4>1
    <3>3. (\A c \in Parts(b) : n * Per[b][c] <= stock[c])
              <=> \A c \in Parts(b) : n <= Share(b, c)
      BY <2>2
    <3>4. (\A c \in Parts(b) : n <= Share(b, c)) <=> n <= m
      <4>1. ASSUME n <= m PROVE \A c \in Parts(b) : n <= Share(b, c)
        <5>1. \A c \in Parts(b) : Share(b, c) \in Int /\ m <= Share(b, c)
          BY <2>2, <2>6
        <5> HIDE DEF m
        <5> QED
          BY <2>7, <4>1, <5>1
      <4>2. PICK c \in Parts(b) : m = Share(b, c)
        BY <2>6
      <4> QED
        BY <4>1, <4>2
    <3> QED
      BY <3>2, <3>3, <3>4
  <2>9. \A n \in 1..Max(Quantity) : n \in Fit <=> n <= m
    <3> HIDE DEF Fit, m
    <3> QED
      BY <1>0, <2>8
  <2>10. Fit \subseteq Nat
    OBVIOUS
  <2>11. CanMake(b, stock) = IF m >= 0 THEN m ELSE 0
    <3> HIDE DEF Fit, m
    <3> QED
      BY <1>2, <2>7, <2>9, <2>10, MostThatFit
  <2>12. Available(b) = IF 0 >= m THEN 0 ELSE m
    <3>1. Available(b) = Max({0, m})
      BY <1>4 DEF Available
    <3> HIDE DEF m
    <3> QED
      BY <2>7, <3>1, MinMaxOfTwo
  <2> HIDE DEF m, Fit
  <2> QED
    BY <2>7, <2>11, <2>12
<1> QED
  BY <1>3, <1>4

-----------------------------------------------------------------------------
(* ChannelPush *)

PushType ==
    [open : BOOLEAN, todo : SUBSET Bundle, rows : SUBSET Row,
     took : SUBSET (Bundle \X Int), seen : [Bundle -> SUBSET Int]]

PushTypeOK ==
    /\ stock \in [Stocked -> Quantity]
    /\ live \subseteq Bundle
    /\ shown \in [Bundle -> Int]
    /\ audit \subseteq Row
    /\ push \in [Process -> PushType]

\* An open transaction knows what can be made now.
SeesNow(u) == u.open => \A b \in Bundle : CanMake(b, stock) \in u.seen[b]

\* What it flushed could be made, or is short.
RowsCouldBeMade(u) == \A r \in u.rows : r.qty >= 0 => r.qty \in u.seen[r.bundle]

PushInv ==
    /\ PushTypeOK
    /\ \A p \in Process : SeesNow(push[p]) /\ RowsCouldBeMade(push[p])

LEMMA NoPushType == NoPush \in PushType /\ SeesNow(NoPush) /\ RowsCouldBeMade(NoPush)
  BY DEF NoPush, PushType, SeesNow, RowsCouldBeMade

LEMMA BeginType ==
    ASSUME NEW todo \in SUBSET Bundle
    PROVE  Begin(todo) \in PushType /\ SeesNow(Begin(todo)) /\ RowsCouldBeMade(Begin(todo))
<1>1. \A b \in Bundle : CanMake(b, stock) \in Int
  BY CanMakeType
<1> DEFINE seen == [b \in Bundle |-> {CanMake(b, stock)}]
<1>2. Begin(todo) = [NoPush EXCEPT !.open = TRUE, !.todo = todo, !.seen = seen]
  BY DEF Begin
<1>3. seen \in [Bundle -> SUBSET Int] /\ \A b \in Bundle : CanMake(b, stock) \in seen[b]
  BY <1>1
<1> HIDE DEF seen
<1>4. Begin(todo) = [open |-> TRUE, todo |-> todo, rows |-> {}, took |-> {}, seen |-> seen]
  <2>1. PICK none \in PushType : none = NoPush
    BY NoPushType
  <2>2. /\ none.rows = {} /\ none.took = {}
        /\ Begin(todo) = [none EXCEPT !.open = TRUE, !.todo = todo, !.seen = seen]
    BY <1>2, <2>1 DEF NoPush
  <2> QED
    BY <2>2 DEF PushType
<1> QED
  BY <1>3, <1>4 DEF PushType, SeesNow, RowsCouldBeMade

\* A step of one transaction that leaves the stock alone keeps the invariant if the
\* transaction itself is in order.
LEMMA OneTransaction ==
    ASSUME PushInv, NEW p \in Process, NEW v \in PushType,
           SeesNow(v), RowsCouldBeMade(v),
           push' = [push EXCEPT ![p] = v], stock' = stock, live' \subseteq Bundle,
           shown' \in [Bundle -> Int], audit' \subseteq Row
    PROVE  PushInv'
<1>1. PushTypeOK'
  BY DEF PushInv, PushTypeOK
<1>2. ASSUME NEW q \in Process PROVE SeesNow(push[q])' /\ RowsCouldBeMade(push[q])'
  <2>1. push'[q] = IF q = p THEN v ELSE push[q]
    BY DEF PushInv, PushTypeOK
  <2>2. SeesNow(push[q]) /\ RowsCouldBeMade(push[q])
    BY DEF PushInv
  <2> QED
    BY <2>1, <2>2 DEF SeesNow, RowsCouldBeMade
<1> QED
  BY <1>1, <1>2 DEF PushInv

LEMMA PushInit == ASSUME Init PROVE PushInv
<1>1. Max(Quantity) \in Quantity
  <2>1. PICK lo, hi \in Int : \A q \in Quantity : lo <= q /\ q <= hi
    BY QuantityAssumption, FiniteIsBounded
  <2>2. \A q \in Quantity : q <= hi
    BY <2>1
  <2> QED
    BY <2>2, QuantityAssumption, MaxOfBounded
<1> QED
  BY <1>1, NoPushType DEF Init, PushInv, PushTypeOK

\* Stock changes under every open transaction.
LEMMA MoveKeepsPush ==
    ASSUME PushInv, NEW c \in Stocked, NEW q \in Quantity, Move(c, q)
    PROVE  PushInv'
<1>1. stock' \in [Stocked -> Quantity]
  BY DEF PushInv, PushTypeOK, Move
<1>2. PICK st \in [Stocked -> Quantity] : st = stock'
  BY <1>1
<1>3. ASSUME NEW p \in Process
      PROVE  /\ push'[p] \in PushType
             /\ SeesNow(push[p])' /\ RowsCouldBeMade(push[p])'
  <2>1. PICK u \in PushType : u = push[p]
    BY DEF PushInv, PushTypeOK
  <2>2. SeesNow(u) /\ RowsCouldBeMade(u)
    BY <2>1 DEF PushInv
  <2> DEFINE seen == [b \in Bundle |-> u.seen[b] \cup {CanMake(b, st)}]
  <2>3. seen \in [Bundle -> SUBSET Int]
    <3>1. \A b \in Bundle : CanMake(b, st) \in Int /\ u.seen[b] \subseteq Int
      BY CanMakeType DEF PushType
    <3> QED
      BY <3>1
  <2>4. \A b \in Bundle : CanMake(b, st) \in seen[b] /\ u.seen[b] \subseteq seen[b]
    OBVIOUS
  <2>5. push'[p] = IF u.open THEN [u EXCEPT !.seen = seen] ELSE u
    BY <1>2, <2>1 DEF Move
  <2> HIDE DEF seen
  <2>6. CASE u.open
    <3>1. PICK v : v = [u EXCEPT !.seen = seen]
      OBVIOUS
    <3>2. /\ v \in PushType /\ v.seen = seen /\ v.rows = u.rows /\ v.open
          /\ v.rows \subseteq Row
      BY <2>3, <2>6, <3>1 DEF PushType
    <3>3. \A r \in v.rows : r.bundle \in Bundle
      BY <3>2 DEF Row
    <3>4. \A r \in v.rows : r.qty >= 0 => r.qty \in v.seen[r.bundle]
      BY <2>2, <2>4, <3>2, <3>3 DEF RowsCouldBeMade
    <3>5. push'[p] = v
      BY <2>5, <2>6, <3>1
    <3>6. SeesNow(push[p])'
      BY <1>2, <2>4, <3>2, <3>5 DEF SeesNow
    <3> QED
      BY <3>2, <3>4, <3>5, <3>6 DEF RowsCouldBeMade
  <2>7. CASE ~u.open
    BY <2>1, <2>2, <2>5, <2>7 DEF SeesNow, RowsCouldBeMade
  <2> QED
    BY <2>6, <2>7
<1>4. push' \in [Process -> PushType]
  <2>1. push' = [p \in Process |-> push'[p]]
    BY DEF Move
  <2> QED
    BY <1>3, <2>1
<1>5. live' = live /\ shown' = shown /\ audit' = audit
  BY DEF Move
<1>6. PushTypeOK'
  BY <1>1, <1>4, <1>5 DEF PushInv, PushTypeOK
<1> QED
  BY <1>3, <1>6 DEF PushInv

LEMMA ReadKeepsPush ==
    ASSUME PushInv, NEW p \in Process, NEW b \in Bundle, Read(p, b)
    PROVE  PushInv'
<1>1. PICK u \in PushType : u = push[p]
  BY DEF PushInv, PushTypeOK
<1>2. SeesNow(u) /\ RowsCouldBeMade(u) /\ u.open
  BY <1>1 DEF PushInv, Read, Turn
<1> DEFINE r == [bundle |-> b, qty |-> Available(b), status |-> "pending"]
<1>3. /\ Available(b) \in Int
      /\ Available(b) >= 0 => Available(b) = CanMake(b, stock)
  BY AvailableIsCanMake DEF PushInv, PushTypeOK
<1>4. r \in Row /\ r.bundle = b /\ r.qty = Available(b)
  BY <1>3 DEF Row
<1>5. push' = [push EXCEPT ![p].todo = @ \ {b}, ![p].rows = @ \cup {r}]
  BY DEF Read
<1> HIDE DEF r
<1>6. PICK v : v = [u EXCEPT !.todo = @ \ {b}, !.rows = @ \cup {r}]
  OBVIOUS
<1>7. push' = [push EXCEPT ![p] = v]
  BY <1>1, <1>5, <1>6 DEF PushInv, PushTypeOK
<1>8. v \in PushType /\ v.open = u.open /\ v.seen = u.seen /\ v.rows = u.rows \cup {r}
  BY <1>4, <1>6 DEF PushType
<1>9. SeesNow(v)
  BY <1>2, <1>8 DEF SeesNow
<1>10. RowsCouldBeMade(v)
  <2>1. r.qty >= 0 => r.qty \in u.seen[r.bundle]
    BY <1>2, <1>3, <1>4 DEF SeesNow
  <2> QED
    BY <1>2, <1>8, <2>1 DEF RowsCouldBeMade
<1>11. /\ stock' = stock /\ live' \subseteq Bundle
       /\ shown' \in [Bundle -> Int] /\ audit' \subseteq Row
  BY DEF Read, catalogue, PushInv, PushTypeOK
<1> QED
  BY <1>7, <1>8, <1>9, <1>10, <1>11, OneTransaction

LEMMA SkipKeepsPush ==
    ASSUME PushInv, NEW p \in Process, NEW b \in Bundle, Skip(p, b)
    PROVE  PushInv'
<1>1. PICK u \in PushType : u = push[p]
  BY DEF PushInv, PushTypeOK
<1>2. PICK v : v = [u EXCEPT !.todo = @ \ {b}]
  OBVIOUS
<1>3. push' = [push EXCEPT ![p] = v]
  BY <1>1, <1>2 DEF Skip, PushInv, PushTypeOK
<1>4. v \in PushType /\ v.open = u.open /\ v.seen = u.seen /\ v.rows = u.rows
  BY <1>2 DEF PushType
<1>5. SeesNow(v) /\ RowsCouldBeMade(v)
  BY <1>1, <1>4 DEF PushInv, SeesNow, RowsCouldBeMade
<1>6. /\ stock' = stock /\ live' \subseteq Bundle
      /\ shown' \in [Bundle -> Int] /\ audit' \subseteq Row
  BY DEF Skip, catalogue, PushInv, PushTypeOK
<1> QED
  BY <1>3, <1>4, <1>5, <1>6, OneTransaction

LEMMA TakesKeepsPush ==
    ASSUME PushInv, NEW p \in Process, NEW b \in Bundle, ChannelTakes(p, b)
    PROVE  PushInv'
<1>1. PICK u \in PushType : u = push[p]
  BY DEF PushInv, PushTypeOK
<1>2. PICK r \in InHand(p) :
        /\ r.bundle = b
        /\ shown' = [shown EXCEPT ![b] = r.qty]
        /\ push' = [push EXCEPT ![p].took = @ \cup {<<b, r.qty>>}]
        /\ UNCHANGED <<catalogue, audit>>
  BY DEF ChannelTakes
<1>3. r.qty \in Int
  BY <1>1, <1>2 DEF InHand, PushType, Row
<1>4. PICK v : v = [u EXCEPT !.took = @ \cup {<<b, r.qty>>}]
  OBVIOUS
<1>5. push' = [push EXCEPT ![p] = v]
  BY <1>1, <1>2, <1>4 DEF PushInv, PushTypeOK
<1>6. v \in PushType /\ v.open = u.open /\ v.seen = u.seen /\ v.rows = u.rows
  BY <1>3, <1>4 DEF PushType
<1>7. SeesNow(v) /\ RowsCouldBeMade(v)
  BY <1>1, <1>6 DEF PushInv, SeesNow, RowsCouldBeMade
<1>8. /\ stock' = stock /\ live' \subseteq Bundle
      /\ shown' \in [Bundle -> Int] /\ audit' \subseteq Row
  BY <1>2, <1>3 DEF catalogue, PushInv, PushTypeOK
<1> QED
  BY <1>5, <1>6, <1>7, <1>8, OneTransaction

LEMMA MarkKeepsPush ==
    ASSUME PushInv, NEW p \in Process, NEW r \in InHand(p),
           NEW end \in {"succeeded", "failed"}, Mark(p, r, end)
    PROVE  PushInv'
<1>1. PICK u \in PushType : u = push[p]
  BY DEF PushInv, PushTypeOK
<1>2. r \in u.rows /\ u.rows \subseteq Row
  BY <1>1 DEF InHand, PushType
<1>3. PICK s : s = [r EXCEPT !.status = end]
  OBVIOUS
<1>4. s \in Row /\ s.bundle = r.bundle /\ s.qty = r.qty
  BY <1>2, <1>3 DEF Row
<1>5. PICK v : v = [u EXCEPT !.rows = (@ \ {r}) \cup {s}]
  OBVIOUS
<1>6. push' = [push EXCEPT ![p] = v]
  BY <1>1, <1>3, <1>5 DEF Mark, PushInv, PushTypeOK
<1>7. v \in PushType /\ v.open = u.open /\ v.seen = u.seen /\ v.rows = (u.rows \ {r}) \cup {s}
  BY <1>4, <1>5 DEF PushType
<1>8. SeesNow(v) /\ RowsCouldBeMade(v)
  <2>1. SeesNow(u) /\ RowsCouldBeMade(u)
    BY <1>1 DEF PushInv
  <2>2. s.qty >= 0 => s.qty \in u.seen[s.bundle]
    BY <1>2, <1>4, <2>1 DEF RowsCouldBeMade
  <2> QED
    BY <1>7, <2>1, <2>2 DEF SeesNow, RowsCouldBeMade
<1>9. /\ stock' = stock /\ live' \subseteq Bundle
      /\ shown' \in [Bundle -> Int] /\ audit' \subseteq Row
  BY DEF Mark, catalogue, PushInv, PushTypeOK
<1> QED
  BY <1>6, <1>7, <1>8, <1>9, OneTransaction

LEMMA PushNext == ASSUME PushInv, [Next]_vars PROVE PushInv'
<1>1. ASSUME NEW c \in Stocked, NEW q \in Quantity, Move(c, q) PROVE PushInv'
  BY <1>1, MoveKeepsPush
<1>2. ASSUME NEW b \in Bundle, Relist(b) PROVE PushInv'
  <2>1. UNCHANGED <<stock, shown, audit, push>>
    BY <1>2 DEF Relist
  <2>2. live' \subseteq Bundle
    BY <1>2 DEF Relist, SymDiff, PushInv, PushTypeOK
  <2> QED
    BY <2>1, <2>2 DEF PushInv, PushTypeOK, SeesNow, RowsCouldBeMade
<1>3. ASSUME NEW p \in Process, StartJob(p) PROVE PushInv'
  <2>1. push' = [push EXCEPT ![p] = Begin(live)] /\ UNCHANGED <<catalogue, shown, audit>>
    BY <1>3 DEF StartJob
  <2>2. live \in SUBSET Bundle
    BY DEF PushInv, PushTypeOK
  <2>3. PICK v \in PushType : v = Begin(live) /\ SeesNow(v) /\ RowsCouldBeMade(v)
    BY <2>2, BeginType
  <2> QED
    BY <2>1, <2>3, OneTransaction DEF catalogue, PushInv, PushTypeOK
<1>4. ASSUME NEW p \in Process, StartRetry(p) PROVE PushInv'
  <2>1. PICK r \in audit : push' = [push EXCEPT ![p] = Begin({r.bundle})]
    BY <1>4 DEF StartRetry
  <2>2. {r.bundle} \in SUBSET Bundle
    BY DEF PushInv, PushTypeOK, Row
  <2>3. PICK v \in PushType : v = Begin({r.bundle}) /\ SeesNow(v) /\ RowsCouldBeMade(v)
    BY <2>2, BeginType
  <2>4. UNCHANGED <<catalogue, shown, audit>>
    BY <1>4 DEF StartRetry
  <2> QED
    BY <2>1, <2>3, <2>4, OneTransaction DEF catalogue, PushInv, PushTypeOK
<1>5. ASSUME NEW p \in Process, Succeed(p) \/ Fail(p) PROVE PushInv'
  BY <1>5, MarkKeepsPush DEF Succeed, Fail
<1>6. ASSUME NEW p \in Process, Finish(p) PROVE PushInv'
  <2>1. push' = [push EXCEPT ![p] = NoPush] /\ UNCHANGED <<catalogue, shown>>
    BY <1>6 DEF Finish
  <2>2. audit' \subseteq Row
    <3>1. PICK u \in PushType : u = push[p]
      BY DEF PushInv, PushTypeOK
    <3>2. audit' = audit \cup {r \in u.rows : r.status = "failed"}
      BY <1>6, <3>1 DEF Finish
    <3> QED
      BY <3>2 DEF PushType, PushInv, PushTypeOK
  <2>3. PICK v \in PushType : v = NoPush /\ SeesNow(v) /\ RowsCouldBeMade(v)
    BY NoPushType
  <2> QED
    BY <2>1, <2>2, <2>3, OneTransaction DEF catalogue, PushInv, PushTypeOK
<1>7. ASSUME NEW p \in Process, Crash(p) PROVE PushInv'
  <2>1. push' = [push EXCEPT ![p] = NoPush] /\ UNCHANGED <<catalogue, shown, audit>>
    BY <1>7 DEF Crash
  <2>2. PICK v \in PushType : v = NoPush /\ SeesNow(v) /\ RowsCouldBeMade(v)
    BY NoPushType
  <2> QED
    BY <2>1, <2>2, OneTransaction DEF catalogue, PushInv, PushTypeOK
<1>8. ASSUME NEW p \in Process, NEW b \in Bundle,
             Skip(p, b) \/ Read(p, b) \/ ChannelTakes(p, b)
      PROVE  PushInv'
  BY <1>8, SkipKeepsPush, ReadKeepsPush, TakesKeepsPush
<1>9. CASE UNCHANGED vars
  BY <1>9 DEF vars, PushInv, PushTypeOK, SeesNow, RowsCouldBeMade
<1> QED
  BY <1>1, <1>2, <1>3, <1>4, <1>5, <1>6, <1>7, <1>8, <1>9 DEF Next, Step

\* Whatever jobs and retries run beside each other, crash or lose an answer, and however
\* stock moves under them: every quantity a push has in hand could be made of its bundle
\* at some moment since its transaction began, or is negative
\* (compute_bundle_available, services/bundle_push.py, ui/routes/sync_errors.py).
THEOREM PushesAreCurrent == Spec => []PushInv
  BY PushInit, PushNext, PTL DEF Spec

\* The channel only ever shows a number that could be made of the bundle while the
\* transaction that sent it was open (bundle_push.py:98, sync_errors.py:205).
THEOREM ChannelShowsWhatCouldBeMade == Spec => ShownCouldBeMade
<1> DEFINE Good == \A b \in Bundle :
                shown'[b] # shown[b] =>
                    \E p \in Process : \E r \in InHand(p) :
                        r.bundle = b /\ shown'[b] \in push[p].seen[b]
<1>1. ASSUME PushInv, [Next]_vars PROVE [Good]_vars
  <2>1. ASSUME NEW p \in Process, NEW b \in Bundle, ChannelTakes(p, b) PROVE Good
    <3>1. PICK r \in InHand(p) :
            r.bundle = b /\ r.qty >= 0 /\ shown' = [shown EXCEPT ![b] = r.qty]
      BY <2>1 DEF ChannelTakes
    <3>2. r \in push[p].rows /\ shown \in [Bundle -> Int]
      BY <1>1 DEF InHand, PushInv, PushTypeOK
    <3>3. r.qty \in push[p].seen[b]
      BY <1>1, <3>1, <3>2 DEF PushInv, RowsCouldBeMade
    <3>4. ASSUME NEW d \in Bundle, shown'[d] # shown[d]
          PROVE  d = b /\ shown'[d] = r.qty
      BY <3>1, <3>2, <3>4
    <3> QED
      BY <3>1, <3>3, <3>4
  <2>2. ASSUME shown' = shown PROVE Good
    BY <2>2
  <2> HIDE DEF Good
  <2>3. \/ shown' = shown
        \/ \E p \in Process, b \in Bundle : ChannelTakes(p, b)
    BY <1>1 DEF Next, Step, vars, Move, Relist, StartJob, StartRetry, Skip, Read,
                Succeed, Fail, Mark, Finish, Crash
  <2> QED
    BY <2>1, <2>2, <2>3
<1>2. Spec => []PushInv
  BY PushesAreCurrent
<1> QED
  BY <1>1, <1>2, PTL DEF Spec, ShownCouldBeMade

-----------------------------------------------------------------------------
(* Roles.  A session commits on what it read a step before, so that what   *)
(* it read has to be in the invariant: the expansion it will book, the     *)
(* consumption it will give back, the empty shelf of a share, the masters  *)
(* it found free to archive.  Each holds still, or the history of the      *)
(* order or of the master says that it does not.                           *)

CONSTANTS Session, Legacy, Links, Marked, Counted, MaxCount

VARIABLES zeroed, cleaned, sold, tx

Roles == INSTANCE Catalogue

-----------------------------------------------------------------------------
(* The invariant *)

\* Every table has a row for each master and each order.
RoleTables ==
    /\ DOMAIN parts = Master /\ DOMAIN managed = Master /\ DOMAIN isArchived = Master
    /\ DOMAIN onHand = Master
    /\ DOMAIN status = Order /\ DOMAIN taken = Order /\ DOMAIN returned = Order
    /\ DOMAIN sold = Order
    /\ DOMAIN tx = Session

\* What an order took is what its line expands to, as long as that is what it was;
\* and nothing has come back before the cancellation.
OrderInv(o) ==
    /\ status[o] # "cancelled" => returned[o] = {}
    /\ returned[o] \subseteq taken[o]
    /\ status[o] = "confirmed" /\ o \notin recast => taken[o] = Targets(sold[o])
    /\ status[o] = "cancelled" /\ o \notin recast => returned[o] = taken[o]

\* What a session has read, while the catalogue changes under it.
RoleTxInv(p) ==
    /\ tx[p].job = "consume" =>
        /\ tx[p].order \in Order /\ status[tx[p].order] = "arriving"
        /\ tx[p].order \notin recast => tx[p].want = Targets(sold[tx[p].order])
    /\ tx[p].job = "return" =>
        /\ tx[p].order \in Order /\ status[tx[p].order] \in {"confirmed", "cancelled"}
        /\ tx[p].want \subseteq taken[tx[p].order]
        /\ tx[p].order \notin recast => tx[p].want = taken[tx[p].order]
    /\ tx[p].job = "link" => tx[p].had = 0

\* One session takes an order in; several may cancel it.
OneHandler(p, q) == tx[p].job = "consume" /\ tx[q].job = "consume" => tx[p].order # tx[q].order

\* Found free to archive, or archived: whatever uses it came later.
FoundFree(m) == (isArchived[m] \/ Roles!Archiving(m)) /\ Reasons(m) # {} => m \in late

RoleInv ==
    /\ RoleTables
    /\ \A o \in Order : OrderInv(o)
    /\ \A p \in Session : RoleTxInv(p)
    /\ \A p, q \in Session : p # q => OneHandler(p, q)
    /\ SharesHoldNothing
    /\ \A m \in Master : FoundFree(m)

-----------------------------------------------------------------------------
LEMMA RoleInit == Roles!Init => RoleInv
  BY DEF Roles!Init, Roles!Idle, RoleInv, RoleTables, OrderInv, RoleTxInv, OneHandler, FoundFree,
         Roles!Archiving, SharesHoldNothing, IsBundle

\* Every table keeps its rows.
LEMMA TablesKept ==
    ASSUME RoleTables, Roles!Step
    PROVE  RoleTables'
<1> USE DEF RoleTables
<1>1. ASSUME NEW p \in Session, NEW o \in Order, NEW s \in Master, Roles!Expand(p, o, s) PROVE RoleTables'
  BY <1>1 DEF Roles!Expand, Roles!Begin, Roles!roles, Roles!stock, Roles!orders
<1>2. ASSUME NEW p \in Session, NEW o \in Order, Roles!ExpandReturn(p, o) PROVE RoleTables'
  BY <1>2 DEF Roles!ExpandReturn, Roles!Begin, Roles!roles, Roles!stock, Roles!orders
<1>3. ASSUME NEW p \in Session, Roles!Consume(p) PROVE RoleTables'
  BY <1>3 DEF Roles!Consume, Roles!Move, Roles!End, Roles!roles, Roles!stock, Roles!orders
<1>4. ASSUME NEW p \in Session, Roles!Return(p) PROVE RoleTables'
  BY <1>4 DEF Roles!Return, Roles!Move, Roles!End, Roles!roles, Roles!stock, Roles!orders
<1>5. ASSUME NEW p \in Session, NEW l \in Links, Roles!LinkPlan(p, l[1], l[2]) PROVE RoleTables'
  BY <1>5 DEF Roles!LinkPlan, Roles!Begin, Roles!roles, Roles!stock, Roles!orders
<1>6. ASSUME NEW p \in Session, Roles!LinkApply(p) PROVE RoleTables'
  BY <1>6 DEF Roles!LinkApply, Roles!End, Roles!roles, Roles!stock, Roles!orders
<1>7. ASSUME NEW p \in Session, Roles!LinkConflict(p) PROVE RoleTables'
  BY <1>7 DEF Roles!LinkConflict, Roles!End, Roles!roles, Roles!stock, Roles!orders
<1>8. ASSUME NEW p \in Session, NEW M \in {Legacy} \cup {{m} : m \in Counted}, Roles!ArchiveRead(p, M) PROVE RoleTables'
  BY <1>8 DEF Roles!ArchiveRead, Roles!Begin, Roles!roles, Roles!stock, Roles!orders
<1>9. ASSUME NEW p \in Session, Roles!Archive(p) PROVE RoleTables'
  BY <1>9 DEF Roles!Archive, Roles!End, Roles!roles, Roles!stock, Roles!orders
<1>10. ASSUME NEW p \in Session, NEW allNegative \in BOOLEAN, Roles!ZeroRead(p, allNegative) PROVE RoleTables'
  BY <1>10 DEF Roles!ZeroRead, Roles!Begin, Roles!roles, Roles!stock, Roles!orders
<1>11. ASSUME NEW p \in Session, Roles!Zero(p) PROVE RoleTables'
  BY <1>11 DEF Roles!Zero, Roles!End, Roles!roles, Roles!stock, Roles!orders
<1>12. ASSUME NEW m \in Counted, NEW q \in 0..MaxCount, Roles!Count(m, q) PROVE RoleTables'
  BY <1>12 DEF Roles!Count, Roles!roles, Roles!stock, Roles!orders
<1>13. ASSUME NEW m \in Marked, Roles!Mark(m) PROVE RoleTables'
  BY <1>13 DEF Roles!Mark, Roles!roles, Roles!stock, Roles!orders
<1>14. ASSUME NEW m \in Marked, Roles!Unmark(m) PROVE RoleTables'
  BY <1>14 DEF Roles!Unmark, Roles!roles, Roles!stock, Roles!orders
<1>15. ASSUME NEW m \in Marked, Roles!ToggleManaged(m) PROVE RoleTables'
  BY <1>15 DEF Roles!ToggleManaged, Roles!roles, Roles!stock, Roles!orders
<1>16. ASSUME NEW M \in {Legacy} \cup {{m} : m \in Counted}, Roles!Unarchive(M) PROVE RoleTables'
  BY <1>16 DEF Roles!Unarchive, Roles!roles, Roles!stock, Roles!orders
<1>17. ASSUME NEW m \in Legacy, NEW revive \in BOOLEAN, Roles!MapSku(m, revive) PROVE RoleTables'
  BY <1>17 DEF Roles!MapSku, Roles!roles, Roles!stock, Roles!orders
<1>18. ASSUME NEW m \in Legacy, Roles!UnmapSku(m) PROVE RoleTables'
  BY <1>18 DEF Roles!UnmapSku, Roles!roles, Roles!stock, Roles!orders
<1>19. ASSUME Roles!DeactivateLegacy PROVE RoleTables'
  BY <1>19 DEF Roles!DeactivateLegacy, Roles!roles, Roles!stock, Roles!orders
<1> QED
  BY <1>1, <1>2, <1>3, <1>4, <1>5, <1>6, <1>7, <1>8, <1>9, <1>10, <1>11, <1>12, <1>13, <1>14, <1>15, <1>16, <1>17, <1>18, <1>19 DEF Roles!Step

\* Orders and the sessions that handle them.
LEMMA OrdersKept ==
    ASSUME RoleInv, Roles!Step, Roles!Recorded
    PROVE  /\ \A o \in Order : OrderInv(o)'
           /\ \A p \in Session : RoleTxInv(p)'
           /\ \A p, q \in Session : p # q => OneHandler(p, q)'
<1> DEFINE Goal == /\ \A x \in Order : OrderInv(x)'
                   /\ \A x \in Session : RoleTxInv(x)'
                   /\ \A x, y \in Session : x # y => OneHandler(x, y)'
<1> USE DEF RoleInv, RoleTables
<1>0. \A m : Roles!Targets(m) = Targets(m) /\ Roles!Targets(m)' = Targets(m)'
  BY DEF Roles!Targets, Targets, Roles!IsBundle, IsBundle
<1>a. /\ \A o \in Order : o \in recast => o \in recast'
      /\ \A o \in Order : o \notin recast' /\ status[o] # "none" => Targets(sold[o])' = Targets(sold[o])
  BY <1>0 DEF Roles!Recorded
<1> HIDE DEF Targets
<1>1. ASSUME NEW p \in Session, NEW o \in Order, NEW s \in Master, Roles!Expand(p, o, s) PROVE Goal
  <2>1. Targets(s)' = Targets(s)
    BY <1>1 DEF Roles!Expand, Roles!roles, Targets, IsBundle
  <2>2. Roles!Targets(s) = Targets(s)
    BY <1>0
  <2> QED
    BY <1>1, <1>a, <2>1, <2>2 DEF Roles!Expand, Roles!Begin, Roles!Idle, OrderInv, RoleTxInv, OneHandler
<1>2. ASSUME NEW p \in Session, NEW o \in Order, Roles!ExpandReturn(p, o) PROVE Goal
  BY <1>2, <1>0, <1>a DEF Roles!ExpandReturn, Roles!Begin, Roles!roles, Roles!stock, Roles!orders, Roles!Idle, OrderInv, RoleTxInv, OneHandler
<1>3. ASSUME NEW p \in Session, Roles!Consume(p) PROVE Goal
  BY <1>3, <1>0, <1>a DEF Roles!Consume, Roles!Move, Roles!End, Roles!roles, Roles!stock, Roles!orders, Roles!Idle, OrderInv, RoleTxInv, OneHandler
<1>4. ASSUME NEW p \in Session, Roles!Return(p) PROVE Goal
  BY <1>4, <1>0, <1>a DEF Roles!Return, Roles!Move, Roles!End, Roles!roles, Roles!stock, Roles!orders, Roles!Idle, OrderInv, RoleTxInv, OneHandler
<1>5. ASSUME NEW p \in Session, NEW l \in Links, Roles!LinkPlan(p, l[1], l[2]) PROVE Goal
  BY <1>5, <1>0, <1>a DEF Roles!LinkPlan, Roles!Begin, Roles!roles, Roles!stock, Roles!orders, Roles!Idle, OrderInv, RoleTxInv, OneHandler
<1>6. ASSUME NEW p \in Session, Roles!LinkApply(p) PROVE Goal
  BY <1>6, <1>0, <1>a DEF Roles!LinkApply, Roles!End, Roles!roles, Roles!stock, Roles!orders, Roles!Idle, OrderInv, RoleTxInv, OneHandler
<1>7. ASSUME NEW p \in Session, Roles!LinkConflict(p) PROVE Goal
  BY <1>7, <1>0, <1>a DEF Roles!LinkConflict, Roles!End, Roles!roles, Roles!stock, Roles!orders, Roles!Idle, OrderInv, RoleTxInv, OneHandler
<1>8. ASSUME NEW p \in Session, NEW M \in {Legacy} \cup {{m} : m \in Counted}, Roles!ArchiveRead(p, M) PROVE Goal
  BY <1>8, <1>0, <1>a DEF Roles!ArchiveRead, Roles!Begin, Roles!roles, Roles!stock, Roles!orders, Roles!Idle, OrderInv, RoleTxInv, OneHandler
<1>9. ASSUME NEW p \in Session, Roles!Archive(p) PROVE Goal
  BY <1>9, <1>0, <1>a DEF Roles!Archive, Roles!End, Roles!roles, Roles!stock, Roles!orders, Roles!Idle, OrderInv, RoleTxInv, OneHandler
<1>10. ASSUME NEW p \in Session, NEW allNegative \in BOOLEAN, Roles!ZeroRead(p, allNegative) PROVE Goal
  BY <1>10, <1>0, <1>a DEF Roles!ZeroRead, Roles!Begin, Roles!roles, Roles!stock, Roles!orders, Roles!Idle, OrderInv, RoleTxInv, OneHandler
<1>11. ASSUME NEW p \in Session, Roles!Zero(p) PROVE Goal
  BY <1>11, <1>0, <1>a DEF Roles!Zero, Roles!End, Roles!roles, Roles!stock, Roles!orders, Roles!Idle, OrderInv, RoleTxInv, OneHandler
<1>12. ASSUME NEW m \in Counted, NEW q \in 0..MaxCount, Roles!Count(m, q) PROVE Goal
  BY <1>12, <1>0, <1>a DEF Roles!Count, Roles!roles, Roles!stock, Roles!orders, Roles!Idle, OrderInv, RoleTxInv, OneHandler
<1>13. ASSUME NEW m \in Marked, Roles!Mark(m) PROVE Goal
  BY <1>13, <1>0, <1>a DEF Roles!Mark, Roles!roles, Roles!stock, Roles!orders, Roles!Idle, OrderInv, RoleTxInv, OneHandler
<1>14. ASSUME NEW m \in Marked, Roles!Unmark(m) PROVE Goal
  BY <1>14, <1>0, <1>a DEF Roles!Unmark, Roles!roles, Roles!stock, Roles!orders, Roles!Idle, OrderInv, RoleTxInv, OneHandler
<1>15. ASSUME NEW m \in Marked, Roles!ToggleManaged(m) PROVE Goal
  BY <1>15, <1>0, <1>a DEF Roles!ToggleManaged, Roles!roles, Roles!stock, Roles!orders, Roles!Idle, OrderInv, RoleTxInv, OneHandler
<1>16. ASSUME NEW M \in {Legacy} \cup {{m} : m \in Counted}, Roles!Unarchive(M) PROVE Goal
  BY <1>16, <1>0, <1>a DEF Roles!Unarchive, Roles!roles, Roles!stock, Roles!orders, Roles!Idle, OrderInv, RoleTxInv, OneHandler
<1>17. ASSUME NEW m \in Legacy, NEW revive \in BOOLEAN, Roles!MapSku(m, revive) PROVE Goal
  BY <1>17, <1>0, <1>a DEF Roles!MapSku, Roles!roles, Roles!stock, Roles!orders, Roles!Idle, OrderInv, RoleTxInv, OneHandler
<1>18. ASSUME NEW m \in Legacy, Roles!UnmapSku(m) PROVE Goal
  BY <1>18, <1>0, <1>a DEF Roles!UnmapSku, Roles!roles, Roles!stock, Roles!orders, Roles!Idle, OrderInv, RoleTxInv, OneHandler
<1>19. ASSUME Roles!DeactivateLegacy PROVE Goal
  BY <1>19, <1>0, <1>a DEF Roles!DeactivateLegacy, Roles!roles, Roles!stock, Roles!orders, Roles!Idle, OrderInv, RoleTxInv, OneHandler
<1> QED
  BY <1>1, <1>2, <1>3, <1>4, <1>5, <1>6, <1>7, <1>8, <1>9, <1>10, <1>11, <1>12, <1>13, <1>14, <1>15, <1>16, <1>17, <1>18, <1>19 DEF Roles!Step

\* Shares.
LEMMA SharesKept ==
    ASSUME RoleInv, Roles!Step
    PROVE  SharesHoldNothing'
<1> USE DEF RoleInv, RoleTables, SharesHoldNothing, IsBundle, Roles!IsBundle
<1>1. ASSUME NEW p \in Session, NEW o \in Order, NEW s \in Master, Roles!Expand(p, o, s) PROVE SharesHoldNothing'
  BY <1>1 DEF Roles!Expand, Roles!Begin, Roles!roles, Roles!stock, Roles!orders, RoleTxInv
<1>2. ASSUME NEW p \in Session, NEW o \in Order, Roles!ExpandReturn(p, o) PROVE SharesHoldNothing'
  BY <1>2 DEF Roles!ExpandReturn, Roles!Begin, Roles!roles, Roles!stock, Roles!orders, RoleTxInv
<1>3. ASSUME NEW p \in Session, Roles!Consume(p) PROVE SharesHoldNothing'
  BY <1>3 DEF Roles!Consume, Roles!Move, Roles!End, Roles!roles, Roles!stock, Roles!orders, RoleTxInv
<1>4. ASSUME NEW p \in Session, Roles!Return(p) PROVE SharesHoldNothing'
  BY <1>4 DEF Roles!Return, Roles!Move, Roles!End, Roles!roles, Roles!stock, Roles!orders, RoleTxInv
<1>5. ASSUME NEW p \in Session, NEW l \in Links, Roles!LinkPlan(p, l[1], l[2]) PROVE SharesHoldNothing'
  BY <1>5 DEF Roles!LinkPlan, Roles!Begin, Roles!roles, Roles!stock, Roles!orders, RoleTxInv
<1>6. ASSUME NEW p \in Session, Roles!LinkApply(p) PROVE SharesHoldNothing'
  BY <1>6 DEF Roles!LinkApply, Roles!End, Roles!roles, Roles!stock, Roles!orders, RoleTxInv
<1>7. ASSUME NEW p \in Session, Roles!LinkConflict(p) PROVE SharesHoldNothing'
  BY <1>7 DEF Roles!LinkConflict, Roles!End, Roles!roles, Roles!stock, Roles!orders, RoleTxInv
<1>8. ASSUME NEW p \in Session, NEW M \in {Legacy} \cup {{m} : m \in Counted}, Roles!ArchiveRead(p, M) PROVE SharesHoldNothing'
  BY <1>8 DEF Roles!ArchiveRead, Roles!Begin, Roles!roles, Roles!stock, Roles!orders, RoleTxInv
<1>9. ASSUME NEW p \in Session, Roles!Archive(p) PROVE SharesHoldNothing'
  BY <1>9 DEF Roles!Archive, Roles!End, Roles!roles, Roles!stock, Roles!orders, RoleTxInv
<1>10. ASSUME NEW p \in Session, NEW allNegative \in BOOLEAN, Roles!ZeroRead(p, allNegative) PROVE SharesHoldNothing'
  BY <1>10 DEF Roles!ZeroRead, Roles!Begin, Roles!roles, Roles!stock, Roles!orders, RoleTxInv
<1>11. ASSUME NEW p \in Session, Roles!Zero(p) PROVE SharesHoldNothing'
  BY <1>11 DEF Roles!Zero, Roles!End, Roles!roles, Roles!stock, Roles!orders, RoleTxInv
<1>12. ASSUME NEW m \in Counted, NEW q \in 0..MaxCount, Roles!Count(m, q) PROVE SharesHoldNothing'
  BY <1>12 DEF Roles!Count, Roles!roles, Roles!stock, Roles!orders, RoleTxInv
<1>13. ASSUME NEW m \in Marked, Roles!Mark(m) PROVE SharesHoldNothing'
  BY <1>13 DEF Roles!Mark, Roles!roles, Roles!stock, Roles!orders, RoleTxInv
<1>14. ASSUME NEW m \in Marked, Roles!Unmark(m) PROVE SharesHoldNothing'
  BY <1>14 DEF Roles!Unmark, Roles!roles, Roles!stock, Roles!orders, RoleTxInv
<1>15. ASSUME NEW m \in Marked, Roles!ToggleManaged(m) PROVE SharesHoldNothing'
  BY <1>15 DEF Roles!ToggleManaged, Roles!roles, Roles!stock, Roles!orders, RoleTxInv
<1>16. ASSUME NEW M \in {Legacy} \cup {{m} : m \in Counted}, Roles!Unarchive(M) PROVE SharesHoldNothing'
  BY <1>16 DEF Roles!Unarchive, Roles!roles, Roles!stock, Roles!orders, RoleTxInv
<1>17. ASSUME NEW m \in Legacy, NEW revive \in BOOLEAN, Roles!MapSku(m, revive) PROVE SharesHoldNothing'
  BY <1>17 DEF Roles!MapSku, Roles!roles, Roles!stock, Roles!orders, RoleTxInv
<1>18. ASSUME NEW m \in Legacy, Roles!UnmapSku(m) PROVE SharesHoldNothing'
  BY <1>18 DEF Roles!UnmapSku, Roles!roles, Roles!stock, Roles!orders, RoleTxInv
<1>19. ASSUME Roles!DeactivateLegacy PROVE SharesHoldNothing'
  BY <1>19 DEF Roles!DeactivateLegacy, Roles!roles, Roles!stock, Roles!orders, RoleTxInv
<1> QED
  BY <1>1, <1>2, <1>3, <1>4, <1>5, <1>6, <1>7, <1>8, <1>9, <1>10, <1>11, <1>12, <1>13, <1>14, <1>15, <1>16, <1>17, <1>18, <1>19 DEF Roles!Step

\* Archiving.
LEMMA ArchiveKept ==
    ASSUME RoleInv, Roles!Step, Roles!Recorded
    PROVE  \A m \in Master : FoundFree(m)'
<1> DEFINE Goal == \A x \in Master : isArchived'[x] \/ Roles!Archiving(x)' =>
                    \/ isArchived[x] \/ Roles!Archiving(x)
                    \/ Reasons(x)' = {}
<1> USE DEF RoleTables
<1>b. RoleTables
  BY DEF RoleInv
<1>f. \A m \in Master : FoundFree(m)
  BY DEF RoleInv
<1>0. \A m : Roles!Reasons(m) = Reasons(m) /\ Roles!Reasons(m)' = Reasons(m)'
  BY DEF Roles!Reasons, Reasons
<1>1. ASSUME NEW p \in Session, NEW o \in Order, NEW s \in Master, Roles!Expand(p, o, s) PROVE Goal
  BY <1>1, <1>b DEF Roles!Expand, Roles!Begin, Roles!roles, Roles!stock, Roles!orders, Roles!Idle, Roles!Archiving
<1>2. ASSUME NEW p \in Session, NEW o \in Order, Roles!ExpandReturn(p, o) PROVE Goal
  BY <1>2, <1>b DEF Roles!ExpandReturn, Roles!Begin, Roles!roles, Roles!stock, Roles!orders, Roles!Idle, Roles!Archiving
<1>3. ASSUME NEW p \in Session, Roles!Consume(p) PROVE Goal
  BY <1>3, <1>b DEF Roles!Consume, Roles!Move, Roles!End, Roles!roles, Roles!stock, Roles!orders, Roles!Idle, Roles!Archiving
<1>4. ASSUME NEW p \in Session, Roles!Return(p) PROVE Goal
  BY <1>4, <1>b DEF Roles!Return, Roles!Move, Roles!End, Roles!roles, Roles!stock, Roles!orders, Roles!Idle, Roles!Archiving
<1>5. ASSUME NEW p \in Session, NEW l \in Links, Roles!LinkPlan(p, l[1], l[2]) PROVE Goal
  BY <1>5, <1>b DEF Roles!LinkPlan, Roles!Begin, Roles!roles, Roles!stock, Roles!orders, Roles!Idle, Roles!Archiving
<1>6. ASSUME NEW p \in Session, Roles!LinkApply(p) PROVE Goal
  BY <1>6, <1>b DEF Roles!LinkApply, Roles!End, Roles!roles, Roles!stock, Roles!orders, Roles!Idle, Roles!Archiving
<1>7. ASSUME NEW p \in Session, Roles!LinkConflict(p) PROVE Goal
  BY <1>7, <1>b DEF Roles!LinkConflict, Roles!End, Roles!roles, Roles!stock, Roles!orders, Roles!Idle, Roles!Archiving
<1>8. ASSUME NEW p \in Session, NEW M \in {Legacy} \cup {{m} : m \in Counted}, Roles!ArchiveRead(p, M) PROVE Goal
  <2> SUFFICES ASSUME NEW x \in Master, isArchived'[x] \/ Roles!Archiving(x)', ~isArchived[x],
                      ~Roles!Archiving(x)
               PROVE  Reasons(x)' = {}
    OBVIOUS
  <2> DEFINE free == {m \in M : ~isArchived[m] /\ Roles!Reasons(m) = {}}
  <2>1. /\ tx' = [tx EXCEPT ![p] = [job |-> "archive", free |-> free]]
        /\ UNCHANGED <<parts, isArchived, row, onHand>>
    BY <1>8 DEF Roles!ArchiveRead, Roles!Begin, Roles!roles, Roles!stock
  <2>2. PICK q \in Session : tx'[q] # Roles!Idle /\ tx'[q].job = "archive" /\ x \in tx'[q].free
    BY <2>1 DEF Roles!Archiving
  <2>3. q = p
    BY <1>b, <2>1, <2>2 DEF Roles!Archiving
  <2>4. x \in free
    BY <1>b, <2>1, <2>2, <2>3
  <2>5. Reasons(x) = {}
    BY <1>0, <2>4
  <2> QED
    BY <2>1, <2>5 DEF Reasons
<1>9. ASSUME NEW p \in Session, Roles!Archive(p) PROVE Goal
  <2> SUFFICES ASSUME NEW x \in Master, isArchived'[x] \/ Roles!Archiving(x)'
               PROVE  isArchived[x] \/ Roles!Archiving(x)
    OBVIOUS
  <2>1. CASE isArchived'[x]
    <3>1. isArchived[x] \/ x \in tx[p].free
      BY <1>9, <2>1, Zenon DEF Roles!Archive
    <3>2. tx[p].job = "archive" /\ tx[p] # Roles!Idle
      BY <1>9 DEF Roles!Archive, Roles!Idle
    <3> QED
      BY <3>1, <3>2 DEF Roles!Archiving
  <2>2. CASE Roles!Archiving(x)'
    <3>1. PICK q \in Session : tx'[q] # Roles!Idle /\ tx'[q].job = "archive" /\ x \in tx'[q].free
      BY <2>2 DEF Roles!Archiving
    <3>2. tx'[q] = tx[q]
      BY <1>9, <1>b, <3>1 DEF Roles!Archive, Roles!End
    <3> QED
      BY <3>1, <3>2 DEF Roles!Archiving
  <2> QED
    BY <2>1, <2>2
<1>10. ASSUME NEW p \in Session, NEW allNegative \in BOOLEAN, Roles!ZeroRead(p, allNegative) PROVE Goal
  BY <1>10, <1>b DEF Roles!ZeroRead, Roles!Begin, Roles!roles, Roles!stock, Roles!orders, Roles!Idle, Roles!Archiving
<1>11. ASSUME NEW p \in Session, Roles!Zero(p) PROVE Goal
  BY <1>11, <1>b DEF Roles!Zero, Roles!End, Roles!roles, Roles!stock, Roles!orders, Roles!Idle, Roles!Archiving
<1>12. ASSUME NEW m \in Counted, NEW q \in 0..MaxCount, Roles!Count(m, q) PROVE Goal
  BY <1>12, <1>b DEF Roles!Count, Roles!roles, Roles!stock, Roles!orders, Roles!Idle, Roles!Archiving
<1>13. ASSUME NEW m \in Marked, Roles!Mark(m) PROVE Goal
  BY <1>13, <1>b DEF Roles!Mark, Roles!roles, Roles!stock, Roles!orders, Roles!Idle, Roles!Archiving
<1>14. ASSUME NEW m \in Marked, Roles!Unmark(m) PROVE Goal
  BY <1>14, <1>b DEF Roles!Unmark, Roles!roles, Roles!stock, Roles!orders, Roles!Idle, Roles!Archiving
<1>15. ASSUME NEW m \in Marked, Roles!ToggleManaged(m) PROVE Goal
  BY <1>15, <1>b DEF Roles!ToggleManaged, Roles!roles, Roles!stock, Roles!orders, Roles!Idle, Roles!Archiving
<1>16. ASSUME NEW M \in {Legacy} \cup {{m} : m \in Counted}, Roles!Unarchive(M) PROVE Goal
  BY <1>16, <1>b DEF Roles!Unarchive, Roles!roles, Roles!stock, Roles!orders, Roles!Idle, Roles!Archiving
<1>17. ASSUME NEW m \in Legacy, NEW revive \in BOOLEAN, Roles!MapSku(m, revive) PROVE Goal
  BY <1>17, <1>b DEF Roles!MapSku, Roles!roles, Roles!stock, Roles!orders, Roles!Idle, Roles!Archiving
<1>18. ASSUME NEW m \in Legacy, Roles!UnmapSku(m) PROVE Goal
  BY <1>18, <1>b DEF Roles!UnmapSku, Roles!roles, Roles!stock, Roles!orders, Roles!Idle, Roles!Archiving
<1>19. ASSUME Roles!DeactivateLegacy PROVE Goal
  BY <1>19, <1>b DEF Roles!DeactivateLegacy, Roles!roles, Roles!stock, Roles!orders, Roles!Idle, Roles!Archiving
<1>20. Goal
  BY <1>1, <1>2, <1>3, <1>4, <1>5, <1>6, <1>7, <1>8, <1>9, <1>10, <1>11, <1>12, <1>13, <1>14, <1>15, <1>16, <1>17, <1>18, <1>19 DEF Roles!Step
<1> QED
  BY <1>0, <1>f, <1>20 DEF Roles!Recorded, FoundFree

LEMMA RolesKept ==
    ASSUME RoleInv, [Roles!Next]_(Roles!vars)
    PROVE  RoleInv'
<1>1. CASE Roles!Next
  BY <1>1, TablesKept, OrdersKept, SharesKept, ArchiveKept DEF Roles!Next, RoleInv
<1>2. CASE UNCHANGED Roles!vars
  <2> USE <1>2 DEF Roles!vars, RoleInv
  <2>1. RoleTables'
    BY DEF RoleTables
  <2>2. (\A o \in Order : OrderInv(o))' /\ (\A p \in Session : RoleTxInv(p))'
    BY DEF OrderInv, RoleTxInv, Targets, IsBundle
  <2>3. (\A p, q \in Session : p # q => OneHandler(p, q))'
    BY DEF OneHandler
  <2>4. SharesHoldNothing'
    BY DEF SharesHoldNothing, IsBundle
  <2>5. (\A m \in Master : FoundFree(m))'
    BY DEF FoundFree, Roles!Archiving, Reasons
  <2> QED
    BY <2>1, <2>2, <2>3, <2>4, <2>5
<1> QED
  BY <1>1, <1>2

LEMMA RolesAlways == Roles!Spec => []RoleInv
<1>1. Roles!Init => RoleInv
  BY RoleInit
<1>2. RoleInv /\ [Roles!Next]_(Roles!vars) => RoleInv'
  BY RolesKept
<1> QED
  BY <1>1, <1>2, PTL DEF Roles!Spec

\* Whatever sets, flags and archivings other sessions commit while an order is sold or
\* cancelled, a cancellation credits nothing the order did not take, and all of it
\* unless its expansion changed (services/inventory.py:245-279).
THEOREM CancellationsMirrorSales == Roles!Spec => []CancelMirrorsConsumption
<1>1. RoleInv => CancelMirrorsConsumption
  <2>1. ASSUME RoleInv, NEW o \in Order
        PROVE  /\ returned[o] \subseteq taken[o]
               /\ status[o] = "cancelled" /\ o \notin recast => returned[o] = taken[o]
    BY <2>1 DEF RoleInv, OrderInv
  <2> QED
    BY <2>1 DEF CancelMirrorsConsumption
<1> QED
  BY <1>1, RolesAlways, PTL

\* A share holds no stock of its own, but for what passed it by between the check of
\* link_shared_stock and its commit, what was counted by hand, and pools that were made
\* shares (cli/link_shared_stock.py:53-149).
THEOREM SharesStayEmpty == Roles!Spec => []SharesHoldNothing
<1>1. RoleInv => SharesHoldNothing
  BY DEF RoleInv
<1> QED
  BY <1>1, RolesAlways, PTL

\* Nothing uses an archived master that was not taken into use after archive_blockers
\* found it free (services/sku_scope.py:128-206).
THEOREM ArchivingIsSafe == Roles!Spec => []ArchivedWasFree
<1>1. RoleInv => ArchivedWasFree
  BY DEF RoleInv, FoundFree, ArchivedWasFree
<1> QED
  BY <1>1, RolesAlways, PTL

-----------------------------------------------------------------------------
(***************************************************************************)
(* What is sold and what is mapped (MappingGap), for any lines, channels   *)
(* and old codes, and all that MappingRound does.                          *)
(***************************************************************************)
CONSTANTS Unmanaged, Parent, MaxRounds, MaxChanges
VARIABLES sheet, checked, rounds, changes

Round == INSTANCE MappingRound

-----------------------------------------------------------------------------
(* The invariant *)

\* A line that has arrived has its key, or is one of those stored without.
KeysInPlace ==
    /\ DOMAIN keyOf = Line /\ DOMAIN masterOf = Line
    /\ \A l \in Line :
        keyOf[l] = None \/ keyOf[l] = KeyNow(l) \/ (keyOf[l] = Blank /\ SkuOf[l] = Blank)

\* A key that stands for a variant is nowhere but in the channel that sells it.
InItsChannel(p) ==
    /\ p[2] # None
    /\ \A l \in Line : SkuOf[l] = Blank /\ VariantSold[l] # Blank /\ p[2] = VariantSold[l] =>
          p[1] = ChannelOf[l]

PairsInPlace ==
    /\ \A p \in DOMAIN mapping : InItsChannel(p)
    /\ \A p \in DOMAIN alerts : InItsChannel(p)
    /\ sheet # None => \A p \in DOMAIN sheet : InItsChannel(p)
    /\ checked # None => \A p \in DOMAIN checked : InItsChannel(p)

\* Only blank keys are dismissed; who was sold under an SKU waits on an open alert.
LinesAwait ==
    /\ \A p \in DOMAIN alerts : p[2] # Blank => alerts[p] \in {"open", "resolved"}
    /\ \A l \in Unresolved : SkuOf[l] # Blank =>
          PairOf(l) \in DOMAIN alerts /\ alerts[PairOf(l)] = "open"

\* A master that the client may name for a key.
IsName(m, p) ==
    \A l \in Line : KeyNow(l) # Blank /\ p = <<ChannelOf[l], KeyNow(l)>> =>
        m \in NamesOf({TrueMaster[l]})

RowsInPlace ==
    /\ \A p \in DOMAIN mapping :
        /\ DOMAIN mapping[p] = {"master", "active"}
        /\ IsName(mapping[p].master, p) /\ mapping[p].master # None
    /\ \A p \in confirmed : p \in DOMAIN mapping /\ p[2] # Blank

\* What has passed the check is sound still, or was retired unseen.
CheckedInPlace ==
    checked # None => \A p \in DOMAIN checked :
        /\ IsName(checked[p], p) /\ checked[p] # None
        /\ checked[p] \notin retired \ unseen

RoundInv ==
    /\ KeysInPlace
    /\ PairsInPlace
    /\ LinesAwait
    /\ RowsInPlace
    /\ CheckedInPlace
    /\ RowsAreTrusted

-----------------------------------------------------------------------------
(* Keys and products *)

\* The definitions of the module and of its instance are the same.
LEMMA RoundAgrees ==
    /\ \A l : Round!KeyNow(l) = KeyNow(l) /\ Round!PairOf(l) = PairOf(l) /\ Round!Hidden(l) = Hidden(l)
    /\ \A p : (Round!Active(p) <=> Active(p)) /\ Round!ProductsUnder(p) = ProductsUnder(p)
    /\ \A P : Round!NamesOf(P) = NamesOf(P)
    /\ Round!Unresolved = Unresolved /\ Round!Asked = Asked
    /\ Round!RowsAreRight <=> RowsAreRight
  BY DEF Round!KeyNow, KeyNow, Round!PairOf, PairOf, Round!Hidden, Hidden, Round!Active, Active,
         Round!ProductsUnder, ProductsUnder, Round!NamesOf, NamesOf, Round!Unresolved, Unresolved,
         Round!Asked, Asked, Round!RowsAreRight, RowsAreRight

\* A key other than the blank one is one product of its channel.
LEMMA OneProduct ==
    ASSUME NEW k \in Line, NEW l \in Line, KeyNow(l) # Blank, KeyNow(k) = KeyNow(l),
           ChannelOf[k] = ChannelOf[l]
    PROVE  TrueMaster[k] = TrueMaster[l]
  BY KeyAssumption DEF KeyNow

\* So every product under it is a name of it.
LEMMA ProductIsName ==
    ASSUME KeysInPlace, NEW p, p[2] # Blank, p[2] # None, NEW m \in ProductsUnder(p)
    PROVE  IsName(m, p) /\ m \in MasterSku /\ m # None
<1>1. PICK k \in Line : ChannelOf[k] = p[1] /\ p[2] \in {KeyNow(k), keyOf[k]} /\ m = TrueMaster[k]
  BY DEF ProductsUnder
<1>2. p[2] = KeyNow(k)
  BY <1>1 DEF KeysInPlace
<1>3. ASSUME NEW l \in Line, p = <<ChannelOf[l], KeyNow(l)>>
      PROVE  TrueMaster[k] = TrueMaster[l]
  BY <1>1, <1>2, <1>3, OneProduct
<1> QED
  BY <1>1, <1>3, ProductAssumption DEF IsName, NamesOf

\* And so is every master that a person who knows the product names.
LEMMA AnswerIsName ==
    ASSUME KeysInPlace, NEW p, p[2] # None, NEW m \in NamesOf(ProductsUnder(p))
    PROVE  IsName(m, p)
<1>1. SUFFICES ASSUME NEW l \in Line, KeyNow(l) # Blank, p = <<ChannelOf[l], KeyNow(l)>>
               PROVE  m \in NamesOf({TrueMaster[l]})
  BY DEF IsName
<1>2. ASSUME NEW n \in ProductsUnder(p) PROVE n = TrueMaster[l]
  <2>1. PICK k \in Line : ChannelOf[k] = p[1] /\ p[2] \in {KeyNow(k), keyOf[k]} /\ n = TrueMaster[k]
    BY <1>2 DEF ProductsUnder
  <2>2. p[2] = KeyNow(k)
    BY <1>1, <2>1 DEF KeysInPlace
  <2> QED
    BY <1>1, <2>1, <2>2, OneProduct
<1> QED
  BY <1>2 DEF NamesOf

\* What the lines of a key are does not change when lines arrive or get their key.
LEMMA ProductsStay ==
    ASSUME KeysInPlace, KeysInPlace', NEW p, p[2] # Blank, p[2] # None
    PROVE  ProductsUnder(p)' = ProductsUnder(p)
<1>1. \A l \in Line : p[2] \in {KeyNow(l), keyOf[l]} <=> p[2] = KeyNow(l)
  BY DEF KeysInPlace
<1>2. \A l \in Line : p[2] \in {KeyNow(l), keyOf'[l]} <=> p[2] = KeyNow(l)
  BY DEF KeysInPlace, KeyNow
<1> QED
  BY <1>1, <1>2 DEF ProductsUnder, KeyNow

\* The key of a line is in its channel.
LEMMA LineInItsChannel ==
    ASSUME KeysInPlace, NEW l \in Line
    PROVE  /\ InItsChannel(<<ChannelOf[l], KeyNow(l)>>)
           /\ keyOf[l] # None => InItsChannel(PairOf(l))
<1>1. KeyNow(l) # None
  BY KeyAssumption DEF KeyNow
<1>2. ASSUME NEW k \in Line, SkuOf[k] = Blank, VariantSold[k] # Blank, KeyNow(l) = VariantSold[k]
      PROVE  ChannelOf[l] = ChannelOf[k]
  BY <1>2, KeyAssumption DEF KeyNow
<1>3. ASSUME keyOf[l] # None
      PROVE  keyOf[l] = KeyNow(l) \/ keyOf[l] = Blank
  BY <1>3 DEF KeysInPlace
<1> QED
  BY <1>1, <1>2, <1>3 DEF InItsChannel, PairOf

-----------------------------------------------------------------------------
(* The actions *)

LEMMA RoundInit ==
    ASSUME Round!Init
    PROVE  RoundInv
<1> USE DEF Round!Init
<1>1. KeysInPlace
  BY KeyAssumption DEF KeysInPlace, KeyNow
<1>2. ASSUME NEW l \in Line
      PROVE  InItsChannel(<<ChannelOf[l], SkuOf[l]>>)
  BY KeyAssumption DEF InItsChannel
<1> DEFINE Right ==
        \A p \in DOMAIN mapping :
            /\ InItsChannel(p) /\ IsName(mapping[p].master, p) /\ mapping[p].master # None
            /\ DOMAIN mapping[p] = {"master", "active"}
<1>3. Right
  <2>1. CASE mapping = <<>>
    BY <2>1
  <2>2. ASSUME NEW l \in Line, NEW c \in Channel, NEW m \in NamesOf({TrueMaster[l]}),
               KeyNow(l) # Blank, SkuOf[l] = Blank => c = ChannelOf[l],
               mapping = [p \in {<<c, KeyNow(l)>>} |-> Round!Row(m)], RowsAreRight
        PROVE  Right
    <3> DEFINE q == <<c, KeyNow(l)>>
    <3>1. /\ DOMAIN mapping = {q} /\ mapping[q].master = m
          /\ DOMAIN mapping[q] = {"master", "active"}
      BY <2>2 DEF Round!Row
    <3>2. InItsChannel(q)
      BY <2>2, KeyAssumption DEF InItsChannel, KeyNow
    <3>3. IsName(m, q)
      BY <2>2, <3>1 DEF IsName, RowsAreRight
    <3>4. m # None
      <4>1. TrueMaster[l] # None
        BY ProductAssumption
      <4> QED
        BY <4>1 DEF NamesOf
    <3> QED
      BY <3>1, <3>2, <3>3, <3>4
  <2> QED
    BY <2>1, <2>2, RoundAgrees
<1>4. PairsInPlace
  BY <1>2, <1>3, KeyAssumption DEF PairsInPlace
<1>5. LinesAwait
  BY KeyAssumption DEF LinesAwait, Unresolved, PairOf
<1>6. RowsInPlace /\ CheckedInPlace /\ RowsAreTrusted
  BY <1>3 DEF RowsInPlace, CheckedInPlace, RowsAreTrusted
<1> QED
  BY <1>1, <1>4, <1>5, <1>6 DEF RoundInv

\* An order arrives: its key is in its channel, and without a row there is an open alert.
LEMMA ArriveKeeps ==
    ASSUME RoundInv, NEW l \in Line, Round!Arrive(l)
    PROVE  RoundInv'
<1> DEFINE q == <<ChannelOf[l], KeyNow(l)>>
<1>1. /\ keyOf[l] = None
      /\ keyOf' = [keyOf EXCEPT ![l] = KeyNow(l)]
      /\ UNCHANGED <<mapping, retired, sheet, checked, confirmed, unseen>>
  BY RoundAgrees DEF Round!Arrive
<1>2. \/ /\ Active(q) /\ alerts' = alerts
         /\ masterOf' = [masterOf EXCEPT ![l] = mapping[q].master]
      \/ /\ masterOf' = masterOf /\ alerts' = alerts
         /\ q \in DOMAIN alerts /\ alerts[q] # "resolved"
      \/ /\ masterOf' = masterOf
         /\ alerts' = [p \in DOMAIN alerts \cup {q} |-> IF p = q THEN "open" ELSE alerts[p]]
  BY RoundAgrees DEF Round!Arrive, Round!With
<1>3. KeysInPlace'
  BY <1>1, <1>2, KeyAssumption DEF RoundInv, KeysInPlace, KeyNow
<1>4. InItsChannel(q)
  BY LineInItsChannel DEF RoundInv
<1>5. PairsInPlace'
  BY <1>1, <1>2, <1>4 DEF RoundInv, PairsInPlace, InItsChannel
<1>6. LinesAwait'
  <2>1. \A p \in DOMAIN alerts' : p[2] # Blank => alerts'[p] \in {"open", "resolved"}
    BY <1>2 DEF RoundInv, LinesAwait
  <2>2. ASSUME NEW k \in Line, k # l, k \in Unresolved', SkuOf[k] # Blank
        PROVE  PairOf(k)' \in DOMAIN alerts' /\ alerts'[PairOf(k)'] = "open"
    <3>1. k \in Unresolved /\ PairOf(k)' = PairOf(k)
      BY <1>1, <1>2, <2>2 DEF Unresolved, PairOf, RoundInv, KeysInPlace
    <3> QED
      BY <1>2, <2>2, <3>1 DEF RoundInv, LinesAwait
  <2>3. ASSUME l \in Unresolved', SkuOf[l] # Blank
        PROVE  PairOf(l)' \in DOMAIN alerts' /\ alerts'[PairOf(l)'] = "open"
    <3>1. PairOf(l)' = q /\ q[2] # Blank
      BY <1>1, <2>3, KeyAssumption DEF PairOf, RoundInv, KeysInPlace, KeyNow
    <3>2. CASE Active(q) /\ masterOf' = [masterOf EXCEPT ![l] = mapping[q].master]
      BY <2>3, <3>2 DEF Unresolved, Active, RoundInv, RowsInPlace, KeysInPlace
    <3>3. CASE alerts' = alerts /\ q \in DOMAIN alerts /\ alerts[q] # "resolved"
      BY <3>1, <3>3 DEF RoundInv, LinesAwait
    <3> QED
      BY <1>2, <3>1, <3>2, <3>3
  <2>4. Unresolved' \subseteq Line
    BY DEF Unresolved
  <2>5. \A k \in Unresolved' : SkuOf[k] # Blank =>
            PairOf(k)' \in DOMAIN alerts' /\ alerts'[PairOf(k)'] = "open"
    BY <2>2, <2>3, <2>4
  <2> QED
    BY <2>1, <2>5 DEF LinesAwait
<1>7. RowsInPlace' /\ CheckedInPlace'
  BY <1>1 DEF RoundInv, RowsInPlace, CheckedInPlace, IsName, NamesOf, KeyNow
<1>8. RowsAreTrusted'
  <2>1. ASSUME NEW p \in DOMAIN mapping, p \in confirmed
        PROVE  mapping[p].master \in ProductsUnder(p)'
    <3>1. p[2] # Blank /\ p[2] # None /\ mapping[p].master \in ProductsUnder(p)
      BY <2>1 DEF RoundInv, RowsInPlace, PairsInPlace, InItsChannel, RowsAreTrusted
    <3> QED
      BY <1>3, <3>1, ProductsStay DEF RoundInv
  <2>2. ASSUME NEW k \in Line, masterOf'[k] # None, keyOf'[k] # Blank
        PROVE  masterOf'[k] \in NamesOf({TrueMaster[k]})
    <3>1. CASE masterOf'[k] = masterOf[k] /\ keyOf'[k] = keyOf[k]
      BY <2>2, <3>1 DEF RoundInv, RowsAreTrusted
    <3>2. CASE k = l /\ Active(q) /\ masterOf'[k] = mapping[q].master
      BY <1>1, <2>2, <3>2 DEF Active, RoundInv, RowsInPlace, IsName, KeysInPlace
    <3>3. CASE k = l /\ masterOf'[k] = masterOf[k]
      BY <1>1, <2>2, <3>3, KeyAssumption DEF RoundInv, RowsAreTrusted, KeysInPlace
    <3> QED
      BY <1>1, <1>2, <3>1, <3>2, <3>3 DEF RoundInv, KeysInPlace
  <2> QED
    BY <1>1, <2>1, <2>2 DEF RoundInv, RowsAreTrusted, NamesOf
<1> QED
  BY <1>3, <1>5, <1>6, <1>7, <1>8 DEF RoundInv

\* A row for a key, by an operator, who knows its product; any other row of it is written over.
LEMMA RowKeeps ==
    ASSUME RoundInv, NEW q, InItsChannel(q), q[2] # Blank, NEW m \in ProductsUnder(q),
           mapping' = [p \in DOMAIN mapping \cup {q} |-> IF p = q THEN Round!Row(m) ELSE mapping[p]],
           confirmed' = confirmed \cup {q},
           UNCHANGED <<keyOf, retired, sheet, checked, unseen>>,
           KeysInPlace', LinesAwait', \A p \in DOMAIN alerts' : p \in DOMAIN alerts,
           \A l \in Line : masterOf'[l] = masterOf[l] \/ (PairOf(l) = q /\ masterOf'[l] = m)
    PROVE  RoundInv'
<1>1. IsName(m, q) /\ m # None
  BY ProductIsName DEF RoundInv, InItsChannel
<1>2. /\ DOMAIN mapping' = DOMAIN mapping \cup {q}
      /\ mapping'[q].master = m /\ DOMAIN mapping'[q] = {"master", "active"}
      /\ \A p \in DOMAIN mapping : p # q => mapping'[p] = mapping[p]
  BY DEF Round!Row
<1>3. PairsInPlace'
  BY <1>2 DEF RoundInv, PairsInPlace, InItsChannel
<1>4. RowsInPlace'
  BY <1>1, <1>2 DEF RoundInv, RowsInPlace, IsName, NamesOf, KeyNow
<1>5. CheckedInPlace'
  BY DEF RoundInv, CheckedInPlace, IsName, NamesOf, KeyNow
<1>6. RowsAreTrusted'
  <2>1. \A p : ProductsUnder(p)' = ProductsUnder(p)
    BY DEF ProductsUnder, KeyNow
  <2>2. \A p \in DOMAIN mapping' : p \in confirmed' => mapping'[p].master \in ProductsUnder(p)'
    BY <1>2, <2>1 DEF RoundInv, RowsAreTrusted, RowsInPlace
  <2>3. \A p \in DOMAIN mapping' :
            p \notin confirmed' /\ mapping'[p].active => mapping'[p].master \notin retired' \ unseen'
    BY <1>2 DEF RoundInv, RowsAreTrusted
  <2>4. ASSUME NEW l \in Line, masterOf'[l] # None, keyOf[l] # Blank
        PROVE  masterOf'[l] \in NamesOf({TrueMaster[l]})
    <3>1. CASE masterOf'[l] = masterOf[l]
      BY <2>4, <3>1 DEF RoundInv, RowsAreTrusted
    <3>2. CASE PairOf(l) = q /\ masterOf'[l] = m
      <4>1. q = <<ChannelOf[l], KeyNow(l)>> /\ KeyNow(l) # Blank
        BY <2>4, <3>2 DEF PairOf, RoundInv, KeysInPlace, InItsChannel
      <4> QED
        BY <1>1, <3>2, <4>1 DEF IsName
    <3> QED
      BY <2>4, <3>1, <3>2
  <2> QED
    BY <2>2, <2>3, <2>4 DEF RowsAreTrusted, NamesOf
<1> QED
  BY <1>3, <1>4, <1>5, <1>6 DEF RoundInv

LEMMA ResolveKeeps ==
    ASSUME RoundInv, NEW q \in DOMAIN alerts, NEW m \in ProductsUnder(q), Round!ResolveAlert(q, m)
    PROVE  RoundInv'
<1>1. /\ q[2] # Blank
      /\ mapping' = [p \in DOMAIN mapping \cup {q} |-> IF p = q THEN Round!Row(m) ELSE mapping[p]]
      /\ confirmed' = confirmed \cup {q}
      /\ UNCHANGED <<keyOf, retired, sheet, checked, unseen>>
  BY DEF Round!ResolveAlert, Round!With
<1>2. masterOf' = [l \in Line |-> IF l \in Unresolved /\ PairOf(l) = q THEN m ELSE masterOf[l]]
  BY RoundAgrees DEF Round!ResolveAlert
<1>3. /\ DOMAIN alerts' = DOMAIN alerts
      /\ \A p \in DOMAIN alerts : p # q => alerts'[p] = alerts[p]
      /\ alerts'[q] \in {alerts[q], "resolved"}
  BY DEF Round!ResolveAlert, Round!With
<1>4. InItsChannel(q)
  BY DEF RoundInv, PairsInPlace
<1>5. m # None
  BY <1>1, <1>4, ProductIsName DEF RoundInv, InItsChannel
<1>6. KeysInPlace'
  BY <1>1, <1>2 DEF RoundInv, KeysInPlace, KeyNow
<1>7. LinesAwait'
  <2>1. \A p \in DOMAIN alerts' : p[2] # Blank => alerts'[p] \in {"open", "resolved"}
    BY <1>3 DEF RoundInv, LinesAwait
  <2>2. \A l \in Unresolved' : l \in Unresolved /\ PairOf(l) # q /\ PairOf(l)' = PairOf(l)
    BY <1>1, <1>2, <1>5 DEF Unresolved, PairOf
  <2>3. \A l \in Unresolved' : SkuOf[l] # Blank =>
            PairOf(l)' \in DOMAIN alerts' /\ alerts'[PairOf(l)'] = "open"
    BY <1>3, <2>2 DEF RoundInv, LinesAwait
  <2> QED
    BY <2>1, <2>3 DEF LinesAwait
<1>8. \A l \in Line : masterOf'[l] = masterOf[l] \/ (PairOf(l) = q /\ masterOf'[l] = m)
  BY <1>2
<1> QED
  BY <1>1, <1>3, <1>4, <1>6, <1>7, <1>8, RowKeeps

LEMMA AddKeeps ==
    ASSUME RoundInv, NEW l \in Line, keyOf[l] \notin {None, Blank},
           Round!AddRow(Round!PairOf(l), TrueMaster[l])
    PROVE  RoundInv'
<1> DEFINE q == PairOf(l)
           m == TrueMaster[l]
<1>1. /\ mapping' = [p \in DOMAIN mapping \cup {q} |-> IF p = q THEN Round!Row(m) ELSE mapping[p]]
      /\ confirmed' = confirmed \cup {q}
      /\ UNCHANGED <<keyOf, masterOf, alerts, retired, sheet, checked, unseen>>
  BY RoundAgrees DEF Round!AddRow, Round!With
<1>2. InItsChannel(q) /\ q[2] # Blank
  BY LineInItsChannel DEF RoundInv, PairOf
<1>3. m \in ProductsUnder(q)
  BY DEF ProductsUnder, PairOf
<1>4. KeysInPlace'
  BY <1>1 DEF RoundInv, KeysInPlace, KeyNow
<1>5. LinesAwait'
  BY <1>1 DEF RoundInv, LinesAwait, Unresolved, PairOf
<1> HIDE DEF q, m
<1> QED
  BY <1>1, <1>2, <1>3, <1>4, <1>5, RowKeeps

\* Rows that go, or stay as they were and are perhaps no longer active.
FewerRows ==
    /\ DOMAIN mapping' \subseteq DOMAIN mapping
    /\ \A p \in DOMAIN mapping' :
        /\ mapping'[p].master = mapping[p].master
        /\ mapping'[p].active => mapping[p].active
        /\ DOMAIN mapping'[p] = DOMAIN mapping[p]

LEMMA FewerRowsKeep ==
    ASSUME RoundInv, UNCHANGED <<keyOf, masterOf, alerts, retired, sheet, checked, unseen>>,
           FewerRows,
           confirmed' = confirmed \cap DOMAIN mapping'
    PROVE  RoundInv'
<1> USE DEF FewerRows
<1>1. KeysInPlace' /\ LinesAwait'
  BY DEF RoundInv, KeysInPlace, KeyNow, LinesAwait, Unresolved, PairOf
<1>2. PairsInPlace'
  BY DEF RoundInv, PairsInPlace, InItsChannel
<1>3. RowsInPlace' /\ CheckedInPlace'
  BY DEF RoundInv, RowsInPlace, CheckedInPlace, IsName, NamesOf, KeyNow
<1>4. \A p : ProductsUnder(p)' = ProductsUnder(p)
  BY DEF ProductsUnder, KeyNow
<1>5. RowsAreTrusted'
  BY <1>4 DEF RoundInv, RowsAreTrusted, NamesOf
<1> QED
  BY <1>1, <1>2, <1>3, <1>5 DEF RoundInv

LEMMA DeleteKeeps ==
    ASSUME RoundInv, NEW q \in DOMAIN mapping, Round!DeleteRow(q)
    PROVE  RoundInv'
<1>1. /\ mapping' = [p \in DOMAIN mapping \ {q} |-> mapping[p]]
      /\ confirmed' = confirmed \ {q}
      /\ UNCHANGED <<keyOf, masterOf, alerts, retired, sheet, checked, unseen>>
  BY DEF Round!DeleteRow, Round!Without
<1>2. confirmed' = confirmed \cap DOMAIN mapping'
  BY <1>1 DEF RoundInv, RowsInPlace
<1>3. FewerRows
  BY <1>1 DEF FewerRows
<1> QED
  BY <1>1, <1>2, <1>3, FewerRowsKeep

LEMMA DeactivateKeeps ==
    ASSUME RoundInv, Round!DeactivateLegacy
    PROVE  RoundInv'
<1>1. /\ DOMAIN mapping' = DOMAIN mapping
      /\ UNCHANGED <<keyOf, masterOf, alerts, retired, sheet, checked, unseen, confirmed>>
  BY DEF Round!DeactivateLegacy
<1>2. \A p \in DOMAIN mapping :
          mapping'[p] = mapping[p] \/ mapping'[p] = [mapping[p] EXCEPT !.active = FALSE]
  BY DEF Round!DeactivateLegacy
<1>3. confirmed' = confirmed \cap DOMAIN mapping'
  BY <1>1 DEF RoundInv, RowsInPlace
<1>4. FewerRows
  BY <1>1, <1>2 DEF RoundInv, RowsInPlace, FewerRows
<1> QED
  BY <1>1, <1>3, <1>4, FewerRowsKeep

\* Who is archived has no active row; if an answer names it, that is remembered.
LEMMA ArchiveKeeps ==
    ASSUME RoundInv, NEW m, Round!Archive(m)
    PROVE  RoundInv'
<1>1. /\ \A p \in DOMAIN mapping : mapping[p].master = m => ~mapping[p].active
      /\ retired' = retired \cup {m}
      /\ UNCHANGED <<keyOf, masterOf, mapping, alerts, sheet, checked, confirmed>>
  BY DEF Round!Archive
<1>2. /\ unseen \subseteq unseen'
      /\ checked # None => \A p \in DOMAIN checked : checked[p] = m => m \in unseen'
  BY DEF Round!Archive
<1>3. KeysInPlace' /\ LinesAwait'
  BY <1>1 DEF RoundInv, KeysInPlace, KeyNow, LinesAwait, Unresolved, PairOf
<1>4. PairsInPlace' /\ RowsInPlace'
  BY <1>1 DEF RoundInv, PairsInPlace, InItsChannel, RowsInPlace, IsName, NamesOf, KeyNow
<1>5. CheckedInPlace'
  BY <1>1, <1>2 DEF RoundInv, CheckedInPlace, IsName, NamesOf, KeyNow
<1>6. \A p : ProductsUnder(p)' = ProductsUnder(p)
  BY <1>1 DEF ProductsUnder, KeyNow
<1>7. RowsAreTrusted'
  BY <1>1, <1>2, <1>6 DEF RoundInv, RowsAreTrusted, NamesOf
<1> QED
  BY <1>3, <1>4, <1>5, <1>7 DEF RoundInv

LEMMA ReresolveKeeps ==
    ASSUME RoundInv, Round!Reresolve
    PROVE  RoundInv'
<1> DEFINE found == {l \in Unresolved : keyOf[l] # Blank /\ Active(PairOf(l))}
<1>1. /\ masterOf' = [l \in Line |-> IF l \in found THEN mapping[PairOf(l)].master ELSE masterOf[l]]
      /\ UNCHANGED <<keyOf, mapping, alerts, retired, sheet, checked, confirmed, unseen>>
  BY RoundAgrees DEF Round!Reresolve
<1>2. ASSUME NEW l \in found
      PROVE  /\ masterOf'[l] # None
             /\ masterOf'[l] \in NamesOf({TrueMaster[l]})
  <2>1. l \in Line /\ keyOf[l] # None /\ keyOf[l] # Blank /\ Active(PairOf(l))
    BY DEF Unresolved
  <2>2. PairOf(l) = <<ChannelOf[l], KeyNow(l)>> /\ KeyNow(l) # Blank
    BY <2>1 DEF PairOf, RoundInv, KeysInPlace
  <2>3. masterOf'[l] = mapping[PairOf(l)].master
    BY <1>1, <2>1
  <2> QED
    BY <2>1, <2>2, <2>3 DEF Active, RoundInv, RowsInPlace, IsName
<1> HIDE DEF found
<1>3. KeysInPlace'
  BY <1>1 DEF RoundInv, KeysInPlace, KeyNow
<1>4. LinesAwait'
  <2>1. \A l \in Unresolved' : l \in Unresolved
    BY <1>1, <1>2 DEF Unresolved
  <2> QED
    BY <1>1, <2>1 DEF RoundInv, LinesAwait, PairOf
<1>5. PairsInPlace' /\ RowsInPlace'
  BY <1>1 DEF RoundInv, PairsInPlace, InItsChannel, RowsInPlace, IsName, NamesOf, KeyNow
<1>6. CheckedInPlace'
  BY <1>1 DEF RoundInv, CheckedInPlace, IsName, NamesOf, KeyNow
<1>7. \A p : ProductsUnder(p)' = ProductsUnder(p)
  BY <1>1 DEF ProductsUnder, KeyNow
<1>8. RowsAreTrusted'
  BY <1>1, <1>2, <1>7 DEF RoundInv, RowsAreTrusted, NamesOf
<1> QED
  BY <1>3, <1>4, <1>5, <1>6, <1>8 DEF RoundInv

\* The lines that get a key had none; only alerts on blank keys are dismissed.
LEMMA RekeyKeeps ==
    ASSUME RoundInv, Round!Rekey
    PROVE  RoundInv'
<1> DEFINE found == {l \in Unresolved : keyOf[l] = Blank /\ VariantSold[l] # Blank}
<1>1. /\ keyOf' = [l \in Line |-> IF l \in found THEN VariantSold[l] ELSE keyOf[l]]
      /\ DOMAIN alerts' = DOMAIN alerts
      /\ \A p \in DOMAIN alerts : p[2] # Blank => alerts'[p] = alerts[p]
      /\ UNCHANGED <<masterOf, mapping, retired, sheet, checked, confirmed, unseen>>
  BY RoundAgrees DEF Round!Rekey
<1>2. ASSUME NEW l \in found
      PROVE  /\ l \in Line /\ keyOf[l] = Blank /\ masterOf[l] = None
             /\ SkuOf[l] = Blank /\ keyOf'[l] = KeyNow(l)
             /\ keyOf'[l] # None /\ keyOf'[l] # Blank
  <2>1. l \in Line /\ keyOf[l] = Blank /\ masterOf[l] = None /\ VariantSold[l] # Blank
    BY DEF Unresolved
  <2>2. SkuOf[l] = Blank
    BY <2>1, KeyAssumption DEF RoundInv, KeysInPlace, KeyNow
  <2>3. keyOf'[l] = VariantSold[l]
    BY <1>1, <2>1
  <2> QED
    BY <2>1, <2>2, <2>3, KeyAssumption DEF KeyNow
<1>3. \A l \in Line : l \notin found => keyOf'[l] = keyOf[l]
  BY <1>1
<1>4. DOMAIN keyOf' = Line
  BY <1>1
<1> HIDE DEF found
<1>5. KeysInPlace'
  BY <1>1, <1>2, <1>3, <1>4 DEF RoundInv, KeysInPlace, KeyNow
<1>6. LinesAwait'
  <2>1. \A l \in Unresolved' : SkuOf[l] # Blank =>
            l \in Unresolved /\ keyOf'[l] = keyOf[l] /\ keyOf[l] # Blank
    BY <1>1, <1>2, <1>3, KeyAssumption DEF Unresolved, RoundInv, KeysInPlace, KeyNow
  <2>2. \A l \in Unresolved' : SkuOf[l] # Blank =>
            PairOf(l)' \in DOMAIN alerts' /\ alerts'[PairOf(l)'] = "open"
    BY <1>1, <2>1 DEF RoundInv, LinesAwait, PairOf
  <2>3. \A p \in DOMAIN alerts' : p[2] # Blank => alerts'[p] \in {"open", "resolved"}
    BY <1>1 DEF RoundInv, LinesAwait
  <2> QED
    BY <2>2, <2>3 DEF LinesAwait
<1>7. PairsInPlace' /\ RowsInPlace'
  BY <1>1 DEF RoundInv, PairsInPlace, InItsChannel, RowsInPlace, IsName, NamesOf, KeyNow
<1>8. CheckedInPlace'
  BY <1>1 DEF RoundInv, CheckedInPlace, IsName, NamesOf, KeyNow
<1>9. RowsAreTrusted'
  <2>1. ASSUME NEW p \in DOMAIN mapping, p \in confirmed
        PROVE  mapping[p].master \in ProductsUnder(p)'
    <3>1. p[2] # Blank /\ p[2] # None /\ mapping[p].master \in ProductsUnder(p)
      BY <2>1 DEF RoundInv, RowsInPlace, PairsInPlace, InItsChannel, RowsAreTrusted
    <3> QED
      BY <1>5, <3>1, ProductsStay DEF RoundInv
  <2>2. \A l \in Line : masterOf'[l] # None /\ keyOf'[l] # Blank => masterOf'[l] \in NamesOf({TrueMaster[l]})
    BY <1>1, <1>2, <1>3 DEF RoundInv, RowsAreTrusted
  <2> QED
    BY <1>1, <2>1, <2>2 DEF RoundInv, RowsAreTrusted, NamesOf
<1> QED
  BY <1>5, <1>6, <1>7, <1>8, <1>9 DEF RoundInv

\* The worksheet asks about keys of lines, each in its channel.
LEMMA MakeSheetKeeps ==
    ASSUME RoundInv, Round!MakeSheet
    PROVE  RoundInv'
<1>1. /\ DOMAIN sheet' = {PairOf(l) : l \in Asked}
      /\ UNCHANGED <<keyOf, masterOf, mapping, alerts, retired, checked, confirmed, unseen>>
  BY RoundAgrees DEF Round!MakeSheet, Round!tables
<1>2. \A p \in DOMAIN sheet' : InItsChannel(p)
  BY <1>1, LineInItsChannel DEF Asked, Unresolved, RoundInv
<1>3. PairsInPlace'
  BY <1>1, <1>2 DEF RoundInv, PairsInPlace, InItsChannel
<1>4. KeysInPlace' /\ LinesAwait'
  BY <1>1 DEF RoundInv, KeysInPlace, KeyNow, LinesAwait, Unresolved, PairOf
<1>5. RowsInPlace' /\ CheckedInPlace'
  BY <1>1 DEF RoundInv, RowsInPlace, CheckedInPlace, IsName, NamesOf, KeyNow
<1>6. \A p : ProductsUnder(p)' = ProductsUnder(p)
  BY <1>1 DEF ProductsUnder, KeyNow
<1>7. RowsAreTrusted'
  BY <1>1, <1>6 DEF RoundInv, RowsAreTrusted, NamesOf
<1> QED
  BY <1>3, <1>4, <1>5, <1>7 DEF RoundInv

\* An answer that passes is a name of the key's product and not retired.
LEMMA ValidateKeeps ==
    ASSUME RoundInv, Round!Validate
    PROVE  RoundInv'
<1>1. UNCHANGED <<keyOf, masterOf, mapping, alerts, retired, sheet, confirmed, unseen>>
  BY DEF Round!Validate, Round!tables
<1>2. PICK given \in [DOMAIN sheet -> MasterSku \cup {"out of scope", Blank}] :
        /\ \A p \in DOMAIN sheet : given[p] \in NamesOf(ProductsUnder(p)) \cup {"out of scope", Blank}
        /\ checked' = [p \in {p \in DOMAIN sheet : ~Active(p) /\ Round!Sound(given[p])} |-> given[p]]
  BY RoundAgrees DEF Round!Validate, Round!Answers
<1>3. sheet # None
  BY DEF Round!Validate
<1>4. \A p \in DOMAIN checked' : p \in DOMAIN sheet /\ Round!Sound(given[p]) /\ checked'[p] = given[p]
  BY <1>2
<1>5. ASSUME NEW p \in DOMAIN checked'
      PROVE  /\ InItsChannel(p) /\ IsName(checked'[p], p)
             /\ checked'[p] # None /\ checked'[p] \notin retired
  <2>1. checked'[p] \in MasterSku /\ checked'[p] \notin retired
    BY <1>4 DEF Round!Sound
  <2>2. InItsChannel(p)
    BY <1>3, <1>4 DEF RoundInv, PairsInPlace
  <2>3. checked'[p] \in NamesOf(ProductsUnder(p))
    BY <1>2, <1>4, <2>1, ProductAssumption
  <2>4. IsName(checked'[p], p)
    BY <2>2, <2>3, AnswerIsName DEF InItsChannel, RoundInv
  <2> QED
    BY <2>1, <2>2, <2>4, ProductAssumption
<1>6. PairsInPlace'
  BY <1>1, <1>5 DEF RoundInv, PairsInPlace, InItsChannel
<1>7. KeysInPlace' /\ LinesAwait'
  BY <1>1 DEF RoundInv, KeysInPlace, KeyNow, LinesAwait, Unresolved, PairOf
<1>8. RowsInPlace' /\ CheckedInPlace'
  BY <1>1, <1>5 DEF RoundInv, RowsInPlace, CheckedInPlace, IsName, NamesOf, KeyNow
<1>9. \A p : ProductsUnder(p)' = ProductsUnder(p)
  BY <1>1 DEF ProductsUnder, KeyNow
<1>10. RowsAreTrusted'
  BY <1>1, <1>9 DEF RoundInv, RowsAreTrusted, NamesOf
<1> QED
  BY <1>6, <1>7, <1>8, <1>10 DEF RoundInv

\* A row that is there stays, confirmed or not; the new ones have passed the check.
LEMMA ImportKeeps ==
    ASSUME RoundInv, Round!Import
    PROVE  RoundInv'
<1>1. /\ checked # None /\ sheet' = None /\ checked' = None
      /\ UNCHANGED <<keyOf, masterOf, alerts, retired, confirmed, unseen>>
      /\ mapping' = [p \in DOMAIN mapping \cup DOMAIN checked |->
                        IF p \in DOMAIN mapping THEN mapping[p] ELSE Round!Row(checked[p])]
  BY DEF Round!Import, Round!Taken
<1>2. \A p \in DOMAIN mapping : p \in DOMAIN mapping' /\ mapping'[p] = mapping[p]
  BY <1>1
<1>3. \A p \in DOMAIN mapping' : p \notin DOMAIN mapping =>
        /\ p \in DOMAIN checked /\ mapping'[p].master = checked[p]
        /\ DOMAIN mapping'[p] = {"master", "active"}
  BY <1>1 DEF Round!Row
<1>4. KeysInPlace' /\ LinesAwait'
  BY <1>1 DEF RoundInv, KeysInPlace, KeyNow, LinesAwait, Unresolved, PairOf
<1>5. PairsInPlace'
  BY <1>1, <1>2, <1>3 DEF RoundInv, PairsInPlace, InItsChannel
<1>6. RowsInPlace'
  BY <1>1, <1>2, <1>3 DEF RoundInv, RowsInPlace, CheckedInPlace, IsName, NamesOf, KeyNow
<1>7. CheckedInPlace'
  BY <1>1 DEF CheckedInPlace
<1>8. \A p : ProductsUnder(p)' = ProductsUnder(p)
  BY <1>1 DEF ProductsUnder, KeyNow
<1>9. RowsAreTrusted'
  <2>1. \A p \in DOMAIN mapping' : p \in confirmed' => mapping'[p].master \in ProductsUnder(p)'
    BY <1>1, <1>2, <1>8 DEF RoundInv, RowsAreTrusted, RowsInPlace
  <2>2. \A p \in DOMAIN mapping' :
            p \notin confirmed' /\ mapping'[p].active => mapping'[p].master \notin retired' \ unseen'
    BY <1>1, <1>2, <1>3 DEF RoundInv, RowsAreTrusted, CheckedInPlace
  <2> QED
    BY <1>1, <2>1, <2>2 DEF RoundInv, RowsAreTrusted, NamesOf
<1> QED
  BY <1>4, <1>5, <1>6, <1>7, <1>9 DEF RoundInv

LEMMA RoundNext ==
    ASSUME RoundInv, [Round!Next]_(Round!vars)
    PROVE  RoundInv'
<1>1. CASE UNCHANGED Round!vars
  <2>1. UNCHANGED <<keyOf, masterOf, mapping, alerts, retired, sheet, checked, confirmed, unseen>>
    BY <1>1 DEF Round!vars, Round!tables
  <2>2. KeysInPlace' /\ LinesAwait'
    BY <2>1 DEF RoundInv, KeysInPlace, KeyNow, LinesAwait, Unresolved, PairOf
  <2>3. PairsInPlace' /\ RowsInPlace'
    BY <2>1 DEF RoundInv, PairsInPlace, InItsChannel, RowsInPlace, IsName, NamesOf, KeyNow
  <2>4. CheckedInPlace'
    BY <2>1 DEF RoundInv, CheckedInPlace, IsName, NamesOf, KeyNow
  <2>5. \A p : ProductsUnder(p)' = ProductsUnder(p)
    BY <2>1 DEF ProductsUnder, KeyNow
  <2>6. RowsAreTrusted'
    BY <2>1, <2>5 DEF RoundInv, RowsAreTrusted, NamesOf
  <2> QED
    BY <2>2, <2>3, <2>4, <2>6 DEF RoundInv
<1>2. ASSUME NEW l \in Line, Round!Arrive(l) PROVE RoundInv'
  BY <1>2, ArriveKeeps
<1>3. ASSUME NEW p \in DOMAIN alerts, NEW m \in Round!ProductsUnder(p), Round!ResolveAlert(p, m)
      PROVE  RoundInv'
  BY <1>3, ResolveKeeps, RoundAgrees
<1>4. ASSUME NEW l \in Line, keyOf[l] \notin {None, Blank},
             Round!AddRow(Round!PairOf(l), TrueMaster[l])
      PROVE  RoundInv'
  BY <1>4, AddKeeps
<1>5. ASSUME NEW p \in DOMAIN mapping, Round!DeleteRow(p) PROVE RoundInv'
  BY <1>5, DeleteKeeps
<1>6. ASSUME NEW m \in MasterSku, Round!Archive(m) PROVE RoundInv'
  BY <1>6, ArchiveKeeps
<1> QED
  BY <1>1, <1>2, <1>3, <1>4, <1>5, <1>6, DeactivateKeeps, ReresolveKeeps, RekeyKeeps, MakeSheetKeeps,
     ValidateKeeps, ImportKeeps DEF Round!Next

\* Who was sold under an SKU waits on an alert; a key of a variant is hidden by its own row only.
LEMMA RoundIsReachable ==
    ASSUME RoundInv
    PROVE  RoundIsSound
<1>1. ASSUME NEW l \in Unresolved, keyOf[l] # Blank, SkuOf[l] = Blank, Hidden(l)
      PROVE  Active(PairOf(l))
  <2>1. l \in Line /\ keyOf[l] = VariantSold[l]
    BY <1>1 DEF Unresolved, RoundInv, KeysInPlace, KeyNow
  <2>2. PICK c \in Channel : Active(<<c, keyOf[l]>>)
    BY <1>1 DEF Hidden
  <2>3. InItsChannel(<<c, keyOf[l]>>)
    BY <2>2 DEF Active, RoundInv, PairsInPlace
  <2>4. c = ChannelOf[l]
    BY <1>1, <2>1, <2>3 DEF InItsChannel
  <2> QED
    BY <2>2, <2>4 DEF PairOf
<1>2. LinesAreReachable
  BY <1>1 DEF RoundInv, LinesAwait, LinesAreReachable, Asked
<1> QED
  BY <1>2 DEF RoundInv, RoundIsSound

\* Whatever arrives, is mapped, unmapped or archived around a worksheet, no line is lost
\* to it, no decision undone and no line given to a product that it is not.
THEOREM RoundLosesNothing == Round!Spec => []RoundIsSound
<1>1. RoundInv => RoundIsSound
  BY RoundIsReachable
<1>2. Round!Init => RoundInv
  BY RoundInit
<1>3. RoundInv /\ [Round!Next]_(Round!vars) => RoundInv'
  BY RoundNext
<1> QED
  BY <1>1, <1>2, <1>3, PTL DEF Round!Spec

-----------------------------------------------------------------------------
(***************************************************************************)
(* Which master a Rakuten variant gets (VariantPlan), for any export, pair *)
(* table, decisions and codes, and all that RakutenVariants does.          *)
(*                                                                         *)
(* A plan is a function of what a run reads.  The invariant says what it   *)
(* would read and plan now: of the variants whose rows a run has written,  *)
(* the same master again, as long as the tool's masters stand apart.  The  *)
(* step to prove is Apply, by which the run changes what it reads.         *)
(***************************************************************************)
CONSTANTS Codes, Starts, CategoryOf, OldRows, MaxEdits

VARIABLE edits

Tool == INSTANCE RakutenVariants

-----------------------------------------------------------------------------
(* The invariant *)

\* What build_plan makes of the answers a.
ClaimedTwice(a, m) == Several({v \in Variants : ~IsExcluded(v) /\ a[v] = {m}})
SplitsBy(a, v) == UNION {Candidates(v, m) : m \in {n \in a[v] : ~Several(a[v]) /\ ClaimedTwice(a, n)}}
BlockedBy(a, v) ==
    \/ Several(a[v])
    \/ DuplicatedPages(v)
    \/ \E i \in v.skus : {Page(i), Key(i)} \cap Long # {}
AloneBy(a, v) == {m \in a[v] : ~ClaimedTwice(a, m)}
UnplacedBy(a) ==
    {v \in Variants : /\ ~IsExcluded(v) /\ ~IsSkipped(v) /\ ~BlockedBy(a, v)
                      /\ SplitsBy(a, v) = {} /\ \A m \in a[v] : ClaimedTwice(a, m)}
FirstOfBy(a, code) ==
    LET alike == {v \in UnplacedBy(a) : VariantCode(v) = code}
    IN  CHOOSE v \in alike : \A w \in alike : Rank(v) <= Rank(w)
MakesNewBy(a, v) == v \in UnplacedBy(a) /\ v = FirstOfBy(a, VariantCode(v))
OwnBy(a, v) ==
    {m \in {VariantCode(v)} : IF m \in Masters THEN m \in made ELSE MakesNewBy(a, v)}
TargetBy(a, v) ==
    IF IsExcluded(v) \/ BlockedBy(a, v) \/ Several(SplitsBy(a, v)) THEN {}
    ELSE IF SplitsBy(a, v) # {} THEN SplitsBy(a, v)
    ELSE IF AloneBy(a, v) # {} THEN AloneBy(a, v) ELSE OwnBy(a, v)

Apart(a) ==
    \A m \in made :
        /\ Codeish(m) \notin Numbers
        /\ \A d \in Masters : Codeish(d) = Codeish(m) => d = m
        /\ \A v \in Variants :
              m \in SplitsBy(a, v) => \A w \in Variants : VariantCode(w) = m <=> w = v

\* The answers that a run would find.
Answers == [v \in Variants |-> Assigned(v)]

TablesInPlace ==
    /\ table \in SUBSET PairLines
    /\ \A k \in DOMAIN legacy : legacy[k] \in Masters
    /\ \A i \in DOMAIN rows : rows[i] \in Masters
    /\ \A i \in DOMAIN proven : proven[i] \in Masters
    /\ \A d \in decisions : d.code \in Masters

RunInPlace ==
    /\ stage \in {"idle", "assigned", "planned"}
    /\ stage # "idle" => answer = Answers
    /\ stage = "planned" => target = [v \in Variants |-> TargetBy(Answers, v)]

RowsNameMasters == \A i \in DOMAIN wrote : wrote[i] \in Masters

RowsWouldReturn ==
    Apart(Answers) =>
        \A v \in Variants : \A i \in v.skus \cap DOMAIN wrote : TargetBy(Answers, v) = {wrote[i]}

ToolInv == TablesInPlace /\ RunInPlace /\ RowsNameMasters /\ RowsWouldReturn

-----------------------------------------------------------------------------
(* Variants *)

\* The definitions of the module and of its instance are the same.
LEMMA ToolAgrees ==
    /\ Tool!Masters = Masters /\ Tool!Variants = Variants /\ Tool!Skus = Skus
    /\ \A i : Tool!Page(i) = Page(i)
    /\ \A v : /\ Tool!Named(v) = Named(v) /\ Tool!Assigned(v) = Assigned(v)
              /\ Tool!Target(v) = Target(v)
    /\ Tool!Written = Written /\ \A v : Tool!TheTarget(v) = TheTarget(v)
    /\ \A i : Tool!VariantOf(i) = VariantOf(i)
    /\ \A S : Tool!Several(S) <=> Several(S)
<1>1. /\ Tool!Masters = Masters /\ Tool!Skus = Skus
      /\ \A i : Tool!Page(i) = Page(i) /\ Tool!Key(i) = Key(i)
      /\ \A c : Tool!Codeish(c) = Codeish(c)
      /\ \A S : Tool!Several(S) <=> Several(S)
  BY DEF Tool!Masters, Masters, Tool!Skus, Skus, Tool!Page, Page, Tool!Key, Key,
         Tool!Codeish, Codeish, Tool!Several, Several
<1>2. /\ \A v : Tool!VariantCode(v) = VariantCode(v) /\ Tool!Rank(v) = Rank(v)
      /\ \A v : Tool!Tokens(v) = Tokens(v)
  BY DEF Tool!VariantCode, VariantCode, Tool!Rank, Rank, Tool!Tokens, Tokens
<1>3. \A T : Tool!Folded(T) = Folded(T)
  BY DEF Tool!Folded, Folded, Tool!Group, Group, Tool!Skus, Skus, Tool!Page, Page
<1>4. Tool!Variants = Variants
  BY <1>3 DEF Tool!Variants, Variants, Tool!Foldings, Foldings
<1>5. Tool!Pages = Pages
  BY <1>1 DEF Tool!Pages, Pages
<1>6. \A v : Tool!LegacyLinks(v) = LegacyLinks(v) /\ Tool!ProvenLinks(v) = ProvenLinks(v)
  BY <1>1, <1>5 DEF Tool!LegacyLinks, LegacyLinks, Tool!ProvenLinks, ProvenLinks
<1>7. \A v : Tool!ByCode(v) = ByCode(v)
  BY DEF Tool!ByCode, ByCode, Tool!Min, Min, Tool!Spelt, Spelt, Tool!Spells, Spells,
         Tool!Masters, Masters, Tool!Key, Key, Tool!Codeish, Codeish, Tool!Several, Several
<1>8. \A v : Tool!Named(v) = Named(v)
  BY <1>6, <1>7 DEF Tool!Named, Named
<1>9. \A v : Tool!Decided(v) = Decided(v)
  BY <1>1 DEF Tool!Decided, Decided
<1>10. \A v : Tool!Assigned(v) = Assigned(v)
  BY <1>1, <1>8, <1>9 DEF Tool!Assigned, Assigned
<1>11. \A v : /\ Tool!IsExcluded(v) <=> IsExcluded(v)
              /\ Tool!Conflicting(v) <=> Conflicting(v)
              /\ Tool!DuplicatedPages(v) <=> DuplicatedPages(v)
              /\ Tool!IsSkipped(v) <=> IsSkipped(v)
  BY <1>1 DEF Tool!IsExcluded, IsExcluded, Tool!Conflicting, Conflicting, Tool!DuplicatedPages,
         DuplicatedPages, Tool!IsSkipped, IsSkipped
<1>12. \A v : Tool!Blocked(v) <=> Blocked(v)
  BY <1>1, <1>11 DEF Tool!Blocked, Blocked
<1>13. \A m : Tool!Shared(m) <=> Shared(m)
  BY <1>1, <1>4, <1>11 DEF Tool!Shared, Shared
<1>14. \A v, m : Tool!Candidates(v, m) = Candidates(v, m)
  BY <1>1, <1>2 DEF Tool!Candidates, Candidates
<1>15. \A v : Tool!Splits(v) = Splits(v)
  BY <1>11, <1>13, <1>14 DEF Tool!Splits, Splits
<1>16. \A v : Tool!Own(v) = Own(v)
  <2>1. Tool!Unplaced = Unplaced
    BY <1>4, <1>11, <1>12, <1>13, <1>15 DEF Tool!Unplaced, Unplaced
  <2>2. \A c : Tool!FirstOf(c) = FirstOf(c)
    BY <1>2, <2>1 DEF Tool!FirstOf, FirstOf
  <2>3. \A v : Tool!MakesNew(v) <=> MakesNew(v)
    BY <1>2, <2>1, <2>2 DEF Tool!MakesNew, MakesNew
  <2> QED
    BY <1>1, <1>2, <2>3 DEF Tool!Own, Own
<1>17. \A v : Tool!Target(v) = Target(v)
  BY <1>1, <1>11, <1>12, <1>13, <1>15, <1>16 DEF Tool!Target, Target
<1>18. Tool!Written = Written /\ \A v : Tool!TheTarget(v) = TheTarget(v)
  BY <1>4, <1>11 DEF Tool!Written, Written, Tool!TheTarget, TheTarget
<1>19. \A i : Tool!VariantOf(i) = VariantOf(i)
  BY <1>4 DEF Tool!VariantOf, VariantOf
<1> QED
  BY <1>1, <1>4, <1>8, <1>10, <1>17, <1>18, <1>19

\* Variants share no SKU.
LEMMA VariantsApart ==
    ASSUME table \in SUBSET PairLines
    PROVE  /\ \A v \in Variants : v.skus \subseteq Skus
           /\ \A v, w \in Variants : v.skus \cap w.skus # {} => v = w
<1> DEFINE group == [i \in Skus |-> Group(table, Page(i))]
           strips(g) == \A i, j \in {k \in Skus : group[k] = g} :
                            i # j /\ Page(i) = Page(j) => Export[i].strip # Export[j].strip
           identity == [i \in Skus |-> IF strips(group[i]) THEN Export[i].strip ELSE Export[i].kept]
           V(i) == [group |-> group[i], choices |-> identity[i],
                    skus |-> {j \in Skus : group[j] = group[i] /\ identity[j] = identity[i]}]
<1>1. Variants = Folded(table)
  <2>1. <<table, Folded(table)>> \in Foldings
    BY DEF Foldings
  <2>2. \A f \in Foldings : f[1] = table => f = <<table, Folded(table)>>
    BY DEF Foldings
  <2> DEFINE found == CHOOSE f \in Foldings : f[1] = table
  <2>3. found = <<table, Folded(table)>>
    BY <2>1, <2>2
  <2>4. found[2] = Folded(table)
    <3> HIDE DEF found
    <3> QED
      BY <2>3
  <2> QED
    BY <2>4 DEF Variants
<1>2. Folded(table) = {V(i) : i \in Skus}
  BY DEF Folded
<1>3. \A v \in Variants : \E i \in Skus : v = V(i)
  BY <1>1, <1>2
<1> HIDE DEF group, identity
<1>4. ASSUME NEW i \in Skus, NEW j \in Skus, V(i).skus \cap V(j).skus # {} PROVE V(i) = V(j)
  <2>1. group[i] = group[j] /\ identity[i] = identity[j]
    BY <1>4
  <2> QED
    BY <2>1
<1>5. \A i \in Skus : V(i).skus \subseteq Skus
  OBVIOUS
<1> HIDE DEF V
<1> QED
  BY <1>3, <1>4, <1>5

-----------------------------------------------------------------------------
(* Answers and plans *)

\* Whatever names a master names one that exists.
LEMMA AnswersExist ==
    ASSUME TablesInPlace, NEW v PROVE Named(v) \subseteq Masters /\ Assigned(v) \subseteq Masters
<1>1. LegacyLinks(v) \subseteq Masters
  BY DEF LegacyLinks, TablesInPlace
<1>2. ProvenLinks(v) \subseteq Masters
  BY DEF ProvenLinks, TablesInPlace
<1>3. \A c : Spells(c) \subseteq Masters
  BY DEF Spells
<1>4. \A i : Spelt(i) \subseteq Masters
  BY <1>3 DEF Spelt
<1>5. ByCode(v) \subseteq Masters
  BY <1>4 DEF ByCode
<1>6. Named(v) \subseteq Masters
  BY <1>1, <1>2, <1>5 DEF Named
<1>7. {d.code : d \in Decided(v)} \subseteq Masters
  BY DEF Decided
<1> QED
  BY <1>6, <1>7 DEF Assigned

\* The plan of a run is the one its answers make.
LEMMA PlanIsByAnswers ==
    /\ \A v : Splits(v) = SplitsBy(answer, v)
    /\ \A v : Target(v) = TargetBy(answer, v)
<1>1. \A m : Shared(m) <=> ClaimedTwice(answer, m)
  BY DEF Shared, ClaimedTwice
<1>2. \A v : Splits(v) = SplitsBy(answer, v)
  BY <1>1 DEF Splits, SplitsBy, Conflicting
<1>3. \A v : Blocked(v) <=> BlockedBy(answer, v)
  BY DEF Blocked, BlockedBy, Conflicting
<1>4. \A v : {m \in answer[v] : ~Shared(m)} = AloneBy(answer, v)
  BY <1>1 DEF AloneBy
<1>5. \A v : Own(v) = OwnBy(answer, v)
  <2>1. Unplaced = UnplacedBy(answer)
    BY <1>1, <1>2, <1>3 DEF Unplaced, UnplacedBy
  <2>2. \A c : FirstOf(c) = FirstOfBy(answer, c)
    BY <2>1 DEF FirstOf, FirstOfBy
  <2>3. \A v : MakesNew(v) <=> MakesNewBy(answer, v)
    BY <2>1, <2>2 DEF MakesNew, MakesNewBy
  <2> QED
    BY <2>3 DEF Own, OwnBy
<1>6. ASSUME NEW v PROVE Target(v) = TargetBy(answer, v)
  BY <1>2, <1>3, <1>4, <1>5 DEF Target, TargetBy
<1> QED
  BY <1>2, <1>6

\* A plan gives a variant one master or none: a candidate, the one it alone
\* claims, or its own.
LEMMA TargetIsOne ==
    ASSUME NEW a, NEW v, a[v] \subseteq Masters
    PROVE  \/ TargetBy(a, v) = {}
           \/ \E m \in Masters : TargetBy(a, v) = {m} /\ SplitsBy(a, v) = {m}
           \/ /\ \E m \in Masters : TargetBy(a, v) = {m} /\ a[v] = {m}
              /\ SplitsBy(a, v) = {} /\ ~IsExcluded(v) /\ AloneBy(a, v) # {}
           \/ /\ TargetBy(a, v) = OwnBy(a, v) /\ OwnBy(a, v) = {VariantCode(v)}
              /\ SplitsBy(a, v) = {} /\ AloneBy(a, v) = {} /\ ~IsExcluded(v) /\ ~BlockedBy(a, v)
<1>1. SplitsBy(a, v) \subseteq Masters
  BY DEF SplitsBy, Candidates
<1>2. \A S : S = {} \/ Several(S) \/ \E m \in S : S = {m}
  BY DEF Several
<1>3. OwnBy(a, v) = {} \/ OwnBy(a, v) = {VariantCode(v)}
  BY DEF OwnBy
<1>4. CASE IsExcluded(v) \/ BlockedBy(a, v) \/ Several(SplitsBy(a, v))
  BY <1>4 DEF TargetBy
<1>5. CASE /\ ~IsExcluded(v) /\ ~BlockedBy(a, v) /\ ~Several(SplitsBy(a, v))
           /\ SplitsBy(a, v) # {}
  BY <1>1, <1>2, <1>5 DEF TargetBy
<1>6. CASE /\ ~IsExcluded(v) /\ ~BlockedBy(a, v) /\ SplitsBy(a, v) = {}
           /\ ~Several(SplitsBy(a, v)) /\ AloneBy(a, v) # {}
  <2>1. ~Several(a[v]) /\ AloneBy(a, v) \subseteq a[v]
    BY <1>6 DEF BlockedBy, AloneBy
  <2>2. PICK m \in a[v] : a[v] = {m}
    BY <1>2, <1>6, <2>1
  <2>3. AloneBy(a, v) = {m}
    BY <1>6, <2>1, <2>2
  <2> QED
    BY <1>6, <2>2, <2>3 DEF TargetBy
<1>7. CASE /\ ~IsExcluded(v) /\ ~BlockedBy(a, v) /\ SplitsBy(a, v) = {}
           /\ ~Several(SplitsBy(a, v)) /\ AloneBy(a, v) = {}
  BY <1>3, <1>7 DEF TargetBy
<1> QED
  BY <1>4, <1>5, <1>6, <1>7

\* In a plan two variants share a master only if it was split off for one, or
\* belongs to one and answers for the other, or was made earlier under the code of
\* both: of those that have one code, a plan makes a master for the first alone.
LEMMA PlanShares ==
    ASSUME ToolInv PROVE VariantsShareNoMaster
<1> SUFFICES ASSUME stage = "planned",
                    NEW v \in Variants, NEW w \in Variants, v # w,
                    target[v] \cap target[w] # {},
                    Splits(v) \cup Splits(w) = {}
             PROVE  Usurps(v, w) \/ Usurps(w, v) \/ OneName(v, w)
  BY DEF VariantsShareNoMaster
<1>1. /\ answer = Answers /\ TablesInPlace
      /\ target[v] = TargetBy(answer, v) /\ target[w] = TargetBy(answer, w)
  BY DEF ToolInv, RunInPlace
<1>2. answer[v] \subseteq Masters /\ answer[w] \subseteq Masters
  BY <1>1, AnswersExist DEF Answers
<1>3. SplitsBy(answer, v) = {} /\ SplitsBy(answer, w) = {}
  BY PlanIsByAnswers
<1>4. PICK m : m \in target[v] /\ m \in target[w]
  OBVIOUS
<1> DEFINE Claims(x) == /\ target[x] = {m} /\ answer[x] = {m} /\ m \in Masters
                        /\ ~IsExcluded(x) /\ AloneBy(answer, x) # {}
           Owns(x) == m \in OwnBy(answer, x) /\ m = VariantCode(x)
<1>5. ASSUME NEW x \in {v, w} PROVE Claims(x) \/ Owns(x)
  <2>1. /\ answer[x] \subseteq Masters /\ SplitsBy(answer, x) = {}
        /\ target[x] = TargetBy(answer, x) /\ m \in target[x]
    BY <1>1, <1>2, <1>3, <1>4
  <2> QED
    BY <2>1, TargetIsOne
<1>6. Claims(v) /\ Claims(w) => FALSE
  <2> SUFFICES ASSUME Claims(v), Claims(w) PROVE FALSE
    OBVIOUS
  <2>1. ClaimedTwice(answer, m)
    BY DEF ClaimedTwice, Several
  <2> QED
    BY <2>1 DEF AloneBy
<1>7. Owns(v) /\ Owns(w) => OneName(v, w)
  <2> SUFFICES ASSUME Owns(v), Owns(w) PROVE OneName(v, w)
    OBVIOUS
  <2>1. CASE m \in Masters
    BY <2>1 DEF OwnBy, OneName
  <2>2. CASE m \notin Masters
    <3>1. v = FirstOfBy(answer, m) /\ w = FirstOfBy(answer, m)
      BY <2>2 DEF OwnBy, MakesNewBy
    <3> QED
      BY <3>1
  <2> QED
    BY <2>1, <2>2
<1>8. ASSUME NEW x \in {v, w}, NEW y \in {v, w}, Owns(x), Claims(y) PROVE Usurps(y, x)
  BY <1>8 DEF OwnBy, Usurps
<1> HIDE DEF Claims, Owns
<1> QED
  BY <1>5, <1>6, <1>7, <1>8

-----------------------------------------------------------------------------
(* What the runs and the people between them leave as it was *)

\* New masters that no line spells change no answer.
LEMMA AnswersStay ==
    ASSUME TablesInPlace, UNCHANGED <<table, decisions, excluded, archived, legacy, proven>>,
           Masters \subseteq Masters', \A m \in Masters' \ Masters : Codeish(m) \notin Numbers
    PROVE  /\ Variants' = Variants /\ Answers' = Answers
           /\ \A v : IsExcluded(v)' <=> IsExcluded(v)
<1>1. Variants' = Variants
  BY DEF Variants
<1>2. \A v : LegacyLinks(v)' = LegacyLinks(v) /\ ProvenLinks(v)' = ProvenLinks(v)
  BY DEF LegacyLinks, ProvenLinks
<1>3. ASSUME NEW c \in Numbers PROVE Spells(c)' = Spells(c)
  <2> DEFINE same == {m \in Masters \ archived : Codeish(m) = c}
  <2>1. same' = same
    OBVIOUS
  <2> HIDE DEF same
  <2>2. Spells(c) = IF Several(same) THEN {} ELSE same
    BY DEF Spells, same
  <2>3. Spells(c)' = IF Several(same') THEN {} ELSE same'
    BY DEF Spells, same, Several
  <2> QED
    BY <2>1, <2>2, <2>3
<1>4. ASSUME NEW i \in Skus PROVE Spelt(i)' = Spelt(i)
  <2>1. Export[i].merchant \in Numbers
    BY DEF Numbers
  <2>2. Key(i) \in DOMAIN ReadsAs \ Placeholder => ReadsAs[Key(i)] \in Numbers
    BY DEF Numbers
  <2> QED
    BY <1>3, <2>1, <2>2 DEF Spelt
<1>5. ASSUME NEW v \in Variants PROVE ByCode(v)' = ByCode(v)
  <2> DEFINE hits == {i \in v.skus : Spelt(i) # {}}
  <2>1. v.skus \subseteq Skus
    BY VariantsApart DEF TablesInPlace
  <2>2. hits' = hits
    BY <1>4, <2>1
  <2> HIDE DEF hits
  <2>3. \A i : i = Min(hits) => ByCode(v) = IF hits = {} THEN {} ELSE Spelt(i)
    BY DEF ByCode, hits
  <2>4. \A i : i = Min(hits') => ByCode(v)' = IF hits' = {} THEN {} ELSE Spelt(i)'
    BY DEF ByCode, hits
  <2>5. hits # {} => Min(hits) \in Skus
    <3>1. hits \subseteq Skus
      BY <2>1 DEF hits
    <3>2. Skus \subseteq Nat
      BY ExportAssumption DEF Skus
    <3> QED
      BY <3>1, <3>2, MinOfNats
  <2> QED
    BY <1>4, <2>2, <2>3, <2>4, <2>5
<1>6. \A v \in Variants : Named(v)' = Named(v)
  BY <1>2, <1>5 DEF Named
<1>7. \A v : Decided(v)' = Decided(v)
  BY DEF Decided, TablesInPlace
<1>8. ASSUME NEW v \in Variants PROVE Assigned(v)' = Assigned(v)
  <2> DEFINE codes == {d.code : d \in Decided(v)}
  <2>1. codes' = codes
    BY <1>7
  <2> HIDE DEF codes
  <2>2. Assigned(v) = IF Several(Named(v)) /\ codes \cap Named(v) # {} THEN codes ELSE Named(v)
    BY DEF Assigned, codes
  <2>3. Assigned(v)' =
            IF Several(Named(v)') /\ codes' \cap Named(v)' # {} THEN codes' ELSE Named(v)'
    BY DEF Assigned, codes, Several
  <2> QED
    BY <1>6, <2>1, <2>2, <2>3
<1>9. Answers' = Answers
  BY <1>1, <1>8 DEF Answers
<1> QED
  BY <1>1, <1>9 DEF IsExcluded

\* A plan depends on nothing else but the rows, and only for the variants it
\* makes a master for.
LEMMA PlanStays ==
    ASSUME TablesInPlace,
           UNCHANGED <<table, decisions, excluded, archived, legacy, proven, category, made>>
    PROVE  /\ Variants' = Variants /\ Answers' = Answers
           /\ \A v : rows' = rows \/ TargetBy(Answers, v) \cap Masters # {} =>
                        TargetBy(Answers, v)' = TargetBy(Answers, v)
           /\ Apart(Answers)' <=> Apart(Answers)
<1>1. Masters' = Masters
  BY DEF Masters
<1>2. /\ Variants' = Variants /\ Answers' = Answers
      /\ \A v : IsExcluded(v)' <=> IsExcluded(v)
  BY <1>1, AnswersStay
<1>3. \A m : ClaimedTwice(Answers, m)' <=> ClaimedTwice(Answers, m)
  BY <1>2 DEF ClaimedTwice
<1>4. \A v, m : Candidates(v, m)' = Candidates(v, m)
  BY <1>1 DEF Candidates
<1>5. \A v : SplitsBy(Answers, v)' = SplitsBy(Answers, v)
  BY <1>2, <1>3, <1>4 DEF SplitsBy
<1>6. \A v : /\ BlockedBy(Answers, v)' <=> BlockedBy(Answers, v)
             /\ AloneBy(Answers, v)' = AloneBy(Answers, v)
  BY <1>2, <1>3 DEF BlockedBy, AloneBy
<1>7. ASSUME rows' = rows, NEW v PROVE OwnBy(Answers, v)' = OwnBy(Answers, v)
  <2>1. UnplacedBy(Answers)' = UnplacedBy(Answers)
    BY <1>2, <1>3, <1>5, <1>6, <1>7 DEF UnplacedBy, IsSkipped
  <2>2. \A c : FirstOfBy(Answers, c)' = FirstOfBy(Answers, c)
    BY <2>1 DEF FirstOfBy
  <2>3. \A w : MakesNewBy(Answers, w)' <=> MakesNewBy(Answers, w)
    BY <2>1, <2>2 DEF MakesNewBy
  <2> QED
    BY <1>1, <2>3 DEF OwnBy
<1>8. ASSUME NEW v, OwnBy(Answers, v) \cap Masters # {}
      PROVE  OwnBy(Answers, v)' = OwnBy(Answers, v)
  <2>1. VariantCode(v) \in Masters /\ VariantCode(v) \in made
    BY <1>8 DEF OwnBy
  <2> QED
    BY <1>1, <2>1 DEF OwnBy
<1>9. ASSUME NEW v, rows' = rows \/ TargetBy(Answers, v) \cap Masters # {}
      PROVE  TargetBy(Answers, v)' = TargetBy(Answers, v)
  <2>1. CASE OwnBy(Answers, v)' = OwnBy(Answers, v)
    BY <1>2, <1>5, <1>6, <2>1 DEF TargetBy, Several
  <2>2. CASE TargetBy(Answers, v) # OwnBy(Answers, v)
    BY <1>2, <1>5, <1>6, <2>2 DEF TargetBy, Several
  <2> QED
    BY <1>7, <1>8, <1>9, <2>1, <2>2
<1>10. Apart(Answers)' <=> Apart(Answers)
  BY <1>1, <1>2, <1>5 DEF Apart
<1> QED
  BY <1>2, <1>9, <1>10

-----------------------------------------------------------------------------
(* Apply *)

\* The masters a run makes are new, each of the one variant it is named for.
LEMMA MadeForOne ==
    ASSUME ToolInv, stage = "planned", NEW v \in Variants, target[v] # {}
    PROVE  /\ target[v] = {TheTarget(v)} /\ TheTarget(v) \in Masters \cup {VariantCode(v)}
           /\ target[v] \cap Masters = {} =>
                  /\ target[v] = OwnBy(Answers, v) /\ TheTarget(v) = VariantCode(v)
                  /\ SplitsBy(Answers, v) = {} /\ AloneBy(Answers, v) = {}
                  /\ ~IsExcluded(v) /\ ~BlockedBy(Answers, v)
<1>1. target[v] = TargetBy(Answers, v) /\ Answers[v] \subseteq Masters
  BY AnswersExist DEF ToolInv, RunInPlace, Answers
<1>2. PICK m : target[v] = {m} /\ m \in Masters \cup {VariantCode(v)}
  BY <1>1, TargetIsOne
<1>3. TheTarget(v) = m
  BY <1>2 DEF TheTarget
<1>4. ASSUME target[v] \cap Masters = {}
      PROVE  /\ target[v] = OwnBy(Answers, v) /\ m = VariantCode(v)
             /\ SplitsBy(Answers, v) = {} /\ AloneBy(Answers, v) = {}
             /\ ~IsExcluded(v) /\ ~BlockedBy(Answers, v)
  BY <1>1, <1>2, <1>4, TargetIsOne
<1> QED
  BY <1>2, <1>3, <1>4

\* While they stand apart, masters that were made for variants change nothing of
\* what a plan gives to a variant: it made the master, or one that was there goes on.
KeepsPlans(N) ==
    \A v \in Variants, m \in Masters \cup N :
        TargetBy(Answers, v) = {m} => TargetBy(Answers, v)' = {m}

LEMMA PlanOutlivesMade ==
    ASSUME ToolInv, stage = "planned",
           NEW N, N \cap Masters = {}, Masters' = Masters \cup N, made' = made \cup N,
           \A m \in N : \E w \in Variants : m = VariantCode(w) /\ target[w] \cap Masters = {}
                                            /\ target[w] # {},
           UNCHANGED <<table, decisions, excluded, archived, legacy, proven>>,
           Apart(Answers)'
    PROVE  Variants' = Variants /\ Apart(Answers) /\ KeepsPlans(N)
<1>1. TablesInPlace
  BY DEF ToolInv
<1>2. \A m \in N : Codeish(m) \notin Numbers
  BY DEF Apart
<1>3. /\ Variants' = Variants /\ Answers' = Answers
      /\ \A v : IsExcluded(v)' <=> IsExcluded(v)
  BY <1>1, <1>2, AnswersStay
<1>4. \A m : ClaimedTwice(Answers, m)' <=> ClaimedTwice(Answers, m)
  BY <1>3 DEF ClaimedTwice
<1>5. ASSUME NEW v, NEW m PROVE Candidates(v, m)' \cap Masters = Candidates(v, m)
  <2>1. Candidates(v, m)' \cap Masters \subseteq Candidates(v, m)
    BY DEF Candidates
  <2>2. ASSUME NEW c \in Candidates(v, m), NEW d \in Masters', Codeish(d) = Codeish(c)
        PROVE  d = c
    <3>1. c \in Masters /\ \A e \in Masters : Codeish(e) = Codeish(c) => e = c
      BY DEF Candidates
    <3>2. d \in N => d = c
      BY <2>2, <3>1 DEF Apart
    <3> QED
      BY <2>2, <3>1, <3>2
  <2>3. Candidates(v, m) \subseteq Candidates(v, m)'
    BY <2>2 DEF Candidates
  <2>4. Candidates(v, m) \subseteq Masters
    BY DEF Candidates
  <2> QED
    BY <2>1, <2>3, <2>4
<1>6. ASSUME NEW v PROVE SplitsBy(Answers, v)' \cap Masters = SplitsBy(Answers, v)
  <2>1. {n \in Answers[v] : ~Several(Answers[v]) /\ ClaimedTwice(Answers, n)}' =
            {n \in Answers[v] : ~Several(Answers[v]) /\ ClaimedTwice(Answers, n)}
    BY <1>3, <1>4
  <2> QED
    BY <1>5, <2>1 DEF SplitsBy
<1>7. ASSUME NEW v \in Variants PROVE SplitsBy(Answers, v)' \ Masters \subseteq {VariantCode(v)} \cap N
  <2>1. SplitsBy(Answers, v)' \subseteq Masters'
    BY DEF SplitsBy, Candidates
  <2>2. \A m \in N : m \in SplitsBy(Answers, v)' => m = VariantCode(v)
    BY <1>3 DEF Apart
  <2> QED
    BY <2>1, <2>2
<1>8. Apart(Answers)
  <2>1. ASSUME NEW m \in made
        PROVE  /\ Codeish(m) \notin Numbers
               /\ \A d \in Masters : Codeish(d) = Codeish(m) => d = m
               /\ \A v \in Variants : m \in SplitsBy(Answers, v)' =>
                     \A w \in Variants : VariantCode(w) = m <=> w = v
    BY <1>3 DEF Apart
  <2>2. \A v : SplitsBy(Answers, v) \subseteq SplitsBy(Answers, v)'
    BY <1>6
  <2> QED
    BY <2>1, <2>2 DEF Apart
<1>9. \A v : /\ BlockedBy(Answers, v)' <=> BlockedBy(Answers, v)
             /\ AloneBy(Answers, v)' = AloneBy(Answers, v)
  BY <1>3, <1>4 DEF BlockedBy, AloneBy
<1>10. ASSUME NEW v \in Variants, NEW m \in Masters \cup N, TargetBy(Answers, v) = {m},
              SplitsBy(Answers, v)' = SplitsBy(Answers, v)
       PROVE  TargetBy(Answers, v)' = {m}
  <2>1. CASE SplitsBy(Answers, v) # {} \/ AloneBy(Answers, v) # {}
    BY <1>3, <1>9, <1>10, <2>1 DEF TargetBy, Several
  <2>2. CASE SplitsBy(Answers, v) = {} /\ AloneBy(Answers, v) = {}
    <3>1. OwnBy(Answers, v) = {m} /\ TargetBy(Answers, v)' = OwnBy(Answers, v)'
      BY <1>3, <1>9, <1>10, <2>2 DEF TargetBy, Several
    <3>2. m = VariantCode(v) /\ (m \in Masters => m \in made)
      BY <3>1 DEF OwnBy
    <3>3. m \in Masters' /\ m \in made'
      BY <3>2
    <3>4. OwnBy(Answers, v)' = {m}
      BY <3>2, <3>3 DEF OwnBy
    <3> QED
      BY <3>1, <3>4
  <2> QED
    BY <2>1, <2>2
<1>11. ASSUME NEW v \in Variants, NEW m \in Masters \cup N, TargetBy(Answers, v) = {m},
              SplitsBy(Answers, v)' # SplitsBy(Answers, v)
       PROVE  TargetBy(Answers, v)' = {m}
  <2> DEFINE now == SplitsBy(Answers, v)
             then == SplitsBy(Answers, v)'
             own == VariantCode(v)
  <2>1. own \in N /\ own \in then /\ then \subseteq now \cup {own}
    <3>1. now = then \cap Masters
      BY <1>6
    <3>2. then \ Masters \subseteq {own} \cap N
      BY <1>7
    <3>3. then # now
      BY <1>11
    <3> HIDE DEF now, then, own
    <3> QED
      BY <3>1, <3>2, <3>3
  <2>2. \A w \in Variants : VariantCode(w) = own <=> w = v
    BY <1>3, <2>1 DEF Apart
  <2>3. target[v] \cap Masters = {} /\ target[v] # {}
    <3>1. PICK w \in Variants : own = VariantCode(w) /\ target[w] \cap Masters = {}
                                /\ target[w] # {}
      BY <2>1
    <3> QED
      BY <2>2, <3>1
  <2>4. /\ target[v] = {own} /\ target[v] = TargetBy(Answers, v)
        /\ now = {} /\ ~IsExcluded(v) /\ ~BlockedBy(Answers, v)
    BY <2>3, MadeForOne DEF ToolInv, RunInPlace
  <2>5. then = {own} /\ m = own
    BY <1>11, <2>1, <2>4
  <2>6. TargetBy(Answers, v)' = then
    BY <1>3, <1>9, <2>4, <2>5 DEF TargetBy, Several
  <2> QED
    BY <2>5, <2>6
<1> QED
  BY <1>3, <1>8, <1>10, <1>11 DEF KeepsPlans

LEMMA ApplyKeeps == ASSUME ToolInv, Tool!Apply PROVE ToolInv'
<1> DEFINE created == {v \in Tool!Written : target[v] \cap Tool!Masters = {}}
           N == {Tool!TheTarget(v) : v \in created}
           new == [i \in UNION {v.skus : v \in Tool!Written} |-> Tool!TheTarget(Tool!VariantOf(i))]
<1>1. /\ stage = "planned" /\ stage' = "idle" /\ made' = made \cup N
      /\ UNCHANGED <<table, decisions, excluded, archived, legacy, proven>>
      /\ rows' = Tool!Also(rows, new) /\ wrote' = Tool!Also(wrote, new)
      /\ Masters' = Masters \cup N
  <2>1. /\ stage = "planned" /\ stage' = "idle" /\ made' = made \cup N
        /\ UNCHANGED <<table, decisions, excluded, archived, legacy, proven>>
        /\ rows' = Tool!Also(rows, new) /\ wrote' = Tool!Also(wrote, new)
    BY DEF Tool!Apply, Tool!Done, Tool!world
  <2>2. DOMAIN category' = DOMAIN category \cup N
    BY DEF Tool!Apply, Tool!Also
  <2> QED
    BY <2>1, <2>2 DEF Masters
<1>2. Written \subseteq Variants /\ \A v \in Written : target[v] # {}
  BY DEF Written
<1>3. /\ created = {v \in Written : target[v] \cap Masters = {}}
      /\ N = {TheTarget(v) : v \in created}
      /\ \A v \in Written : TheTarget(v) \in Masters \cup N
  <2>1. created = {v \in Written : target[v] \cap Masters = {}}
    BY ToolAgrees
  <2>2. N = {TheTarget(v) : v \in created}
    BY ToolAgrees
  <2>3. ASSUME NEW v \in Written PROVE TheTarget(v) \in Masters \cup N
    <3>1. target[v] = {TheTarget(v)}
      BY <1>1, <1>2, MadeForOne
    <3> HIDE DEF created, N
    <3> QED
      BY <2>1, <2>2, <3>1
  <2> QED
    BY <2>1, <2>2, <2>3
<1>4. ASSUME NEW m \in N
      PROVE  /\ m \notin Masters
             /\ \E w \in Variants : m = VariantCode(w) /\ target[w] \cap Masters = {} /\ target[w] # {}
  <2>1. PICK w \in Written : target[w] \cap Masters = {} /\ m = TheTarget(w)
    <3> HIDE DEF created, N
    <3> QED
      BY <1>3
  <2>2. w \in Variants /\ target[w] = {m} /\ m = VariantCode(w)
    BY <1>1, <1>2, <2>1, MadeForOne
  <2> QED
    BY <1>2, <2>1, <2>2
<1>5. /\ DOMAIN new = UNION {v.skus : v \in Written}
      /\ \A v \in Written : \A i \in v.skus : i \in DOMAIN new /\ new[i] = TheTarget(v)
  <2>1. DOMAIN new = UNION {v.skus : v \in Written}
    BY ToolAgrees
  <2>2. ASSUME NEW v \in Written, NEW i \in v.skus PROVE i \in DOMAIN new /\ new[i] = TheTarget(v)
    <3>1. i \in DOMAIN new
      BY <2>1
    <3>2. \A w \in Variants : i \in w.skus => w = v
      BY <1>2, VariantsApart DEF ToolInv, TablesInPlace
    <3>3. VariantOf(i) = v
      BY <1>2, <3>2 DEF VariantOf
    <3> QED
      BY <3>1, <3>3, ToolAgrees
  <2> QED
    BY <2>1, <2>2
<1> HIDE DEF created, N, new
<1>6. /\ DOMAIN rows' = DOMAIN rows \cup DOMAIN new
      /\ \A i \in DOMAIN rows : rows'[i] = rows[i]
      /\ \A i \in DOMAIN new \ DOMAIN rows : rows'[i] = new[i]
      /\ DOMAIN wrote' = DOMAIN wrote \cup DOMAIN new
      /\ \A i \in DOMAIN wrote : wrote'[i] = wrote[i]
      /\ \A i \in DOMAIN new \ DOMAIN wrote : wrote'[i] = new[i]
  BY <1>1 DEF Tool!Also
<1>7. TablesInPlace'
  <2>1. \A i \in DOMAIN rows' : rows'[i] \in Masters \cup N
    BY <1>3, <1>5, <1>6 DEF ToolInv, TablesInPlace
  <2> QED
    BY <1>1, <2>1 DEF ToolInv, TablesInPlace
<1>8. RunInPlace'
  BY <1>1 DEF RunInPlace
<1>9. ASSUME Apart(Answers)', NEW v \in Variants', NEW i \in v.skus \cap DOMAIN wrote'
      PROVE  TargetBy(Answers, v)' = {wrote'[i]}
  <2>1. Variants' = Variants /\ Apart(Answers) /\ KeepsPlans(N)
    <3>1. N \cap Masters = {}
      BY <1>4
    <3> QED
      BY <1>1, <1>4, <1>9, <3>1, PlanOutlivesMade
  <2>2. v \in Variants
    BY <2>1
  <2>3. CASE i \in DOMAIN wrote
    <3>1. TargetBy(Answers, v) = {wrote[i]} /\ wrote[i] \in Masters
      BY <2>1, <2>2, <2>3 DEF ToolInv, RowsWouldReturn, RowsNameMasters
    <3> QED
      BY <1>6, <2>1, <2>2, <2>3, <3>1 DEF KeepsPlans
  <2>4. CASE i \notin DOMAIN wrote
    <3>1. PICK w \in Written : i \in w.skus
      BY <1>5, <1>6, <2>4
    <3>2. w = v
      BY <1>2, <2>2, <3>1, VariantsApart DEF ToolInv, TablesInPlace
    <3>3. target[v] = {TheTarget(v)} /\ target[v] = TargetBy(Answers, v)
      BY <1>1, <1>2, <2>2, <3>1, <3>2, MadeForOne DEF ToolInv, RunInPlace
    <3>4. wrote'[i] = TheTarget(v)
      BY <1>5, <1>6, <2>4, <3>1, <3>2
    <3>5. TheTarget(v) \in Masters \cup N
      BY <1>3, <3>1, <3>2
    <3> QED
      BY <2>1, <2>2, <3>3, <3>4, <3>5 DEF KeepsPlans
  <2> QED
    BY <2>3, <2>4
<1>10. RowsWouldReturn'
  BY <1>9 DEF RowsWouldReturn
<1>11. RowsNameMasters'
  <2>1. \A i \in DOMAIN wrote' : wrote'[i] \in Masters \cup N
    BY <1>3, <1>5, <1>6 DEF ToolInv, RowsNameMasters
  <2> QED
    BY <1>1, <2>1 DEF RowsNameMasters
<1> QED
  BY <1>7, <1>8, <1>10, <1>11 DEF ToolInv

-----------------------------------------------------------------------------
(* The other steps *)

LEMMA ToolInit == ASSUME Tool!Init PROVE ToolInv
<1>1. /\ table \in SUBSET PairLines /\ decisions = {} /\ rows = <<>> /\ proven = <<>>
      /\ stage = "idle" /\ wrote = <<>>
  BY DEF Tool!Init
<1>2. \A k \in DOMAIN legacy : legacy[k] \in Masters
  <2>1. PICK old \in SUBSET OldRows :
            /\ \A x \in old : x[2] \in Masters
            /\ legacy = [k \in {x[1] : x \in old} |-> (CHOOSE x \in old : x[1] = k)[2]]
    BY ToolAgrees DEF Tool!Init
  <2>2. ASSUME NEW k \in DOMAIN legacy PROVE legacy[k] \in Masters
    <3>1. \E x \in old : x[1] = k
      BY <2>1
    <3>2. (CHOOSE x \in old : x[1] = k) \in old
      BY <3>1
    <3> QED
      BY <2>1, <3>2
  <2> QED
    BY <2>2
<1>3. TablesInPlace
  BY <1>1, <1>2 DEF TablesInPlace
<1> QED
  BY <1>1, <1>3 DEF ToolInv, RunInPlace, RowsNameMasters, RowsWouldReturn

\* Between the runs there is no plan, and a change other than to the rows starts
\* the count of what was written again.
LEMMA EditKeeps ==
    ASSUME ToolInv, Tool!Edit, TablesInPlace' PROVE ToolInv'
<1>1. stage' = "idle" /\ wrote' = <<>>
  BY DEF Tool!Edit, Tool!EditRow, Tool!run
<1> QED
  BY <1>1 DEF ToolInv, RunInPlace, RowsNameMasters, RowsWouldReturn

LEMMA RunKeeps ==
    ASSUME ToolInv, Tool!Assign \/ Tool!Plan \/ Tool!Leave PROVE ToolInv'
<1>1. /\ UNCHANGED <<table, decisions, excluded, archived, legacy, proven, category, made>>
      /\ UNCHANGED <<rows, wrote>>
  BY DEF Tool!Assign, Tool!Plan, Tool!Leave, Tool!world
<1>2. /\ Variants' = Variants /\ Answers' = Answers
      /\ \A v : TargetBy(Answers, v)' = TargetBy(Answers, v)
      /\ Apart(Answers)' <=> Apart(Answers)
  BY <1>1, PlanStays DEF ToolInv
<1>3. TablesInPlace'
  BY <1>1 DEF ToolInv, TablesInPlace, Masters
<1>4. RowsNameMasters' /\ RowsWouldReturn'
  BY <1>1, <1>2 DEF ToolInv, RowsNameMasters, RowsWouldReturn, Masters
<1>5. CASE Tool!Assign
  <2>1. stage' = "assigned" /\ answer' = Answers
    BY <1>5, ToolAgrees DEF Tool!Assign, Answers
  <2>2. RunInPlace'
    BY <1>2, <2>1 DEF RunInPlace
  <2> QED
    BY <1>3, <1>4, <2>2 DEF ToolInv
<1>6. CASE Tool!Plan
  <2>1. /\ stage = "assigned" /\ stage' = "planned" /\ answer' = answer
        /\ target' = [v \in Variants |-> Target(v)]
    BY <1>6, ToolAgrees DEF Tool!Plan
  <2>2. answer = Answers /\ \A v : Target(v) = TargetBy(Answers, v)
    BY <2>1, PlanIsByAnswers DEF ToolInv, RunInPlace
  <2>3. target' = [v \in Variants' |-> TargetBy(Answers, v)']
    BY <1>2, <2>1, <2>2
  <2>4. RunInPlace'
    BY <1>2, <2>1, <2>2, <2>3 DEF RunInPlace
  <2> QED
    BY <1>3, <1>4, <2>4 DEF ToolInv
<1>7. CASE Tool!Leave
  BY <1>3, <1>4, <1>7 DEF ToolInv, RunInPlace, Tool!Leave, Tool!Done
<1> QED
  BY <1>5, <1>6, <1>7

LEMMA DeleteRowKeeps == ASSUME ToolInv, NEW i, Tool!DeleteRow(i) PROVE ToolInv'
<1>1. /\ UNCHANGED <<table, decisions, excluded, archived, legacy, proven, category, made>>
      /\ UNCHANGED <<stage, wrote>> /\ stage = "idle"
      /\ \A j \in DOMAIN rows' : j \in DOMAIN rows /\ rows'[j] = rows[j]
  BY DEF Tool!DeleteRow, Tool!EditRow, Tool!run
<1>2. TablesInPlace'
  BY <1>1 DEF ToolInv, TablesInPlace, Masters
<1>3. RunInPlace'
  BY <1>1 DEF RunInPlace
<1>4. RowsNameMasters'
  BY <1>1 DEF ToolInv, RowsNameMasters, Masters
<1>5. ASSUME Apart(Answers)', NEW v \in Variants', NEW j \in v.skus \cap DOMAIN wrote'
      PROVE  TargetBy(Answers, v)' = {wrote'[j]}
  <2>1. Variants' = Variants /\ Apart(Answers)
    BY <1>1, <1>5, PlanStays DEF ToolInv
  <2>2. TargetBy(Answers, v) = {wrote[j]} /\ wrote[j] \in Masters
    BY <1>1, <2>1 DEF ToolInv, RowsNameMasters, RowsWouldReturn
  <2> QED
    BY <1>1, <2>2, PlanStays DEF ToolInv
<1>6. RowsWouldReturn'
  BY <1>5 DEF RowsWouldReturn
<1> QED
  BY <1>2, <1>3, <1>4, <1>6 DEF ToolInv

LEMMA TablesStay ==
    ASSUME ToolInv PROVE
    /\ \A line : Tool!Pair(line) /\ line \in PairLines => TablesInPlace'
    /\ \A v, m : Tool!Decide(v, m) => TablesInPlace'
    /\ \A page : Tool!Exclude(page) => TablesInPlace'
    /\ \A i : Tool!Sell(i) => TablesInPlace'
    /\ \A k : Tool!DeleteLegacy(k) => TablesInPlace'
    /\ \A m : Tool!Retire(m) => TablesInPlace'
    /\ \A m : Tool!Import(m) => TablesInPlace'
<1>1. ASSUME NEW line \in PairLines, Tool!Pair(line) PROVE TablesInPlace'
  BY <1>1 DEF Tool!Pair, Tool!Accept, ToolInv, TablesInPlace, Masters
<1>2. ASSUME NEW v, NEW m, Tool!Decide(v, m) PROVE TablesInPlace'
  <2>1. m \in Masters
    BY <1>2, AnswersExist, ToolAgrees DEF Tool!Decide, ToolInv
  <2> QED
    BY <1>2, <2>1 DEF Tool!Decide, ToolInv, TablesInPlace, Masters
<1>3. ASSUME NEW page, Tool!Exclude(page) PROVE TablesInPlace'
  BY <1>3 DEF Tool!Exclude, ToolInv, TablesInPlace, Masters
<1>4. ASSUME NEW i, Tool!Sell(i) PROVE TablesInPlace'
  <2> DEFINE m == IF i \in DOMAIN rows THEN rows[i] ELSE legacy[Tool!Page(i)]
  <2>1. m \in Masters
    BY <1>4 DEF Tool!Sell, ToolInv, TablesInPlace
  <2>2. proven' = [j \in DOMAIN proven \cup {i} |-> IF j = i THEN m ELSE proven[j]]
    BY <1>4 DEF Tool!Sell
  <2> HIDE DEF m
  <2>3. \A j \in DOMAIN proven' : proven'[j] \in Masters
    BY <2>1, <2>2 DEF ToolInv, TablesInPlace
  <2> QED
    BY <1>4, <2>3 DEF Tool!Sell, ToolInv, TablesInPlace, Masters
<1>5. ASSUME NEW k, Tool!DeleteLegacy(k) PROVE TablesInPlace'
  BY <1>5 DEF Tool!DeleteLegacy, ToolInv, TablesInPlace, Masters
<1>6. ASSUME NEW m, Tool!Retire(m) PROVE TablesInPlace'
  BY <1>6 DEF Tool!Retire, ToolInv, TablesInPlace, Masters
<1>7. ASSUME NEW m, Tool!Import(m) PROVE TablesInPlace'
  <2>1. Masters \subseteq Masters'
    BY <1>7 DEF Tool!Import, Tool!Also, Masters
  <2> QED
    BY <1>7, <2>1 DEF Tool!Import, ToolInv, TablesInPlace
<1> QED
  BY <1>1, <1>2, <1>3, <1>4, <1>5, <1>6, <1>7

LEMMA ToolNext == ASSUME ToolInv, [Tool!Next]_(Tool!vars) PROVE ToolInv'
<1>1. CASE Tool!Assign \/ Tool!Plan \/ Tool!Leave
  BY <1>1, RunKeeps
<1>2. CASE Tool!Apply
  BY <1>2, ApplyKeeps
<1>3. ASSUME NEW line \in PairLines, Tool!Pair(line) PROVE ToolInv'
  BY <1>3, TablesStay, EditKeeps DEF Tool!Pair
<1>4. ASSUME NEW v, NEW m, Tool!Decide(v, m) PROVE ToolInv'
  BY <1>4, TablesStay, EditKeeps DEF Tool!Decide
<1>5. ASSUME NEW page, Tool!Exclude(page) PROVE ToolInv'
  BY <1>5, TablesStay, EditKeeps DEF Tool!Exclude
<1>6. ASSUME NEW i, Tool!DeleteRow(i) PROVE ToolInv'
  BY <1>6, DeleteRowKeeps
<1>7. ASSUME NEW i, Tool!Sell(i) PROVE ToolInv'
  BY <1>7, TablesStay, EditKeeps DEF Tool!Sell
<1>8. ASSUME NEW k, Tool!DeleteLegacy(k) PROVE ToolInv'
  BY <1>8, TablesStay, EditKeeps DEF Tool!DeleteLegacy
<1>9. ASSUME NEW m, Tool!Retire(m) PROVE ToolInv'
  BY <1>9, TablesStay, EditKeeps DEF Tool!Retire
<1>10. ASSUME NEW m, Tool!Import(m) PROVE ToolInv'
  BY <1>10, TablesStay, EditKeeps DEF Tool!Import
<1>11. CASE UNCHANGED Tool!vars
  <2>1. /\ UNCHANGED <<table, decisions, excluded, archived, legacy, proven, category, made>>
        /\ UNCHANGED <<rows, stage, answer, target, wrote>>
    BY <1>11 DEF Tool!vars
  <2>2. /\ Variants' = Variants /\ Answers' = Answers
        /\ \A v : TargetBy(Answers, v)' = TargetBy(Answers, v)
        /\ Apart(Answers)' <=> Apart(Answers)
    BY <2>1, PlanStays DEF ToolInv
  <2>3. TablesInPlace'
    BY <2>1 DEF ToolInv, TablesInPlace, Masters
  <2>4. RunInPlace' /\ RowsNameMasters' /\ RowsWouldReturn'
    BY <2>1, <2>2 DEF ToolInv, RunInPlace, RowsNameMasters, RowsWouldReturn, Masters
  <2> QED
    BY <2>3, <2>4 DEF ToolInv
<1> QED
  BY <1>1, <1>2, <1>3, <1>4, <1>5, <1>6, <1>7, <1>8, <1>9, <1>10, <1>11 DEF Tool!Next

LEMMA ToolAlways == Tool!Spec => []ToolInv
  BY ToolInit, ToolNext, PTL DEF Tool!Spec

\* VariantPlan: one master is given to two variants only by a split, when the
\* master the tool made for one is what something names for the other, or when an
\* earlier run made it under the code of both.
THEOREM VariantsAreOne == Tool!Spec => []VariantsShareNoMaster
<1>1. ToolInv => VariantsShareNoMaster
  BY PlanShares
<1> QED
  BY <1>1, ToolAlways, PTL

\* VariantPlan: the repair by deletion.  What a run would plan is kept by what it
\* has made (PlanOutlivesMade), however often it is run.
THEOREM RepairsComeBack == Tool!Spec => []RepairRestoresMaster
<1>1. ASSUME ToolInv PROVE RepairRestoresMaster
  <2> SUFFICES ASSUME stage = "planned", StandApart,
                      NEW v \in Variants, NEW i \in v.skus \cap DOMAIN wrote
               PROVE  target[v] = {wrote[i]}
    BY DEF RepairRestoresMaster
  <2>1. answer = Answers /\ target[v] = TargetBy(Answers, v)
    BY <1>1 DEF ToolInv, RunInPlace
  <2>2. Apart(Answers)
    BY <2>1, PlanIsByAnswers DEF StandApart, Apart
  <2> QED
    BY <1>1, <2>1, <2>2 DEF ToolInv, RowsWouldReturn
<1> QED
  BY <1>1, ToolAlways, PTL
=============================================================================
