------------------------- MODULE RequestPathProofs --------------------------
(* Machine-checked proofs about the request path, for every set of routes,   *)
(* order of adding them, set of requests, latency ladder and series cap: the *)
(* metrics add up, and the answers are sound.  Both rest on a recursive      *)
(* function, a sum over a map and the router's scan for the best match, so   *)
(* the module starts with induction, stated over sets rather than            *)
(* predicates, and with what these two functions compute.                    *)
EXTENDS RequestPath, FiniteSetTheorems, WellFoundedInduction, SequenceTheorems, TLAPS

-----------------------------------------------------------------------------
\* Induction.

\* Over the subsets of a finite set, by inclusion.
LEMMA SetInduction ==
    ASSUME NEW D, IsFiniteSet(D), NEW G \in SUBSET (SUBSET D),
           \A S \in SUBSET D : (\A T \in SUBSET S : T # S => T \in G) => S \in G
    PROVE  G = SUBSET D
  <1> DEFINE B == (SUBSET D) \ G
  <1>1. SUFFICES ASSUME B # {} PROVE FALSE
    OBVIOUS
  <1>2. IsWellFoundedOn(StrictSubsetOrdering(D), SUBSET D)
    BY FS_StrictSubsetOrderingWellFounded, FS_FiniteSubsetsOfFinite
  <1>3. \E x \in B : \A y \in B : ~ (<<y, x>> \in StrictSubsetOrdering(D))
    <2>1. B # {} /\ B \subseteq SUBSET D
      BY <1>1
    <2> HIDE DEF B
    <2>2. QED
      BY <1>2, <2>1, WFMin
  <1>4. PICK x \in B : \A y \in B : ~ (<<y, x>> \in StrictSubsetOrdering(D))
    BY <1>3
  <1>5. ASSUME NEW T \in SUBSET x, T # x PROVE T \in G
    <2>1. T \in SUBSET D
      BY <1>4
    <2>2. <<T, x>> \in StrictSubsetOrdering(D)
      BY <1>5, <2>1, <1>4 DEF StrictSubsetOrdering
    <2>3. QED
      BY <2>1, <2>2, <1>4
  <1>6. QED
    BY <1>4, <1>5

\* Over the numbers.
LEMMA NumberInduction ==
    ASSUME NEW G, 0 \in G, \A n \in Nat : n \in G => n + 1 \in G
    PROVE  \A n \in Nat : n \in G
  <1> DEFINE B == Nat \ G
             R == OpToRel(<, Nat)
  <1>1. SUFFICES ASSUME B # {} PROVE FALSE
    OBVIOUS
  <1>2. IsWellFoundedOn(R, Nat)
    BY NatLessThanWellFounded
  <1>3. B \subseteq Nat
    OBVIOUS
  <1>4. \E x \in B : \A y \in B : ~ (<<y, x>> \in R)
    <2> HIDE DEF B, R
    <2>1. QED
      BY <1>1, <1>2, <1>3, WFMin
  <1>5. PICK x \in B : \A y \in B : ~ (<<y, x>> \in R)
    BY <1>4
  <1>6. x # 0 /\ x \in Nat
    BY <1>5
  <1>7. x - 1 \in Nat /\ x - 1 < x
    BY <1>6
  <1>8. <<x - 1, x>> \in R
    BY <1>6, <1>7 DEF OpToRel
  <1>9. x - 1 \in G
    BY <1>5, <1>7, <1>8
  <1>10. (x - 1) + 1 = x
    BY <1>6
  <1>11. QED
    BY <1>5, <1>7, <1>9, <1>10

-----------------------------------------------------------------------------
\* Sums over a map.

\* SumOf's recursion and the function it defines.
SumStep(f, h, S) ==
    IF S = {} THEN 0 ELSE f[CHOOSE k \in S : TRUE] + h[S \ {CHOOSE k \in S : TRUE}]
Total(f) == CHOOSE h : h = [S \in SUBSET DOMAIN f |-> SumStep(f, h, S)]

LEMMA SumIsTotal == \A f : SumOf(f) = Total(f)[DOMAIN f]
  BY DEF SumOf, Total, SumStep

\* A function that satisfies the recursion exists, so Total does: one on the
\* sets of at most n keys extends to those of n + 1.
LEMMA TotalRecursion ==
    ASSUME NEW f, IsFiniteSet(DOMAIN f)
    PROVE  \A S \in SUBSET DOMAIN f : Total(f)[S] = SumStep(f, Total(f), S)
  <1> DEFINE D == DOMAIN f
             Small(n) == {S \in SUBSET D : Cardinality(S) <= n}
             Good == {n \in Nat : \E h : h = [T \in Small(n) |-> SumStep(f, h, T)]}
  <1>0. \A S \in SUBSET D : IsFiniteSet(S) /\ Cardinality(S) \in Nat
    BY FS_Subset, FS_CardinalityType
  <1>1. 0 \in Good
    <2> DEFINE h == [T \in Small(0) |-> 0]
    <2>1. \A T \in Small(0) : T = {}
      BY <1>0, FS_EmptySet
    <2>2. h = [T \in Small(0) |-> SumStep(f, h, T)]
      BY <2>1 DEF SumStep
    <2>3. QED
      BY <2>2
  <1>2. ASSUME NEW n \in Nat, n \in Good PROVE n + 1 \in Good
    <2>1. PICK h : h = [T \in Small(n) |-> SumStep(f, h, T)]
      BY <1>2
    <2> DEFINE g == [T \in Small(n + 1) |-> SumStep(f, h, T)]
    <2>2. \A T \in Small(n) : T \in Small(n + 1) /\ g[T] = h[T]
      BY <2>1, <1>0
    <2>3. ASSUME NEW T \in Small(n + 1) PROVE SumStep(f, h, T) = SumStep(f, g, T)
      <3>1. CASE T = {}
        BY <3>1 DEF SumStep
      <3>2. CASE T # {}
        <4> DEFINE k == CHOOSE k \in T : TRUE
        <4>1. k \in T
          BY <3>2
        <4>2. Cardinality(T \ {k}) = Cardinality(T) - 1
          BY <4>1, <1>0, FS_RemoveElement
        <4>3. T \ {k} \in Small(n)
          BY <4>2, <1>0
        <4>4. QED
          BY <4>3, <2>2 DEF SumStep
      <3>3. QED
        BY <3>1, <3>2
    <2>4. g = [T \in Small(n + 1) |-> SumStep(f, g, T)]
      BY <2>3
    <2>5. \E gg : gg = [T \in Small(n + 1) |-> SumStep(f, gg, T)]
      <3> HIDE DEF g
      <3>1. QED
        BY <2>4
    <2>6. QED
      BY <2>5
  <1>3. \A n \in Nat : n \in Good
    <2> HIDE DEF Good
    <2>1. QED
      BY <1>1, <1>2, NumberInduction
  <1>4. PICK h : h = [T \in SUBSET D |-> SumStep(f, h, T)]
    <2>1. Small(Cardinality(D)) = SUBSET D
      BY FS_Subset
    <2>2. Cardinality(D) \in Good
      BY <1>3, FS_CardinalityType
    <2>3. QED
      BY <2>1, <2>2
  <1>5. Total(f) = [T \in SUBSET D |-> SumStep(f, Total(f), T)]
    BY <1>4, Zenon DEF Total
  <1>6. QED
    BY <1>5

\* A map from finitely many keys to naturals.
NatMap(f) == IsFiniteSet(DOMAIN f) /\ \A d \in DOMAIN f : f[d] \in Nat

\* Any key may be taken out first.
LEMMA TotalTakeOut ==
    ASSUME NEW f, NatMap(f), NEW S \in SUBSET DOMAIN f
    PROVE  /\ Total(f)[S] \in Nat
           /\ \A k \in S : Total(f)[S] = f[k] + Total(f)[S \ {k}]
  <1> DEFINE D == DOMAIN f
             Good == {T \in SUBSET D : /\ Total(f)[T] \in Nat
                                       /\ \A k \in T : Total(f)[T] = f[k] + Total(f)[T \ {k}]}
  <1>1. ASSUME NEW T \in SUBSET D, \A U \in SUBSET T : U # T => U \in Good
        PROVE  T \in Good
    <2>1. Total(f)[T] = SumStep(f, Total(f), T)
      BY TotalRecursion DEF NatMap
    <2>2. CASE T = {}
      BY <2>1, <2>2 DEF SumStep
    <2>3. CASE T # {}
      <3> DEFINE c == CHOOSE k \in T : TRUE
      <3>1. c \in T
        BY <2>3
      <3>2. Total(f)[T] = f[c] + Total(f)[T \ {c}]
        BY <2>1, <2>3 DEF SumStep
      <3> HIDE DEF c
      <3>3. f[c] \in Nat /\ Total(f)[T \ {c}] \in Nat
        BY <3>1, <1>1 DEF NatMap
      <3>4. ASSUME NEW k \in T, k # c PROVE Total(f)[T] = f[k] + Total(f)[T \ {k}]
        <4>1. T \ {c} \in Good /\ T \ {k} \in Good
          BY <3>1, <3>4, <1>1
        <4>2. Total(f)[T \ {c}] = f[k] + Total(f)[(T \ {c}) \ {k}]
          BY <3>4, <4>1
        <4>3. Total(f)[T \ {k}] = f[c] + Total(f)[(T \ {k}) \ {c}]
          BY <3>1, <3>4, <4>1
        <4>4. (T \ {c}) \ {k} = (T \ {k}) \ {c}
          OBVIOUS
        <4>5. Total(f)[(T \ {k}) \ {c}] \in Nat
          <5>1. (T \ {k}) \ {c} \in SUBSET T /\ (T \ {k}) \ {c} # T
            BY <3>1
          <5>2. QED
            BY <5>1, <1>1
        <4>6. f[k] \in Nat
          BY <3>4 DEF NatMap
        <4>7. QED
          BY <3>2, <3>3, <4>2, <4>3, <4>4, <4>5, <4>6
      <3>5. Total(f)[T] \in Nat
        BY <3>2, <3>3
      <3>6. \A k \in T : Total(f)[T] = f[k] + Total(f)[T \ {k}]
        BY <3>2, <3>4
      <3>7. QED
        BY <3>5, <3>6
    <2>4. QED
      BY <2>2, <2>3
  <1>2. Good = SUBSET D
    <2>1. Good \in SUBSET (SUBSET D)
      OBVIOUS
    <2> HIDE DEF Good
    <2>2. QED
      BY <1>1, <2>1, SetInduction DEF NatMap
  <1>3. QED
    BY <1>2

\* The total of a set of keys depends on their values alone.
LEMMA TotalsAgree ==
    ASSUME NEW f, NatMap(f), NEW g, NatMap(g),
           NEW S, S \subseteq DOMAIN f, S \subseteq DOMAIN g, \A k \in S : f[k] = g[k]
    PROVE  Total(f)[S] = Total(g)[S]
  <1> DEFINE Good == {T \in SUBSET S : Total(f)[T] = Total(g)[T]}
  <1>1. ASSUME NEW T \in SUBSET S, \A U \in SUBSET T : U # T => U \in Good
        PROVE  T \in Good
    <2>1. CASE T = {}
      <3>1. Total(f)[T] = SumStep(f, Total(f), T) /\ Total(g)[T] = SumStep(g, Total(g), T)
        BY TotalRecursion DEF NatMap
      <3>2. QED
        BY <2>1, <3>1 DEF SumStep
    <2>2. CASE T # {}
      <3>1. PICK k \in T : TRUE
        BY <2>2
      <3>2. Total(f)[T] = f[k] + Total(f)[T \ {k}]
        BY TotalTakeOut
      <3>3. Total(g)[T] = g[k] + Total(g)[T \ {k}]
        BY TotalTakeOut
      <3>4. Total(f)[T \ {k}] = Total(g)[T \ {k}]
        BY <3>1, <1>1
      <3>5. QED
        BY <3>2, <3>3, <3>4
    <2>3. QED
      BY <2>1, <2>2
  <1>2. IsFiniteSet(S)
    BY FS_Subset DEF NatMap
  <1>3. Good = SUBSET S
    <2>1. Good \in SUBSET (SUBSET S)
      OBVIOUS
    <2> HIDE DEF Good
    <2>2. QED
      BY <1>1, <1>2, <2>1, SetInduction
  <1>4. QED
    BY <1>3

LEMMA SumType == ASSUME NEW f, NatMap(f) PROVE SumOf(f) \in Nat
  BY SumIsTotal, TotalTakeOut

LEMMA SumEmpty == ASSUME NEW f, DOMAIN f = {} PROVE SumOf(f) = 0
  <1>1. Total(f)[{}] = SumStep(f, Total(f), {})
    BY TotalRecursion, FS_EmptySet
  <1>2. QED
    BY <1>1, SumIsTotal DEF SumStep

\* One value changes.
LEMMA SumChange ==
    ASSUME NEW f, NatMap(f), NEW g, NatMap(g), DOMAIN g = DOMAIN f,
           NEW k \in DOMAIN f, \A j \in DOMAIN f : j # k => g[j] = f[j]
    PROVE  SumOf(g) + f[k] = SumOf(f) + g[k]
  <1> DEFINE D == DOMAIN f
  <1>1. Total(f)[D] = f[k] + Total(f)[D \ {k}]
    BY TotalTakeOut
  <1>2. Total(g)[D] = g[k] + Total(g)[D \ {k}]
    BY TotalTakeOut
  <1>3. Total(f)[D \ {k}] = Total(g)[D \ {k}]
    BY TotalsAgree
  <1>4. Total(f)[D \ {k}] \in Nat
    BY TotalTakeOut
  <1>5. SumOf(f) = Total(f)[D] /\ SumOf(g) = Total(g)[D] /\ f[k] \in Nat /\ g[k] \in Nat
    BY SumIsTotal DEF NatMap
  <1>6. QED
    BY <1>1, <1>2, <1>3, <1>4, <1>5

\* One key is added.
LEMMA SumGrow ==
    ASSUME NEW f, NatMap(f), NEW g, NatMap(g),
           NEW k, k \notin DOMAIN f, DOMAIN g = DOMAIN f \cup {k},
           \A j \in DOMAIN f : g[j] = f[j]
    PROVE  SumOf(g) = SumOf(f) + g[k]
  <1> DEFINE D == DOMAIN f
             E == DOMAIN g
  <1>1. Total(g)[E] = g[k] + Total(g)[E \ {k}]
    BY TotalTakeOut
  <1>2. E \ {k} = D
    OBVIOUS
  <1>3. Total(f)[D] = Total(g)[D]
    BY TotalsAgree
  <1>4. SumOf(f) = Total(f)[D] /\ SumOf(g) = Total(g)[E] /\ g[k] \in Nat
    BY SumIsTotal DEF NatMap
  <1>5. Total(f)[D] \in Nat
    BY TotalTakeOut
  <1>6. QED
    BY <1>1, <1>2, <1>3, <1>4, <1>5

\* Nothing but zeroes.
LEMMA SumZero ==
    ASSUME NEW f, IsFiniteSet(DOMAIN f), \A d \in DOMAIN f : f[d] = 0
    PROVE  SumOf(f) = 0
  <1> DEFINE D == DOMAIN f
             Good == {T \in SUBSET D : Total(f)[T] = 0}
  <1>0. NatMap(f)
    BY DEF NatMap
  <1>1. ASSUME NEW T \in SUBSET D, \A U \in SUBSET T : U # T => U \in Good
        PROVE  T \in Good
    <2>1. CASE T = {}
      <3>1. Total(f)[T] = SumStep(f, Total(f), T)
        BY TotalRecursion
      <3>2. QED
        BY <2>1, <3>1 DEF SumStep
    <2>2. CASE T # {}
      <3>1. PICK k \in T : TRUE
        BY <2>2
      <3>2. Total(f)[T] = f[k] + Total(f)[T \ {k}]
        BY <1>0, TotalTakeOut
      <3>3. Total(f)[T \ {k}] = 0
        BY <3>1, <1>1
      <3>4. QED
        BY <3>2, <3>3
    <2>3. QED
      BY <2>1, <2>2
  <1>2. Good = SUBSET D
    <2>1. Good \in SUBSET (SUBSET D)
      OBVIOUS
    <2> HIDE DEF Good
    <2>2. QED
      BY <1>1, <2>1, SetInduction
  <1>3. Total(f)[D] = 0
    BY <1>2
  <1>4. QED
    BY <1>3, SumIsTotal

-----------------------------------------------------------------------------
\* Patterns and their order.

Kinds == {"literal", "label", "greedy"}
IsPattern(a) == Len(a) \in Nat /\ \A i \in 1 .. Len(a) : a[i].kind \in Kinds

\* Where a is more specific: at i, the first segment they differ in, or by
\* its length.
AheadAt(a, b, i) ==
    /\ i \in 1 .. Len(a) /\ i <= Len(b)
    /\ Rank(a[i]) < Rank(b[i])
    /\ \A j \in 1 .. i - 1 : Rank(a[j]) = Rank(b[j])
Extends(a, b) == Len(a) > Len(b) /\ \A j \in 1 .. Len(b) : Rank(a[j]) = Rank(b[j])

LEMMA RankType ==
    ASSUME NEW a, IsPattern(a), NEW i \in 1 .. Len(a)
    PROVE  Rank(a[i]) \in 0 .. 2
  BY DEF IsPattern, Kinds, Rank

\* A set of naturals has a least element.
LEMMA Least ==
    ASSUME NEW T \in SUBSET Nat, T # {}
    PROVE  \E x \in T : \A y \in T : x <= y
  <1> DEFINE G == {n \in Nat : \A y \in 0 .. n : y \notin T}
  <1>1. SUFFICES ASSUME \A x \in T : \E y \in T : ~(x <= y) PROVE FALSE
    OBVIOUS
  <1>2. 0 \in G
    BY <1>1
  <1>3. \A n \in Nat : n \in G => n + 1 \in G
    <2>1. SUFFICES ASSUME NEW n \in Nat, n \in G, n + 1 \in T PROVE FALSE
      OBVIOUS
    <2>2. PICK y \in T : ~(n + 1 <= y)
      BY <1>1, <2>1
    <2>3. y \in 0 .. n
      BY <2>1, <2>2
    <2>4. QED
      BY <2>1, <2>2, <2>3
  <1>4. \A n \in Nat : n \in G
    <2> HIDE DEF G
    <2>1. QED
      BY <1>2, <1>3, NumberInduction
  <1>5. PICK x \in T : TRUE
    OBVIOUS
  <1>6. QED
    BY <1>4, <1>5

LEMMA SpecificMeans ==
    ASSUME NEW a, IsPattern(a), NEW b, IsPattern(b)
    PROVE  MoreSpecific(a, b) <=> (\E i \in 1 .. Len(a) : AheadAt(a, b, i)) \/ Extends(a, b)
  <1> DEFINE common == IF Len(a) < Len(b) THEN Len(a) ELSE Len(b)
             differ == {i \in 1 .. common : Rank(a[i]) # Rank(b[i])}
             first == CHOOSE i \in differ : \A j \in differ : i <= j
  <1>1. MoreSpecific(a, b) <=>
          IF differ # {} THEN Rank(a[first]) < Rank(b[first]) ELSE Len(a) > Len(b)
    BY DEF MoreSpecific
  <1>2. Len(a) \in Nat /\ Len(b) \in Nat /\ common \in Nat
    BY DEF IsPattern
  <1>3. \A i \in 1 .. common : i \in 1 .. Len(a) /\ i \in 1 .. Len(b)
    BY <1>2
  <1>4. CASE differ # {}
    <2>1. differ \in SUBSET Nat
      BY <1>2
    <2>2. \E i \in differ : \A j \in differ : i <= j
      <3> HIDE DEF differ
      <3>1. QED
        BY <1>4, <2>1, Least
    <2>3. first \in differ /\ \A j \in differ : first <= j
      BY <2>2
    <2> HIDE DEF first
    <2>4. \A j \in 1 .. first - 1 : Rank(a[j]) = Rank(b[j])
      <3>1. SUFFICES ASSUME NEW j \in 1 .. first - 1, Rank(a[j]) # Rank(b[j]) PROVE FALSE
        OBVIOUS
      <3>2. j \in 1 .. common
        BY <1>2, <2>3
      <3>3. QED
        BY <1>2, <2>3, <3>1, <3>2
    <2>5. first \in 1 .. Len(a) /\ first \in 1 .. Len(b) /\ Rank(a[first]) # Rank(b[first])
      BY <1>3, <2>3
    <2>6. Rank(a[first]) \in 0 .. 2 /\ Rank(b[first]) \in 0 .. 2
      BY <2>5, RankType
    <2>7. ASSUME Rank(a[first]) < Rank(b[first]) PROVE AheadAt(a, b, first)
      BY <2>4, <2>5, <2>7, <1>2 DEF AheadAt
    <2>8. ASSUME NEW i \in 1 .. Len(a), AheadAt(a, b, i) PROVE i = first
      <3>1. i \in differ
        BY <2>8, <1>2, <1>3, RankType DEF AheadAt
      <3>2. first <= i
        BY <2>3, <3>1
      <3>3. ~(first < i)
        BY <2>5, <2>8, <1>2 DEF AheadAt
      <3>4. QED
        BY <3>2, <3>3, <2>5, <1>2
    <2>9. ~Extends(a, b)
      BY <2>5, <1>2 DEF Extends
    <2>10. MoreSpecific(a, b) <=> Rank(a[first]) < Rank(b[first])
      BY <1>1, <1>4 DEF first
    <2>11. QED
      BY <2>5, <2>7, <2>8, <2>9, <2>10 DEF AheadAt
  <1>5. CASE differ = {}
    <2>1. MoreSpecific(a, b) <=> Len(a) > Len(b)
      BY <1>1, <1>5
    <2>2. \A j \in 1 .. common : Rank(a[j]) = Rank(b[j])
      BY <1>5
    <2>3. ASSUME NEW i \in 1 .. Len(a), AheadAt(a, b, i) PROVE FALSE
      <3>1. i \in 1 .. common
        BY <2>3, <1>2 DEF AheadAt
      <3>2. i \in 1 .. Len(b)
        BY <3>1, <1>3
      <3>3. QED
        BY <2>2, <2>3, <3>1, <3>2, RankType DEF AheadAt
    <2>4. Len(a) > Len(b) => Extends(a, b)
      BY <2>2, <1>2 DEF Extends
    <2>5. QED
      BY <2>1, <2>3, <2>4 DEF Extends
  <1>6. QED
    BY <1>4, <1>5

LEMMA SpecificTransitive ==
    ASSUME NEW a, IsPattern(a), NEW b, IsPattern(b), NEW c, IsPattern(c),
           MoreSpecific(a, b), MoreSpecific(b, c)
    PROVE  MoreSpecific(a, c)
  <1>1. Len(a) \in Nat /\ Len(b) \in Nat /\ Len(c) \in Nat
    BY DEF IsPattern
  <1>2. SUFFICES (\E i \in 1 .. Len(a) : AheadAt(a, c, i)) \/ Extends(a, c)
    BY SpecificMeans
  <1>3. (\E i \in 1 .. Len(a) : AheadAt(a, b, i)) \/ Extends(a, b)
    BY SpecificMeans
  <1>4. (\E i \in 1 .. Len(b) : AheadAt(b, c, i)) \/ Extends(b, c)
    BY SpecificMeans
  <1>5. ASSUME NEW i \in 1 .. Len(a), AheadAt(a, b, i),
               NEW j \in 1 .. Len(b), AheadAt(b, c, j)
        PROVE  \E k \in 1 .. Len(a) : AheadAt(a, c, k)
    <2>1. i \in 1 .. Len(b) /\ j \in 1 .. Len(c)
      BY <1>1, <1>5 DEF AheadAt
    <2>2. CASE i < j
      <3>1. i \in 1 .. Len(c) /\ Rank(b[i]) = Rank(c[i])
        BY <1>1, <1>5, <2>1, <2>2 DEF AheadAt
      <3>2. AheadAt(a, c, i)
        BY <1>1, <1>5, <2>1, <2>2, <3>1 DEF AheadAt
      <3>3. QED
        BY <3>2
    <2>3. CASE i = j
      <3>1. Rank(a[i]) \in 0 .. 2 /\ Rank(b[i]) \in 0 .. 2 /\ Rank(c[i]) \in 0 .. 2
        BY <2>1, <2>3, RankType
      <3>2. AheadAt(a, c, i)
        BY <1>1, <1>5, <2>1, <2>3, <3>1 DEF AheadAt
      <3>3. QED
        BY <3>2
    <2>4. CASE i > j
      <3>1. j \in 1 .. Len(a) /\ Rank(a[j]) = Rank(b[j])
        BY <1>1, <1>5, <2>1, <2>4 DEF AheadAt
      <3>2. AheadAt(a, c, j)
        BY <1>1, <1>5, <2>1, <2>4, <3>1 DEF AheadAt
      <3>3. QED
        BY <3>1, <3>2
    <2>5. QED
      BY <2>2, <2>3, <2>4
  <1>6. ASSUME NEW i \in 1 .. Len(a), AheadAt(a, b, i), Extends(b, c)
        PROVE  (\E k \in 1 .. Len(a) : AheadAt(a, c, k)) \/ Extends(a, c)
    <2>1. CASE i <= Len(c)
      <3>1. AheadAt(a, c, i)
        BY <1>1, <1>6, <2>1 DEF AheadAt, Extends
      <3>2. QED
        BY <3>1
    <2>2. CASE i > Len(c)
      <3>1. Extends(a, c)
        BY <1>1, <1>6, <2>2 DEF AheadAt, Extends
      <3>2. QED
        BY <3>1
    <2>3. QED
      BY <2>1, <2>2, <1>1
  <1>7. ASSUME Extends(a, b), NEW j \in 1 .. Len(b), AheadAt(b, c, j)
        PROVE  \E k \in 1 .. Len(a) : AheadAt(a, c, k)
    <2>1. j \in 1 .. Len(a) /\ AheadAt(a, c, j)
      BY <1>1, <1>7 DEF AheadAt, Extends
    <2>2. QED
      BY <2>1
  <1>8. ASSUME Extends(a, b), Extends(b, c) PROVE Extends(a, c)
    BY <1>1, <1>8 DEF Extends
  <1>9. QED
    BY <1>3, <1>4, <1>5, <1>6, <1>7, <1>8

LEMMA SpecificAsymmetric ==
    ASSUME NEW a, IsPattern(a), NEW b, IsPattern(b), MoreSpecific(a, b)
    PROVE  ~MoreSpecific(b, a)
  <1>1. SUFFICES ASSUME MoreSpecific(b, a) PROVE FALSE
    OBVIOUS
  <1>2. MoreSpecific(a, a)
    BY <1>1, SpecificTransitive
  <1>3. (\E i \in 1 .. Len(a) : AheadAt(a, a, i)) \/ Extends(a, a)
    BY <1>2, SpecificMeans
  <1>4. QED
    BY <1>3, RankType DEF AheadAt, Extends, IsPattern

\* Two patterns that match one path and are not of one shape are never tied:
\* they differ in the kind of a segment or in their length.
LEMMA NoTie ==
    ASSUME NEW a, IsPattern(a), NEW b, IsPattern(b), NEW path,
           MatchSegments(a, path), MatchSegments(b, path), ~SameShape(a, b)
    PROVE  MoreSpecific(a, b) \/ MoreSpecific(b, a)
  <1>1. Len(a) \in Nat /\ Len(b) \in Nat
    BY DEF IsPattern
  <1> DEFINE common == IF Len(a) < Len(b) THEN Len(a) ELSE Len(b)
             differ == {i \in 1 .. common : Rank(a[i]) # Rank(b[i])}
  <1>2. \A i \in 1 .. common : i \in 1 .. Len(a) /\ i \in 1 .. Len(b)
    BY <1>1
  <1>3. CASE differ # {}
    <2>1. differ \in SUBSET Nat
      BY <1>1
    <2>2. \E i \in differ : \A j \in differ : i <= j
      <3> HIDE DEF differ
      <3>1. QED
        BY <1>3, <2>1, Least
    <2>3. PICK i \in differ : \A j \in differ : i <= j
      BY <2>2
    <2>4. \A j \in 1 .. i - 1 : Rank(a[j]) = Rank(b[j])
      <3>1. SUFFICES ASSUME NEW j \in 1 .. i - 1, Rank(a[j]) # Rank(b[j]) PROVE FALSE
        OBVIOUS
      <3>2. j \in 1 .. common
        BY <1>1, <2>3
      <3>3. QED
        BY <1>1, <2>3, <3>1, <3>2
    <2>5. i \in 1 .. Len(a) /\ i \in 1 .. Len(b) /\ Rank(a[i]) # Rank(b[i])
      BY <1>2, <2>3
    <2>6. Rank(a[i]) \in 0 .. 2 /\ Rank(b[i]) \in 0 .. 2
      BY <2>5, RankType
    <2>7. AheadAt(a, b, i) \/ AheadAt(b, a, i)
      BY <1>1, <2>4, <2>5, <2>6 DEF AheadAt
    <2>8. QED
      BY <2>5, <2>7, SpecificMeans
  <1>4. CASE differ = {} /\ Len(a) # Len(b)
    <2>1. Extends(a, b) \/ Extends(b, a)
      BY <1>1, <1>4 DEF Extends
    <2>2. QED
      BY <2>1, SpecificMeans
  <1>5. CASE differ = {} /\ Len(a) = Len(b)
    <2>1. ASSUME NEW i \in 1 .. Len(a) PROVE a[i].kind = b[i].kind
      <3>1. i \in 1 .. common /\ i \in 1 .. Len(b)
        BY <1>1, <1>5
      <3>2. Rank(a[i]) = Rank(b[i])
        BY <1>5, <3>1
      <3>3. a[i].kind \in Kinds /\ b[i].kind \in Kinds
        BY <3>1 DEF IsPattern
      <3>4. QED
        BY <3>2, <3>3 DEF Rank, Kinds
    <2>2. ASSUME NEW i \in 1 .. Len(a), a[i].kind = "literal" PROVE a[i].text = b[i].text
      <3>1. b[i].kind = "literal" /\ i \in 1 .. Len(b)
        BY <1>5, <2>1, <2>2
      <3>2. path[i] = a[i].text
        BY <2>2 DEF MatchSegments
      <3>3. path[i] = b[i].text
        BY <3>1 DEF MatchSegments
      <3>4. QED
        BY <3>2, <3>3
    <2>3. SameShape(a, b)
      BY <1>5, <2>1, <2>2 DEF SameShape
    <2>4. QED
      BY <2>3
  <1>6. QED
    BY <1>3, <1>4, <1>5

-----------------------------------------------------------------------------
\* The router's scan.

\* FindBest's recursion and the function it defines.
ScanStep(t, found, best, i) ==
    IF i = 0 THEN 0
    ELSE IF /\ i \in found
            /\ best[i - 1] = 0 \/ MoreSpecific(t[i].segments, t[best[i - 1]].segments)
         THEN i ELSE best[i - 1]
Scan(t, found) == CHOOSE best : best = [i \in 0 .. Len(t) |-> ScanStep(t, found, best, i)]

LEMMA BestIsScan ==
    \A t, m, p : FindBest(t, m, p) = Scan(t, Matches(t, m, p))[Len(t)]
  BY DEF FindBest, Scan, ScanStep

LEMMA ScanRecursion ==
    ASSUME NEW t, Len(t) \in Nat, NEW found
    PROVE  \A i \in 0 .. Len(t) : Scan(t, found)[i] = ScanStep(t, found, Scan(t, found), i)
  <1> DEFINE Good == {n \in Nat : \E h : h = [i \in 0 .. n |-> ScanStep(t, found, h, i)]}
  <1>1. 0 \in Good
    <2> DEFINE h == [i \in 0 .. 0 |-> 0]
    <2>1. h = [i \in 0 .. 0 |-> ScanStep(t, found, h, i)]
      BY DEF ScanStep
    <2> HIDE DEF h
    <2>2. QED
      BY <2>1
  <1>2. ASSUME NEW n \in Nat, n \in Good PROVE n + 1 \in Good
    <2>1. PICK h : h = [i \in 0 .. n |-> ScanStep(t, found, h, i)]
      BY <1>2
    <2> DEFINE g == [i \in 0 .. n + 1 |-> ScanStep(t, found, h, i)]
    <2>2. \A i \in 0 .. n : g[i] = h[i]
      BY <2>1
    <2>3. ASSUME NEW i \in 0 .. n + 1
          PROVE  ScanStep(t, found, h, i) = ScanStep(t, found, g, i)
      <3>1. i # 0 => i - 1 \in 0 .. n
        OBVIOUS
      <3>2. i # 0 => g[i - 1] = h[i - 1]
        BY <2>2, <3>1
      <3> HIDE DEF g
      <3>3. QED
        BY <3>2 DEF ScanStep
    <2>4. g = [i \in 0 .. n + 1 |-> ScanStep(t, found, g, i)]
      BY <2>3
    <2>5. \E k : k = [i \in 0 .. n + 1 |-> ScanStep(t, found, k, i)]
      <3> HIDE DEF g
      <3>1. QED
        BY <2>4
    <2>6. QED
      BY <2>5
  <1>3. \A n \in Nat : n \in Good
    <2> HIDE DEF Good
    <2>1. QED
      BY <1>1, <1>2, NumberInduction
  <1>4. PICK h : h = [i \in 0 .. Len(t) |-> ScanStep(t, found, h, i)]
    BY <1>3
  <1>5. Scan(t, found) = [i \in 0 .. Len(t) |-> ScanStep(t, found, Scan(t, found), i)]
    BY <1>4, Zenon DEF Scan
  <1>6. QED
    BY <1>5

\* A router's table: parsed patterns, no two of one shape under one method.
Clean(t) ==
    /\ Len(t) \in Nat /\ DOMAIN t = 1 .. Len(t)
    /\ \A i \in 1 .. Len(t) : IsPattern(t[i].segments)
    /\ \A i, j \in 1 .. Len(t) :
         i # j /\ t[i].method = t[j].method => ~SameShape(t[i].segments, t[j].segments)

\* What is kept after the first i routes: none of them matches, or the one
\* that is more specific than every other that does.
Kept(t, found, i, b) ==
    \/ b = 0 /\ \A j \in found : j > i
    \/ /\ b \in found /\ b <= i
       /\ \A j \in found : j <= i /\ j # b => MoreSpecific(t[b].segments, t[j].segments)

LEMMA ScanKeeps ==
    ASSUME NEW t, Clean(t), NEW method, NEW path
    PROVE  LET found == Matches(t, method, path)
           IN  \A i \in 0 .. Len(t) : Kept(t, found, i, Scan(t, found)[i])
  <1> DEFINE found == Matches(t, method, path)
             best == Scan(t, found)
             Good == {n \in Nat : n <= Len(t) => Kept(t, found, n, best[n])}
  <1>1. Len(t) \in Nat /\ found \subseteq 1 .. Len(t)
    BY DEF Clean, Matches
  <1>2. \A i \in 0 .. Len(t) : best[i] = ScanStep(t, found, best, i)
    BY <1>1, ScanRecursion
  <1>3. \A i, j \in found : i # j =>
          \/ MoreSpecific(t[i].segments, t[j].segments)
          \/ MoreSpecific(t[j].segments, t[i].segments)
    BY <1>1, NoTie DEF Clean, Matches
  <1>4. \A i, j, k \in found :
          /\ MoreSpecific(t[i].segments, t[j].segments)
          /\ MoreSpecific(t[j].segments, t[k].segments)
          => MoreSpecific(t[i].segments, t[k].segments)
    BY <1>1, SpecificTransitive DEF Clean
  <1> HIDE DEF found, best
  <1>5. 0 \in Good
    <2>1. best[0] = 0
      BY <1>1, <1>2 DEF ScanStep
    <2>2. QED
      BY <1>1, <2>1 DEF Kept
  <1>6. ASSUME NEW n \in Nat, n \in Good, n + 1 <= Len(t)
        PROVE  Kept(t, found, n + 1, best[n + 1])
    <2>1. Kept(t, found, n, best[n])
      BY <1>1, <1>6
    <2>2. n + 1 \in 0 .. Len(t) /\ n + 1 # 0 /\ (n + 1) - 1 = n
      BY <1>1, <1>6
    <2>3. best[n + 1] = IF /\ n + 1 \in found
                           /\ \/ best[n] = 0
                              \/ MoreSpecific(t[n + 1].segments, t[best[n]].segments)
                        THEN n + 1 ELSE best[n]
      BY <1>2, <2>2 DEF ScanStep
    <2>4. \A j \in found : j \in Nat /\ j # 0 /\ (j <= n + 1 <=> j <= n \/ j = n + 1)
      BY <1>1
    <2>5. CASE n + 1 \notin found
      BY <2>1, <2>3, <2>4, <2>5 DEF Kept
    <2>6. CASE n + 1 \in found /\ best[n] = 0
      <3>1. \A j \in found : j > n
        BY <2>1, <2>4, <2>6 DEF Kept
      <3>2. best[n + 1] = n + 1
        BY <2>3, <2>6
      <3>3. QED
        BY <2>4, <2>6, <3>1, <3>2 DEF Kept
    <2>7. CASE n + 1 \in found /\ best[n] # 0
      <3>1. /\ best[n] \in found /\ best[n] <= n
            /\ \A j \in found : j <= n /\ j # best[n] =>
                 MoreSpecific(t[best[n]].segments, t[j].segments)
        BY <2>1, <2>7 DEF Kept
      <3>2. CASE MoreSpecific(t[n + 1].segments, t[best[n]].segments)
        <4>1. best[n + 1] = n + 1
          BY <2>3, <2>7, <3>2
        <4>2. ASSUME NEW j \in found, j <= n
              PROVE  MoreSpecific(t[n + 1].segments, t[j].segments)
          BY <1>4, <2>7, <3>1, <3>2, <4>2
        <4>3. QED
          BY <2>4, <2>7, <4>1, <4>2 DEF Kept
      <3>3. CASE ~MoreSpecific(t[n + 1].segments, t[best[n]].segments)
        <4>1. best[n + 1] = best[n]
          BY <2>3, <2>7, <3>3
        <4>2. n + 1 # best[n]
          BY <2>4, <3>1
        <4>3. MoreSpecific(t[best[n]].segments, t[n + 1].segments)
          BY <1>3, <2>7, <3>1, <3>3, <4>2
        <4>4. QED
          BY <2>4, <3>1, <4>1, <4>3 DEF Kept
      <3>4. QED
        BY <3>2, <3>3
    <2>8. QED
      BY <2>5, <2>6, <2>7
  <1>7. \A n \in Nat : n \in Good
    <2>1. \A n \in Nat : n \in Good => n + 1 \in Good
      BY <1>6
    <2> HIDE DEF Good
    <2>2. QED
      BY <1>5, <2>1, NumberInduction
  <1>8. \A i \in 0 .. Len(t) : Kept(t, found, i, best[i])
    BY <1>1, <1>7
  <1>9. QED
    BY <1>8 DEF found, best

\* The scan finds a match when there is one, and none that another match
\* beats or ties with.
LEMMA FindBestIsBest ==
    ASSUME NEW t, Clean(t), NEW method, NEW path
    PROVE  LET found == Matches(t, method, path)
               b == FindBest(t, method, path)
           IN  /\ b = 0 <=> found = {}
               /\ b # 0 => /\ b \in found
                           /\ \A j \in found : j # b =>
                                /\ MoreSpecific(t[b].segments, t[j].segments)
                                /\ ~MoreSpecific(t[j].segments, t[b].segments)
  <1> DEFINE found == Matches(t, method, path)
             b == FindBest(t, method, path)
  <1>1. Len(t) \in Nat /\ found \subseteq 1 .. Len(t)
    BY DEF Clean, Matches
  <1>2. Kept(t, found, Len(t), b)
    <2>1. Len(t) \in 0 .. Len(t)
      BY <1>1
    <2>2. Kept(t, found, Len(t), Scan(t, found)[Len(t)])
      BY <2>1, ScanKeeps
    <2>3. QED
      BY <2>2, BestIsScan
  <1>3. \A i, j \in found : MoreSpecific(t[i].segments, t[j].segments) =>
                              ~MoreSpecific(t[j].segments, t[i].segments)
    BY <1>1, SpecificAsymmetric DEF Clean
  <1> HIDE DEF found, b
  <1>4. /\ b = 0 <=> found = {}
        /\ b # 0 => /\ b \in found
                    /\ \A j \in found : j # b =>
                         /\ MoreSpecific(t[b].segments, t[j].segments)
                         /\ ~MoreSpecific(t[j].segments, t[b].segments)
    <2>1. \A j \in found : j <= Len(t) /\ ~(j > Len(t)) /\ j # 0
      BY <1>1
    <2>2. QED
      BY <1>2, <1>3, <2>1 DEF Kept
  <1>5. QED
    BY <1>4 DEF found, b

-----------------------------------------------------------------------------
\* The inductive invariant.

Declared == Declarations \cup Streams
Methods == Known \cup {"CUSTOM"}
Operations == {"", "/metrics", "/health"} \cup {d.operation : d \in Declared}
Keys == (Methods \cup {"(unparsed)"}) \X (Operations \cup {"unmatched"})
Stats == [requests : Nat, success : Nat, failure : Nat, timed : Nat,
          buckets : [DOMAIN Buckets -> Nat]]
Endings == {"plain", "identified", "threw"}
Frames == [pc : {"start", "inner", "complete", "respond", "answered", "upgraded", "unserved"},
           in : Inputs, trace : Requests \cup {"client", "none"}, status : Nat,
           operation : Operations, route : Nat, ended : Endings,
           correlation : Requests \cup {"client", "none", "handler"}, exposed : SUBSET (Keys \X Stats)]
RouteRows == [method : {d.method : d \in Declared},
              segments : {ParsePattern(d.pattern) : d \in {e \in Declared : Parses(e.pattern)}},
              operation : {d.operation : d \in Declared}]

\* The registry's maps.
StatTypes ==
    /\ DOMAIN stats \subseteq Keys /\ IsFiniteSet(DOMAIN stats)
    /\ \A k \in DOMAIN stats : stats[k] \in Stats
    /\ dropped \in Nat
FamilyTypes ==
    /\ family = [samples |-> family.samples, dropped |-> family.dropped]
    /\ IsFiniteSet(DOMAIN family.samples)
    /\ \A l \in DOMAIN family.samples : family.samples[l] \in Stats
Types ==
    /\ req \in [Requests -> Frames \cup {Idle}]
    /\ StatTypes /\ FamilyTypes
    /\ inFlight \in [DOMAIN inFlight -> Nat] /\ DOMAIN inFlight \subseteq Methods
    /\ rejections \in Nat

\* The two routers: no two routes of one shape under one method.
TableInv(t) ==
    /\ t \in Seq(RouteRows)
    /\ \A i, j \in 1 .. Len(t) :
         i # j /\ t[i].method = t[j].method => ~SameShape(t[i].segments, t[j].segments)
RoutesInv == TableInv(table) /\ TableInv(streams.routes)

\* Nothing is served before the routes are in place, so that the tables a
\* request was routed by are the tables of now.
ServeInv == wiring # {} => \A r \in Requests : req[r] = Idle

\* One series: successes and failures add up, and no more is filed than timed.
Filed(s) == SumOf(s.buckets) <= s.timed
Whole(s) == s.requests = s.success + s.failure /\ Filed(s) /\ s.timed <= s.requests

\* AnswersAreSound of one frame, under the tables t and u.
Sound(x, t, u) ==
    LET in == x.in
        routes == IF in.upgrade THEN u ELSE t
    IN  /\ x.route # 0 =>
             /\ in.target.ok
             /\ \A i \in Matches(routes, in.method, NormalizedTarget(in.target.path)) :
                  i # x.route =>
                    /\ MoreSpecific(routes[x.route].segments, routes[i].segments)
                    /\ ~MoreSpecific(routes[i].segments, routes[x.route].segments)
        /\ x.route # 0 /\ ~in.upgrade => in.admitted /\ in.authorized
        /\ in.upgrade /\ x.route # 0 => x.status = 0
        /\ x.pc \in {"answered", "unserved"} =>
             IF x.status >= 500
             THEN x.correlation = IF x.ended = "identified" THEN "handler" ELSE x.trace
             ELSE x.correlation \in {"none", "handler"}
        /\ x.trace = "client" => in.traces = <<"valid">>
        /\ x.trace = "none" <=> x.pc = "unserved"

\* A frame: an upgrade stays off the chain, only a scrape has the metrics
\* endpoint's name, and what a scrape saw was whole.
FrameInv(x) ==
    /\ x.pc = "upgraded" <=> x.in.upgrade
    /\ x.pc \in {"start", "inner", "complete"} => x.operation # "/metrics"
    /\ \A e \in x.exposed : Whole(e[2])
    /\ Sound(x, table, streams.routes)
FramesInv == \A r \in Requests : req[r] # Idle => FrameInv(req[r])

\* The gauge: a method that has none has nothing in flight.
Flying(m) == {r \in Recorded({"inner", "complete"}) : NormalizeMethod(req[r].in.method) = m}
GaugeInv ==
    /\ startWired => \A m \in Methods :
         IF m \in DOMAIN inFlight THEN inFlight[m] = Cardinality(Flying(m)) ELSE Flying(m) = {}
    /\ ~startWired => DOMAIN inFlight = {}

\* The series.
Done == {r \in Recorded({"respond", "answered"}) : req[r].operation # "/metrics"}
Counted == SumOf([k \in DOMAIN stats |-> stats[k].requests]) + dropped
TallyInv == Counted = rejections + Cardinality(Done)
SeriesInv ==
    /\ Cardinality(DOMAIN stats) <= MaxSeries
    /\ \A k \in DOMAIN stats : Whole(stats[k])
FamilyInv ==
    /\ Cardinality(DOMAIN family.samples) <= MaxSeries
    /\ \A l \in DOMAIN family.samples : Filed(family.samples[l])

IInv == /\ Types /\ RoutesInv /\ ServeInv /\ FramesInv
        /\ GaugeInv /\ TallyInv /\ SeriesInv /\ FamilyInv

-----------------------------------------------------------------------------
\* Tables.

LEMMA ParsedIsPattern ==
    ASSUME NEW d \in Declared, Parses(d.pattern)
    PROVE  IsPattern(ParsePattern(d.pattern))
  <1> DEFINE n == Len(d.pattern.parts)
             a == ParsePattern(d.pattern)
  <1>1. n \in Nat /\ \A i \in 1 .. n :
          d.pattern.parts[i].form \in {"literal", "label", "greedy", "emptyLabel", "empty"}
    BY RoutesAssumption DEF Declared
  <1>2. \A i \in 1 .. n : d.pattern.parts[i].form \in Kinds
    BY <1>1 DEF Parses, Kinds
  <1>3. a = [i \in 1 .. n |-> [kind |-> d.pattern.parts[i].form, text |-> d.pattern.parts[i].text]]
    BY DEF ParsePattern
  <1>4. Len(a) = n
    <2>1. n \in Nat /\ DOMAIN a = 1 .. n
      BY <1>1, <1>3
    <2> DEFINE S == {a[i] : i \in 1 .. n}
    <2>2. a \in [1 .. n -> S]
      BY <1>3
    <2>3. a \in Seq(S)
      BY <1>1, <2>2, SeqDef
    <2>4. DOMAIN a = 1 .. Len(a) /\ Len(a) \in Nat
      BY <2>3, LenProperties
    <2>5. QED
      BY <2>1, <2>4
  <1>5. \A i \in 1 .. n : a[i].kind = d.pattern.parts[i].form
    BY <1>3
  <1>6. QED
    BY <1>1, <1>2, <1>4, <1>5 DEF IsPattern

LEMMA TableClean == ASSUME NEW t, TableInv(t) PROVE Clean(t)
  <1>1. t \in Seq(RouteRows)
    BY DEF TableInv
  <1>2. Len(t) \in Nat /\ DOMAIN t = 1 .. Len(t) /\ \A i \in 1 .. Len(t) : t[i] \in RouteRows
    BY <1>1, LenProperties, ElementOfSeq
  <1>3. \A i \in 1 .. Len(t) : IsPattern(t[i].segments)
    BY <1>2, ParsedIsPattern DEF RouteRows
  <1>4. QED
    BY <1>2, <1>3 DEF Clean, TableInv

LEMMA SameShapeSymmetric ==
    ASSUME NEW a, NEW b, SameShape(a, b) PROVE SameShape(b, a)
  BY DEF SameShape

LEMMA AddKeepsTable ==
    ASSUME NEW t, TableInv(t), NEW d \in Declared
    PROVE  TableInv(AddRoute(t, d.method, d.pattern, d.operation))
  <1> DEFINE a == ParsePattern(d.pattern)
             row == [method |-> d.method, segments |-> a, operation |-> d.operation]
             u == AddRoute(t, d.method, d.pattern, d.operation)
  <1>1. CASE ~Parses(d.pattern) \/ Conflicts(t, d.method, a)
    BY <1>1 DEF AddRoute
  <1>2. CASE Parses(d.pattern) /\ ~Conflicts(t, d.method, a)
    <2>1. t \in Seq(RouteRows) /\ Len(t) \in Nat /\ DOMAIN t = 1 .. Len(t)
      BY LenProperties DEF TableInv
    <2>2. row \in RouteRows
      BY <1>2 DEF RouteRows
    <2>3. u = Append(t, row)
      BY <1>2 DEF AddRoute
    <2>4. /\ u \in Seq(RouteRows) /\ Len(u) = Len(t) + 1
          /\ \A i \in 1 .. Len(t) : u[i] = t[i]
          /\ u[Len(t) + 1] = row
      BY <2>1, <2>2, <2>3, AppendProperties
    <2>5. row.method = d.method /\ row.segments = a
      OBVIOUS
    <2> HIDE DEF row, u, a
    <2>6. \A i \in 1 .. Len(t) : t[i].method = d.method => ~SameShape(t[i].segments, a)
      BY <1>2, <2>1 DEF Conflicts
    <2>7. ASSUME NEW i \in 1 .. Len(u), NEW j \in 1 .. Len(u), i # j, u[i].method = u[j].method
          PROVE  ~SameShape(u[i].segments, u[j].segments)
      <3>1. CASE i \in 1 .. Len(t) /\ j \in 1 .. Len(t)
        BY <2>4, <2>7, <3>1 DEF TableInv
      <3>2. CASE i \in 1 .. Len(t) /\ j = Len(t) + 1
        BY <2>4, <2>5, <2>6, <2>7, <3>2
      <3>3. CASE i = Len(t) + 1 /\ j \in 1 .. Len(t)
        BY <2>4, <2>5, <2>6, <2>7, <3>3, SameShapeSymmetric
      <3>4. QED
        BY <2>1, <2>4, <2>7, <3>1, <3>2, <3>3
    <2>8. QED
      BY <2>4, <2>7 DEF TableInv, u
  <1>3. QED
    BY <1>1, <1>2

\* What Route answers with.
LEMMA RouteFinds ==
    ASSUME NEW t, TableInv(t), NEW method, NEW target
    PROVE  LET found == Route(t, method, target)
           IN  /\ found.status \in Nat /\ found.route \in Nat
               /\ found.route # 0 => found.status = 0
               /\ found.route # 0 =>
                    /\ target.ok
                    /\ found.route = FindBest(t, method, NormalizedTarget(target.path))
                    /\ found.route \in 1 .. Len(t) /\ t[found.route] \in RouteRows
  <1>1. t \in Seq(RouteRows) /\ Len(t) \in Nat /\ DOMAIN t = 1 .. Len(t)
    BY LenProperties DEF TableInv
  <1>2. \A i \in 1 .. Len(t) : t[i] \in RouteRows
    BY <1>1, ElementOfSeq
  <1> DEFINE b == FindBest(t, method, NormalizedTarget(target.path))
  <1>3. b = 0 \/ b \in 1 .. Len(t)
    BY <1>1, TableClean, FindBestIsBest DEF Matches
  <1> HIDE DEF b
  <1>4. \/ Route(t, method, target).route = 0
           /\ Route(t, method, target).status \in {400, 404, 405}
        \/ /\ target.ok /\ b # 0
           /\ Route(t, method, target).route = b /\ Route(t, method, target).status = 0
    BY DEF Route, b
  <1>5. QED
    BY <1>1, <1>2, <1>3, <1>4 DEF b

-----------------------------------------------------------------------------
\* Series.

\* A key that is known, or for which there is room, keeps a map in its cap.
LEMMA OneMore ==
    ASSUME NEW S, IsFiniteSet(S), Cardinality(S) <= MaxSeries,
           NEW k, k \in S \/ Cardinality(S) < MaxSeries
    PROVE  IsFiniteSet(S \cup {k}) /\ Cardinality(S \cup {k}) <= MaxSeries
  <1>1. Cardinality(S) \in Nat /\ MaxSeries \in Nat
    BY FS_CardinalityType, LimitsAssumption
  <1>2. /\ IsFiniteSet(S \cup {k})
        /\ Cardinality(S \cup {k}) = IF k \in S THEN Cardinality(S) ELSE Cardinality(S) + 1
    BY FS_AddElement
  <1>3. QED
    BY <1>1, <1>2

LEMMA BucketsFinite == IsFiniteSet(DOMAIN Buckets)
  <1>1. DOMAIN Buckets = 1 .. Len(Buckets) /\ Len(Buckets) \in Nat
    BY LimitsAssumption, LenProperties
  <1>2. QED
    BY <1>1, FS_Interval

LEMMA BucketsSum ==
    ASSUME NEW b \in [DOMAIN Buckets -> Nat]
    PROVE  NatMap(b) /\ SumOf(b) \in Nat
  BY BucketsFinite, SumType DEF NatMap

\* A value is filed in one bucket, or in none.
LEMMA FiledOnce ==
    ASSUME NEW b \in [DOMAIN Buckets -> Nat], NEW value
    PROVE  /\ FileIn(b, value) \in [DOMAIN Buckets -> Nat]
           /\ SumOf(FileIn(b, value)) <= SumOf(b) + 1
  <1> DEFINE g == FileIn(b, value)
             k == BucketOf(value)
  <1>1. g = [d \in DOMAIN Buckets |-> b[d] + (IF d = k THEN 1 ELSE 0)]
    BY DEF FileIn
  <1> HIDE DEF k
  <1>2. g \in [DOMAIN Buckets -> Nat]
    BY <1>1
  <1> HIDE DEF g
  <1>3. NatMap(b) /\ NatMap(g) /\ SumOf(b) \in Nat /\ SumOf(g) \in Nat
    BY <1>2, BucketsSum
  <1>4. CASE k \in DOMAIN Buckets
    <2>1. SumOf(g) + b[k] = SumOf(b) + g[k]
      <3>1. DOMAIN b = DOMAIN Buckets /\ DOMAIN g = DOMAIN Buckets
        BY <1>2
      <3>2. \A j \in DOMAIN b : j # k => g[j] = b[j]
        BY <1>1, <3>1
      <3>3. QED
        BY <1>3, <1>4, <3>1, <3>2, SumChange
    <2>2. g[k] = b[k] + 1 /\ b[k] \in Nat
      BY <1>1, <1>4
    <2>3. QED
      BY <1>2, <1>3, <2>1, <2>2 DEF g
  <1>5. CASE k \notin DOMAIN Buckets
    <2>1. g = b
      BY <1>1, <1>5
    <2>2. QED
      BY <1>2, <1>3, <2>1 DEF g
  <1>6. QED
    BY <1>4, <1>5

LEMMA ZeroIsWhole == ZeroStats \in Stats /\ Whole(ZeroStats) /\ ZeroStats.requests = 0
  <1>1. ZeroStats \in Stats /\ ZeroStats.requests = 0 /\ ZeroStats.success = 0
        /\ ZeroStats.failure = 0 /\ ZeroStats.timed = 0
        /\ ZeroStats.buckets = [b \in DOMAIN Buckets |-> 0]
    BY DEF ZeroStats, Stats
  <1>2. SumOf([b \in DOMAIN Buckets |-> 0]) = 0
    BY BucketsFinite, SumZero
  <1>3. QED
    BY <1>1, <1>2 DEF Whole, Filed

\* One observation: in the tally, and in the histogram when timed.
LEMMA TallyWhole ==
    ASSUME NEW s \in Stats, Whole(s), NEW status
    PROVE  LET n == Tally(s, status) IN
           n \in Stats /\ Whole(n) /\ n.requests = s.requests + 1 /\ n.timed + 1 <= n.requests
  <1> DEFINE n == Tally(s, status)
  <1>1. /\ n \in Stats /\ n.requests = s.requests + 1
        /\ n.success = s.success + (IF status < 400 THEN 1 ELSE 0)
        /\ n.failure = s.failure + (IF status < 400 THEN 0 ELSE 1)
        /\ n.timed = s.timed /\ n.buckets = s.buckets
    <2> DEFINE up == IF status < 400 THEN 1 ELSE 0
               down == IF status < 400 THEN 0 ELSE 1
    <2>1. n = [s EXCEPT !.requests = @ + 1, !.success = @ + up, !.failure = @ + down]
      BY DEF Tally
    <2>2. up \in Nat /\ down \in Nat
      OBVIOUS
    <2> HIDE DEF up, down, n
    <2>3. /\ n \in Stats /\ n.requests = s.requests + 1
          /\ n.success = s.success + up /\ n.failure = s.failure + down
          /\ n.timed = s.timed /\ n.buckets = s.buckets
      <3> DEFINE m == [s EXCEPT !.requests = s.requests + 1]
                 k == [m EXCEPT !.success = m.success + up]
      <3>1. m \in Stats /\ m.requests = s.requests + 1 /\ m.success = s.success
            /\ m.failure = s.failure /\ m.timed = s.timed /\ m.buckets = s.buckets
        BY DEF Stats
      <3>2. n = [[m EXCEPT !.success = m.success + up] EXCEPT !.failure = m.failure + down]
        BY <2>1 DEF Stats
      <3> HIDE DEF m
      <3>3. k \in Stats /\ k.requests = m.requests /\ k.success = m.success + up
            /\ k.failure = m.failure /\ k.timed = m.timed /\ k.buckets = m.buckets
        BY <2>2, <3>1 DEF Stats
      <3>4. n = [k EXCEPT !.failure = k.failure + down]
        BY <3>2, <3>3
      <3> HIDE DEF k
      <3>5. n \in Stats /\ n.requests = k.requests /\ n.success = k.success
            /\ n.failure = k.failure + down /\ n.timed = k.timed /\ n.buckets = k.buckets
        BY <2>2, <3>3, <3>4 DEF Stats
      <3>6. QED
        BY <3>1, <3>3, <3>5
    <2>4. QED
      BY <2>3 DEF up, down
  <1>2. /\ s.requests \in Nat /\ s.success \in Nat /\ s.failure \in Nat /\ s.timed \in Nat
    BY DEF Stats
  <1> HIDE DEF n
  <1>3. n.requests = n.success + n.failure /\ n.timed + 1 <= n.requests /\ n.timed <= n.requests
    BY <1>1, <1>2 DEF Whole
  <1>4. QED
    BY <1>1, <1>3 DEF Whole, Filed, n

LEMMA TimedFiled ==
    ASSUME NEW s \in Stats, Filed(s), NEW value
    PROVE  LET n == [s EXCEPT !.timed = @ + 1, !.buckets = FileIn(@, value)] IN
           /\ n \in Stats /\ Filed(n) /\ n.requests = s.requests
           /\ n.success = s.success /\ n.failure = s.failure /\ n.timed = s.timed + 1
  <1> DEFINE n == [s EXCEPT !.timed = @ + 1, !.buckets = FileIn(@, value)]
  <1>1. s.buckets \in [DOMAIN Buckets -> Nat] /\ s.timed \in Nat
    BY DEF Stats
  <1>2. /\ FileIn(s.buckets, value) \in [DOMAIN Buckets -> Nat]
        /\ SumOf(FileIn(s.buckets, value)) <= SumOf(s.buckets) + 1
    BY <1>1, FiledOnce
  <1>3. /\ n \in Stats /\ n.requests = s.requests /\ n.success = s.success
        /\ n.failure = s.failure /\ n.timed = s.timed + 1
        /\ n.buckets = FileIn(s.buckets, value)
    <2> DEFINE b == FileIn(s.buckets, value)
    <2>1. n = [s EXCEPT !.timed = s.timed + 1, !.buckets = b]
      OBVIOUS
    <2>2. b \in [DOMAIN Buckets -> Nat] /\ s.timed + 1 \in Nat
      BY <1>1, <1>2
    <2> HIDE DEF b, n
    <2>3. QED
      BY <2>1, <2>2 DEF Stats, b
  <1>4. SumOf(s.buckets) \in Nat /\ SumOf(FileIn(s.buckets, value)) \in Nat
    BY <1>1, <1>2, BucketsSum
  <1> HIDE DEF n
  <1>5. Filed(n)
    BY <1>1, <1>2, <1>3, <1>4 DEF Filed
  <1>6. QED
    BY <1>3, <1>5 DEF n

\* AdmitRoute and what follows it: one more observation is counted, whether
\* its series is admitted or refused.
LEMMA AdmitStep ==
    ASSUME StatTypes, SeriesInv, NEW key \in Keys, NEW status, NEW timed \in BOOLEAN,
           NEW duration, Admit(key, status, timed, duration)
    PROVE  StatTypes' /\ SeriesInv' /\ Counted \in Nat /\ Counted' = Counted + 1
  <1> DEFINE f == [k \in DOMAIN stats |-> stats[k].requests]
             g == [k \in DOMAIN stats' |-> stats'[k].requests]
  <1>1. NatMap(f) /\ SumOf(f) \in Nat /\ dropped \in Nat
    <2>1. NatMap(f)
      BY DEF NatMap, StatTypes, Stats
    <2>2. QED
      BY <2>1, SumType DEF StatTypes
  <1>2. Counted = SumOf(f) + dropped /\ Counted' = SumOf(g) + dropped'
    BY DEF Counted
  <1>3. CASE key \in DOMAIN stats \/ Cardinality(DOMAIN stats) < MaxSeries
    <2> DEFINE old == IF key \in DOMAIN stats THEN stats[key] ELSE ZeroStats
               new == Tally(old, status)
               put == IF timed THEN [new EXCEPT !.timed = @ + 1, !.buckets = FileIn(@, duration)]
                      ELSE new
    <2>1. stats' = With(stats, key, put) /\ dropped' = dropped
      BY <1>3 DEF Admit
    <2>2. old \in Stats /\ Whole(old)
      BY ZeroIsWhole DEF StatTypes, SeriesInv
    <2> HIDE DEF old
    <2>3. new \in Stats /\ Whole(new) /\ new.requests = old.requests + 1
          /\ new.timed + 1 <= new.requests
      BY <2>2, TallyWhole
    <2> HIDE DEF new
    <2>4. put \in Stats /\ Whole(put) /\ put.requests = old.requests + 1
      <3>1. CASE timed
        <4>1. /\ put \in Stats /\ Filed(put) /\ put.requests = new.requests
              /\ put.success = new.success /\ put.failure = new.failure
              /\ put.timed = new.timed + 1
          BY <2>3, <3>1, TimedFiled DEF Whole
        <4> HIDE DEF put
        <4>2. QED
          BY <2>3, <4>1 DEF Whole
      <3>2. CASE ~timed
        BY <2>3, <3>2
      <3>3. QED
        BY <3>1, <3>2
    <2> HIDE DEF put
    <2>5. /\ DOMAIN stats' = DOMAIN stats \cup {key} /\ stats'[key] = put
          /\ \A k \in DOMAIN stats : k # key => stats'[k] = stats[k]
      BY <2>1 DEF With
    <2>6. IsFiniteSet(DOMAIN stats') /\ Cardinality(DOMAIN stats') <= MaxSeries
      <3>1. IsFiniteSet(DOMAIN stats)
        BY DEF StatTypes
      <3>2. QED
        BY <1>3, <2>5, <3>1, OneMore DEF SeriesInv
    <2>7. \A k \in DOMAIN stats' : stats'[k] \in Stats /\ Whole(stats'[k])
      BY <2>4, <2>5 DEF StatTypes, SeriesInv
    <2>8. StatTypes' /\ SeriesInv'
      BY <2>1, <2>5, <2>6, <2>7, <1>1 DEF StatTypes, SeriesInv
    <2>9. SumOf(g) = SumOf(f) + 1
      <3>1. NatMap(g)
        BY <2>6, <2>7 DEF NatMap, Stats
      <3>2. DOMAIN f = DOMAIN stats /\ DOMAIN g = DOMAIN stats \cup {key}
        BY <2>5
      <3>3. g[key] = old.requests + 1 /\ \A k \in DOMAIN f : k # key => g[k] = f[k]
        BY <2>4, <2>5
      <3>4. key \in DOMAIN f => f[key] = old.requests
        BY DEF old
      <3>5. key \notin DOMAIN f => old.requests = 0
        BY ZeroIsWhole DEF old
      <3> HIDE DEF f, g
      <3>6. CASE key \in DOMAIN f
        <4>1. SumOf(g) + f[key] = SumOf(f) + g[key]
          BY <1>1, <3>1, <3>2, <3>3, <3>6, SumChange
        <4>2. SumOf(g) \in Nat /\ f[key] \in Nat
          BY <1>1, <3>1, <3>6, SumType DEF NatMap
        <4>3. QED
          BY <1>1, <3>3, <3>4, <3>6, <4>1, <4>2
      <3>7. CASE key \notin DOMAIN f
        <4>1. SumOf(g) = SumOf(f) + g[key]
          BY <1>1, <3>1, <3>2, <3>3, <3>7, SumGrow
        <4>2. QED
          BY <3>3, <3>5, <3>7, <4>1
      <3>8. QED
        BY <3>6, <3>7
    <2>10. QED
      BY <1>1, <1>2, <2>1, <2>8, <2>9
  <1>4. CASE ~(key \in DOMAIN stats \/ Cardinality(DOMAIN stats) < MaxSeries)
    <2>1. dropped' = dropped + 1 /\ stats' = stats
      BY <1>4 DEF Admit
    <2>2. StatTypes' /\ SeriesInv'
      BY <2>1, <1>1 DEF StatTypes, SeriesInv
    <2>3. QED
      BY <1>1, <1>2, <2>1, <2>2
  <1>5. QED
    BY <1>3, <1>4

\* A handler's histogram.
LEMMA FamilyStep ==
    ASSUME FamilyTypes, FamilyInv, NEW op, NEW label, NEW value, FamilyOp(op, label, value)
    PROVE  FamilyTypes' /\ FamilyInv'
  <1> DEFINE samples == family.samples
             known == label \in DOMAIN samples
             room == Cardinality(DOMAIN samples) < MaxSeries
             old == IF known THEN samples[label] ELSE ZeroStats
             new == IF op = "observe"
                    THEN [old EXCEPT !.timed = @ + 1, !.buckets = FileIn(@, value)] ELSE old
  <1>1. family = [samples |-> samples, dropped |-> family.dropped]
    BY DEF FamilyTypes
  <1>2. old \in Stats /\ Filed(old)
    BY ZeroIsWhole DEF FamilyTypes, FamilyInv, Whole
  <1>3. family' = IF known \/ room THEN [family EXCEPT !.samples = With(samples, label, new)]
                  ELSE [family EXCEPT !.dropped = @ + 1]
    BY DEF FamilyOp
  <1> HIDE DEF old
  <1>4. new \in Stats /\ Filed(new)
    BY <1>2, TimedFiled
  <1> HIDE DEF new
  <1>5. CASE known \/ room
    <2> DEFINE put == With(samples, label, new)
    <2>1. family' = [samples |-> put, dropped |-> family.dropped]
      BY <1>1, <1>3, <1>5
    <2>2. /\ DOMAIN put = DOMAIN samples \cup {label} /\ put[label] = new
          /\ \A l \in DOMAIN samples : l # label => put[l] = samples[l]
      BY DEF With
    <2> HIDE DEF put
    <2>3. /\ family'.samples = put
          /\ family' = [samples |-> family'.samples, dropped |-> family'.dropped]
      BY <2>1
    <2>4. \A l \in DOMAIN put : put[l] \in Stats /\ Filed(put[l])
      BY <1>4, <2>2 DEF FamilyTypes, FamilyInv
    <2>5. IsFiniteSet(DOMAIN put) /\ Cardinality(DOMAIN put) <= MaxSeries
      <3>1. IsFiniteSet(DOMAIN samples)
        BY DEF FamilyTypes
      <3>2. QED
        BY <1>5, <2>2, <3>1, OneMore DEF FamilyInv
    <2>6. QED
      BY <2>3, <2>4, <2>5 DEF FamilyTypes, FamilyInv
  <1>6. CASE ~(known \/ room)
    <2>1. family' = [samples |-> samples, dropped |-> family.dropped + 1]
      BY <1>1, <1>3, <1>6
    <2>2. /\ family'.samples = samples
          /\ family' = [samples |-> family'.samples, dropped |-> family'.dropped]
      BY <2>1
    <2>3. QED
      BY <2>2 DEF FamilyTypes, FamilyInv
  <1>7. QED
    BY <1>5, <1>6

-----------------------------------------------------------------------------
\* A step of one request, from its frame to y.

LEMMA FrameMove ==
    ASSUME Types, FramesInv, NEW r \in Requests, NEW y \in Frames, FrameInv(y), wiring = {},
           req' = [req EXCEPT ![r] = y], UNCHANGED <<wiring, table, streams>>
    PROVE  /\ req' \in [Requests -> Frames \cup {Idle}] /\ ServeInv' /\ FramesInv'
           /\ req'[r] = y /\ \A q \in Requests : q # r => req'[q] = req[q]
  <1>1. req' \in [Requests -> Frames \cup {Idle}]
    BY DEF Types
  <1>2. req'[r] = y /\ \A q \in Requests : q # r => req'[q] = req[q]
    BY DEF Types
  <1>3. ServeInv'
    BY DEF ServeInv
  <1>4. ASSUME NEW q \in Requests, req'[q] # Idle PROVE FrameInv(req[q])'
    <2>1. CASE q = r
      BY <1>2, <2>1 DEF FrameInv
    <2>2. CASE q # r
      BY <1>2, <1>4, <2>2 DEF FramesInv, FrameInv
    <2>3. QED
      BY <2>1, <2>2
  <1>5. FramesInv'
    BY <1>4 DEF FramesInv
  <1>6. QED
    BY <1>1, <1>2, <1>3, <1>5

\* It stays where it is as far as the gauge goes, or the tally.
LEMMA FlyingKept ==
    ASSUME NEW r \in Requests, \A q \in Requests : q # r => req'[q] = req[q],
           req'[r].pc \in {"inner", "complete"} <=> req[r].pc \in {"inner", "complete"},
           req[r].pc \in {"inner", "complete"} => req'[r].in = req[r].in
    PROVE  \A m : Flying(m)' = Flying(m)
  BY DEF Flying, Recorded

LEMMA DoneKept ==
    ASSUME NEW r \in Requests, \A q \in Requests : q # r => req'[q] = req[q],
           req'[r].pc \in {"respond", "answered"} /\ req'[r].operation # "/metrics"
             <=> req[r].pc \in {"respond", "answered"} /\ req[r].operation # "/metrics"
    PROVE  Done' = Done
  BY DEF Done, Recorded

LEMMA GaugeKept ==
    ASSUME GaugeInv, UNCHANGED <<startWired, inFlight>>, \A m : Flying(m)' = Flying(m)
    PROVE  GaugeInv'
  BY DEF GaugeInv

LEMMA MethodType == \A m : NormalizeMethod(m) \in Methods
  BY DEF NormalizeMethod, Methods

LEMMA RequestsFinite ==
    /\ \A m : IsFiniteSet(Flying(m)) /\ Cardinality(Flying(m)) \in Nat
    /\ IsFiniteSet(Done) /\ Cardinality(Done) \in Nat
  <1>1. \A m : Flying(m) \in SUBSET Requests
    BY DEF Flying, Recorded
  <1>2. Done \in SUBSET Requests
    BY DEF Done, Recorded
  <1>3. QED
    BY <1>1, <1>2, RequestsAssumption, FS_Subset, FS_CardinalityType

-----------------------------------------------------------------------------
\* The actions.

LEMMA InitIInv == Init => IInv
  <1> SUFFICES ASSUME Init PROVE IInv
    OBVIOUS
  <1>1. \A r \in Requests : req[r] = Idle /\ req[r].pc = "idle"
    BY DEF Init, Idle
  <1>2. DOMAIN stats = {} /\ DOMAIN inFlight = {} /\ dropped = 0 /\ rejections = 0
    BY DEF Init
  <1>3. family = [samples |-> [l \in {} |-> ZeroStats], dropped |-> 0]
    BY DEF Init
  <1>4. DOMAIN family.samples = {}
    BY <1>3
  <1>5. Types
    <2>1. req \in [Requests -> Frames \cup {Idle}]
      BY DEF Init
    <2>2. StatTypes
      BY <1>2, FS_EmptySet DEF StatTypes
    <2>3. FamilyTypes
      BY <1>3, <1>4, FS_EmptySet DEF FamilyTypes
    <2>4. inFlight \in [DOMAIN inFlight -> Nat]
      BY DEF Init
    <2>5. QED
      BY <1>2, <2>1, <2>2, <2>3, <2>4 DEF Types
  <1>6. RoutesInv
    <2>1. table = <<>> /\ streams.routes = <<>>
      BY DEF Init, EmptyStreamRouter
    <2>2. <<>> \in Seq(RouteRows) /\ Len(<<>>) = 0
      BY EmptySeq
    <2>3. QED
      BY <2>1, <2>2 DEF RoutesInv, TableInv
  <1>7. ServeInv /\ FramesInv
    BY <1>1 DEF ServeInv, FramesInv
  <1>8. (\A m : Flying(m) = {}) /\ Done = {}
    BY <1>1 DEF Flying, Done, Recorded
  <1>9. GaugeInv
    BY <1>2, <1>8 DEF GaugeInv
  <1>10. TallyInv
    <2>1. SumOf([k \in DOMAIN stats |-> stats[k].requests]) = 0
      BY <1>2, SumEmpty
    <2>2. QED
      BY <1>2, <1>8, <2>1, FS_EmptySet DEF TallyInv, Counted
  <1>11. SeriesInv /\ FamilyInv
    BY <1>2, <1>4, FS_EmptySet, LimitsAssumption DEF SeriesInv, FamilyInv
  <1>12. QED
    BY <1>5, <1>6, <1>7, <1>9, <1>10, <1>11 DEF IInv

\* A route is added while nothing is served.
LEMMA DeclareKeeps ==
    ASSUME IInv, NEW d \in Declared, Declare(d)
    PROVE  IInv'
  <1>1. UNCHANGED <<req, startWired, rejections, inFlight, stats, dropped, family>>
    BY DEF Declare, registry
  <1>2. \A r \in Requests : req[r] = Idle
    BY DEF IInv, ServeInv, Declare
  <1>3. RoutesInv'
    <2>1. table' = table \/ table' = AddRoute(table, d.method, d.pattern, d.operation)
      BY DEF Declare
    <2>2. TableInv(table')
      BY <2>1, AddKeepsTable DEF IInv, RoutesInv
    <2>3. \/ streams' = streams
          \/ streams' = AddStream(streams, d.seam, d.method, d.pattern, d.operation)
      BY DEF Declare
    <2>4. \/ streams'.routes = streams.routes
          \/ streams'.routes = AddRoute(streams.routes, d.method, d.pattern, d.operation)
      BY <2>3 DEF AddStream
    <2>5. TableInv(streams'.routes)
      BY <2>4, AddKeepsTable DEF IInv, RoutesInv
    <2>6. QED
      BY <2>2, <2>5 DEF RoutesInv, TableInv
  <1>4. ServeInv' /\ FramesInv'
    BY <1>1, <1>2 DEF ServeInv, FramesInv
  <1>5. (\A m : Flying(m)' = Flying(m)) /\ Done' = Done
    BY <1>1 DEF Flying, Done, Recorded
  <1>6. GaugeInv' /\ TallyInv'
    BY <1>1, <1>5, GaugeKept DEF IInv, TallyInv, Counted
  <1>7. Types' /\ SeriesInv' /\ FamilyInv'
    BY <1>1 DEF IInv, Types, StatTypes, FamilyTypes, SeriesInv, FamilyInv
  <1>8. QED
    BY <1>3, <1>4, <1>6, <1>7 DEF IInv

\* A step of a request that the registry has no part in.
LEMMA QuietStep ==
    ASSUME IInv, NEW r \in Requests, NEW y \in Frames, FrameInv(y), wiring = {},
           req' = [req EXCEPT ![r] = y],
           UNCHANGED <<wiring, table, streams, startWired, rejections, inFlight, stats, dropped>>,
           FamilyTypes', FamilyInv',
           y.pc \in {"inner", "complete"} <=> req[r].pc \in {"inner", "complete"},
           req[r].pc \in {"inner", "complete"} => y.in = req[r].in,
           y.pc \in {"respond", "answered"} /\ y.operation # "/metrics"
             <=> req[r].pc \in {"respond", "answered"} /\ req[r].operation # "/metrics"
    PROVE  IInv'
  <1>1. /\ req' \in [Requests -> Frames \cup {Idle}] /\ ServeInv' /\ FramesInv'
        /\ req'[r] = y /\ \A q \in Requests : q # r => req'[q] = req[q]
    BY FrameMove DEF IInv
  <1>2. (\A m : Flying(m)' = Flying(m)) /\ Done' = Done
    BY <1>1, FlyingKept, DoneKept
  <1>3. GaugeInv' /\ TallyInv'
    BY <1>2, GaugeKept DEF IInv, TallyInv, Counted
  <1>4. RoutesInv'
    BY DEF IInv, RoutesInv, TableInv
  <1>5. Types' /\ SeriesInv'
    BY <1>1 DEF IInv, Types, StatTypes, SeriesInv
  <1>6. QED
    BY <1>1, <1>3, <1>4, <1>5 DEF IInv

LEMMA FamilySame ==
    ASSUME IInv, UNCHANGED family PROVE FamilyTypes' /\ FamilyInv'
  BY DEF IInv, Types, FamilyTypes, FamilyInv

\* What a frame at work says: the routes are in place, the frame is typed.
LEMMA Working ==
    ASSUME IInv, NEW r \in Requests, req[r].pc # "idle"
    PROVE  wiring = {} /\ req[r] \in Frames /\ FrameInv(req[r])
  BY DEF IInv, Types, ServeInv, FramesInv, Idle

LEMMA ReceiveKeeps ==
    ASSUME IInv, NEW r \in Requests, NEW in \in Inputs, Receive(r, in)
    PROVE  IInv'
  <1> DEFINE scrape == in.method \in {"GET", "HEAD"} /\ in.target.ok
                         /\ in.target.path = <<"metrics">>
             saw == IF scrape THEN {<<k, stats[k]>> : k \in DOMAIN stats} ELSE {}
             trace == EnsureInboundTraceIdentity(r, in.traces)
             y == [pc |-> IF scrape THEN "respond" ELSE "start", in |-> in, trace |-> trace,
                   status |-> IF scrape THEN 200 ELSE 0,
                   operation |-> IF scrape THEN "/metrics" ELSE "",
                   route |-> 0, ended |-> "plain", correlation |-> "none", exposed |-> saw]
  <1>1. /\ wiring = {} /\ req[r].pc = "idle" /\ ~in.upgrade /\ req' = [req EXCEPT ![r] = y]
        /\ UNCHANGED <<wiring, table, streams, startWired, rejections, inFlight, stats, dropped,
                       family>>
    BY DEF Receive, Serving, registry
  <1>2. saw \in SUBSET (Keys \X Stats) /\ \A e \in saw : Whole(e[2])
    BY DEF IInv, Types, StatTypes, SeriesInv
  <1>3. trace \in Requests \cup {"client"} /\ (trace = "client" => in.traces = <<"valid">>)
        /\ trace # "none"
    BY RequestsAssumption DEF EnsureInboundTraceIdentity
  <1> HIDE DEF saw, trace, scrape
  <1>4. /\ y.in = in /\ y.trace = trace /\ y.route = 0 /\ y.exposed = saw
        /\ y.pc \in {"start", "respond"}
        /\ y.pc = "start" => y.operation = ""
        /\ y.pc = "respond" => y.operation = "/metrics"
    OBVIOUS
  <1>5. y \in Frames
    BY <1>2, <1>3 DEF Frames, Operations, Endings
  <1> HIDE DEF y
  <1>6. FrameInv(y)
    BY <1>1, <1>2, <1>3, <1>4 DEF FrameInv, Sound
  <1>7. FamilyTypes' /\ FamilyInv'
    BY <1>1, FamilySame
  <1>8. /\ y.pc \in {"inner", "complete"} <=> req[r].pc \in {"inner", "complete"}
        /\ ~(req[r].pc \in {"inner", "complete"})
        /\ y.pc \in {"respond", "answered"} /\ y.operation # "/metrics"
             <=> req[r].pc \in {"respond", "answered"} /\ req[r].operation # "/metrics"
    BY <1>1, <1>4
  <1>9. QED
    BY <1>1, <1>5, <1>6, <1>7, <1>8, QuietStep

\* A transport without a handler answers outside the chain.
LEMMA UnhandledKeeps ==
    ASSUME IInv, NEW r \in Requests, NEW in \in Inputs, Unhandled(r, in)
    PROVE  IInv'
  <1> DEFINE y == [pc |-> "unserved", in |-> in, trace |-> "none", status |-> 503,
                   operation |-> "", route |-> 0, ended |-> "plain", correlation |-> "none",
                   exposed |-> {}]
  <1>1. /\ wiring = {} /\ req[r].pc = "idle" /\ ~in.upgrade /\ req' = [req EXCEPT ![r] = y]
        /\ UNCHANGED <<wiring, table, streams, startWired, rejections, inFlight, stats, dropped,
                       family>>
    BY DEF Unhandled, Serving, registry
  <1>2. y \in Frames
    BY DEF Frames, Operations, Endings
  <1>3. /\ y.in = in /\ y.trace = "none" /\ y.route = 0 /\ y.exposed = {} /\ y.status = 503
        /\ y.pc = "unserved" /\ y.ended = "plain" /\ y.correlation = "none"
    OBVIOUS
  <1> HIDE DEF y
  <1>4. FrameInv(y)
    BY <1>1, <1>3 DEF FrameInv, Sound
  <1>5. FamilyTypes' /\ FamilyInv'
    BY <1>1, FamilySame
  <1>6. QED
    BY <1>1, <1>2, <1>3, <1>4, <1>5, QuietStep, ZenonT(60)

LEMMA UpgradeKeeps ==
    ASSUME IInv, NEW r \in Requests, NEW in \in Inputs, NEW mounted, Upgrade(r, in, mounted)
    PROVE  IInv'
  <1> DEFINE origin == RequireOrigin(Origins, in.origins)
             gate == IF origin # 0 THEN origin ELSE Gate(streams, in.method, in.target)
             served == IF gate # 0 THEN 0 ELSE ServeRoute(streams, mounted, in.method, in.target)
             trace == EnsureInboundTraceIdentity(r, in.traces)
             operation == IF served = 0 THEN "" ELSE streams.routes[served].operation
             y == [pc |-> "upgraded", in |-> in, trace |-> trace, status |-> gate,
                   operation |-> operation, route |-> served, ended |-> "plain",
                   correlation |-> "none", exposed |-> {}]
             t == streams.routes
             path == NormalizedTarget(in.target.path)
             b == FindBest(t, in.method, path)
  <1>1. /\ wiring = {} /\ req[r].pc = "idle" /\ in.upgrade /\ req' = [req EXCEPT ![r] = y]
        /\ UNCHANGED <<wiring, table, streams, startWired, rejections, inFlight, stats, dropped,
                       family>>
    BY DEF Upgrade, Serving, registry
  <1>2. TableInv(t) /\ Clean(t) /\ t \in Seq(RouteRows) /\ Len(t) \in Nat /\ DOMAIN t = 1 .. Len(t)
    BY TableClean, LenProperties DEF IInv, RoutesInv, TableInv
  <1>3. origin \in {0, 403} /\ Gate(streams, in.method, in.target) \in Nat
    BY <1>2, RouteFinds DEF RequireOrigin, Gate
  <1>4. gate \in Nat
    BY <1>3
  <1>5. served # 0 => in.target.ok /\ served = b /\ gate = 0
    BY DEF ServeRoute
  <1>6. served # 0 => /\ b \in Matches(t, in.method, path)
                      /\ \A i \in Matches(t, in.method, path) : i # b =>
                           /\ MoreSpecific(t[b].segments, t[i].segments)
                           /\ ~MoreSpecific(t[i].segments, t[b].segments)
    BY <1>2, <1>5, FindBestIsBest
  <1>7. trace \in Requests \cup {"client"} /\ (trace = "client" => in.traces = <<"valid">>)
        /\ trace # "none"
    BY RequestsAssumption DEF EnsureInboundTraceIdentity
  <1>8. served \in Nat /\ operation \in Operations
    <2>1. CASE served = 0
      BY <2>1 DEF Operations
    <2>2. CASE served # 0
      <3>1. served \in 1 .. Len(t)
        BY <1>2, <1>5, <1>6, <2>2 DEF Matches
      <3>2. t[served] \in RouteRows
        BY <1>2, <3>1, ElementOfSeq
      <3>3. operation = t[served].operation
        BY <2>2
      <3> HIDE DEF served, operation
      <3>4. t[served].operation \in {d.operation : d \in Declared}
        BY <3>2 DEF RouteRows
      <3>5. served \in Nat
        BY <1>2, <3>1
      <3>6. QED
        BY <3>3, <3>4, <3>5 DEF Operations
    <2>3. QED
      BY <2>1, <2>2
  <1> HIDE DEF gate, served, trace, operation, b, path
  <1>9. /\ y.in = in /\ y.trace = trace /\ y.route = served /\ y.exposed = {}
        /\ y.pc = "upgraded" /\ y.status = gate
    OBVIOUS
  <1>10. y \in Frames
    BY <1>4, <1>7, <1>8 DEF Frames, Endings
  <1> HIDE DEF y
  <1>11. Sound(y, table, t)
    BY <1>1, <1>5, <1>6, <1>7, <1>9 DEF Sound, path
  <1>12. FrameInv(y)
    BY <1>1, <1>9, <1>11 DEF FrameInv
  <1>13. FamilyTypes' /\ FamilyInv'
    BY <1>1, FamilySame
  <1>14. /\ y.pc \in {"inner", "complete"} <=> req[r].pc \in {"inner", "complete"}
         /\ ~(req[r].pc \in {"inner", "complete"})
         /\ y.pc \in {"respond", "answered"} /\ y.operation # "/metrics"
              <=> req[r].pc \in {"respond", "answered"} /\ req[r].operation # "/metrics"
    BY <1>1, <1>9
  <1>15. QED
    BY <1>1, <1>10, <1>12, <1>13, <1>14, QuietStep

\* The answer of the chain, as a frame.
Answered(x, status, operation, route, ended) ==
    [x EXCEPT !.pc = "complete", !.status = status, !.operation = operation,
              !.route = route, !.ended = ended]

\* The numbers under a name of their own, so that the provers leave one untyped
\* where it is the argument of an operator.
Numbers == Nat

LEMMA AnsweredFrame ==
    ASSUME NEW x \in Frames, NEW status \in Numbers, NEW operation \in Operations,
           NEW route \in Numbers, NEW ended \in Endings
    PROVE  LET y == Answered(x, status, operation, route, ended) IN
           /\ y \in Frames /\ y.pc = "complete" /\ y.in = x.in /\ y.trace = x.trace
           /\ y.status = status /\ y.operation = operation /\ y.route = route
           /\ y.exposed = x.exposed
  <1>1. x = [pc |-> x.pc, in |-> x.in, trace |-> x.trace, status |-> x.status,
             operation |-> x.operation, route |-> x.route, ended |-> x.ended,
             correlation |-> x.correlation, exposed |-> x.exposed]
        /\ x.in \in Inputs /\ x.trace \in Requests \cup {"client", "none"}
        /\ x.correlation \in Requests \cup {"client", "none", "handler"}
        /\ x.exposed \in SUBSET (Keys \X Stats)
    BY DEF Frames
  <1> DEFINE z == [pc |-> "complete", in |-> x.in, trace |-> x.trace, status |-> status,
                   operation |-> operation, route |-> route, ended |-> ended,
                   correlation |-> x.correlation, exposed |-> x.exposed]
  <1>2. Answered(x, status, operation, route, ended) = z
    <2> DEFINE R(p, s, o, n, b) ==
                 [pc |-> p, in |-> x.in, trace |-> x.trace, status |-> s, operation |-> o,
                  route |-> n, ended |-> b, correlation |-> x.correlation, exposed |-> x.exposed]
               x1 == R("complete", x.status, x.operation, x.route, x.ended)
               x2 == R("complete", status, x.operation, x.route, x.ended)
               x3 == R("complete", status, operation, x.route, x.ended)
               x4 == R("complete", status, operation, route, x.ended)
    <2>1. [x EXCEPT !.pc = "complete"] = x1
      BY <1>1
    <2>2. [x1 EXCEPT !.status = status] = x2
      OBVIOUS
    <2>3. [x2 EXCEPT !.operation = operation] = x3
      OBVIOUS
    <2>4. [x3 EXCEPT !.route = route] = x4
      OBVIOUS
    <2>5. [x4 EXCEPT !.ended = ended] = z
      OBVIOUS
    <2> HIDE DEF x1, x2, x3, x4
    <2>6. QED
      BY <2>1, <2>2, <2>3, <2>4, <2>5 DEF Answered
  <1>3. z \in Frames
    BY <1>1 DEF Frames, Numbers, Endings
  <1>4. QED
    BY <1>2, <1>3

\* The frame's fields, whatever way the chain ended.
Answers(r, status, operation, route) ==
    \E y \in Frames :
       /\ req' = [req EXCEPT ![r] = y]
       /\ y.pc = "complete" /\ y.in = req[r].in /\ y.trace = req[r].trace
       /\ y.status = status /\ y.operation = operation /\ y.route = route
       /\ y.exposed = req[r].exposed

LEMMA AnswerIs ==
    ASSUME NEW r, req[r] \in Frames, NEW status \in Numbers, NEW operation \in Operations,
           NEW route \in Numbers, NEW ended \in Endings,
           Answer(r, status, operation, route, ended)
    PROVE  Answers(r, status, operation, route)
  <1> DEFINE y == Answered(req[r], status, operation, route, ended)
  <1>1. req' = [req EXCEPT ![r] = y]
    BY DEF Answer, Answered
  <1>2. /\ y \in Frames /\ y.pc = "complete" /\ y.in = req[r].in /\ y.trace = req[r].trace
        /\ y.status = status /\ y.operation = operation /\ y.route = route
        /\ y.exposed = req[r].exposed
    BY AnsweredFrame
  <1> HIDE DEF y
  <1>3. QED
    BY <1>1, <1>2 DEF Answers

\* The chain answers: the frame was inside it, and a route that served is the
\* best one, of a request let in.
LEMMA AnswerKeeps ==
    ASSUME IInv, NEW r \in Requests, NEW status, NEW operation, NEW route,
           req[r].pc = "inner", operation # "/metrics", Answers(r, status, operation, route),
           UNCHANGED <<wiring, table, streams, startWired, rejections, inFlight, stats, dropped>>,
           FamilyTypes', FamilyInv',
           route # 0 =>
             /\ req[r].in.target.ok /\ req[r].in.admitted /\ req[r].in.authorized
             /\ route = FindBest(table, req[r].in.method, NormalizedTarget(req[r].in.target.path))
    PROVE  IInv'
  <1> DEFINE x == req[r]
             path == NormalizedTarget(x.in.target.path)
  <1>1. wiring = {} /\ x \in Frames /\ FrameInv(x)
    BY Working
  <1>2. PICK y \in Frames :
          /\ req' = [req EXCEPT ![r] = y]
          /\ y.pc = "complete" /\ y.in = x.in /\ y.trace = x.trace
          /\ y.status = status /\ y.operation = operation /\ y.route = route
          /\ y.exposed = x.exposed
    BY DEF Answers
  <1>4. ~x.in.upgrade /\ (x.trace = "client" => x.in.traces = <<"valid">>) /\ x.trace # "none"
        /\ \A e \in x.exposed : Whole(e[2])
    BY <1>1 DEF FrameInv, Sound
  <1>5. route # 0 => \A i \in Matches(table, x.in.method, path) : i # route =>
                       /\ MoreSpecific(table[route].segments, table[i].segments)
                       /\ ~MoreSpecific(table[i].segments, table[route].segments)
    <2>1. Clean(table)
      BY TableClean DEF IInv, RoutesInv
    <2>2. QED
      BY <2>1, FindBestIsBest
  <1> HIDE DEF x, path
  <1>6. Sound(y, table, streams.routes)
    BY <1>2, <1>4, <1>5 DEF Sound, path, x
  <1>7. FrameInv(y)
    BY <1>2, <1>4, <1>6 DEF FrameInv
  <1>8. x.pc = "inner"
    BY DEF x
  <1>9. QED
    BY <1>1, <1>2, <1>7, <1>8, QuietStep DEF x

LEMMA ShortcutKeeps ==
    ASSUME IInv, NEW r \in Requests, Shortcut(r)
    PROVE  IInv'
  <1>1. /\ req[r].pc = "inner"
        /\ UNCHANGED <<wiring, table, streams, startWired, rejections, inFlight, stats, dropped,
                       family>>
    BY DEF Shortcut, registry
  <1>2. FamilyTypes' /\ FamilyInv'
    BY <1>1, FamilySame
  <1>3. req[r] \in Frames
    BY <1>1, Working
  <1>4. /\ "" \in Operations /\ "/health" \in Operations
        /\ 0 \in Numbers /\ 200 \in Numbers /\ 401 \in Numbers /\ 429 \in Numbers
        /\ 503 \in Numbers
    BY DEF Operations, Numbers
  <1>5. "plain" \in Endings
    BY Zenon DEF Endings
  <1>6. \/ Answers(r, 200, "/health", 0) \/ Answers(r, 503, "/health", 0)
        \/ Answers(r, 429, "", 0) \/ Answers(r, 401, "", 0)
    <2>1. \/ \E healthy \in BOOLEAN : Answer(r, IF healthy THEN 200 ELSE 503, "/health", 0, "plain")
          \/ Answer(r, 429, "", 0, "plain")
          \/ Answer(r, 401, "", 0, "plain")
      BY DEF Shortcut
    <2>2. ASSUME NEW healthy \in BOOLEAN,
                 Answer(r, IF healthy THEN 200 ELSE 503, "/health", 0, "plain")
          PROVE  Answer(r, 200, "/health", 0, "plain") \/ Answer(r, 503, "/health", 0, "plain")
      <3>1. CASE healthy
        BY <2>2, <3>1
      <3>2. CASE ~healthy
        BY <2>2, <3>2
      <3>3. QED
        BY <3>1, <3>2
    <2>3. ASSUME NEW status \in Numbers, NEW operation \in Operations,
                 Answer(r, status, operation, 0, "plain")
          PROVE  Answers(r, status, operation, 0)
      BY <1>3, <1>4, <1>5, <2>3, AnswerIs, Zenon
    <2>4. Answer(r, 200, "/health", 0, "plain") => Answers(r, 200, "/health", 0)
      BY <1>4, <2>3, Zenon
    <2>5. Answer(r, 503, "/health", 0, "plain") => Answers(r, 503, "/health", 0)
      BY <1>4, <2>3, Zenon
    <2>6. Answer(r, 429, "", 0, "plain") => Answers(r, 429, "", 0)
      BY <1>4, <2>3, Zenon
    <2>7. Answer(r, 401, "", 0, "plain") => Answers(r, 401, "", 0)
      BY <1>4, <2>3, Zenon
    <2>8. CASE \E healthy \in BOOLEAN : Answer(r, IF healthy THEN 200 ELSE 503, "/health", 0, "plain")
      <3>1. Answer(r, 200, "/health", 0, "plain") \/ Answer(r, 503, "/health", 0, "plain")
        BY <2>2, <2>8, Zenon
      <3>2. QED
        BY <2>4, <2>5, <3>1, Zenon
    <2>9. QED
      BY <2>1, <2>6, <2>7, <2>8, Zenon
  <1>7. ASSUME NEW status, NEW operation, operation # "/metrics", Answers(r, status, operation, 0)
        PROVE  IInv'
    BY <1>1, <1>2, <1>7, AnswerKeeps
  <1>8. "" # "/metrics" /\ "/health" # "/metrics"
    OBVIOUS
  <1>9. CASE Answers(r, 200, "/health", 0) \/ Answers(r, 503, "/health", 0)
    BY <1>7, <1>8, <1>9, Zenon
  <1>10. CASE Answers(r, 429, "", 0) \/ Answers(r, 401, "", 0)
    BY <1>7, <1>8, <1>10, Zenon
  <1>11. QED
    BY <1>6, <1>9, <1>10, Zenon

LEMMA DispatchKeeps ==
    ASSUME IInv, NEW r \in Requests, Dispatch(r)
    PROVE  IInv'
  <1> DEFINE in == req[r].in
             found == Route(table, in.method, in.target)
             op == table[found.route].operation
             Returned == {"plain", "identified"}
  <1>1. /\ req[r].pc = "inner" /\ in.admitted /\ in.authorized
        /\ UNCHANGED <<wiring, table, streams, startWired, rejections, inFlight, stats, dropped>>
    BY DEF Dispatch
  <1>2. /\ found.status \in Nat /\ found.route \in Nat
        /\ found.route # 0 =>
             /\ in.target.ok
             /\ found.route = FindBest(table, in.method, NormalizedTarget(in.target.path))
             /\ table[found.route] \in RouteRows
    BY RouteFinds DEF IInv, RoutesInv
  <1>3. found.route = 0 => Answer(r, found.status, "", 0, "plain") /\ UNCHANGED family
    BY DEF Dispatch
  <1>n. PICK ok, failed : ok = 200 /\ failed = 500 /\ ok \in Numbers /\ failed \in Numbers
    BY DEF Numbers
  <1>4. found.route # 0 =>
          \/ \E h \in HandlerOps, ended \in Returned :
               Answer(r, ok, op, found.route, ended) /\ FamilyOp(h[1], h[2], h[3])
          \/ \E ended \in Returned :
               Answer(r, failed, op, found.route, ended) /\ UNCHANGED family
          \/ Answer(r, failed, "", found.route, "threw") /\ UNCHANGED family
    BY <1>n DEF Dispatch
  <1>7. "plain" \in Endings /\ "threw" \in Endings /\ Returned \subseteq Endings
    BY DEF Endings
  <1> HIDE DEF found, Returned
  <1>5. FamilyTypes' /\ FamilyInv'
    <2>1. CASE UNCHANGED family
      BY <2>1, FamilySame
    <2>2. CASE \E h \in HandlerOps : FamilyOp(h[1], h[2], h[3])
      BY <2>2, FamilyStep DEF IInv, Types
    <2>3. QED
      BY <1>3, <1>4, <2>1, <2>2, Zenon
  <1>6. /\ req[r] \in Frames /\ "" \in Operations /\ found.route \in Numbers
        /\ 0 \in Numbers /\ ok \in Numbers /\ failed \in Numbers /\ found.status \in Numbers
    BY <1>1, <1>n, <1>2, Working DEF Operations, Numbers
  <1>8. ASSUME NEW status \in Numbers, NEW o \in Operations, NEW route \in Numbers,
               NEW ended \in Endings, Answer(r, status, o, route, ended)
        PROVE  Answers(r, status, o, route)
    BY <1>6, <1>8, AnswerIs, Zenon
  <1>9. CASE found.route = 0
    <2>1. Answers(r, found.status, "", 0)
      BY <1>3, <1>6, <1>7, <1>8, <1>9, Zenon
    <2>2. QED
      BY <1>1, <1>5, <2>1, AnswerKeeps
  <1>10. CASE found.route # 0
    <2>1. op \in {d.operation : d \in Declared}
      BY <1>2, <1>10 DEF RouteRows
    <2>2. op \in Operations /\ op # "/metrics"
      BY <2>1, RoutesAssumption DEF Operations, Declared
    <2>a. \/ \E ended \in Returned : Answer(r, ok, op, found.route, ended)
          \/ \E ended \in Returned : Answer(r, failed, op, found.route, ended)
          \/ Answer(r, failed, "", found.route, "threw")
      BY <1>4, <1>10, Zenon
    <2> HIDE DEF op
    <2>3. ASSUME NEW ended \in Returned, Answer(r, ok, op, found.route, ended)
          PROVE  Answers(r, ok, op, found.route)
      <3>1. ended \in Endings
        BY <1>7, <2>3
      <3>2. QED
        BY <1>6, <1>8, <2>2, <2>3, <3>1, Zenon
    <2>4. ASSUME NEW ended \in Returned, Answer(r, failed, op, found.route, ended)
          PROVE  Answers(r, failed, op, found.route)
      <3>1. ended \in Endings
        BY <1>7, <2>4
      <3>2. QED
        BY <1>6, <1>8, <2>2, <2>4, <3>1, Zenon
    <2>5. Answer(r, failed, "", found.route, "threw") => Answers(r, failed, "", found.route)
      BY <1>6, <1>7, <1>8, Zenon
    <2>6. \/ Answers(r, ok, op, found.route) \/ Answers(r, failed, op, found.route)
          \/ Answers(r, failed, "", found.route)
      BY <2>a, <2>3, <2>4, <2>5, Zenon
    <2>7. ASSUME NEW status, NEW o, o # "/metrics", Answers(r, status, o, found.route)
          PROVE  IInv'
      BY <1>1, <1>2, <1>5, <1>10, <2>7, AnswerKeeps
    <2>8. QED
      BY <2>2, <2>6, <2>7
  <1>11. QED
    BY <1>9, <1>10

LEMMA RespondKeeps ==
    ASSUME IInv, NEW r \in Requests, Respond(r)
    PROVE  IInv'
  <1> DEFINE x == req[r]
             c == Correlation(x)
             v == [x EXCEPT !.pc = "answered", !.exposed = {}, !.correlation = Correlation(x)]
             y == [pc |-> "answered", in |-> x.in, trace |-> x.trace, status |-> x.status,
                   operation |-> x.operation, route |-> x.route, ended |-> x.ended,
                   correlation |-> c, exposed |-> {}]
  <1>1. /\ x.pc = "respond" /\ req' = [req EXCEPT ![r] = v]
        /\ UNCHANGED <<wiring, table, streams, startWired, rejections, inFlight, stats, dropped,
                       family>>
    BY DEF Respond, registry
  <1>2. wiring = {} /\ x \in Frames /\ FrameInv(x)
    BY <1>1, Working
  <1>3. x = [pc |-> x.pc, in |-> x.in, trace |-> x.trace, status |-> x.status,
             operation |-> x.operation, route |-> x.route, ended |-> x.ended,
             correlation |-> x.correlation, exposed |-> x.exposed]
    BY <1>2 DEF Frames
  <1> HIDE DEF x
  <1>4. v = y
    <2> DEFINE R(p, k, e) ==
                 [pc |-> p, in |-> x.in, trace |-> x.trace, status |-> x.status,
                  operation |-> x.operation, route |-> x.route, ended |-> x.ended,
                  correlation |-> k, exposed |-> e]
               x1 == R("answered", x.correlation, x.exposed)
               x2 == R("answered", x.correlation, {})
    <2>1. [x EXCEPT !.pc = "answered"] = x1
      BY <1>3
    <2>2. [x1 EXCEPT !.exposed = {}] = x2
      OBVIOUS
    <2>3. x2.correlation = x.correlation
      OBVIOUS
    <2>4. [x2 EXCEPT !.correlation = c] = y
      OBVIOUS
    <2> HIDE DEF x1, x2, y
    <2>5. QED
      BY <2>1, <2>2, <2>3, <2>4
  <1> HIDE DEF c, v
  <1>5. /\ c \in Requests \cup {"client", "none", "handler"}
        /\ IF x.status >= 500 THEN c = IF x.ended = "identified" THEN "handler" ELSE x.trace
                              ELSE c \in {"none", "handler"}
    BY <1>2 DEF c, Correlation, Frames
  <1>6. y \in Frames
    BY <1>2, <1>5 DEF Frames
  <1>7. /\ y.pc = "answered" /\ y.ended = x.ended /\ y.in = x.in /\ y.trace = x.trace /\ y.status = x.status
        /\ y.operation = x.operation /\ y.route = x.route /\ y.correlation = c /\ y.exposed = {}
    OBVIOUS
  <1> HIDE DEF y
  <1>8. Sound(y, table, streams.routes)
    BY <1>1, <1>2, <1>5, <1>7 DEF FrameInv, Sound
  <1>9. FrameInv(y)
    BY <1>1, <1>2, <1>7, <1>8 DEF FrameInv
  <1>10. FamilyTypes' /\ FamilyInv'
    BY <1>1, FamilySame
  <1>11. req' = [req EXCEPT ![r] = y]
    BY <1>1, <1>4
  <1>12. QED
    BY <1>1, <1>2, <1>6, <1>7, <1>9, <1>10, <1>11, QuietStep DEF x

\* The frame, with its counter moved.
LEMMA MovedFrame ==
    ASSUME NEW x \in Frames, NEW pc \in {"inner", "respond"}
    PROVE  LET y == [x EXCEPT !.pc = pc] IN
           /\ y \in Frames /\ y.pc = pc /\ y.in = x.in /\ y.trace = x.trace
           /\ y.status = x.status /\ y.operation = x.operation /\ y.route = x.route
           /\ y.exposed = x.exposed
  BY DEF Frames

\* RecordStart: the request is in flight from here on.
LEMMA ObserveStartKeeps ==
    ASSUME IInv, NEW r \in Requests, ObserveStart(r)
    PROVE  IInv'
  <1> DEFINE x == req[r]
             y == [x EXCEPT !.pc = "inner"]
  <1>0. PICK n : n = NormalizeMethod(x.in.method)
    OBVIOUS
  <1>1. /\ x.pc = "start" /\ req' = [req EXCEPT ![r] = y]
        /\ UNCHANGED <<wiring, table, streams, startWired, rejections, stats, dropped, family>>
    BY DEF ObserveStart
  <1>2. inFlight' = IF startWired
                    THEN With(inFlight, n, 1 + (IF n \in DOMAIN inFlight THEN inFlight[n] ELSE 0))
                    ELSE inFlight
    BY <1>0 DEF ObserveStart, RecordStart
  <1>3. wiring = {} /\ x \in Frames /\ FrameInv(x)
    BY <1>1, Working
  <1>4. /\ y \in Frames /\ y.pc = "inner" /\ y.in = x.in /\ y.trace = x.trace
        /\ y.status = x.status /\ y.operation = x.operation /\ y.route = x.route
        /\ y.exposed = x.exposed
    BY <1>3, MovedFrame
  <1> HIDE DEF y
  <1>5. FrameInv(y)
    <2>1. Sound(y, table, streams.routes)
      BY <1>1, <1>3, <1>4 DEF FrameInv, Sound
    <2>2. QED
      BY <1>1, <1>3, <1>4, <2>1 DEF FrameInv
  <1>6. /\ req' \in [Requests -> Frames \cup {Idle}] /\ ServeInv' /\ FramesInv'
        /\ req'[r] = y /\ \A q \in Requests : q # r => req'[q] = req[q]
    BY <1>1, <1>3, <1>4, <1>5, FrameMove DEF IInv
  <1>7. n \in Methods
    BY <1>0, MethodType
  <1>8. Done' = Done
    BY <1>1, <1>4, <1>6, DoneKept
  <1>9. TallyInv' /\ SeriesInv' /\ FamilyInv' /\ StatTypes' /\ FamilyTypes' /\ RoutesInv'
    BY <1>1, <1>8 DEF IInv, TallyInv, Counted, SeriesInv, FamilyInv, Types, StatTypes, FamilyTypes,
                      RoutesInv, TableInv
  <1>10. inFlight' \in [DOMAIN inFlight' -> Nat] /\ DOMAIN inFlight' \subseteq Methods
    BY <1>2, <1>7 DEF IInv, Types, With
  <1>11. /\ Flying(n)' = Flying(n) \cup {r} /\ r \notin Flying(n)
         /\ \A m : m # n => Flying(m)' = Flying(m)
    BY <1>0, <1>1, <1>4, <1>6 DEF Flying, Recorded
  <1>12. IsFiniteSet(Flying(n)) /\ Cardinality(Flying(n)) \in Nat
    BY RequestsFinite
  <1>13. Cardinality(Flying(n) \cup {r}) = Cardinality(Flying(n)) + 1
    BY <1>11, <1>12, FS_AddElement
  <1>14. GaugeInv'
    <2>1. CASE ~startWired
      BY <1>1, <1>2, <2>1 DEF IInv, GaugeInv
    <2>2. CASE startWired
      <3> DEFINE was == IF n \in DOMAIN inFlight THEN inFlight[n] ELSE 0
      <3>1. was = Cardinality(Flying(n))
        BY <1>7, <2>2, FS_EmptySet DEF IInv, GaugeInv
      <3>2. inFlight' = With(inFlight, n, 1 + was)
        BY <1>2, <2>2
      <3> HIDE DEF was
      <3>3. /\ DOMAIN inFlight' = DOMAIN inFlight \cup {n} /\ inFlight'[n] = 1 + was
            /\ \A m \in DOMAIN inFlight : m # n => inFlight'[m] = inFlight[m]
        BY <3>2 DEF With
      <3>4. inFlight'[n] = Cardinality(Flying(n)')
        BY <1>11, <1>12, <1>13, <3>1, <3>3
      <3>5. ASSUME NEW m \in Methods, m # n
            PROVE  IF m \in DOMAIN inFlight' THEN inFlight'[m] = Cardinality(Flying(m)')
                   ELSE Flying(m)' = {}
        <4>1. Flying(m)' = Flying(m)
          BY <1>11, <3>5
        <4>2. IF m \in DOMAIN inFlight THEN inFlight[m] = Cardinality(Flying(m)) ELSE Flying(m) = {}
          BY <2>2 DEF IInv, GaugeInv
        <4>3. QED
          BY <3>3, <3>5, <4>1, <4>2
      <3>6. QED
        BY <1>1, <2>2, <3>3, <3>4, <3>5 DEF GaugeInv
    <2>3. QED
      BY <2>1, <2>2
  <1>15. QED
    BY <1>1, <1>6, <1>9, <1>10, <1>14 DEF IInv, Types

\* Record: the gauge comes down, and the request is in a series or dropped.
LEMMA ObserveCompleteKeeps ==
    ASSUME IInv, NEW r \in Requests, ObserveComplete(r)
    PROVE  IInv'
  <1> DEFINE x == req[r]
             y == [x EXCEPT !.pc = "respond"]
  <1>0. PICK n : n = NormalizeMethod(x.in.method)
    OBVIOUS
  <1> DEFINE key == <<n, RouteOf(x.operation)>>
  <1>1. /\ x.pc = "complete" /\ req' = [req EXCEPT ![r] = y]
        /\ UNCHANGED <<wiring, table, streams, startWired, rejections, family>>
    BY DEF ObserveComplete
  <1>2. PICK duration \in Durations : Record(x.in.method, x.operation, x.status, duration)
    BY DEF ObserveComplete
  <1>3. inFlight' = IF n \in DOMAIN inFlight /\ inFlight[n] > 0
                    THEN [inFlight EXCEPT ![n] = @ - 1] ELSE inFlight
    BY <1>0, <1>2 DEF Record
  <1>4. Admit(key, x.status, TRUE, duration)
    BY <1>0, <1>2, Zenon DEF Record
  <1>5. wiring = {} /\ x \in Frames /\ FrameInv(x)
    BY <1>1, Working
  <1>6. /\ y \in Frames /\ y.pc = "respond" /\ y.in = x.in /\ y.trace = x.trace
        /\ y.status = x.status /\ y.operation = x.operation /\ y.route = x.route
        /\ y.exposed = x.exposed
    BY <1>5, MovedFrame
  <1> HIDE DEF y
  <1>7. FrameInv(y)
    <2>1. Sound(y, table, streams.routes)
      BY <1>1, <1>5, <1>6 DEF FrameInv, Sound
    <2>2. QED
      BY <1>1, <1>5, <1>6, <2>1 DEF FrameInv
  <1>8. /\ req' \in [Requests -> Frames \cup {Idle}] /\ ServeInv' /\ FramesInv'
        /\ req'[r] = y /\ \A q \in Requests : q # r => req'[q] = req[q]
    BY <1>1, <1>5, <1>6, <1>7, FrameMove DEF IInv
  <1>9. n \in Methods
    BY <1>0, MethodType
  <1>10. key \in Keys
    BY <1>5, <1>9 DEF Keys, RouteOf, Frames
  <1>11. StatTypes' /\ SeriesInv' /\ Counted \in Nat /\ Counted' = Counted + 1
    <2>1. TRUE \in BOOLEAN
      BY Zenon
    <2>2. StatTypes /\ SeriesInv
      BY DEF IInv, Types
    <2> HIDE DEF key
    <2>3. QED
      BY <1>4, <1>10, <2>1, <2>2, AdmitStep, Zenon
  <1>12. FamilyInv' /\ FamilyTypes' /\ RoutesInv'
    BY <1>1 DEF IInv, FamilyInv, Types, FamilyTypes, RoutesInv, TableInv
  <1>13. TallyInv'
    <2>1. Done' = Done \cup {r} /\ r \notin Done
      <3>1. x.operation # "/metrics"
        BY <1>1, <1>5 DEF FrameInv
      <3>2. QED
        BY <1>1, <1>6, <1>8, <3>1 DEF Done, Recorded
    <2>2. IsFiniteSet(Done) /\ Cardinality(Done) \in Nat
      BY RequestsFinite
    <2>3. Cardinality(Done \cup {r}) = Cardinality(Done) + 1
      BY <2>1, <2>2, FS_AddElement
    <2>4. Counted = rejections + Cardinality(Done) /\ rejections \in Nat
      BY DEF IInv, TallyInv, Types
    <2>5. Counted' = rejections' + Cardinality(Done')
      BY <1>1, <1>11, <2>1, <2>2, <2>3, <2>4
    <2>6. QED
      BY <2>5 DEF TallyInv
  <1>14. inFlight' \in [DOMAIN inFlight' -> Nat] /\ DOMAIN inFlight' = DOMAIN inFlight
    BY <1>3 DEF IInv, Types
  <1>15. /\ Flying(n)' = Flying(n) \ {r} /\ r \in Flying(n)
         /\ \A m : m # n => Flying(m)' = Flying(m)
    BY <1>0, <1>1, <1>6, <1>8 DEF Flying, Recorded
  <1>16. IsFiniteSet(Flying(n)) /\ Cardinality(Flying(n)) \in Nat
    BY RequestsFinite
  <1>17. Cardinality(Flying(n) \ {r}) = Cardinality(Flying(n)) - 1 /\ Cardinality(Flying(n)) # 0
    BY <1>15, <1>16, FS_RemoveElement, FS_EmptySet
  <1>18. GaugeInv'
    <2>1. CASE ~startWired
      BY <1>1, <1>14, <2>1 DEF IInv, GaugeInv
    <2>2. CASE startWired
      <3>1. n \in DOMAIN inFlight /\ inFlight[n] = Cardinality(Flying(n))
        BY <1>9, <1>15, <2>2 DEF IInv, GaugeInv
      <3>2. inFlight' = [inFlight EXCEPT ![n] = inFlight[n] - 1]
        BY <1>3, <1>16, <1>17, <3>1
      <3>3. inFlight \in [DOMAIN inFlight -> Nat]
        BY DEF IInv, Types
      <3>4. /\ inFlight'[n] = inFlight[n] - 1
            /\ \A m \in DOMAIN inFlight : m # n => inFlight'[m] = inFlight[m]
        BY <3>1, <3>2, <3>3
      <3>5. inFlight'[n] = Cardinality(Flying(n)')
        BY <1>15, <1>16, <1>17, <3>1, <3>4
      <3>6. ASSUME NEW m \in Methods, m # n
            PROVE  IF m \in DOMAIN inFlight' THEN inFlight'[m] = Cardinality(Flying(m)')
                   ELSE Flying(m)' = {}
        <4>1. Flying(m)' = Flying(m)
          BY <1>15, <3>6
        <4>2. IF m \in DOMAIN inFlight THEN inFlight[m] = Cardinality(Flying(m)) ELSE Flying(m) = {}
          BY <2>2 DEF IInv, GaugeInv
        <4>3. QED
          BY <1>14, <3>4, <3>6, <4>1, <4>2
      <3>7. QED
        BY <1>1, <1>14, <2>2, <3>1, <3>5, <3>6 DEF GaugeInv
    <2>3. QED
      BY <2>1, <2>2
  <1>19. QED
    BY <1>1, <1>8, <1>11, <1>12, <1>13, <1>14, <1>18 DEF IInv, Types

\* A rejection is counted, and touches nothing else.
LEMMA OneRejection ==
    ASSUME IInv, rejections' = rejections + 1,
           UNCHANGED <<wiring, table, streams, req, startWired, inFlight, family>>,
           StatTypes', SeriesInv', Counted \in Nat, Counted' = Counted + 1
    PROVE  IInv'
  <1>1. (\A m : Flying(m)' = Flying(m)) /\ Done' = Done
    BY DEF Flying, Done, Recorded
  <1>2. TallyInv' /\ rejections' \in Nat
    <2>1. Counted = rejections + Cardinality(Done) /\ rejections \in Nat
      BY DEF IInv, TallyInv, Types
    <2>2. Cardinality(Done) \in Nat
      BY RequestsFinite
    <2>3. Cardinality(Done') = Cardinality(Done)
      BY <1>1
    <2>4. Counted' = rejections' + Cardinality(Done')
      BY <2>1, <2>2, <2>3
    <2>5. QED
      BY <2>1, <2>4 DEF TallyInv
  <1>3. GaugeInv'
    BY <1>1, GaugeKept DEF IInv
  <1>4. RoutesInv' /\ ServeInv' /\ FramesInv'
    BY DEF IInv, RoutesInv, TableInv, ServeInv, FramesInv, FrameInv
  <1>5. FamilyInv' /\ FamilyTypes'
    BY FamilySame
  <1>6. QED
    BY <1>2, <1>3, <1>4, <1>5 DEF IInv, Types

LEMMA RejectionKeeps ==
    ASSUME IInv, RecordRejection("", 431)
    PROVE  IInv'
  <1> DEFINE key == <<"(unparsed)", "unmatched">>
  <1>1. /\ rejections' = rejections + 1
        /\ UNCHANGED <<wiring, table, streams, req, startWired, inFlight, family>>
    BY DEF RecordRejection
  <1>2. Admit(key, 431, FALSE, 0)
    BY Zenon DEF RecordRejection
  <1>3. key \in Keys
    BY DEF Keys
  <1>4. StatTypes' /\ SeriesInv' /\ Counted \in Nat /\ Counted' = Counted + 1
    <2>1. FALSE \in BOOLEAN
      BY Zenon
    <2>2. StatTypes /\ SeriesInv
      BY DEF IInv, Types
    <2> HIDE DEF key
    <2>3. QED
      BY <1>2, <1>3, <2>1, <2>2, AdmitStep, Zenon
  <1>5. QED
    BY <1>1, <1>4, OneRejection

\* The steps of a shutdown, and stuttering: nothing the invariant speaks of.
LEMMA NothingMoves ==
    ASSUME IInv, UNCHANGED <<wiring, table, streams, req, startWired, rejections, registry>>
    PROVE  IInv'
  <1>1. UNCHANGED <<wiring, table, streams, req, startWired, rejections, inFlight, stats, dropped,
                    family>>
    BY DEF registry
  <1>2. (\A m : Flying(m)' = Flying(m)) /\ Done' = Done
    BY <1>1 DEF Flying, Done, Recorded
  <1>3. GaugeInv' /\ TallyInv'
    BY <1>1, <1>2, GaugeKept DEF IInv, TallyInv, Counted
  <1>4. RoutesInv' /\ ServeInv' /\ FramesInv'
    BY <1>1 DEF IInv, RoutesInv, TableInv, ServeInv, FramesInv, FrameInv
  <1>5. FamilyInv' /\ FamilyTypes'
    BY <1>1, FamilySame
  <1>6. StatTypes' /\ SeriesInv'
    BY <1>1 DEF IInv, Types, StatTypes, SeriesInv
  <1>7. QED
    BY <1>1, <1>3, <1>4, <1>5, <1>6 DEF IInv, Types

LEMMA NextIInv ==
    ASSUME IInv, [Next]_vars PROVE IInv'
  <1>1. ASSUME NEW d \in Declarations \cup Streams, Declare(d) PROVE IInv'
    BY <1>1, DeclareKeeps DEF Declared
  <1>2. ASSUME NEW r \in Requests, RequestStep(r) PROVE IInv'
    BY <1>2, ObserveStartKeeps, ShortcutKeeps, DispatchKeeps, ObserveCompleteKeeps, RespondKeeps
       DEF RequestStep
  <1>3. ASSUME NEW r \in Requests, NEW in \in Inputs, Receive(r, in) PROVE IInv'
    BY <1>3, ReceiveKeeps
  <1>u. ASSUME NEW r \in Requests, NEW in \in Inputs, Unhandled(r, in) PROVE IInv'
    BY <1>u, UnhandledKeeps
  <1>4. ASSUME NEW r \in Requests, NEW in \in Inputs, NEW seam, Upgrade(r, in, seam) PROVE IInv'
    BY <1>4, UpgradeKeeps
  <1>5. CASE RecordRejection("", 431)
    BY <1>5, RejectionKeeps
  <1>6. CASE BeginShutdown \/ AcceptEnds \/ Joined
    BY <1>6, NothingMoves DEF BeginShutdown, AcceptEnds, Joined
  <1>7. CASE UNCHANGED vars
    BY <1>7, NothingMoves DEF vars
  <1>8. CASE Next
    <2>1. CASE \E d \in Declarations \cup Streams : Declare(d)
      BY <1>1, <2>1
    <2>2. CASE \E r \in Requests :
                 \/ RequestStep(r)
                 \/ \E in \in Inputs : Receive(r, in) \/ Unhandled(r, in)
                 \/ \E in \in Inputs, seam \in {"borrowed", "shared"} : Upgrade(r, in, seam)
      BY <1>2, <1>3, <1>u, <1>4, <2>2, Zenon
    <2>3. QED
      BY <1>5, <1>6, <1>8, <2>1, <2>2, Zenon DEF Next
  <1>9. QED
    BY <1>7, <1>8, Zenon

-----------------------------------------------------------------------------
\* The frames, the routers and the registry keep their inductive invariant:
\* the tables have no two routes of one shape, no frame is older than the
\* tables it was routed by, and the gauge, the series and the frames agree
\* (Router::Add, Observe, MetricsRegistry, InvokeHandlerGuarded).
THEOREM RequestInvariant == Spec => []IInv
  <1>1. Init => IInv
    BY InitIInv
  <1>2. IInv /\ [Next]_vars => IInv'
    BY NextIInv
  <1>3. QED
    BY <1>1, <1>2, PTL DEF Spec

LEMMA IInvAddsUp == IInv => MetricsAddUp
  <1> SUFFICES ASSUME IInv PROVE MetricsAddUp
    OBVIOUS
  <1>1. GaugeCountsInFlight
    <2>1. ASSUME NEW m \in DOMAIN inFlight
          PROVE  inFlight[m] = IF startWired THEN Cardinality(Flying(m)) ELSE 0
      BY <2>1 DEF IInv, Types, GaugeInv
    <2>2. QED
      BY <2>1 DEF GaugeCountsInFlight, Flying
  <1>2. Cardinality(DOMAIN stats) <= MaxSeries /\ Cardinality(DOMAIN family.samples) <= MaxSeries
    BY DEF IInv, SeriesInv, FamilyInv
  <1>3. SumOf([k \in DOMAIN stats |-> stats[k].requests]) + dropped
          = rejections + Cardinality({r \in Recorded({"respond", "answered"}) :
                                        req[r].operation # "/metrics"})
    BY DEF IInv, TallyInv, Counted, Done
  <1>4. \A k \in DOMAIN stats : Whole(stats[k])
    BY DEF IInv, SeriesInv
  <1>5. \A r \in Recorded({"respond", "answered"}) : \A e \in req[r].exposed : Whole(e[2])
    <2>1. ASSUME NEW r \in Recorded({"respond", "answered"}), NEW e \in req[r].exposed
          PROVE  Whole(e[2])
      <3>1. r \in Requests /\ req[r].pc # "idle"
        BY DEF Recorded
      <3>2. QED
        BY <3>1, Working DEF FrameInv
    <2>2. QED
      BY <2>1
  <1>6. \A l \in DOMAIN family.samples : SumOf(family.samples[l].buckets) <= family.samples[l].timed
    BY DEF IInv, FamilyInv, Filed
  <1>7. QED
    BY <1>1, <1>2, <1>3, <1>4, <1>5, <1>6 DEF MetricsAddUp, Whole, Filed

\* For any requests, routes, handlers and cap on the series: every completed
\* request and every rejection is in one series or in the dropped count, the
\* series and what a scrape saw of them are whole, and the gauge counts what
\* is in flight (MetricsRegistry::RecordStart, Record, RecordRejection,
\* AdmitRoute, MetricFamily, Observe).
THEOREM MetricsAddUpHolds == Spec => []MetricsAddUp
  BY RequestInvariant, IInvAddsUp, PTL

LEMMA IInvIsSound == IInv => AnswersAreSound
  <1> SUFFICES ASSUME IInv, NEW r \in Requests,
                      req[r].pc \in {"complete", "respond", "answered", "upgraded", "unserved"}
               PROVE  Sound(req[r], table, streams.routes)
    BY DEF AnswersAreSound, Sound
  <1>1. FrameInv(req[r])
    BY Working
  <1>2. QED
    BY <1>1 DEF FrameInv

\* For any routes added in any order: the route that served a request is the
\* one most specific match, it served only a request let in, an upgrade is
\* served only past its gates, and a 5xx names the id its handler set or else
\* the request's own trace, which only an empty handler leaves unset
\* (Router::Add, Route, WebSocketRouter::Gate, Serve, InvokeHandlerGuarded,
\* CorrelateServerError).
THEOREM AnswersAreSoundHolds == Spec => []AnswersAreSound
  BY RequestInvariant, IInvIsSound, PTL

=============================================================================
