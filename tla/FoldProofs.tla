------------------------------ MODULE FoldProofs ------------------------------
(***************************************************************************)
(* What FoldLeft computes, for any step and any start: the start on the    *)
(* empty sequence, and one step more when an element is appended.  A fold  *)
(* is a recursive function, so these are proved by induction; the          *)
(* induction is that of the least element of a set of numbers, which needs *)
(* no operator as a parameter.  A module that folds instantiates this one. *)
(***************************************************************************)
EXTENDS SequencesExt, SequenceTheorems, FiniteSetTheorems,
        WellFoundedInduction, TLAPS

CONSTANTS step(_, _), base

Smaller == {pair \in Nat \X Nat : pair[1] < pair[2]}

(* A set of numbers has a least element.                                   *)
LEMMA LeastElement ==
    ASSUME NEW T \in SUBSET Nat, T # {}
    PROVE  \E n \in T : \A m \in T : n <= m
<1>1. IsWellFoundedOn(Smaller, Nat)
  BY NatLessThanWellFounded, Zenon DEF OpToRel, Smaller
<1>2. PICK n \in T : \A m \in T : <<m, n>> \notin Smaller
  BY <1>1, WFMin
<1>3. \A m \in T : n <= m
  <2> SUFFICES ASSUME NEW m \in T, ~(n <= m) PROVE FALSE
    OBVIOUS
  <2>1. n \in Nat /\ m \in Nat
    OBVIOUS
  <2>2. <<m, n>> \in Smaller
    BY <2>1 DEF Smaller
  <2> QED
    BY <1>2, <2>2
<1> QED
  BY <1>3

(* A set with 0 and the successor of each of its numbers has them all.     *)
LEMMA SetInduction ==
    ASSUME NEW S, 0 \in S, \A n \in Nat : n \in S => n + 1 \in S
    PROVE  Nat \subseteq S
<1> DEFINE T == {n \in Nat : n \notin S}
<1> SUFFICES ASSUME T # {} PROVE FALSE
  OBVIOUS
<1>1. PICK n \in T : \A m \in T : n <= m
  BY LeastElement
<1>2. n \in Nat /\ n # 0
  OBVIOUS
<1>3. n - 1 \in Nat /\ n - 1 \notin T
  BY <1>1, <1>2
<1> QED
  BY <1>2, <1>3

-----------------------------------------------------------------------------
Folded(s) == FoldLeft(step, base, s)

(* The function that FoldLeft evaluates on the domain of the sequence.     *)
IsFold(f, D, s) ==
    f = [T \in SUBSET D |->
            IF T = {} THEN base ELSE step(f[T \ {Max(T)}], s[Max(T)])]

LEMMA LastOfInterval ==
    ASSUME NEW n \in Nat, NEW T \in SUBSET (1..n + 1), n + 1 \in T
    PROVE  Max(T) = n + 1
<1>1. \A y \in T : n + 1 >= y
  OBVIOUS
<1>2. \A x \in T : (\A y \in T : x >= y) => x = n + 1
  OBVIOUS
<1> QED
  BY <1>1, <1>2, Zenon DEF Max

LEMMA Interval ==
    ASSUME NEW n \in Nat
    PROVE  /\ 1..n + 1 # {} /\ n + 1 \in 1..n + 1
           /\ (1..n + 1) \ {n + 1} = 1..n
  OBVIOUS

LEMMA FoldExists ==
    ASSUME NEW s, NEW n \in Nat
    PROVE  \E f : IsFold(f, 1..n, s)
<1> DEFINE S == {k \in Nat : \E f : IsFold(f, 1..k, s)}
<1>1. 0 \in S
  <2> DEFINE f == [T \in SUBSET (1..0) |-> base]
  <2>1. \A T \in SUBSET (1..0) : T = {}
    OBVIOUS
  <2>2. IsFold(f, 1..0, s)
    BY <2>1 DEF IsFold
  <2> QED
    BY <2>2
<1>2. ASSUME NEW k \in Nat, k \in S PROVE k + 1 \in S
  <2>1. PICK f : IsFold(f, 1..k, s)
    BY <1>2
  <2> DEFINE g == [T \in SUBSET (1..k + 1) |->
                      IF k + 1 \in T
                      THEN step(f[T \ {k + 1}], s[k + 1]) ELSE f[T]]
             h == [T \in SUBSET (1..k + 1) |->
                      IF T = {} THEN base ELSE step(g[T \ {Max(T)}], s[Max(T)])]
  <2>2. ASSUME NEW T \in SUBSET (1..k + 1) PROVE g[T] = h[T]
    <3>1. CASE k + 1 \in T
      <4>1. Max(T) = k + 1
        BY <3>1, LastOfInterval
      <4>2. /\ T \ {k + 1} \in SUBSET (1..k + 1)
            /\ k + 1 \notin T \ {k + 1}
        OBVIOUS
      <4>3. g[T \ {k + 1}] = f[T \ {k + 1}]
        BY <4>2
      <4> QED
        BY <3>1, <4>1, <4>3
    <3>2. CASE k + 1 \notin T
      <4>1. T \in SUBSET (1..k)
        BY <3>2
      <4>2. f[T] = IF T = {} THEN base ELSE step(f[T \ {Max(T)}], s[Max(T)])
        BY <2>1, <4>1 DEF IsFold
      <4>3. /\ T \ {Max(T)} \in SUBSET (1..k + 1)
            /\ k + 1 \notin T \ {Max(T)}
        BY <3>2
      <4>4. g[T \ {Max(T)}] = f[T \ {Max(T)}]
        BY <4>3
      <4> QED
        BY <3>2, <4>2, <4>4
    <3> QED
      BY <3>1, <3>2
  <2>3. g = h
    <3>1. DOMAIN g = SUBSET (1..k + 1) /\ DOMAIN h = SUBSET (1..k + 1)
      OBVIOUS
    <3> QED
      BY <2>2, <3>1
  <2>4. IsFold(g, 1..k + 1, s)
    BY <2>3 DEF IsFold
  <2> QED
    BY <2>4
<1>3. Nat \subseteq S
  <2> HIDE DEF S
  <2> QED
    BY <1>1, <1>2, SetInduction
<1> QED
  BY <1>3

(* A fold looks only at the elements of its prefix.                        *)
LEMMA FoldsAgree ==
    ASSUME NEW n \in Nat, NEW f, NEW s, NEW F \in Nat, IsFold(f, 1..F, s),
           NEW g, NEW t, NEW G \in Nat, IsFold(g, 1..G, t),
           n <= F, n <= G, \A i \in 1..n : s[i] = t[i]
    PROVE  f[1..n] = g[1..n]
<1> DEFINE S == {k \in Nat : k <= n => f[1..k] = g[1..k]}
<1>1. 0 \in S
  <2>1. 1..0 = {} /\ {} \in SUBSET (1..F) /\ {} \in SUBSET (1..G)
    OBVIOUS
  <2>2. f[{}] = base /\ g[{}] = base
    BY <2>1 DEF IsFold
  <2> QED
    BY <2>1, <2>2
<1>2. ASSUME NEW k \in Nat, k \in S PROVE k + 1 \in S
  <2> SUFFICES ASSUME k + 1 <= n PROVE f[1..k + 1] = g[1..k + 1]
    OBVIOUS
  <2> DEFINE T == 1..k + 1
  <2>1. /\ T \in SUBSET (1..F) /\ T \in SUBSET (1..G) /\ T # {}
        /\ k + 1 \in T /\ T \ {k + 1} = 1..k /\ k + 1 \in 1..n
    <3>1. T # {} /\ k + 1 \in T /\ T \ {k + 1} = 1..k
      BY Interval
    <3> QED
      BY <3>1
  <2>2. Max(T) = k + 1
    BY <2>1, LastOfInterval
  <2>3. /\ f[T] = step(f[T \ {Max(T)}], s[Max(T)])
        /\ g[T] = step(g[T \ {Max(T)}], t[Max(T)])
    <3> HIDE DEF T
    <3> QED
      BY <2>1 DEF IsFold
  <2>4. f[1..k] = g[1..k] /\ s[k + 1] = t[k + 1]
    BY <1>2, <2>1
  <2> QED
    BY <2>1, <2>2, <2>3, <2>4
<1>3. Nat \subseteq S
  <2> HIDE DEF S
  <2> QED
    BY <1>1, <1>2, SetInduction
<1> QED
  BY <1>3

LEMMA FoldedIs ==
    ASSUME NEW s, NEW n \in Nat, DOMAIN s = 1..n
    PROVE  \E f : IsFold(f, 1..n, s) /\ Folded(s) = f[1..n]
<1>1. Folded(s) = (CHOOSE f : IsFold(f, DOMAIN s, s))[DOMAIN s]
  BY DEF Folded, FoldLeft, MapThenFoldSet, IsFold
<1>2. \E f : IsFold(f, 1..n, s)
  BY FoldExists
<1>3. IsFold(CHOOSE f : IsFold(f, 1..n, s), 1..n, s)
  BY <1>2, Zenon
<1> QED
  BY <1>1, <1>3

-----------------------------------------------------------------------------
(* The facts for the modules that fold. *)

(* The fold of nothing is the start.                                       *)
LEMMA FoldedEmpty == Folded(<<>>) = base
<1>1. PICK f : IsFold(f, 1..0, <<>>) /\ Folded(<<>>) = f[1..0]
  BY FoldedIs
<1>2. 1..0 = {} /\ {} \in SUBSET (1..0)
  OBVIOUS
<1>3. f[{}] = base
  BY <1>1, <1>2 DEF IsFold
<1> QED
  BY <1>1, <1>2, <1>3

(* An element more is a step more.                                         *)
LEMMA FoldedAppend ==
    ASSUME NEW S, NEW s \in Seq(S), NEW e \in S
    PROVE  Folded(Append(s, e)) = step(Folded(s), e)
<1> DEFINE t == Append(s, e)
           n == Len(s)
<1>1. /\ n \in Nat /\ DOMAIN s = 1..n /\ DOMAIN t = 1..n + 1
      /\ t[n + 1] = e /\ \A i \in 1..n : t[i] = s[i]
  OBVIOUS
<1> HIDE DEF t, n
<1>2. PICK f : IsFold(f, 1..n, s) /\ Folded(s) = f[1..n]
  BY <1>1, FoldedIs
<1>3. PICK g : IsFold(g, 1..n + 1, t) /\ Folded(t) = g[1..n + 1]
  BY <1>1, FoldedIs
<1>4. g[1..n] = f[1..n]
  BY <1>1, <1>2, <1>3, FoldsAgree
<1>5. g[1..n + 1] = step(g[1..n], t[n + 1])
  <2> DEFINE T == 1..n + 1
  <2>1. /\ T \in SUBSET (1..n + 1) /\ T # {} /\ n + 1 \in T
        /\ T \ {n + 1} = 1..n
    BY <1>1, Interval
  <2>2. Max(T) = n + 1
    BY <1>1, <2>1, LastOfInterval
  <2>3. g[T] = step(g[T \ {Max(T)}], t[Max(T)])
    <3> HIDE DEF T
    <3> QED
      BY <1>3, <2>1 DEF IsFold
  <2> QED
    BY <2>1, <2>2, <2>3
<1> QED
  BY <1>1, <1>2, <1>3, <1>4, <1>5 DEF t

(* What holds of the start and is kept by each step holds of the fold.     *)
LEMMA FoldedIn ==
    ASSUME NEW S, base \in S, NEW E, NEW s \in Seq(E),
           \A a \in S, i \in DOMAIN s : step(a, s[i]) \in S
    PROVE  Folded(s) \in S
<1> DEFINE n == Len(s)
<1>1. n \in Nat /\ DOMAIN s = 1..n
  OBVIOUS
<1> HIDE DEF n
<1>2. PICK f : IsFold(f, 1..n, s) /\ Folded(s) = f[1..n]
  BY <1>1, FoldedIs
<1> DEFINE P == {k \in Nat : k <= n => f[1..k] \in S}
<1>3. 0 \in P
  <2>1. 1..0 = {} /\ {} \in SUBSET (1..n)
    OBVIOUS
  <2>2. f[{}] = base
    BY <1>2, <2>1 DEF IsFold
  <2> QED
    BY <2>1, <2>2
<1>4. ASSUME NEW k \in Nat, k \in P PROVE k + 1 \in P
  <2> SUFFICES ASSUME k + 1 <= n PROVE f[1..k + 1] \in S
    OBVIOUS
  <2> DEFINE T == 1..k + 1
  <2>1. /\ T \in SUBSET (1..n) /\ T # {} /\ k + 1 \in T
        /\ T \ {k + 1} = 1..k /\ k + 1 \in 1..n
    BY <1>1
  <2>2. Max(T) = k + 1
    BY <2>1, LastOfInterval
  <2>3. f[T] = step(f[T \ {Max(T)}], s[Max(T)])
    <3> HIDE DEF T
    <3> QED
      BY <1>2, <2>1 DEF IsFold
  <2>4. f[1..k] \in S
    BY <1>1, <1>4
  <2> QED
    BY <1>1, <2>1, <2>2, <2>3, <2>4
<1>5. Nat \subseteq P
  <2> HIDE DEF P
  <2> QED
    BY <1>3, <1>4, SetInduction
<1> QED
  BY <1>1, <1>2, <1>5

-----------------------------------------------------------------------------
(* Sums of the values of a function over a finite set. *)

Total(f, S) == FoldFunctionOnSet(+, 0, f, S)

AnyOf(S) == CHOOSE x \in S : TRUE

(* The function that FoldFunctionOnSet evaluates on the set.               *)
IsSum(g, f, S) ==
    g = [T \in SUBSET S |->
            IF T = {} THEN 0 ELSE f[AnyOf(T)] + g[T \ {AnyOf(T)}]]

LEMMA AnyMember == ASSUME NEW S, S # {} PROVE AnyOf(S) \in S
  BY DEF AnyOf

LEMMA OneLess ==
    ASSUME NEW S, IsFiniteSet(S), NEW x \in S,
           NEW n \in Nat, Cardinality(S) <= n + 1
    PROVE  /\ IsFiniteSet(S \ {x}) /\ Cardinality(S \ {x}) <= n
           /\ Cardinality(S) \in Nat /\ Cardinality(S \ {x}) \in Nat
           /\ Cardinality(S \ {x}) = Cardinality(S) - 1
<1>1. /\ IsFiniteSet(S \ {x}) /\ Cardinality(S \ {x}) = Cardinality(S) - 1
      /\ Cardinality(S) \in Nat
  BY FS_RemoveElement, FS_CardinalityType
<1>2. Cardinality(S \ {x}) \in Nat
  BY <1>1, FS_CardinalityType
<1> QED
  BY <1>1, <1>2

(* The recursion has a solution, one size of the subsets after the other.  *)
LEMMA SumExists ==
    ASSUME NEW f, NEW S, IsFiniteSet(S)
    PROVE  \E g : IsSum(g, f, S)
<1> DEFINE upTo(n) == {T \in SUBSET S : Cardinality(T) <= n}
           solves(g, n) ==
              g = [T \in upTo(n) |->
                      IF T = {} THEN 0 ELSE f[AnyOf(T)] + g[T \ {AnyOf(T)}]]
           N == {n \in Nat : \E g : solves(g, n)}
<1>1. \A T \in SUBSET S : IsFiniteSet(T) /\ Cardinality(T) \in Nat
                          /\ Cardinality(T) <= Cardinality(S)
  BY FS_Subset, FS_CardinalityType
<1>2. 0 \in N
  <2>1. \A T \in upTo(0) : T = {}
    BY <1>1, FS_EmptySet
  <2> DEFINE g == [T \in upTo(0) |-> 0]
  <2>2. solves(g, 0)
    <3> HIDE DEF upTo
    <3> QED
      BY <2>1
  <2> HIDE DEF solves
  <2> QED
    BY <2>2
<1>3. ASSUME NEW n \in Nat, n \in N PROVE n + 1 \in N
  <2>1. PICK g : solves(g, n)
    BY <1>3
  <2> DEFINE h == [T \in upTo(n + 1) |->
                      IF T = {} THEN 0 ELSE f[AnyOf(T)] + g[T \ {AnyOf(T)}]]
  <2>2. upTo(n) \subseteq upTo(n + 1)
    BY <1>1
  <2>3. ASSUME NEW T \in upTo(n + 1), T # {}
        PROVE  T \ {AnyOf(T)} \in upTo(n)
    <3>1. AnyOf(T) \in T
      BY <2>3, AnyMember
    <3> DEFINE x == AnyOf(T)
    <3> HIDE DEF x
    <3>2. Cardinality(T \ {x}) <= n
      BY <1>1, <3>1, OneLess DEF x
    <3> QED
      BY <3>2 DEF x
  <2>4. \A T \in upTo(n) : h[T] = g[T]
    <3> HIDE DEF upTo
    <3> QED
      BY <2>1, <2>2
  <2>5. solves(h, n + 1)
    <3>1. \A T \in upTo(n + 1) :
             h[T] = IF T = {} THEN 0 ELSE f[AnyOf(T)] + h[T \ {AnyOf(T)}]
      <4> SUFFICES ASSUME NEW T \in upTo(n + 1)
                   PROVE  h[T] = IF T = {} THEN 0
                                 ELSE f[AnyOf(T)] + h[T \ {AnyOf(T)}]
        OBVIOUS
      <4>1. h[T] = IF T = {} THEN 0 ELSE f[AnyOf(T)] + g[T \ {AnyOf(T)}]
        <5> HIDE DEF upTo
        <5> QED
          OBVIOUS
      <4> HIDE DEF upTo, h
      <4> QED
        BY <2>3, <2>4, <4>1
    <3>2. h = [T \in upTo(n + 1) |-> h[T]]
      <4> HIDE DEF upTo
      <4> QED
        OBVIOUS
    <3> HIDE DEF upTo, h
    <3> QED
      BY <3>1, <3>2
  <2> HIDE DEF solves, h
  <2> QED
    BY <2>5
<1> HIDE DEF N
<1>4. Cardinality(S) \in N
  <2>1. Nat \subseteq N
    BY <1>2, <1>3, SetInduction
  <2> QED
    BY <2>1, FS_CardinalityType
<1>5. upTo(Cardinality(S)) = SUBSET S
  BY <1>1
<1>6. PICK g : solves(g, Cardinality(S))
  BY <1>4 DEF N
<1>7. IsSum(g, f, S)
  <2> HIDE DEF upTo
  <2> QED
    BY <1>5, <1>6 DEF IsSum
<1> QED
  BY <1>7

LEMMA SumsAgree ==
    ASSUME NEW T, IsFiniteSet(T),
           NEW f, NEW g, NEW S, IsSum(g, f, S), T \subseteq S,
           NEW e, NEW h, NEW R, IsSum(h, e, R), T \subseteq R,
           \A x \in T : f[x] = e[x]
    PROVE  g[T] = h[T]
<1> DEFINE N == {n \in Nat : \A U \in SUBSET T :
                               Cardinality(U) <= n => g[U] = h[U]}
<1>1. \A U \in SUBSET T : /\ IsFiniteSet(U) /\ Cardinality(U) \in Nat
                          /\ Cardinality(U) <= Cardinality(T)
  BY FS_Subset, FS_CardinalityType
<1>2. g[{}] = 0 /\ h[{}] = 0
  <2>1. {} \in SUBSET S /\ {} \in SUBSET R
    OBVIOUS
  <2> QED
    BY <2>1 DEF IsSum
<1>3. 0 \in N
  BY <1>1, <1>2, FS_EmptySet
<1>4. ASSUME NEW n \in Nat, n \in N PROVE n + 1 \in N
  <2> SUFFICES ASSUME NEW U \in SUBSET T, Cardinality(U) <= n + 1, U # {}
               PROVE  g[U] = h[U]
    BY <1>2
  <2> DEFINE x == AnyOf(U)
             V == U \ {x}
  <2>1. x \in U
    BY AnyMember
  <2>2. g[U] = f[x] + g[V] /\ h[U] = e[x] + h[V]
    <3>1. U \in SUBSET S /\ U \in SUBSET R
      OBVIOUS
    <3> QED
      BY <3>1 DEF IsSum
  <2> HIDE DEF x
  <2>3. Cardinality(V) <= n /\ V \in SUBSET T
    BY <1>1, <2>1, OneLess
  <2>4. g[V] = h[V] /\ f[x] = e[x]
    BY <1>4, <2>1, <2>3
  <2> QED
    BY <2>2, <2>4
<1> HIDE DEF N
<1>5. Cardinality(T) \in N
  <2>1. Nat \subseteq N
    BY <1>3, <1>4, SetInduction
  <2> QED
    BY <1>1, <2>1
<1> QED
  BY <1>1, <1>5 DEF N

LEMMA SumIs ==
    ASSUME NEW f, NEW S, IsFiniteSet(S)
    PROVE  \E g : IsSum(g, f, S) /\ Total(f, S) = g[S]
<1>1. Total(f, S) = (CHOOSE g : IsSum(g, f, S))[S]
  BY DEF Total, FoldFunctionOnSet, MapThenFoldSet, IsSum, AnyOf
<1>2. \E g : IsSum(g, f, S)
  BY SumExists
<1>3. IsSum(CHOOSE g : IsSum(g, f, S), f, S)
  BY <1>2, Zenon
<1> QED
  BY <1>1, <1>3

LEMMA SumOfNone == \A f : Total(f, {}) = 0
<1> SUFFICES ASSUME NEW f PROVE Total(f, {}) = 0
  OBVIOUS
<1>1. PICK g : IsSum(g, f, {}) /\ Total(f, {}) = g[{}]
  BY SumIs, FS_EmptySet
<1> QED
  BY <1>1 DEF IsSum

(* A sum depends on the values over its set alone.                         *)
LEMMA SumSame ==
    ASSUME NEW S, IsFiniteSet(S), NEW f, NEW e, \A x \in S : f[x] = e[x]
    PROVE  Total(f, S) = Total(e, S)
<1>1. PICK g : IsSum(g, f, S) /\ Total(f, S) = g[S]
  BY SumIs
<1>2. PICK h : IsSum(h, e, S) /\ Total(e, S) = h[S]
  BY SumIs
<1>3. g[S] = h[S]
  BY <1>1, <1>2, SumsAgree
<1> QED
  BY <1>1, <1>2, <1>3

LEMMA SumOfAny ==
    ASSUME NEW S, IsFiniteSet(S), S # {}, NEW f
    PROVE  Total(f, S) = f[AnyOf(S)] + Total(f, S \ {AnyOf(S)})
<1> DEFINE x == AnyOf(S)
           R == S \ {x}
<1>1. PICK g : IsSum(g, f, S) /\ Total(f, S) = g[S]
  BY SumIs
<1>2. g[S] = f[x] + g[R]
  <2>1. S \in SUBSET S
    OBVIOUS
  <2> QED
    BY <1>1, <2>1 DEF IsSum
<1> HIDE DEF x
<1>3. IsFiniteSet(R)
  BY FS_RemoveElement
<1>4. PICK h : IsSum(h, f, R) /\ Total(f, R) = h[R]
  BY <1>3, SumIs
<1>5. g[R] = h[R]
  BY <1>1, <1>3, <1>4, SumsAgree
<1> QED
  BY <1>1, <1>2, <1>4, <1>5 DEF x

(* A sum of integers is one, and any element may be taken out of it.       *)
LEMMA SumWithout ==
    ASSUME NEW S, IsFiniteSet(S), NEW f, \A x \in S : f[x] \in Int
    PROVE  /\ Total(f, S) \in Int
           /\ \A x \in S : Total(f, S) = f[x] + Total(f, S \ {x})
<1> DEFINE good(T) == /\ Total(f, T) \in Int
                      /\ \A x \in T : Total(f, T) = f[x] + Total(f, T \ {x})
           N == {n \in Nat : \A T \in SUBSET S :
                               Cardinality(T) <= n => good(T)}
<1>1. \A T \in SUBSET S : IsFiniteSet(T) /\ Cardinality(T) \in Nat
  BY FS_Subset, FS_CardinalityType
<1>2. good({})
  BY SumOfNone
<1>3. 0 \in N
  <2>1. \A T \in SUBSET S : Cardinality(T) <= 0 => T = {}
    BY <1>1, FS_EmptySet
  <2> HIDE DEF good
  <2> QED
    BY <1>2, <2>1
<1>4. ASSUME NEW n \in Nat, n \in N PROVE n + 1 \in N
  <2> SUFFICES ASSUME NEW T \in SUBSET S, Cardinality(T) <= n + 1, T # {}
               PROVE  good(T)
    BY <1>2
  <2>1. \A U \in SUBSET S : Cardinality(U) <= n => good(U)
    BY <1>4
  <2> HIDE DEF good
  <2> DEFINE c == AnyOf(T)
             R == T \ {c}
  <2>2. c \in T /\ Total(f, T) = f[c] + Total(f, R)
    BY <1>1, AnyMember, SumOfAny
  <2> HIDE DEF c
  <2>3. good(R) /\ R \in SUBSET S
    BY <1>1, <2>1, <2>2, OneLess
  <2>4. Total(f, R) \in Int /\ f[c] \in Int /\ Total(f, T) \in Int
    <3>1. Total(f, R) \in Int
      BY <2>3 DEF good
    <3> QED
      BY <2>2, <3>1
  <2>5. ASSUME NEW x \in T, x # c
        PROVE  Total(f, T) = f[x] + Total(f, T \ {x})
    <3> DEFINE Q == T \ {x}
    <3>1. good(Q)
      BY <1>1, <2>1, OneLess
    <3>2. c \in Q /\ x \in R /\ Q \ {c} = R \ {x}
      BY <2>2, <2>5
    <3>3. Total(f, R) = f[x] + Total(f, R \ {x})
      BY <2>3, <3>2 DEF good
    <3>4. Total(f, Q) = f[c] + Total(f, Q \ {c})
      BY <3>1, <3>2 DEF good
    <3>5. Total(f, R \ {x}) \in Int
      <4>1. good(R \ {x})
        <5>1. Cardinality(R) <= n + 1 /\ IsFiniteSet(R) /\ Cardinality(R) \in Nat
          BY <1>1, <2>2, OneLess
        <5>2. Cardinality(R \ {x}) <= n
          BY <3>2, <5>1, OneLess
        <5> QED
          BY <2>1, <2>3, <5>2
      <4> QED
        BY <4>1 DEF good
    <3>6. f[x] \in Int
      OBVIOUS
    <3> DEFINE P == R \ {x}
    <3>7. Total(f, Q) = f[c] + Total(f, P) /\ Total(f, R) = f[x] + Total(f, P)
          /\ Total(f, P) \in Int
      BY <3>2, <3>3, <3>4, <3>5
    <3>8. Total(f, T) = f[x] + Total(f, Q)
      <4> HIDE DEF Q, R, P
      <4> QED
        BY <2>2, <2>4, <3>6, <3>7
    <3> QED
      BY <3>8
  <2> QED
    BY <2>2, <2>4, <2>5 DEF good
<1> HIDE DEF N, good
<1>5. Cardinality(S) \in N
  <2>1. Nat \subseteq N
    BY <1>3, <1>4, SetInduction
  <2> QED
    BY <2>1, FS_CardinalityType
<1>6. good(S)
  <2>1. Cardinality(S) \in Nat
    BY FS_CardinalityType
  <2> QED
    BY <1>5, <2>1 DEF N
<1> QED
  BY <1>6 DEF good

(* A sum over one element more, or with another value at an element.       *)
LEMMA SumAdd ==
    ASSUME NEW S, IsFiniteSet(S), NEW z, z \notin S,
           NEW f, \A x \in S : f[x] \in Int,
           NEW e, \A x \in S : e[x] = f[x], e[z] \in Int
    PROVE  Total(e, S \cup {z}) = e[z] + Total(f, S) /\ Total(f, S) \in Int
<1> DEFINE T == S \cup {z}
<1>1. IsFiniteSet(T) /\ T \ {z} = S /\ z \in T
  BY FS_AddElement
<1>2. \A x \in T : e[x] \in Int
  OBVIOUS
<1> HIDE DEF T
<1>3. Total(e, T) = e[z] + Total(e, S)
  BY <1>1, <1>2, SumWithout
<1>4. Total(e, S) = Total(f, S) /\ Total(f, S) \in Int
  BY SumSame, SumWithout
<1> QED
  BY <1>3, <1>4 DEF T

LEMMA SumChange ==
    ASSUME NEW S, IsFiniteSet(S), NEW z \in S,
           NEW f, \A x \in S : f[x] \in Int,
           NEW e, \A x \in S \ {z} : e[x] = f[x], e[z] \in Int
    PROVE  /\ Total(e, S) - Total(f, S) = e[z] - f[z]
           /\ Total(e, S) \in Int /\ Total(f, S) \in Int
<1> DEFINE R == S \ {z}
<1>1. IsFiniteSet(R)
  BY FS_RemoveElement
<1>2. \A x \in S : e[x] \in Int
  OBVIOUS
<1>3. Total(f, S) = f[z] + Total(f, R) /\ Total(f, S) \in Int
  BY SumWithout
<1>4. Total(e, S) = e[z] + Total(e, R) /\ Total(e, S) \in Int
  BY <1>2, SumWithout
<1>5. \A x \in R : e[x] = f[x] /\ f[x] \in Int
  OBVIOUS
<1> HIDE DEF R
<1>6. Total(e, R) = Total(f, R) /\ Total(f, R) \in Int
  BY <1>1, <1>5, SumSame, SumWithout
<1>7. f[z] \in Int
  OBVIOUS
<1> QED
  BY <1>3, <1>4, <1>6, <1>7
=============================================================================
