----------------------------- MODULE FoldProofs -----------------------------
(***************************************************************************)
(* What the folds of the community modules compute, for any finite set and *)
(* any sequence: a sum over a set, and Op folded over a sequence.  They    *)
(* are defined by recursion over sets; what is proved of them goes by the  *)
(* smallest counterexample there would be.                                 *)
(***************************************************************************)
EXTENDS Integers, SequencesExt, FiniteSetTheorems, WellFoundedInduction, TLAPS

CONSTANT Op(_, _)

----------------------------------------------------------------------------
\* Smallest counterexamples

Less == {ss \in Nat \X Nat : ss[1] < ss[2]}

\* A set of natural numbers that has a member has a least one.
LEMMA LeastNat ==
    ASSUME NEW T, T \subseteq Nat, T # {}
    PROVE  \E n \in T : \A m \in T : n <= m
<1>1. IsWellFoundedOn(Less, Nat)
  BY NatLessThanWellFounded, Zenon DEF OpToRel, Less
<1>2. \E n \in T : \A m \in T : <<m, n>> \notin Less
  BY <1>1, WFMin, Zenon
<1>3. ASSUME NEW n \in T, NEW m \in T, <<m, n>> \notin Less PROVE n <= m
  BY <1>3 DEF Less
<1>4. QED
  BY <1>2, <1>3

\* Of some subsets of a finite set, one has the fewest elements.
LEMMA LeastSet ==
    ASSUME NEW S, IsFiniteSet(S), NEW T, T \subseteq SUBSET S, T # {}
    PROVE  \E s \in T : \A t \in SUBSET S : Cardinality(t) < Cardinality(s) => t \notin T
<1> DEFINE C == {Cardinality(s) : s \in T}
<1>1. \A s \in SUBSET S : Cardinality(s) \in Nat
  BY FS_Subset, FS_CardinalityType
<1>2. C \subseteq Nat /\ C # {}
  BY <1>1
<1>3. PICK c \in C : \A m \in C : c <= m
  BY <1>2, LeastNat
<1>4. PICK s \in T : c = Cardinality(s)
  OBVIOUS
<1>5. ASSUME NEW t \in T PROVE ~(Cardinality(t) < Cardinality(s))
  BY <1>1, <1>3, <1>4
<1>6. QED
  BY <1>5

\* A set of natural numbers below a bound has a greatest member.
LEMMA MaxIn ==
    ASSUME NEW n \in Nat, NEW d \in SUBSET (1..n), d # {}
    PROVE  Max(d) \in d /\ \A x \in d : Max(d) >= x
<1> DEFINE T == {n - x : x \in d}
<1>1. T \subseteq Nat /\ T # {}
  OBVIOUS
<1>2. PICK m \in T : \A k \in T : m <= k
  BY <1>1, LeastNat
<1>3. PICK x \in d : m = n - x
  OBVIOUS
<1>4. ASSUME NEW y \in d PROVE x >= y
  <2>1. n - y \in T
    OBVIOUS
  <2>2. n - x <= n - y
    BY <1>2, <1>3, <2>1
  <2>3. x \in Int /\ y \in Int
    OBVIOUS
  <2>4. QED
    BY <2>2, <2>3
<1>5. QED
  BY <1>4, Zenon DEF Max

Subsets(S, n) == {s \in SUBSET S : Cardinality(s) <= n}

\* A subset without one of its elements is a smaller subset.
LEMMA Smaller ==
    ASSUME NEW S, IsFiniteSet(S), NEW s \in SUBSET S, NEW x \in s
    PROVE  /\ IsFiniteSet(s) /\ Cardinality(s) \in Nat /\ Cardinality(s) > 0
           /\ s \ {x} \in SUBSET S /\ Cardinality(s \ {x}) = Cardinality(s) - 1
<1>1. IsFiniteSet(s) /\ Cardinality(s) \in Nat
  BY FS_Subset, FS_CardinalityType
<1>2. Cardinality(s) > 0
  BY <1>1, FS_EmptySet
<1>3. QED
  BY <1>1, <1>2, FS_RemoveElement

----------------------------------------------------------------------------
\* Sums

Pick(s) == CHOOSE x \in s : TRUE

SumBody(f, g, s) == IF s = {} THEN 0 ELSE f[Pick(s)] + g[s \ {Pick(s)}]

Sum(f, S) == MapThenSumSet(LAMBDA a : f[a], S)

\* g adds f up over every subset of S.
Sums(f, S, g) == g \in [SUBSET S -> Int] /\ \A s \in SUBSET S : g[s] = SumBody(f, g, s)

\* The sum as the fold defines it.
LEMMA SumIsFold ==
    ASSUME NEW S, NEW f
    PROVE  Sum(f, S) = (CHOOSE g : g = [s \in SUBSET S |-> SumBody(f, g, s)])[S]
BY Zenon DEF Sum, MapThenSumSet, MapThenFoldSet, SumBody, Pick

\* The element that a nonempty set gives up first is one of its own.
LEMMA PickIn == ASSUME NEW s, s # {} PROVE Pick(s) \in s
BY DEF Pick

Approx(f, S, n, g) ==
    g \in [Subsets(S, n) -> Int] /\ \A s \in Subsets(S, n) : g[s] = SumBody(f, g, s)

\* Sums exist over the subsets of any size.
LEMMA ApproxExists ==
    ASSUME NEW S, IsFiniteSet(S), NEW f \in [S -> Int]
    PROVE  \A n \in Nat : \E g : Approx(f, S, n, g)
<1> DEFINE Bad == {n \in Nat : ~ \E g : Approx(f, S, n, g)}
<1> SUFFICES ASSUME Bad # {} PROVE FALSE
  OBVIOUS
<1>1. PICK n \in Bad : \A m \in Bad : n <= m
  BY LeastNat
<1>2. \A s \in SUBSET S : IsFiniteSet(s) /\ Cardinality(s) \in Nat
  BY FS_Subset, FS_CardinalityType
<1>3. n # 0
  <2>1. SUFFICES ASSUME n = 0 PROVE FALSE
    OBVIOUS
  <2>2. Subsets(S, 0) = {{}}
    BY <1>2, FS_EmptySet DEF Subsets
  <2>3. Approx(f, S, 0, [s \in Subsets(S, 0) |-> 0])
    BY <2>2 DEF Approx, SumBody
  <2>4. QED
    BY <2>1, <2>3
<1>4. n - 1 \in Nat /\ n - 1 \notin Bad
  BY <1>1, <1>3
<1>5. PICK h : Approx(f, S, n - 1, h)
  BY <1>4
<1> DEFINE g == [s \in Subsets(S, n) |-> SumBody(f, h, s)]
<1>6. ASSUME NEW s \in Subsets(S, n), s # {}
      PROVE  Pick(s) \in S /\ s \ {Pick(s)} \in Subsets(S, n - 1)
  BY <1>4, <1>6, PickIn, Smaller DEF Subsets
<1>7. g \in [Subsets(S, n) -> Int]
  <2>1. ASSUME NEW s \in Subsets(S, n) PROVE SumBody(f, h, s) \in Int
    <3>1. CASE s = {}
      BY <3>1 DEF SumBody
    <3>2. CASE s # {}
      <4>1. h[s \ {Pick(s)}] \in Int /\ f[Pick(s)] \in Int
        BY <1>5, <1>6, <3>2 DEF Approx
      <4>2. QED
        BY <3>2, <4>1 DEF SumBody
    <3>3. QED
      BY <3>1, <3>2
  <2>2. QED
    BY <2>1
<1>8. \A s \in Subsets(S, n - 1) : g[s] = h[s]
  <2>1. Subsets(S, n - 1) \subseteq Subsets(S, n)
    BY <1>2, <1>4 DEF Subsets
  <2>2. QED
    BY <1>5, <2>1 DEF Approx
<1>9. ASSUME NEW s \in Subsets(S, n) PROVE SumBody(f, h, s) = SumBody(f, g, s)
  <2>1. CASE s = {}
    BY <2>1 DEF SumBody
  <2>2. CASE s # {}
    <3>1. h[s \ {Pick(s)}] = g[s \ {Pick(s)}]
      BY <1>6, <1>8, <2>2
    <3>2. QED
      BY <2>2, <3>1 DEF SumBody
  <2>3. QED
    BY <2>1, <2>2
<1>10. Approx(f, S, n, g)
  BY <1>7, <1>9 DEF Approx
<1>11. QED
  BY <1>1, <1>10

\* The fold adds up: there is a function that does, and it chooses one.
LEMMA SumExists ==
    ASSUME NEW S, IsFiniteSet(S), NEW f \in [S -> Int]
    PROVE  \E g : Sums(f, S, g) /\ Sum(f, S) = g[S]
<1>1. Cardinality(S) \in Nat /\ Subsets(S, Cardinality(S)) = SUBSET S
  BY FS_Subset, FS_CardinalityType DEF Subsets
<1>2. PICK h : Approx(f, S, Cardinality(S), h)
  BY <1>1, ApproxExists
<1>3. h = [s \in SUBSET S |-> SumBody(f, h, s)]
  BY <1>1, <1>2 DEF Approx
<1> DEFINE G == CHOOSE g : g = [s \in SUBSET S |-> SumBody(f, g, s)]
<1>4. G = [s \in SUBSET S |-> SumBody(f, G, s)]
  BY <1>3, Zenon
<1>5. Sum(f, S) = G[S]
  BY SumIsFold, Zenon
<1> HIDE DEF G
<1>6. \A s \in SUBSET S : G[s] \in Int
  <2> DEFINE Bad == {s \in SUBSET S : G[s] \notin Int}
  <2> SUFFICES ASSUME Bad # {} PROVE FALSE
    OBVIOUS
  <2>1. PICK s \in Bad : \A t \in SUBSET S : Cardinality(t) < Cardinality(s) => t \notin Bad
    BY LeastSet, ZenonT(60)
  <2>2. G[s] = SumBody(f, G, s)
    BY <1>4
  <2>3. s # {}
    BY <2>2 DEF SumBody
  <2>4. f[Pick(s)] \in Int /\ G[s \ {Pick(s)}] \in Int
    BY <2>1, <2>3, PickIn, Smaller
  <2>5. QED
    BY <2>2, <2>3, <2>4 DEF SumBody
<1>7. QED
  BY <1>4, <1>5, <1>6 DEF Sums

\* A sum changes by what one of its terms does.
LEMMA SumChange ==
    ASSUME NEW S, IsFiniteSet(S), NEW f \in [S -> Int], NEW a \in S, NEW v \in Int
    PROVE  /\ Sum(f, S) \in Int
           /\ Sum([f EXCEPT ![a] = v], S) = Sum(f, S) + (v - f[a])
<1>1. PICK g : Sums(f, S, g) /\ Sum(f, S) = g[S]
  BY SumExists
<1> DEFINE e == [f EXCEPT ![a] = v]
<1>2. e \in [S -> Int] /\ \A b \in S : e[b] = IF b = a THEN v ELSE f[b]
  OBVIOUS
<1> HIDE DEF e
<1>3. PICK h : Sums(e, S, h) /\ Sum(e, S) = h[S]
  BY <1>2, SumExists
<1> DEFINE Right(s) == h[s] = IF a \in s THEN g[s] + (v - f[a]) ELSE g[s]
           Bad == {s \in SUBSET S : ~Right(s)}
<1>4. Bad = {}
  <2> SUFFICES ASSUME Bad # {} PROVE FALSE
    OBVIOUS
  <2>1. PICK s \in Bad : \A t \in SUBSET S : Cardinality(t) < Cardinality(s) => t \notin Bad
    BY LeastSet, ZenonT(60)
  <2>2. g[s] = SumBody(f, g, s) /\ h[s] = SumBody(e, h, s)
    BY <1>1, <1>3 DEF Sums
  <2>3. s # {}
    BY <2>2 DEF SumBody
  <2>4. PICK x \in s : x = Pick(s)
    BY <2>3, PickIn
  <2>5. PICK t \in SUBSET S : t = s \ {x} /\ Cardinality(t) < Cardinality(s)
    <3>1. s \in SUBSET S
      OBVIOUS
    <3>2. s \ {x} \in SUBSET S /\ Cardinality(s \ {x}) < Cardinality(s)
      BY <3>1, Smaller
    <3>3. QED
      BY <3>2
  <2>6. Right(t)
    BY <2>1, <2>5
  <2>7. g[s] = f[x] + g[t] /\ h[s] = e[x] + h[t]
    BY <2>2, <2>3, <2>4, <2>5 DEF SumBody
  <2>8. g[t] \in Int /\ h[t] \in Int /\ f[x] \in Int /\ f[a] \in Int
    BY <1>1, <1>3 DEF Sums
  <2>9. CASE x = a
    <3>1. a \notin t /\ a \in s
      BY <2>5, <2>9
    <3>2. h[s] = g[s] + (v - f[a])
      BY <1>2, <2>6, <2>7, <2>8, <2>9, <3>1
    <3>3. QED
      BY <3>1, <3>2
  <2>10. CASE x # a
    <3>1. a \in t <=> a \in s
      BY <2>5, <2>10
    <3>2. e[x] = f[x]
      BY <1>2, <2>10
    <3>3. QED
      BY <2>6, <2>7, <2>8, <3>1, <3>2
  <2>11. QED
    BY <2>9, <2>10
<1>5. h[S] = g[S] + (v - f[a])
  BY <1>4
<1>6. g[S] \in Int
  BY <1>1 DEF Sums
<1>7. QED
  BY <1>1, <1>3, <1>5, <1>6 DEF e

\* Nothing adds up to nothing.
LEMMA SumOfZeros ==
    ASSUME NEW S, IsFiniteSet(S), NEW f \in [S -> Int], \A a \in S : f[a] = 0
    PROVE  Sum(f, S) = 0
<1>1. PICK g : Sums(f, S, g) /\ Sum(f, S) = g[S]
  BY SumExists
<1> DEFINE Bad == {s \in SUBSET S : g[s] # 0}
<1>2. Bad = {}
  <2> SUFFICES ASSUME Bad # {} PROVE FALSE
    OBVIOUS
  <2>1. PICK s \in Bad : \A t \in SUBSET S : Cardinality(t) < Cardinality(s) => t \notin Bad
    BY LeastSet, ZenonT(60)
  <2>2. s \in SUBSET S /\ g[s] # 0 /\ g[s] = SumBody(f, g, s)
    BY <1>1 DEF Sums
  <2>3. s # {}
    BY <2>2 DEF SumBody
  <2>4. PICK x \in s : x = Pick(s)
    BY <2>3, PickIn
  <2>5. s \ {x} \in SUBSET S /\ Cardinality(s \ {x}) < Cardinality(s)
    BY <2>2, Smaller
  <2>6. g[s \ {x}] = 0
    BY <2>1, <2>5
  <2>7. g[s] = f[x] + g[s \ {x}] /\ f[x] = 0
    BY <2>2, <2>3, <2>4 DEF SumBody
  <2>8. QED
    BY <2>2, <2>6, <2>7
<1>3. QED
  BY <1>1, <1>2

----------------------------------------------------------------------------
\* Folds of sequences

FoldBody(base, s, g, d) ==
    IF d = {} THEN base ELSE Op(g[d \ {Max(d)}], s[Max(d)])

Fold(base, s) == FoldLeft(Op, base, s)

Folded(base, s, g) == g = [d \in SUBSET (DOMAIN s) |-> FoldBody(base, s, g, d)]

\* The fold of a sequence as it is defined.
LEMMA FoldIsFold ==
    ASSUME NEW base, NEW s
    PROVE  Fold(base, s) =
             (CHOOSE g : g = [d \in SUBSET (DOMAIN s) |-> FoldBody(base, s, g, d)])[DOMAIN s]
BY Zenon DEF Fold, FoldLeft, MapThenFoldSet, FoldBody

FoldApprox(base, s, n, g) ==
    g = [d \in Subsets(DOMAIN s, n) |-> FoldBody(base, s, g, d)]

\* Folds exist over the sets of indices of any size.
LEMMA FoldApproxExists ==
    ASSUME NEW base, NEW S, NEW s \in Seq(S)
    PROVE  \A n \in Nat : \E g : FoldApprox(base, s, n, g)
<1> DEFINE D == DOMAIN s
           Bad == {n \in Nat : ~ \E g : FoldApprox(base, s, n, g)}
<1> SUFFICES ASSUME Bad # {} PROVE FALSE
  OBVIOUS
<1>0. D = 1..Len(s) /\ Len(s) \in Nat /\ IsFiniteSet(D)
  BY FS_Interval
<1> HIDE DEF D
<1>1. PICK n \in Bad : \A m \in Bad : n <= m
  BY LeastNat
<1>2. \A d \in SUBSET D : IsFiniteSet(d) /\ Cardinality(d) \in Nat
  BY <1>0, FS_Subset, FS_CardinalityType
<1>3. n # 0
  <2>1. SUFFICES ASSUME n = 0 PROVE FALSE
    OBVIOUS
  <2>2. Subsets(D, 0) = {{}}
    BY <1>2, FS_EmptySet DEF Subsets
  <2>3. FoldApprox(base, s, 0, [d \in Subsets(D, 0) |-> base])
    BY <2>2 DEF FoldApprox, FoldBody, D
  <2>4. QED
    BY <2>1, <2>3
<1>4. n - 1 \in Nat /\ n - 1 \notin Bad
  BY <1>1, <1>3
<1>5. PICK h : FoldApprox(base, s, n - 1, h)
  BY <1>4
<1> DEFINE g == [d \in Subsets(D, n) |-> FoldBody(base, s, h, d)]
<1>6. ASSUME NEW d \in Subsets(D, n), d # {}
      PROVE  d \ {Max(d)} \in Subsets(D, n - 1)
  <2>1. PICK x \in d : x = Max(d)
    BY <1>0, <1>6, MaxIn DEF Subsets
  <2>2. d \in SUBSET D /\ Cardinality(d) <= n
    BY DEF Subsets
  <2>3. /\ Cardinality(d) \in Nat /\ d \ {x} \in SUBSET D
        /\ Cardinality(d \ {x}) = Cardinality(d) - 1
    BY <1>0, <2>2, Smaller
  <2>4. QED
    BY <1>4, <2>1, <2>2, <2>3 DEF Subsets
<1>7. \A d \in Subsets(D, n - 1) : g[d] = h[d]
  <2>1. Subsets(D, n - 1) \subseteq Subsets(D, n)
    BY <1>2, <1>4 DEF Subsets
  <2>2. QED
    BY <1>5, <2>1 DEF FoldApprox, D
<1>8. ASSUME NEW d \in Subsets(D, n) PROVE FoldBody(base, s, h, d) = FoldBody(base, s, g, d)
  <2>1. CASE d = {}
    BY <2>1 DEF FoldBody
  <2>2. CASE d # {}
    <3>1. h[d \ {Max(d)}] = g[d \ {Max(d)}]
      BY <1>6, <1>7, <2>2
    <3>2. QED
      BY <2>2, <3>1 DEF FoldBody
  <2>3. QED
    BY <2>1, <2>2
<1>9. FoldApprox(base, s, n, g)
  BY <1>8 DEF FoldApprox, D
<1>10. QED
  BY <1>1, <1>9

\* The fold is folded: there is a function that is, and it chooses one.
LEMMA FoldExists ==
    ASSUME NEW base, NEW S, NEW s \in Seq(S)
    PROVE  \E g : Folded(base, s, g) /\ Fold(base, s) = g[DOMAIN s]
<1>1. IsFiniteSet(DOMAIN s)
  BY FS_Interval
<1>2. /\ Cardinality(DOMAIN s) \in Nat
      /\ Subsets(DOMAIN s, Cardinality(DOMAIN s)) = SUBSET (DOMAIN s)
  BY <1>1, FS_Subset, FS_CardinalityType DEF Subsets
<1>3. PICK h : FoldApprox(base, s, Cardinality(DOMAIN s), h)
  BY <1>2, FoldApproxExists
<1>4. h = [d \in SUBSET (DOMAIN s) |-> FoldBody(base, s, h, d)]
  BY <1>2, <1>3 DEF FoldApprox
<1> DEFINE G == CHOOSE g : g = [d \in SUBSET (DOMAIN s) |-> FoldBody(base, s, g, d)]
<1>5. G = [d \in SUBSET (DOMAIN s) |-> FoldBody(base, s, G, d)]
  BY <1>4, Zenon
<1>6. Fold(base, s) = G[DOMAIN s]
  BY FoldIsFold, Zenon
<1> HIDE DEF G
<1>7. QED
  BY <1>5, <1>6 DEF Folded

\* Nothing folded is the base.
LEMMA FoldEmpty == ASSUME NEW base PROVE Fold(base, <<>>) = base
<1>1. <<>> \in Seq({}) /\ DOMAIN <<>> = {}
  OBVIOUS
<1>2. PICK g : Folded(base, <<>>, g) /\ Fold(base, <<>>) = g[DOMAIN <<>>]
  BY <1>1, FoldExists
<1>3. g[{}] = FoldBody(base, <<>>, g, {})
  BY <1>1, <1>2 DEF Folded
<1>4. QED
  BY <1>1, <1>2, <1>3 DEF FoldBody

\* One more element is one more application of Op.
LEMMA FoldAppend ==
    ASSUME NEW base, NEW S, NEW s \in Seq(S), NEW e \in S
    PROVE  Fold(base, Append(s, e)) = Op(Fold(base, s), e)
<1> DEFINE t == Append(s, e)
           n == Len(s)
<1>1. /\ t \in Seq(S) /\ n \in Nat /\ DOMAIN s = 1..n /\ DOMAIN t = 1..(n + 1)
      /\ t[n + 1] = e /\ \A i \in 1..n : t[i] = s[i]
  OBVIOUS
<1> HIDE DEF t, n
<1>2. PICK g : Folded(base, s, g) /\ Fold(base, s) = g[1..n]
  BY <1>1, FoldExists
<1>3. PICK h : Folded(base, t, h) /\ Fold(base, t) = h[1..(n + 1)]
  BY <1>1, FoldExists
<1>4. \A d \in SUBSET (1..n) : g[d] = FoldBody(base, s, g, d)
  BY <1>1, <1>2 DEF Folded
<1>5. \A d \in SUBSET (1..(n + 1)) : h[d] = FoldBody(base, t, h, d)
  BY <1>1, <1>3 DEF Folded
<1> DEFINE Bad == {d \in SUBSET (1..n) : h[d] # g[d]}
<1>6. Bad = {}
  <2> SUFFICES ASSUME Bad # {} PROVE FALSE
    OBVIOUS
  <2>1. PICK D : D = 1..n /\ IsFiniteSet(D)
    BY <1>1, FS_Interval
  <2>2. PICK d \in Bad : \A c \in SUBSET D : Cardinality(c) < Cardinality(d) => c \notin Bad
    <3>1. Bad \subseteq SUBSET D /\ Bad # {}
      BY <2>1
    <3> HIDE DEF Bad
    <3>2. IsFiniteSet(D)
      BY <2>1
    <3>3. QED
      BY <3>1, <3>2, LeastSet, Zenon
  <2>3. d \in SUBSET (1..n) /\ d \in SUBSET (1..(n + 1))
    BY <1>1
  <2>4. g[d] = FoldBody(base, s, g, d) /\ h[d] = FoldBody(base, t, h, d)
    BY <1>4, <1>5, <2>3
  <2>5. d # {}
    BY <2>4 DEF FoldBody
  <2>6. PICK x \in d : x = Max(d)
    BY <1>1, <2>3, <2>5, MaxIn
  <2>7. d \ {x} \in SUBSET D /\ Cardinality(d \ {x}) < Cardinality(d)
    <3>1. d \in SUBSET D
      BY <2>1, <2>3
    <3>2. /\ Cardinality(d) \in Nat /\ d \ {x} \in SUBSET D
          /\ Cardinality(d \ {x}) = Cardinality(d) - 1
      BY <2>1, <3>1, Smaller, Zenon
    <3>3. QED
      BY <3>2
  <2>8. h[d \ {x}] = g[d \ {x}] /\ t[x] = s[x]
    BY <1>1, <2>1, <2>2, <2>3, <2>7
  <2>9. g[d] = Op(g[d \ {x}], s[x]) /\ h[d] = Op(h[d \ {x}], t[x])
    BY <2>4, <2>5, <2>6 DEF FoldBody
  <2>10. QED
    BY <2>8, <2>9
<1>7. Max(1..(n + 1)) = n + 1
  <2>1. Max(1..(n + 1)) \in 1..(n + 1) /\ \A x \in 1..(n + 1) : Max(1..(n + 1)) >= x
    <3>1. n + 1 \in Nat /\ 1..(n + 1) \in SUBSET (1..(n + 1)) /\ 1..(n + 1) # {}
      BY <1>1
    <3>2. QED
      BY <3>1, MaxIn
  <2>2. QED
    BY <1>1, <2>1
<1>8. (1..(n + 1)) \ {n + 1} = 1..n /\ 1..(n + 1) # {}
  <2>1. \A m \in Nat : (1..(m + 1)) \ {m + 1} = 1..m /\ m + 1 \in 1..(m + 1)
    OBVIOUS
  <2>2. n \in Nat
    BY <1>1
  <2>3. QED
    BY <2>1, <2>2
<1>9. h[1..(n + 1)] = Op(h[1..n], e)
  BY <1>1, <1>5, <1>7, <1>8 DEF FoldBody
<1>10. h[1..n] = g[1..n]
  BY <1>6
<1>11. QED
  BY <1>2, <1>3, <1>9, <1>10 DEF t
=============================================================================
