--------------------------- MODULE NaturalLemmas ---------------------------
(***************************************************************************)
(* Facts about sets of natural numbers, recursion over numbers and trees,  *)
(* and flattened lists that several proofs share.  They are stated about   *)
(* sets and functions and not about predicates, so that a proof uses them  *)
(* with what it defines.                                                   *)
(***************************************************************************)
EXTENDS Integers, SequencesExt, WellFoundedInduction, FiniteSetTheorems, SequenceTheorems, TLAPS

\* Every set of natural numbers that is not empty has a least element.
LEMMA LeastNumber ==
  ASSUME NEW S \in SUBSET Nat, S # {}
  PROVE  \E m \in S : \A n \in S : m <= n
<1> DEFINE R == OpToRel(<, Nat)
<1>1. IsWellFoundedOn(R, Nat)
  BY NatLessThanWellFounded
<1>2. \A x, y \in Nat : <<x, y>> \in R <=> x < y
  BY DEF OpToRel
<1> HIDE DEF R
<1>3. \E m \in S : \A n \in S : <<n, m>> \notin R
  BY <1>1, WFMin
<1>4. PICK m \in S : \A n \in S : <<n, m>> \notin R
  BY <1>3
<1>5. \A n \in S : m <= n
  <2> TAKE n \in S
  <2>1. m \in Nat /\ n \in Nat
    OBVIOUS
  <2>2. <<n, m>> \notin R
    BY <1>4
  <2>3. ~(n < m)
    BY <1>2, <2>1, <2>2, Zenon
  <2> QED
    BY <2>1, <2>3
<1> QED
  BY <1>5

\* A set with 0 and the successor of each of its numbers has them all.
LEMMA Induction ==
  ASSUME NEW S, 0 \in S, \A n \in Nat : n \in S => n + 1 \in S
  PROVE  Nat \subseteq S
<1> SUFFICES ASSUME Nat \ S # {}
             PROVE  FALSE
  OBVIOUS
<1>1. PICK m \in Nat \ S : \A n \in Nat \ S : m <= n
  BY LeastNumber
<1>2. m # 0 /\ m - 1 \in Nat /\ m - 1 \in S
  BY <1>1
<1> QED
  BY <1>1, <1>2

\* A set with each number whose predecessors it has, has them all.
LEMMA StrongInduction ==
  ASSUME NEW S, \A n \in Nat : (\A m \in 0..(n - 1) : m \in S) => n \in S
  PROVE  Nat \subseteq S
<1> SUFFICES ASSUME Nat \ S # {}
             PROVE  FALSE
  OBVIOUS
<1>1. PICK m \in Nat \ S : \A n \in Nat \ S : m <= n
  BY LeastNumber
<1>2. \A n \in 0..(m - 1) : n \in S
  BY <1>1
<1> QED
  BY <1>1, <1>2

\* In a finite set of numbers the number of smaller ones tells where one is.
LEMMA RankUnique ==
  ASSUME NEW S \in SUBSET Nat, IsFiniteSet(S), NEW a \in S, NEW b \in S,
         Cardinality({x \in S : x < a}) = Cardinality({x \in S : x < b})
  PROVE  a = b
<1> DEFINE Below(n) == {x \in S : x < n}
<1>1. \A c, d \in S : c < d => Cardinality(Below(c)) # Cardinality(Below(d))
  <2> SUFFICES ASSUME NEW c \in S, NEW d \in S, c < d,
                      Cardinality(Below(c)) = Cardinality(Below(d))
               PROVE  FALSE
    OBVIOUS
  <2>1. IsFiniteSet(Below(d))
    <3>1. Below(d) \in SUBSET S
      OBVIOUS
    <3> QED
      BY <3>1, FS_Subset
  <2>2. Below(c) \in SUBSET Below(d) /\ c \in Below(d) /\ c \notin Below(c)
    <3>1. c \in Nat /\ d \in Nat /\ ~(c < c)
      OBVIOUS
    <3>2. \A x \in S : x < c => x < d
      BY <3>1
    <3> QED
      BY <3>1, <3>2, Zenon
  <2> HIDE DEF Below
  <2> QED
    BY <2>1, <2>2, FS_Subset
<1>2. a < b \/ b < a \/ a = b
  OBVIOUS
<1> QED
  BY <1>1, <1>2

----------------------------------------------------------------------------
(* Recursion.  A function that is defined by recursion is one chosen to      *)
(* satisfy its equation: that there is such a function has to be proved.     *)
(* Here the value for n depends on the one for down[n], or not for n < b.    *)

Recursive(f, n, b, base, down, step) ==
    f[n] = IF n < b THEN base[n] ELSE step[<<n, f[down[n]]>>]

\* What the equation is made of: down leads to smaller numbers.
IsRecursion(V, b, base, down, step) ==
    /\ b \in Nat /\ base \in [0..(b - 1) -> V]
    /\ down \in [Nat -> Nat] /\ \A n \in Nat : n >= b => down[n] < n
    /\ step \in [Nat \X V -> V]

Solves(f, k, b, base, down, step) ==
    \A n \in 0..k : Recursive(f, n, b, base, down, step)

\* The equation can be satisfied up to any number.
LEMMA RecursionUpTo ==
  ASSUME NEW V, NEW b \in Nat, NEW base \in [0..(b - 1) -> V],
         NEW down \in [Nat -> Nat], NEW step \in [Nat \X V -> V],
         \A n \in Nat : n >= b => down[n] < n
  PROVE  \A k \in Nat : \E f \in [0..k -> V] :
            Solves(f, k, b, base, down, step)
<1> DEFINE P(f, k) == Solves(f, k, b, base, down, step)
           S == {k \in Nat : \E f \in [0..k -> V] : P(f, k)}
<1>1. 0 \in S
  <2>1. 0 < b
    <3>1. down[0] \in Nat
      OBVIOUS
    <3> QED
      BY <3>1
  <2> DEFINE f == [n \in 0..0 |-> base[0]]
  <2>2. f \in [0..0 -> V]
    BY <2>1
  <2>3. P(f, 0)
    BY <2>1 DEF Recursive, Solves
  <2> HIDE DEF f, P
  <2> QED
    BY <2>2, <2>3
<1>2. ASSUME NEW k \in Nat, k \in S
      PROVE  k + 1 \in S
  <2>1. PICK f \in [0..k -> V] : P(f, k)
    BY <1>2
  <2> DEFINE new == IF k + 1 < b THEN base[k + 1] ELSE step[<<k + 1, f[down[k + 1]]>>]
             g == [n \in 0..(k + 1) |-> IF n <= k THEN f[n] ELSE new]
  <2>2. new \in V
    <3>1. CASE k + 1 < b
      BY <3>1
    <3>2. CASE ~(k + 1 < b)
      <4>1. down[k + 1] \in 0..k
        BY <3>2
      <4>2. f[down[k + 1]] \in V
        BY <4>1
      <4>3. <<k + 1, f[down[k + 1]]>> \in Nat \X V
        <5>1. k + 1 \in Nat
          OBVIOUS
        <5> QED
          BY <4>2, <5>1, Zenon
      <4>4. step[<<k + 1, f[down[k + 1]]>>] \in V
        BY <4>3
      <4> QED
        BY ONLY <3>2, <4>4
    <3> QED
      BY <3>1, <3>2
  <2> HIDE DEF new
  <2>3. g \in [0..(k + 1) -> V]
    BY <2>2
  <2>4. /\ \A n \in 0..k : g[n] = f[n]
        /\ g[k + 1] = new
    OBVIOUS
  <2> HIDE DEF g
  <2>5. ASSUME NEW n \in 0..(k + 1)
        PROVE  Recursive(g, n, b, base, down, step)
    <3>1. ~(n < b) => down[n] \in 0..k
      OBVIOUS
    <3>2. ~(n < b) => g[down[n]] = f[down[n]]
      BY <2>4, <3>1
    <3>3. CASE n \in 0..k
      <4>1. Recursive(f, n, b, base, down, step) /\ g[n] = f[n]
        BY <2>1, <2>4, <3>3 DEF Solves
      <4> QED
        BY ONLY <3>2, <4>1 DEF Recursive
    <3>4. CASE n = k + 1
      BY ONLY <2>4, <3>2, <3>4 DEF Recursive, new
    <3> QED
      BY <3>3, <3>4
  <2>6. P(g, k + 1)
    BY <2>5 DEF Solves
  <2>7. k + 1 \in Nat
    OBVIOUS
  <2> HIDE DEF P
  <2> QED
    BY <2>3, <2>6, <2>7
<1> HIDE DEF S
<1>3. Nat \subseteq S
  BY <1>1, <1>2, Induction
<1> QED
  BY <1>3 DEF S

\* So it can be satisfied for all numbers.
LEMMA Recursion ==
  ASSUME NEW V, NEW b, NEW base, NEW down, NEW step,
         IsRecursion(V, b, base, down, step)
  PROVE  \E f \in [Nat -> V] : \A n \in Nat : Recursive(f, n, b, base, down, step)
<1> USE DEF IsRecursion
<1> DEFINE P(f, k) == Solves(f, k, b, base, down, step)
           Part(k) == CHOOSE f \in [0..k -> V] : P(f, k)
           F == [n \in Nat |-> Part(n)[n]]
<1>1. \A k \in Nat : Part(k) \in [0..k -> V] /\ P(Part(k), k)
  <2>1. \A k \in Nat : \E f \in [0..k -> V] : P(f, k)
    BY RecursionUpTo
  <2> HIDE DEF P
  <2> QED
    BY <2>1
<1> HIDE DEF Part
\* Two functions that satisfy the equation agree as far as both go.
<1>0. ASSUME NEW k \in Nat, NEW f, NEW g, P(f, k), P(g, k)
      PROVE  \A n \in 0..k : f[n] = g[n]
  <2> DEFINE S == {n \in Nat : n <= k => f[n] = g[n]}
  <2>1. ASSUME NEW n \in Nat, \A m \in 0..(n - 1) : m \in S
        PROVE  n \in S
    <3> SUFFICES ASSUME n <= k
                 PROVE  f[n] = g[n]
      OBVIOUS
    <3>1. Recursive(f, n, b, base, down, step) /\ Recursive(g, n, b, base, down, step)
      BY <1>0 DEF Solves
    <3>2. CASE n < b
      BY ONLY <3>1, <3>2 DEF Recursive
    <3>3. CASE ~(n < b)
      <4>1. down[n] \in 0..(n - 1) /\ down[n] <= k
        BY <3>3
      <4>2. f[down[n]] = g[down[n]]
        BY <2>1, <4>1
      <4> QED
        BY ONLY <3>1, <3>3, <4>2 DEF Recursive
    <3> QED
      BY <3>2, <3>3
  <2> HIDE DEF S
  <2>2. Nat \subseteq S
    BY <2>1, StrongInduction
  <2> QED
    BY <2>2 DEF S
<1>2. ASSUME NEW k \in Nat, NEW n \in 0..k
      PROVE  Part(k)[n] = F[n]
  <2>1. n \in Nat /\ n \in 0..n /\ \A m \in 0..n : m \in 0..k
    OBVIOUS
  <2>2. P(Part(k), n) /\ P(Part(n), n)
    BY <1>1, <2>1, Zenon DEF Solves
  <2>3. \A m \in 0..n : Part(k)[m] = Part(n)[m]
    <3> HIDE DEF P
    <3> QED
      BY <1>0, <2>1, <2>2
  <2> QED
    BY <2>1, <2>3
<1>3. F \in [Nat -> V]
  <2> SUFFICES ASSUME NEW n \in Nat
               PROVE  Part(n)[n] \in V
    OBVIOUS
  <2>1. Part(n) \in [0..n -> V] /\ n \in 0..n
    BY <1>1
  <2> QED
    BY <2>1
<1>4. ASSUME NEW n \in Nat
      PROVE  Recursive(F, n, b, base, down, step)
  <2>1. F[n] = Part(n)[n]
    OBVIOUS
  <2>2. Recursive(Part(n), n, b, base, down, step)
    BY <1>1 DEF Solves
  <2>3. ~(n < b) => down[n] \in 0..n
    OBVIOUS
  <2> HIDE DEF F
  <2>4. ~(n < b) => Part(n)[down[n]] = F[down[n]]
    BY <1>2, <2>3
  <2> QED
    BY ONLY <2>1, <2>2, <2>4 DEF Recursive
<1> HIDE DEF F
<1> QED
  BY <1>3, <1>4

----------------------------------------------------------------------------
(* Recursion over trees: the value of f for a tree x is computed from its   *)
(* values for trees that are less high.                                     *)

LEMMA TreeInduction ==
  ASSUME NEW D, NEW H \in [D -> Nat], NEW S,
         \A x \in D : (\A y \in D : H[y] < H[x] => y \in S) => x \in S
  PROVE  D \subseteq S
<1> DEFINE T == {n \in Nat : \A x \in D : H[x] = n => x \in S}
<1>1. ASSUME NEW n \in Nat, \A m \in 0..(n - 1) : m \in T
      PROVE  n \in T
  <2> SUFFICES ASSUME NEW x \in D, H[x] = n
               PROVE  x \in S
    OBVIOUS
  <2>1. ASSUME NEW y \in D, H[y] < H[x]
        PROVE  y \in S
    <3>1. H[y] \in 0..(n - 1)
      BY <2>1
    <3> QED
      BY <1>1, <3>1
  <2> QED
    BY <2>1
<1> HIDE DEF T
<1>2. Nat \subseteq T
  BY <1>1, StrongInduction
<1> QED
  BY <1>2 DEF T

\* The step looks at the values for lower trees only.
IsTreeStep(D, H, V, step) ==
    /\ H \in [D -> Nat]
    /\ step \in [D \X [D -> V] -> V]
    /\ \A x \in D : \A g, h \in [D -> V] :
          (\A y \in D : H[y] < H[x] => g[y] = h[y]) => step[<<x, g>>] = step[<<x, h>>]

SolvesBelow(D, H, step, f, n) == \A x \in D : H[x] < n => f[x] = step[<<x, f>>]

\* Two solutions agree as far as both go.
LEMMA TreeSolutionUnique ==
  ASSUME NEW D, NEW H, NEW V, NEW step, IsTreeStep(D, H, V, step),
         NEW f \in [D -> V], NEW g \in [D -> V], NEW n \in Nat,
         SolvesBelow(D, H, step, f, n), SolvesBelow(D, H, step, g, n)
  PROVE  \A x \in D : H[x] < n => f[x] = g[x]
<1> USE DEF IsTreeStep, SolvesBelow
<1> DEFINE S == {k \in Nat : k < n => \A x \in D : H[x] = k => f[x] = g[x]}
<1>1. ASSUME NEW k \in Nat, \A m \in 0..(k - 1) : m \in S
      PROVE  k \in S
  <2> SUFFICES ASSUME k < n, NEW x \in D, H[x] = k
               PROVE  f[x] = g[x]
    OBVIOUS
  <2>1. \A y \in D : H[y] < H[x] => f[y] = g[y]
    <3> SUFFICES ASSUME NEW y \in D, H[y] < H[x]
                 PROVE  f[y] = g[y]
      OBVIOUS
    <3>1. H[y] \in 0..(k - 1) /\ H[y] < n
      OBVIOUS
    <3> QED
      BY <1>1, <3>1
  <2>2. step[<<x, f>>] = step[<<x, g>>]
    BY <2>1
  <2> QED
    BY <2>2
<1> HIDE DEF S
<1>2. Nat \subseteq S
  BY <1>1, StrongInduction
<1>3. \A x \in D : H[x] \in Nat
  OBVIOUS
<1> QED
  BY <1>2, <1>3 DEF S

\* There is a solution for the trees up to any height.
LEMMA TreeSolutionBelow ==
  ASSUME NEW D, NEW H, NEW V, NEW step, IsTreeStep(D, H, V, step), V # {}
  PROVE  \A n \in Nat : \E f \in [D -> V] : SolvesBelow(D, H, step, f, n)
<1> USE DEF IsTreeStep, SolvesBelow
<1> DEFINE S == {n \in Nat : \E f \in [D -> V] : SolvesBelow(D, H, step, f, n)}
<1>1. 0 \in S
  <2>1. PICK v \in V : TRUE
    OBVIOUS
  <2>2. [x \in D |-> v] \in [D -> V]
    OBVIOUS
  <2>3. \A x \in D : ~(H[x] < 0)
    OBVIOUS
  <2> QED
    BY <2>2, <2>3
<1>2. ASSUME NEW n \in Nat, n \in S
      PROVE  n + 1 \in S
  <2>1. PICK f \in [D -> V] : SolvesBelow(D, H, step, f, n)
    BY <1>2
  <2> DEFINE g == [x \in D |-> step[<<x, f>>]]
  <2>2. g \in [D -> V]
    OBVIOUS
  <2>3. ASSUME NEW x \in D, H[x] < n + 1
        PROVE  g[x] = step[<<x, g>>]
    <3>1. ASSUME NEW y \in D, H[y] < H[x]
          PROVE  f[y] = g[y]
      <4>1. H[y] < n
        BY <2>3, <3>1
      <4> QED
        BY <2>1, <4>1
    <3>2. g[x] = step[<<x, f>>]
      OBVIOUS
    <3> HIDE DEF g
    <3> QED
      BY <2>2, <3>1, <3>2
  <2> HIDE DEF g
  <2> QED
    BY <2>2, <2>3
<1> HIDE DEF S
<1>3. Nat \subseteq S
  BY <1>1, <1>2, Induction
<1> QED
  BY <1>3 DEF S

\* So there is one for all of them, however high they are.
LEMMA TreeRecursion ==
  ASSUME NEW D, NEW H, NEW V, NEW step, IsTreeStep(D, H, V, step), V # {}
  PROVE  \E f \in [D -> V] : \A x \in D : f[x] = step[<<x, f>>]
<1> DEFINE Part(n) == CHOOSE f \in [D -> V] : SolvesBelow(D, H, step, f, n)
           F == [x \in D |-> Part(H[x] + 1)[x]]
<1>1. \A n \in Nat : Part(n) \in [D -> V] /\ SolvesBelow(D, H, step, Part(n), n)
  BY TreeSolutionBelow, Zenon
<1> HIDE DEF Part
<1>2. \A x \in D : H[x] \in Nat /\ H[x] + 1 \in Nat /\ H[x] < H[x] + 1
  BY DEF IsTreeStep
<1>3. F \in [D -> V]
  BY <1>1, <1>2
<1>4. \A x \in D : F[x] = Part(H[x] + 1)[x]
  OBVIOUS
<1> HIDE DEF F
<1>5. ASSUME NEW x \in D
      PROVE  F[x] = step[<<x, F>>]
  <2> DEFINE f == Part(H[x] + 1)
  <2>1. f \in [D -> V] /\ SolvesBelow(D, H, step, f, H[x] + 1)
    BY <1>1, <1>2
  <2>2. ASSUME NEW y \in D, H[y] < H[x]
        PROVE  f[y] = F[y]
    <3> DEFINE g == Part(H[y] + 1)
    <3>1. g \in [D -> V] /\ SolvesBelow(D, H, step, g, H[y] + 1)
      BY <1>1, <1>2
    <3>2. g[y] = F[y]
      BY <1>4
    <3> HIDE DEF f, g
    <3>3. SolvesBelow(D, H, step, f, H[y] + 1)
      <4>1. \A z \in D : H[z] < H[y] + 1 => H[z] < H[x] + 1
        BY <1>2, <2>2
      <4> QED
        BY <2>1, <4>1 DEF SolvesBelow
    <3>4. f[y] = g[y]
      BY <1>2, <2>1, <3>1, <3>3, TreeSolutionUnique
    <3> QED
      BY <3>2, <3>4
  <2>3. F[x] = f[x] /\ f[x] = step[<<x, f>>]
    BY <1>2, <1>4, <2>1 DEF SolvesBelow
  <2> HIDE DEF f
  <2>4. step[<<x, f>>] = step[<<x, F>>]
    BY <1>3, <2>1, <2>2 DEF IsTreeStep
  <2> QED
    BY <2>3, <2>4
<1> QED
  BY <1>3, <1>5

----------------------------------------------------------------------------
(* Sequences of sequences, one behind the other.                             *)

\* The concatenations of the first ones.
IsFlattening(flat, ss, S) ==
    /\ flat \in [0..Len(ss) -> Seq(S)]
    /\ flat[0] = <<>>
    /\ \A n \in 1..Len(ss) : flat[n] = flat[n - 1] \o ss[n]
    /\ FlattenSeq(ss) = flat[Len(ss)]

LEMMA Flattening ==
  ASSUME NEW S, NEW ss \in Seq(Seq(S))
  PROVE  \E flat : IsFlattening(flat, ss, S)
<1>0. Len(ss) \in Nat /\ ss \in [1..Len(ss) -> Seq(S)]
  OBVIOUS
<1>1. CASE Len(ss) = 0
  <2> DEFINE flat == [n \in 0..0 |-> <<>>]
  <2>1. ss = <<>> /\ FlattenSeq(ss) = <<>>
    BY <1>1 DEF FlattenSeq
  <2>2. <<>> \in Seq(S)
    OBVIOUS
  <2>3. flat \in [0..0 -> Seq(S)] /\ flat[0] = <<>>
    BY <2>2
  <2> HIDE DEF flat
  <2>4. 1..0 = {}
    OBVIOUS
  <2>5. IsFlattening(flat, ss, S)
    BY <1>1, <2>1, <2>3, <2>4, Zenon DEF IsFlattening
  <2> QED
    BY <2>5
<1>2. CASE Len(ss) # 0
  <2> DEFINE base == [n \in 0..0 |-> <<>>]
             down == [n \in Nat |-> IF n = 0 THEN 0 ELSE n - 1]
             step == [a \in Nat \X Seq(S) |->
                        IF a[1] \in 1..Len(ss) THEN a[2] \o ss[a[1]] ELSE a[2]]
  <2>1. step \in [Nat \X Seq(S) -> Seq(S)]
    <3> SUFFICES ASSUME NEW a \in Nat \X Seq(S)
                 PROVE  (IF a[1] \in 1..Len(ss) THEN a[2] \o ss[a[1]] ELSE a[2]) \in Seq(S)
      OBVIOUS
    <3>1. a[2] \in Seq(S)
      OBVIOUS
    <3>2. a[1] \in 1..Len(ss) => ss[a[1]] \in Seq(S)
      BY <1>0
    <3> QED
      BY <3>1, <3>2, ConcatProperties
  <2>2. base \in [0..(1 - 1) -> Seq(S)]
    <3>1. <<>> \in Seq(S) /\ 0..(1 - 1) = 0..0
      OBVIOUS
    <3> QED
      BY <3>1
  <2>3. down \in [Nat -> Nat] /\ \A n \in Nat : n >= 1 => down[n] < n
    OBVIOUS
  <2>4. base[0] = <<>>
    OBVIOUS
  <2>5. \A n \in Nat : n >= 1 => down[n] = n - 1
    OBVIOUS
  <2>6. ASSUME NEW n \in 1..Len(ss), NEW v \in Seq(S)
        PROVE  step[<<n, v>>] = v \o ss[n]
    <3>1. <<n, v>> \in Nat \X Seq(S)
      OBVIOUS
    <3>2. step[<<n, v>>] = IF <<n, v>>[1] \in 1..Len(ss) THEN <<n, v>>[2] \o ss[<<n, v>>[1]]
                           ELSE <<n, v>>[2]
      BY <3>1, Zenon
    <3> QED
      BY <3>2
  <2> HIDE DEF base, down, step
  <2>7. IsRecursion(Seq(S), 1, base, down, step)
    BY <2>1, <2>2, <2>3 DEF IsRecursion
  <2>8. PICK f \in [Nat -> Seq(S)] : \A n \in Nat : Recursive(f, n, 1, base, down, step)
    BY <2>7, Recursion
  <2>9. f[0] = <<>>
    <3>1. 0 < 1 /\ 0 \in Nat
      OBVIOUS
    <3> QED
      BY <2>4, <2>8, <3>1, Zenon DEF Recursive
  <2>10. ASSUME NEW n \in 1..Len(ss)
         PROVE  f[n] = f[n - 1] \o ss[n]
    <3>1. n \in Nat /\ ~(n < 1) /\ n - 1 \in Nat /\ down[n] = n - 1
      BY <1>0, <2>5
    <3>2. f[n] = step[<<n, f[n - 1]>>]
      BY <2>8, <3>1 DEF Recursive
    <3> QED
      BY <2>6, <2>8, <3>1, <3>2
  <2> DEFINE Body(g) == [n \in 1..Len(ss) |-> IF n = 1 THEN ss[n] ELSE g[n - 1] \o ss[n]]
             w == [n \in 1..Len(ss) |-> f[n]]
             flatten == CHOOSE g : g = Body(g)
  <2>11. w = Body(w)
    <3>1. ASSUME NEW n \in 1..Len(ss)
          PROVE  f[n] = IF n = 1 THEN ss[n] ELSE w[n - 1] \o ss[n]
      <4>1. CASE n = 1
        <5>1. f[1] = <<>> \o ss[1]
          BY <2>9, <2>10, <4>1, 1 - 1 = 0
        <5>2. ss[1] \in Seq(S)
          BY <1>0, <4>1
        <5> QED
          BY <4>1, <5>1, <5>2
      <4>2. CASE n # 1
        <5>1. n - 1 \in 1..Len(ss)
          BY <4>2
        <5>2. w[n - 1] = f[n - 1]
          BY <5>1
        <5> QED
          BY <2>10, <4>2, <5>2
      <4> QED
        BY <4>1, <4>2
    <3> QED
      BY <3>1, Zenon
  <2>12. flatten = Body(flatten)
    <3> HIDE DEF Body, w
    <3> QED
      BY <2>11, Zenon
  <2>13. FlattenSeq(ss) = flatten[Len(ss)]
    BY <1>2 DEF FlattenSeq
  <2> HIDE DEF flatten
  <2>14. \A n \in 1..Len(ss) : flatten[n] = IF n = 1 THEN ss[n] ELSE flatten[n - 1] \o ss[n]
    BY <2>12, Zenon
  <2> DEFINE T == {n \in Nat : n \in 1..Len(ss) => flatten[n] = f[n]}
  <2>15. 0 \in T
    OBVIOUS
  <2>16. ASSUME NEW n \in Nat, n \in T
         PROVE  n + 1 \in T
    <3> SUFFICES ASSUME n + 1 \in 1..Len(ss)
                 PROVE  flatten[n + 1] = f[n + 1]
      OBVIOUS
    <3>1. (n + 1) - 1 = n
      OBVIOUS
    <3>2. f[n + 1] = f[n] \o ss[n + 1]
      BY <2>10, <3>1
    <3>3. CASE n = 0
      <4>1. flatten[1] = ss[1] /\ ss[1] \in Seq(S)
        <5>1. 1 \in 1..Len(ss)
          BY <1>0, <3>3
        <5> QED
          BY <1>0, <2>14, <5>1, Zenon
      <4>2. f[1] = <<>> \o ss[1]
        BY <2>9, <3>2, <3>3, 0 + 1 = 1, Zenon
      <4> QED
        BY <3>3, <4>1, <4>2
    <3>4. CASE n # 0
      <4>1. n \in 1..Len(ss) /\ n + 1 # 1
        BY <3>4
      <4>2. flatten[n] = f[n]
        BY <2>16, <4>1
      <4>3. flatten[n + 1] = flatten[n] \o ss[n + 1]
        BY <2>14, <3>1, <4>1
      <4> QED
        BY <3>2, <4>2, <4>3
    <3> QED
      BY <3>3, <3>4
  <2>17. Len(ss) \in T
    <3> HIDE DEF T
    <3> QED
      BY <1>0, <2>15, <2>16, Induction
  <2>18. flatten[Len(ss)] = f[Len(ss)]
    BY <1>0, <1>2, <2>17
  <2> DEFINE flat == [n \in 0..Len(ss) |-> f[n]]
  <2>19. /\ flat \in [0..Len(ss) -> Seq(S)]
         /\ flat[0] = <<>>
         /\ flat[Len(ss)] = f[Len(ss)]
    BY <1>0, <2>8, <2>9
  <2>20. \A n \in 1..Len(ss) : flat[n] = flat[n - 1] \o ss[n]
    <3> SUFFICES ASSUME NEW n \in 1..Len(ss)
                 PROVE  flat[n] = flat[n - 1] \o ss[n]
      OBVIOUS
    <3>1. n \in 0..Len(ss) /\ n - 1 \in 0..Len(ss)
      OBVIOUS
    <3>2. flat[n] = f[n] /\ flat[n - 1] = f[n - 1]
      BY <3>1
    <3> QED
      BY <2>10, <3>2
  <2> HIDE DEF flat
  <2>21. IsFlattening(flat, ss, S)
    BY <2>13, <2>18, <2>19, <2>20 DEF IsFlattening
  <2> QED
    BY <2>21
<1> QED
  BY <1>1, <1>2

LEMMA FlattenedType ==
  ASSUME NEW S, NEW ss \in Seq(Seq(S))
  PROVE  FlattenSeq(ss) \in Seq(S)
<1>1. PICK flat : IsFlattening(flat, ss, S)
  BY Flattening
<1> QED
  BY <1>1 DEF IsFlattening
=============================================================================
