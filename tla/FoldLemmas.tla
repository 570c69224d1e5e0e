----------------------------- MODULE FoldLemmas ------------------------------
(***************************************************************************)
(* What folds of the community modules compute, for sets and sequences of  *)
(* any size.                                                               *)
(*                                                                         *)
(* A fold is the value at the whole set of some function on its subsets    *)
(* that satisfies the fold's recursion (FoldExists; ChainFold for the      *)
(* positions of a sequence).  What holds of the values is shown from one   *)
(* to the next: up to a number (UpTo, which rests on LeastMember) or over  *)
(* the subsets of a set (OverSubsets).  SumSolves and SumChange say it of  *)
(* SumFunction, TotalRuns of Total, FirstTotalRuns and the TotalOver       *)
(* lemmas of what a function makes of a sequence.                          *)
(***************************************************************************)
EXTENDS Integers, Sums, FiniteSetTheorems, SequenceTheorems,
        WellFoundedInduction, TLAPS
-----------------------------------------------------------------------------
\* A set of naturals that is not empty has a least member.
LEMMA LeastMember ==
  ASSUME NEW S \in SUBSET Nat, S # {}
  PROVE  \E n \in S : \A m \in S : n <= m
<1>1. PICK n \in S : \A m \in S : <<m, n>> \notin OpToRel(<, Nat)
  BY NatLessThanWellFounded, WFMin
<1>2. \A m \in S : ~(m < n)
  BY <1>1 DEF OpToRel
<1> QED BY <1>2

\* Induction up to n, with a set for the predicate
LEMMA UpTo ==
  ASSUME NEW n \in Nat, NEW S, 0 \in S, \A k \in 1 .. n : k - 1 \in S => k \in S
  PROVE  \A k \in 0 .. n : k \in S
<1> DEFINE Bad == {k \in 0 .. n : k \notin S}
<1> SUFFICES ASSUME Bad # {} PROVE FALSE
  OBVIOUS
<1>1. PICK k \in Bad : \A j \in Bad : k <= j
  <2>1. Bad \in SUBSET Nat
    OBVIOUS
  <2> HIDE DEF Bad
  <2> QED BY <2>1, LeastMember
<1>2. k \in 1 .. n /\ k - 1 \in 0 .. n /\ ~(k <= k - 1)
  OBVIOUS
<1> QED BY <1>1, <1>2

\* Induction over the subsets of a finite set
LEMMA OverSubsets ==
  ASSUME NEW S, IsFiniteSet(S), NEW F,
         \A T \in SUBSET S : (\A U \in SUBSET T : U # T => U \in F) => T \in F
  PROVE  \A T \in SUBSET S : T \in F
<1> DEFINE Bad == {T \in SUBSET S : T \notin F}
<1> SUFFICES ASSUME Bad # {} PROVE FALSE
  OBVIOUS
<1>1. Bad \subseteq FiniteSubsetsOf(S)
  BY FS_Subset DEF FiniteSubsetsOf
<1>2. PICK T \in Bad : \A U \in Bad : <<U, T>> \notin StrictSubsetOrdering(S)
  <2> HIDE DEF Bad
  <2> QED BY <1>1, FS_StrictSubsetOrderingWellFounded, WFMin
<1>3. \A U \in SUBSET T : U # T => U \in F
  BY <1>2 DEF StrictSubsetOrdering
<1> QED BY <1>2, <1>3

\* c[T] is a member of T
Chooses(c, S) == \A T \in SUBSET S : T # {} => c[T] \in T

\* The folds of the community modules choose a function g that solves this.
FoldSolves(g, S, base, c, h) ==
  \A T \in SUBSET S : g[T] = IF T = {} THEN base ELSE h[c[T]][g[T \ {c[T]}]]

\* A fold over a finite set has a solution.
LEMMA FoldExists ==
  ASSUME NEW S, IsFiniteSet(S), NEW V, NEW base \in V,
         NEW c, Chooses(c, S),
         NEW h \in [S -> [V -> V]]
  PROVE  \E g \in [SUBSET S -> V] : FoldSolves(g, S, base, c, h)
<1> DEFINE Small(n) == {T \in SUBSET S : Cardinality(T) <= n}
           Solves(g, n) == \A T \in Small(n) :
             g[T] = IF T = {} THEN base ELSE h[c[T]][g[T \ {c[T]}]]
           N == Cardinality(S)
           Good == {n \in 0 .. N : \E g \in [Small(n) -> V] : Solves(g, n)}
<1>1. /\ N \in Nat /\ \A T \in SUBSET S : Cardinality(T) \in Nat /\ Cardinality(T) <= N
      /\ \A T \in SUBSET S : IsFiniteSet(T) /\ (Cardinality(T) = 0 <=> T = {})
  BY FS_Subset, FS_CardinalityType, FS_EmptySet
<1>2. 0 \in Good
  <2> DEFINE g == [T \in Small(0) |-> base]
  <2>1. \A T \in Small(0) : T = {}
    BY <1>1
  <2>2. g \in [Small(0) -> V] /\ Solves(g, 0)
    BY <2>1
  <2>3. \E k \in [Small(0) -> V] : Solves(k, 0)
    <3> HIDE DEF g, Solves
    <3> QED BY <2>2
  <2>4. 0 \in 0 .. N
    BY <1>1
  <2> QED BY <2>3, <2>4
<1>3. ASSUME NEW n \in 1 .. N, n - 1 \in Good PROVE n \in Good
  <2>1. PICK g \in [Small(n - 1) -> V] : Solves(g, n - 1)
    BY <1>3
  <2> DEFINE k == [T \in Small(n) |->
                     IF T \in Small(n - 1) THEN g[T] ELSE h[c[T]][g[T \ {c[T]}]]]
  <2>2. \A T \in Small(n) : T # {} => T \ {c[T]} \in Small(n - 1) /\ c[T] \in S
    <3> SUFFICES ASSUME NEW T \in Small(n), T # {}
                 PROVE  T \ {c[T]} \in Small(n - 1) /\ c[T] \in S
      OBVIOUS
    <3>1. c[T] \in T
      BY DEF Chooses
    <3>2. Cardinality(T \ {c[T]}) = Cardinality(T) - 1
      BY <3>1, <1>1, FS_RemoveElement
    <3> QED BY <3>1, <3>2, <1>1
  <2>3. Small(n - 1) \subseteq Small(n) /\ {} \in Small(n - 1)
    BY <1>1
  <2>4. \A T \in Small(n) : k[T] \in V
    <3> SUFFICES ASSUME NEW T \in Small(n), T \notin Small(n - 1) PROVE k[T] \in V
      BY <2>1
    <3>1. T # {} /\ k[T] = h[c[T]][g[T \ {c[T]}]]
      BY <2>3
    <3>2. g[T \ {c[T]}] \in V
      BY <3>1, <2>2, <2>1
    <3>3. h[c[T]] \in [V -> V]
      BY <3>1, <2>2
    <3> QED BY <3>1, <3>2, <3>3
  <2>5. Solves(k, n)
    <3> SUFFICES ASSUME NEW T \in Small(n)
                 PROVE  k[T] = IF T = {} THEN base ELSE h[c[T]][k[T \ {c[T]}]]
      OBVIOUS
    <3>1. CASE T = {}
      BY <3>1, <2>1, <2>3
    <3>2. CASE T # {}
      <4>1. k[T \ {c[T]}] = g[T \ {c[T]}]
        BY <3>2, <2>2, <2>3
      <4>2. k[T] = h[c[T]][g[T \ {c[T]}]]
        BY <3>2, <2>1
      <4> QED BY <4>1, <4>2, <3>2
    <3> QED BY <3>1, <3>2
  <2>6. k \in [Small(n) -> V]
    BY <2>4
  <2>7. \E j \in [Small(n) -> V] : Solves(j, n)
    <3> HIDE DEF k, Solves
    <3> QED BY <2>5, <2>6
  <2>8. n \in 0 .. N
    BY <1>1
  <2> QED BY <2>7, <2>8
<1>4. N \in Good
  <2> HIDE DEF Good
  <2>1. \A k \in 1 .. N : k - 1 \in Good => k \in Good
    BY <1>3
  <2>2. \A k \in 0 .. N : k \in Good
    BY <2>1, <1>1, <1>2, UpTo
  <2> QED BY <2>2, <1>1
<1>5. Small(N) = SUBSET S
  BY <1>1
<1> QED BY <1>4, <1>5 DEF FoldSolves
\* A set of numbers from 1 to n has a largest member.
LEMMA LargestMember ==
  ASSUME NEW n \in Nat, NEW T \in SUBSET (1 .. n), T # {}
  PROVE  Max(T) \in T /\ \A t \in T : t <= Max(T)
<1> DEFINE R == {n - t : t \in T}
<1>1. R \in SUBSET Nat /\ R # {}
  <2>1. PICK s \in T : TRUE
    OBVIOUS
  <2>2. n - s \in R
    OBVIOUS
  <2>3. \A t \in T : n - t \in Nat
    OBVIOUS
  <2> QED BY <2>2, <2>3
<1>2. PICK m \in R : \A r \in R : m <= r
  <2> HIDE DEF R
  <2> QED BY <1>1, LeastMember
<1>3. PICK top \in T : m = n - top
  OBVIOUS
<1>4. \A t \in T : top >= t
  <2> SUFFICES ASSUME NEW t \in T PROVE top >= t
    OBVIOUS
  <2>1. m <= n - t
    BY <1>2
  <2> QED BY <2>1, <1>3
<1>5. \E x \in T : \A t \in T : x >= t
  BY <1>4
<1>6. Max(T) \in T /\ \A t \in T : Max(T) >= t
  <2>1. Max(T) = CHOOSE x \in T : \A t \in T : x >= t
    BY DEF Max
  <2> QED BY <2>1, <1>5, Zenon
<1> QED BY <1>6

\* g solves the recursion of a fold over the positions 1 .. n: the last position
\* of T is folded onto the value of the rest
ChainSolves(g, n, base, h) ==
  \A T \in SUBSET (1 .. n) : g[T] = IF T = {} THEN base ELSE h[Max(T)][g[T \ {Max(T)}]]

\* A fold over the positions of a sequence, from the last one down, has a solution.
LEMMA ChainFold ==
  ASSUME NEW n \in Nat, NEW V, NEW base \in V, NEW h \in [1 .. n -> [V -> V]]
  PROVE  \E g \in [SUBSET (1 .. n) -> V] :
           ChainSolves(g, n, base, h)
<1> DEFINE c == [T \in SUBSET (1 .. n) |-> Max(T)]
<1>1. \A T \in SUBSET (1 .. n) : T # {} => c[T] \in T
  BY LargestMember
<1>2. IsFiniteSet(1 .. n)
  BY FS_Interval
<1>3. PICK g \in [SUBSET (1 .. n) -> V] : FoldSolves(g, 1 .. n, base, c, h)
  <2> DEFINE D == 1 .. n
  <2>1. IsFiniteSet(D)
    BY <1>2
  <2>3. Chooses(c, D)
    BY <1>1 DEF Chooses
  <2>4. h \in [D -> [V -> V]]
    OBVIOUS
  <2>2. \E g \in [SUBSET D -> V] : FoldSolves(g, D, base, c, h)
    <3> HIDE DEF c, D
    <3> QED BY <2>1, <2>3, <2>4, FoldExists
  <2> QED BY <2>2
<1>4. \A T \in SUBSET (1 .. n) : c[T] = Max(T)
  OBVIOUS
<1> HIDE DEF c
<1>5. ChainSolves(g, n, base, h)
  BY <1>3, <1>4 DEF FoldSolves, ChainSolves
<1> QED BY <1>5

\* The last of the first k positions is k, and k - 1 are left without it.
LEMMA LastOfRange ==
  ASSUME NEW n \in Nat, NEW k \in 1 .. n
  PROVE  /\ 1 .. k \in SUBSET (1 .. n) /\ 1 .. k # {} /\ Max(1 .. k) = k
         /\ (1 .. k) \ {k} = 1 .. (k - 1)
<1>1. 1 .. k \in SUBSET (1 .. n) /\ 1 .. k # {} /\ k \in 1 .. k
  OBVIOUS
<1>2. Max(1 .. k) \in 1 .. k /\ \A t \in 1 .. k : t <= Max(1 .. k)
  BY <1>1, LargestMember
<1> QED BY <1>1, <1>2

-----------------------------------------------------------------------------
(* Sums over a finite set. *)

\* Some(T): the member of T that the sum takes first
Some(T) == CHOOSE x \in T : TRUE

\* g solves the recursion of SumFunction on the subsets of S
IsSum(g, f, S) ==
  \A T \in SUBSET S : g[T] = IF T = {} THEN 0 ELSE f[Some(T)] + g[T \ {Some(T)}]

\* SumFunction has such a solution, and is its value at the whole domain.
LEMMA SumSolves ==
  ASSUME NEW S, IsFiniteSet(S), NEW f \in [S -> Int]
  PROVE  \E g \in [SUBSET S -> Int] : IsSum(g, f, S) /\ SumFunction(f) = g[S]
<1> DEFINE F(g) == [T \in SUBSET S |->
                      IF T = {} THEN 0 ELSE f[Some(T)] + g[T \ {Some(T)}]]
           G == CHOOSE g : g = F(g)
           c == [T \in SUBSET S |-> Some(T)]
           h == [x \in S |-> [y \in Int |-> f[x] + y]]
<1>1. SumFunction(f) = G[S]
  BY DEF SumFunction, SumFunctionOnSet, FoldFunctionOnSet, MapThenFoldSet, Some
<1>2. \A T \in SUBSET S : T # {} => Some(T) \in T
  BY DEF Some
<1>3. G = F(G)
  <2>1. Chooses(c, S) /\ h \in [S -> [Int -> Int]] /\ 0 \in Int
    BY <1>2 DEF Chooses
  <2>2. PICK g \in [SUBSET S -> Int] : FoldSolves(g, S, 0, c, h)
    <3> HIDE DEF h, c
    <3> QED BY <2>1, FoldExists
  <2>3. ASSUME NEW T \in SUBSET S, T # {}
        PROVE  h[c[T]][g[T \ {c[T]}]] = f[Some(T)] + g[T \ {Some(T)}]
    <3>1. c[T] = Some(T) /\ Some(T) \in S /\ g[T \ {Some(T)}] \in Int
      BY <2>3, <1>2, <2>2
    <3> QED BY <3>1
  <2>4. g = F(g)
    <3> HIDE DEF h, c
    <3> QED BY <2>2, <2>3 DEF FoldSolves
  <2> HIDE DEF F
  <2> QED BY <2>4
<1>4. \A T \in SUBSET S : G[T] = IF T = {} THEN 0 ELSE f[Some(T)] + G[T \ {Some(T)}]
  <2> SUFFICES ASSUME NEW T \in SUBSET S
               PROVE  G[T] = IF T = {} THEN 0 ELSE f[Some(T)] + G[T \ {Some(T)}]
    OBVIOUS
  <2>1. G[T] = F(G)[T]
    BY <1>3
  <2> HIDE DEF G
  <2> QED BY <2>1
<1>5. DOMAIN G = SUBSET S /\ G = [T \in SUBSET S |-> G[T]]
  <2>1. DOMAIN F(G) = SUBSET S /\ F(G) = [T \in SUBSET S |-> F(G)[T]]
    <3> HIDE DEF G
    <3> QED OBVIOUS
  <2> HIDE DEF F, G
  <2> QED BY <2>1, <1>3
<1> HIDE DEF G
<1>6. \A T \in SUBSET S : G[T] \in Int
  <2> DEFINE A == {T \in SUBSET S : G[T] \in Int}
  <2>1. ASSUME NEW T \in SUBSET S, \A U \in SUBSET T : U # T => U \in A
        PROVE  T \in A
    <3>1. CASE T = {}
      BY <3>1, <1>4
    <3>2. CASE T # {}
      <4>1. Some(T) \in T /\ f[Some(T)] \in Int
        BY <3>2, <1>2
      <4>2. T \ {Some(T)} \in A
        BY <2>1, <4>1
      <4> QED BY <3>2, <4>1, <4>2, <1>4
    <3> QED BY <3>1, <3>2
  <2>2. \A T \in SUBSET S : T \in A
    <3> HIDE DEF A
    <3> QED BY <2>1, OverSubsets
  <2> QED BY <2>2
<1>7. G \in [SUBSET S -> Int] /\ IsSum(G, f, S)
  BY <1>4, <1>5, <1>6 DEF IsSum
<1> QED BY <1>1, <1>7

\* What one term adds, the sum adds.
LEMMA SumChange ==
  ASSUME NEW S, IsFiniteSet(S), NEW f \in [S -> Int], NEW g \in [S -> Int],
         NEW x \in S, \A y \in S \ {x} : g[y] = f[y]
  PROVE  /\ SumFunction(f) \in Int /\ SumFunction(g) \in Int
         /\ SumFunction(g) = SumFunction(f) + g[x] - f[x]
<1>1. PICK F \in [SUBSET S -> Int] : IsSum(F, f, S) /\ SumFunction(f) = F[S]
  BY SumSolves
<1>2. PICK G \in [SUBSET S -> Int] : IsSum(G, g, S) /\ SumFunction(g) = G[S]
  BY SumSolves
<1> DEFINE A == {T \in SUBSET S : G[T] = F[T] + IF x \in T THEN g[x] - f[x] ELSE 0}
<1>3. ASSUME NEW T \in SUBSET S, \A U \in SUBSET T : U # T => U \in A
      PROVE  T \in A
  <2>1. CASE T = {}
    <3>1. F[T] = 0 /\ G[T] = 0
      BY <2>1, <1>1, <1>2 DEF IsSum
    <3> QED BY <2>1, <3>1
  <2>2. CASE T # {}
    <3> DEFINE y == Some(T)
               R == T \ {y}
    <3>1. y \in T /\ f[y] \in Int /\ g[y] \in Int /\ f[x] \in Int /\ g[x] \in Int
      BY <2>2 DEF Some
    <3>2. F[T] = f[y] + F[R] /\ G[T] = g[y] + G[R] /\ F[R] \in Int /\ G[R] \in Int
      BY <2>2, <1>1, <1>2 DEF IsSum
    <3>3. G[R] = F[R] + IF x \in R THEN g[x] - f[x] ELSE 0
      BY <1>3, <3>1
    <3>4. CASE y = x
      <4>1. x \notin R /\ x \in T
        BY <3>4, <3>1
      <4>2. G[R] = F[R]
        BY <4>1, <3>3, <3>2
      <4>3. G[T] = F[T] + (g[x] - f[x])
        <5> HIDE DEF R
        <5> QED BY <4>2, <3>1, <3>2, <3>4
      <4> QED BY <4>1, <4>3
    <3>5. CASE y # x
      <4>1. (x \in R <=> x \in T) /\ f[y] = g[y]
        BY <3>5, <3>1
      <4> HIDE DEF R, y
      <4> QED BY <4>1, <3>1, <3>2, <3>3
    <3> QED BY <3>4, <3>5
  <2> QED BY <2>1, <2>2
<1>4. \A T \in SUBSET S : T \in A
  <2> HIDE DEF A
  <2> QED BY <1>3, OverSubsets
<1>5. G[S] = F[S] + (g[x] - f[x]) /\ F[S] \in Int /\ G[S] \in Int
  BY <1>4
<1> QED BY <1>1, <1>2, <1>5

\* A sum of numbers none of which is negative is not negative.
LEMMA SumOfNats ==
  ASSUME NEW S, IsFiniteSet(S), NEW f \in [S -> Int], \A x \in S : f[x] >= 0
  PROVE  SumFunction(f) \in Int /\ SumFunction(f) >= 0
<1>1. PICK F \in [SUBSET S -> Int] : IsSum(F, f, S) /\ SumFunction(f) = F[S]
  BY SumSolves
<1> DEFINE A == {T \in SUBSET S : F[T] >= 0}
<1>2. ASSUME NEW T \in SUBSET S, \A U \in SUBSET T : U # T => U \in A
      PROVE  T \in A
  <2>1. CASE T = {}
    <3>1. F[T] = 0
      BY <2>1, <1>1 DEF IsSum
    <3> QED BY <3>1
  <2>2. CASE T # {}
    <3>1. Some(T) \in T
      BY <2>2 DEF Some
    <3>2. F[T] = f[Some(T)] + F[T \ {Some(T)}] /\ F[T \ {Some(T)}] \in Int
      BY <2>2, <1>1 DEF IsSum
    <3>3. F[T \ {Some(T)}] >= 0
      BY <1>2, <3>1
    <3>4. f[Some(T)] \in Int /\ f[Some(T)] >= 0
      BY <3>1
    <3> QED BY <3>2, <3>3, <3>4
  <2> QED BY <2>1, <2>2
<1>3. \A T \in SUBSET S : T \in A
  <2> HIDE DEF A
  <2> QED BY <1>2, OverSubsets
<1> QED BY <1>1, <1>3

\* Where every term is zero, so is the sum.
LEMMA SumOfZeros ==
  ASSUME NEW S, IsFiniteSet(S), NEW f \in [S -> Int], \A x \in S : f[x] = 0
  PROVE  SumFunction(f) = 0
<1>1. PICK F \in [SUBSET S -> Int] : IsSum(F, f, S) /\ SumFunction(f) = F[S]
  BY SumSolves
<1> DEFINE A == {T \in SUBSET S : F[T] = 0}
<1>2. ASSUME NEW T \in SUBSET S, \A U \in SUBSET T : U # T => U \in A
      PROVE  T \in A
  <2>1. CASE T = {}
    <3>1. F[T] = 0
      BY <2>1, <1>1 DEF IsSum
    <3> QED BY <3>1
  <2>2. CASE T # {}
    <3>1. Some(T) \in T
      BY <2>2 DEF Some
    <3>2. F[T] = f[Some(T)] + F[T \ {Some(T)}]
      BY <2>2, <1>1 DEF IsSum
    <3>3. F[T \ {Some(T)}] = 0
      BY <1>2, <3>1
    <3>4. f[Some(T)] = 0
      BY <3>1
    <3> QED BY <3>2, <3>3, <3>4
  <2> QED BY <2>1, <2>2
<1>3. \A T \in SUBSET S : T \in A
  <2> HIDE DEF A
  <2> QED BY <1>2, OverSubsets
<1> QED BY <1>1, <1>3
-----------------------------------------------------------------------------
(* Sums of a sequence. *)

\* the running sums of s
IsRunningSum(u, s) ==
  /\ u \in [0 .. Len(s) -> Int]
  /\ u[0] = 0
  /\ \A k \in 1 .. Len(s) : u[k] = u[k - 1] + s[k]

\* The total is the last of the running sums.
LEMMA TotalRuns ==
  ASSUME NEW s \in Seq(Int)
  PROVE  \E u : IsRunningSum(u, s) /\ Total(s) = u[Len(s)]
<1> DEFINE n == Len(s)
           F(g) == [T \in SUBSET (1 .. n) |->
                      IF T = {} THEN 0 ELSE g[T \ {Max(T)}] + s[Max(T)]]
           G == CHOOSE g : g = F(g)
           h == [k \in 1 .. n |-> [x \in Int |-> x + s[k]]]
           u == [k \in 0 .. n |-> G[1 .. k]]
<1>1. n \in Nat /\ DOMAIN s = 1 .. n /\ \A k \in 1 .. n : s[k] \in Int
  OBVIOUS
<1>2. Total(s) = G[1 .. n]
  BY <1>1 DEF Total, FoldLeft, MapThenFoldSet
<1>3. G = F(G)
  <2>1. h \in [1 .. n -> [Int -> Int]]
    BY <1>1
  <2>2. PICK g \in [SUBSET (1 .. n) -> Int] : ChainSolves(g, n, 0, h)
    <3> HIDE DEF h, n
    <3>1. 0 \in Int
      OBVIOUS
    <3> QED BY <2>1, <1>1, <3>1, ChainFold, Zenon
  <2>3. g = F(g)
    <3>1. ASSUME NEW T \in SUBSET (1 .. n), T # {}
          PROVE  h[Max(T)][g[T \ {Max(T)}]] = g[T \ {Max(T)}] + s[Max(T)]
      <4>1. Max(T) \in 1 .. n
        BY <3>1, <1>1, LargestMember
      <4>2. g[T \ {Max(T)}] \in Int
        BY <2>2
      <4> QED BY <4>1, <4>2
    <3> QED BY <3>1, <2>2 DEF ChainSolves
  <2> HIDE DEF F
  <2> QED BY <2>3
<1>4. \A k \in 1 .. n : G[1 .. k] = G[1 .. (k - 1)] + s[k]
  <2> SUFFICES ASSUME NEW k \in 1 .. n PROVE G[1 .. k] = G[1 .. (k - 1)] + s[k]
    OBVIOUS
  <2>1. /\ 1 .. k \in SUBSET (1 .. n) /\ 1 .. k # {} /\ Max(1 .. k) = k
        /\ (1 .. k) \ {k} = 1 .. (k - 1)
    BY <1>1, LastOfRange
  <2>2. G[1 .. k] = F(G)[1 .. k]
    BY <1>3
  <2> HIDE DEF G
  <2> QED BY <2>1, <2>2
<1>5. G[1 .. 0] = 0
  <2>1. G[1 .. 0] = F(G)[1 .. 0]
    BY <1>3
  <2> HIDE DEF G
  <2> QED BY <2>1
<1> HIDE DEF G
<1>6. \A k \in 0 .. n : G[1 .. k] \in Int
  <2> DEFINE A == {j \in 0 .. n : G[1 .. j] \in Int}
  <2>1. 0 \in A
    BY <1>5, <1>1
  <2>2. \A k \in 1 .. n : k - 1 \in A => k \in A
    BY <1>4, <1>1
  <2>3. \A k \in 0 .. n : k \in A
    <3> HIDE DEF A
    <3> QED BY <2>1, <2>2, <1>1, UpTo
  <2> QED BY <2>3
<1>7. IsRunningSum(u, s)
  <2>1. u \in [0 .. n -> Int] /\ u[0] = 0
    BY <1>5, <1>6, <1>1
  <2>2. \A k \in 1 .. n : u[k] = u[k - 1] + s[k]
    BY <1>4, <1>6, <1>1
  <2> QED BY <2>1, <2>2 DEF IsRunningSum
<1>8. Total(s) = u[n]
  BY <1>2, <1>1
<1> QED BY <1>7, <1>8

\* There is only one way to run up a sum.
LEMMA TotalIs ==
  ASSUME NEW s \in Seq(Int), NEW w, IsRunningSum(w, s)
  PROVE  Total(s) = w[Len(s)] /\ Total(s) \in Int
<1>1. PICK u : IsRunningSum(u, s) /\ Total(s) = u[Len(s)]
  BY TotalRuns
<1> DEFINE n == Len(s)
           A == {k \in 0 .. n : u[k] = w[k]}
<1>2. n \in Nat
  OBVIOUS
<1>3. 0 \in A /\ \A k \in 1 .. n : k - 1 \in A => k \in A
  BY <1>1, <1>2 DEF IsRunningSum
<1>4. \A k \in 0 .. n : k \in A
  <2> HIDE DEF A, n
  <2> QED BY <1>2, <1>3, UpTo
<1> QED BY <1>1, <1>2, <1>4 DEF IsRunningSum

\* A total of integers is one; of none it is zero.
LEMMA TotalTyped ==
  ASSUME NEW s \in Seq(Int)
  PROVE  Total(s) \in Int /\ (Len(s) = 0 => Total(s) = 0)
<1>1. PICK u : IsRunningSum(u, s) /\ Total(s) = u[Len(s)]
  BY TotalRuns
<1> QED BY <1>1 DEF IsRunningSum

\* A number more at the end
LEMMA TotalOfAppend ==
  ASSUME NEW s \in Seq(Int), NEW x \in Int
  PROVE  Total(Append(s, x)) = Total(s) + x
<1> DEFINE t == Append(s, x)
           n == Len(s)
<1>1. PICK u : IsRunningSum(u, s) /\ Total(s) = u[Len(s)]
  BY TotalRuns
<1> DEFINE w == [k \in 0 .. n + 1 |-> IF k = n + 1 THEN u[n] + x ELSE u[k]]
<1>2. n \in Nat /\ t \in Seq(Int) /\ Len(t) = n + 1 /\ t[n + 1] = x
      /\ \A k \in 1 .. n : t[k] = s[k]
  OBVIOUS
<1> HIDE DEF t
<1>3. IsRunningSum(w, t)
  <2> HIDE DEF n
  <2>0. /\ u \in [0 .. n -> Int] /\ u[0] = 0
        /\ \A k \in 1 .. n : u[k] = u[k - 1] + s[k]
    BY <1>1 DEF IsRunningSum, n
  <2>1. w \in [0 .. n + 1 -> Int]
    BY <2>0, <1>2
  <2>2. w[0] = 0
    BY <2>0, <1>2
  <2>3. ASSUME NEW k \in 1 .. n + 1 PROVE w[k] = w[k - 1] + t[k]
    <3>1. CASE k = n + 1
      <4>1. k - 1 = n /\ k - 1 \in 0 .. n + 1 /\ k \in 0 .. n + 1
        BY <3>1, <1>2
      <4> QED BY <3>1, <4>1, <1>2
    <3>2. CASE k \in 1 .. n
      <4>1. /\ k \in 0 .. n + 1 /\ k # n + 1
            /\ k - 1 \in 0 .. n + 1 /\ k - 1 # n + 1
        BY <3>2, <1>2
      <4>2. w[k] = u[k] /\ w[k - 1] = u[k - 1]
        BY <4>1
      <4> QED BY <3>2, <4>2, <2>0, <1>2
    <3> QED BY <3>1, <3>2, <1>2
  <2> HIDE DEF w
  <2> QED BY <2>1, <2>2, <2>3, <1>2 DEF IsRunningSum
<1> HIDE DEF w
<1>4. Total(t) = w[n + 1]
  BY <1>2, <1>3, TotalIs
<1>5. w[n + 1] = u[n] + x
  BY <1>2 DEF w
<1> QED BY <1>1, <1>4, <1>5 DEF t

\* The first number and the rest
LEMMA TotalOfTail ==
  ASSUME NEW s \in Seq(Int), Len(s) # 0
  PROVE  Total(s) = s[1] + Total(Tail(s))
<1> DEFINE t == Tail(s)
           n == Len(s)
<1>1. PICK u : IsRunningSum(u, s) /\ Total(s) = u[Len(s)]
  BY TotalRuns
<1> DEFINE w == [k \in 0 .. n - 1 |-> u[k + 1] - s[1]]
<1>2. n \in Nat \ {0} /\ t \in Seq(Int) /\ Len(t) = n - 1 /\ s[1] \in Int
      /\ \A k \in 1 .. n - 1 : t[k] = s[k + 1] /\ s[k + 1] \in Int
  OBVIOUS
<1> HIDE DEF t
<1>3. /\ u \in [0 .. n -> Int] /\ u[1] = s[1]
      /\ \A k \in 1 .. n - 1 : u[k + 1] = u[k] + s[k + 1]
  BY <1>1, <1>2 DEF IsRunningSum
<1>4. IsRunningSum(w, t)
  <2> HIDE DEF n
  <2>1. w \in [0 .. n - 1 -> Int] /\ w[0] = 0
    BY <1>2, <1>3
  <2>2. ASSUME NEW k \in 1 .. n - 1 PROVE w[k] = w[k - 1] + t[k]
    <3>1. /\ k \in 0 .. n - 1 /\ k - 1 \in 0 .. n - 1 /\ (k - 1) + 1 = k
          /\ k \in 0 .. n /\ k + 1 \in 0 .. n
      BY <1>2
    <3>2. w[k] = u[k + 1] - s[1] /\ w[k - 1] = u[k] - s[1]
      BY <3>1
    <3>3. u[k] \in Int /\ u[k + 1] \in Int
      BY <3>1, <1>3
    <3>4. u[k + 1] = u[k] + t[k] /\ t[k] \in Int
      BY <1>2, <1>3
    <3> DEFINE a == u[k]  b == u[k + 1]  c == s[1]  d == t[k]
    <3>5. a \in Int /\ b \in Int /\ c \in Int /\ d \in Int /\ b = a + d
      BY <3>3, <3>4, <1>2
    <3>6. w[k] = b - c /\ w[k - 1] = a - c
      BY <3>2
    <3> HIDE DEF w, a, b, c
    <3> SUFFICES w[k] = w[k - 1] + d
      OBVIOUS
    <3> HIDE DEF d
    <3> QED BY <3>5, <3>6
  <2> HIDE DEF w
  <2> QED BY <2>1, <2>2, <1>2 DEF IsRunningSum
<1> HIDE DEF w
<1>5. Total(t) = w[n - 1]
  BY <1>2, <1>4, TotalIs
<1>6. w[n - 1] = u[n] - s[1]
  BY <1>2 DEF w
<1> QED BY <1>1, <1>2, <1>3, <1>5, <1>6 DEF t

\* Another first number
LEMMA TotalOfFirst ==
  ASSUME NEW s \in Seq(Int), Len(s) # 0, NEW t \in Seq(Int), Len(t) = Len(s),
         \A k \in 2 .. Len(s) : t[k] = s[k]
  PROVE  Total(t) = Total(s) - s[1] + t[1]
<1> DEFINE n == Len(s)
<1>1. /\ n \in Nat \ {0} /\ Len(t) = n /\ 1 \in 1 .. n
      /\ s[1] \in Int /\ t[1] \in Int
  <2>1. n \in Nat \ {0} /\ Len(t) = n
    OBVIOUS
  <2> HIDE DEF n
  <2>2. 1 \in 1 .. n
    BY <2>1
  <2>3. 1 \in 1 .. Len(s) /\ 1 \in 1 .. Len(t)
    BY <2>1, <2>2 DEF n
  <2> QED BY <2>1, <2>2, <2>3, ElementOfSeq
<1>2. /\ Tail(s) \in Seq(Int) /\ Len(Tail(s)) = n - 1
      /\ Tail(t) \in Seq(Int) /\ Len(Tail(t)) = n - 1
      /\ \A k \in 1 .. n - 1 : Tail(s)[k] = s[k + 1]
      /\ \A k \in 1 .. n - 1 : Tail(t)[k] = t[k + 1]
  BY <1>1
<1>3. Tail(s) = Tail(t)
  <2>1. ASSUME NEW k \in 1 .. n - 1 PROVE Tail(s)[k] = Tail(t)[k]
    <3> HIDE DEF n
    <3>1. k + 1 \in 2 .. n
      BY <1>1
    <3> QED BY <3>1, <1>2 DEF n
  <2> HIDE DEF n
  <2> QED BY <2>1, <1>2, SeqEqual
<1>4. Total(s) = s[1] + Total(Tail(s)) /\ Total(t) = t[1] + Total(Tail(t))
  BY <1>1, TotalOfTail
<1>5. Total(Tail(s)) \in Int
  BY <1>2, TotalTyped
<1> DEFINE a == s[1]  b == t[1]  rest == Total(Tail(s))
<1>6. Total(s) = a + rest /\ Total(t) = b + rest
  BY <1>3, <1>4
<1>7. a \in Int /\ b \in Int /\ rest \in Int
  BY <1>1, <1>5
<1> SUFFICES Total(t) = Total(s) - a + b
  OBVIOUS
<1> HIDE DEF n, a, b, rest
<1> QED BY <1>6, <1>7
-----------------------------------------------------------------------------
(* Sums of what a function makes of the members of a sequence. *)

\* What f makes of the first k members of s adds up to
FirstTotal(s, f, k) == Total([i \in 1 .. k |-> f[s[i]]])
\* ... and of all its members
TotalOver(s, f) == Total([i \in 1 .. Len(s) |-> f[s[i]]])

\* One member more, and members beyond
LEMMA FirstTotalRuns ==
  ASSUME NEW S, NEW s \in Seq(S), NEW f \in [S -> Int]
  PROVE  /\ FirstTotal(s, f, 0) = 0
         /\ TotalOver(s, f) = FirstTotal(s, f, Len(s))
         /\ \A k \in 0 .. Len(s) : FirstTotal(s, f, k) \in Int
         /\ \A k \in 1 .. Len(s) :
              FirstTotal(s, f, k) = FirstTotal(s, f, k - 1) + f[s[k]]
<1> DEFINE n == Len(s)
           M(k) == [i \in 1 .. k |-> f[s[i]]]
<1>1. n \in Nat /\ \A k \in 1 .. n : f[s[k]] \in Int
  <2>1. n \in Nat /\ \A k \in 1 .. n : s[k] \in S
    BY ElementOfSeq
  <2> QED BY <2>1
<1>2. ASSUME NEW k \in 0 .. n PROVE M(k) \in Seq(Int) /\ Len(M(k)) = k
  <2>1. k \in Nat /\ \A i \in 1 .. k : f[s[i]] \in Int
    BY <1>1
  <2> QED BY <2>1
<1>3. ASSUME NEW k \in 1 .. n PROVE M(k) = Append(M(k - 1), f[s[k]])
  <2>1. k - 1 \in 0 .. n /\ k \in 0 .. n /\ k \in Nat
    BY <1>1
  <2>2. M(k) \in Seq(Int) /\ Len(M(k)) = k /\ M(k - 1) \in Seq(Int) /\ Len(M(k - 1)) = k - 1
    BY <1>2, <2>1
  <2>3. \A i \in 1 .. k : M(k)[i] = f[s[i]]
    OBVIOUS
  <2>4. \A i \in 1 .. k - 1 : M(k - 1)[i] = f[s[i]]
    OBVIOUS
  <2> DEFINE A == M(k)  B == M(k - 1)  x == f[s[k]]
  <2>5. /\ A \in Seq(Int) /\ Len(A) = k /\ B \in Seq(Int) /\ Len(B) = k - 1 /\ x \in Int
        /\ \A i \in 1 .. k - 1 : A[i] = B[i] /\ A[k] = x
    BY <1>1, <2>1, <2>2, <2>3, <2>4
  <2>6. A[k] = x
    BY <2>1, <2>3
  <2> HIDE DEF A, B, x
  <2>7. /\ Append(B, x) \in Seq(Int) /\ Len(Append(B, x)) = k
        /\ \A i \in 1 .. k - 1 : Append(B, x)[i] = B[i]
        /\ Append(B, x)[k] = x
    BY <2>1, <2>5, AppendProperties
  <2>8. \A i \in 1 .. Len(A) : A[i] = Append(B, x)[i]
    BY <2>1, <2>5, <2>6, <2>7
  <2>9. A = Append(B, x)
    BY <2>5, <2>7, <2>8, SeqEqual
  <2> QED BY <2>9 DEF A, B, x
<1>4. ASSUME NEW k \in 1 .. n
      PROVE  FirstTotal(s, f, k) = FirstTotal(s, f, k - 1) + f[s[k]]
  <2>1. k - 1 \in 0 .. n
    BY <1>1
  <2>2. M(k - 1) \in Seq(Int) /\ f[s[k]] \in Int
    BY <1>1, <1>2, <2>1
  <2>3. M(k) = Append(M(k - 1), f[s[k]])
    BY <1>3
  <2> HIDE DEF M
  <2>4. Total(M(k)) = Total(M(k - 1)) + f[s[k]]
    BY <2>2, <2>3, TotalOfAppend
  <2> QED BY <2>4 DEF M, FirstTotal
<1>5. FirstTotal(s, f, 0) = 0
  <2>1. M(0) \in Seq(Int) /\ Len(M(0)) = 0
    BY <1>1, <1>2
  <2> HIDE DEF M
  <2>2. Total(M(0)) = 0
    BY <2>1, TotalTyped
  <2> QED BY <2>2 DEF M, FirstTotal
<1>6. ASSUME NEW k \in 0 .. n PROVE FirstTotal(s, f, k) \in Int
  <2>1. M(k) \in Seq(Int)
    BY <1>2
  <2> HIDE DEF M
  <2>2. Total(M(k)) \in Int
    BY <2>1, TotalTyped
  <2> QED BY <2>2 DEF M, FirstTotal
<1>7. TotalOver(s, f) = FirstTotal(s, f, n)
  BY DEF TotalOver, FirstTotal
<1> QED BY <1>4, <1>5, <1>6, <1>7

\* What comes later does not count.
LEMMA FirstTotalSame ==
  ASSUME NEW S, NEW s \in Seq(S), NEW t, NEW f, NEW k \in Int,
         \A i \in 1 .. k : t[i] = s[i]
  PROVE  FirstTotal(t, f, k) = FirstTotal(s, f, k)
<1>1. [i \in 1 .. k |-> f[t[i]]] = [i \in 1 .. k |-> f[s[i]]]
  OBVIOUS
<1> QED BY <1>1 DEF FirstTotal

\* Of none
LEMMA TotalOverNone ==
  ASSUME NEW S, NEW s \in Seq(S), Len(s) = 0, NEW f \in [S -> Int]
  PROVE  TotalOver(s, f) = 0 /\ FirstTotal(s, f, 0) = 0
<1>1. TotalOver(s, f) = FirstTotal(s, f, Len(s)) /\ FirstTotal(s, f, 0) = 0
  BY FirstTotalRuns
<1> QED BY <1>1

\* Of whole numbers
LEMMA TotalOverTyped ==
  ASSUME NEW S, NEW s \in Seq(S), NEW f \in [S -> Int]
  PROVE  TotalOver(s, f) \in Int
<1>1. TotalOver(s, f) = FirstTotal(s, f, Len(s)) /\ Len(s) \in 0 .. Len(s)
  BY FirstTotalRuns
<1> QED BY <1>1, FirstTotalRuns

\* A member more counts.
LEMMA TotalOverAppend ==
  ASSUME NEW S, NEW s \in Seq(S), NEW x \in S, NEW f \in [S -> Int]
  PROVE  /\ TotalOver(s, f) \in Int
         /\ TotalOver(Append(s, x), f) = TotalOver(s, f) + f[x]
<1> DEFINE t == Append(s, x)
           n == Len(s)
<1>1. /\ n \in Nat /\ t \in Seq(S) /\ Len(t) = n + 1 /\ t[n + 1] = x
      /\ \A i \in 1 .. n : t[i] = s[i]
  BY AppendProperties
<1> HIDE DEF t
<1>2. n + 1 \in 1 .. Len(t) /\ (n + 1) - 1 = n /\ n \in 0 .. Len(s)
  BY <1>1
<1>3. /\ TotalOver(t, f) = FirstTotal(t, f, n + 1)
      /\ FirstTotal(t, f, n + 1) = FirstTotal(t, f, (n + 1) - 1) + f[t[n + 1]]
  BY <1>1, <1>2, FirstTotalRuns
<1>4. TotalOver(s, f) = FirstTotal(s, f, n) /\ TotalOver(s, f) \in Int
  BY <1>2, FirstTotalRuns
<1>5. FirstTotal(t, f, n) = FirstTotal(s, f, n)
  <2>1. n \in Int /\ \A i \in 1 .. n : t[i] = s[i]
    BY <1>1
  <2> HIDE DEF n
  <2> QED BY <2>1, FirstTotalSame
<1>6. FirstTotal(t, f, (n + 1) - 1) = FirstTotal(t, f, n)
  BY <1>2
<1> QED BY <1>1, <1>3, <1>4, <1>5, <1>6 DEF t

\* A sequence is its first member and its tail.
LEMMA TotalOverTail ==
  ASSUME NEW S, NEW s \in Seq(S), Len(s) # 0, NEW f \in [S -> Int]
  PROVE  /\ TotalOver(Tail(s), f) \in Int
         /\ TotalOver(s, f) = f[s[1]] + TotalOver(Tail(s), f)
<1> DEFINE n == Len(s)
           t == Tail(s)
           a == [i \in 1 .. n |-> f[s[i]]]
           b == [i \in 1 .. Len(t) |-> f[t[i]]]
<1>1. /\ n \in Nat \ {0} /\ t \in Seq(S) /\ Len(t) = n - 1
      /\ \A i \in 1 .. n - 1 : t[i] = s[i + 1]
  OBVIOUS
<1> HIDE DEF t
<1>2. \A i \in 1 .. n : s[i] \in S
  BY ElementOfSeq
<1>3. /\ a \in Seq(Int) /\ Len(a) = n /\ \A i \in 1 .. n : a[i] = f[s[i]]
  <2>1. \A i \in 1 .. n : f[s[i]] \in Int
    BY <1>2
  <2> QED BY <1>1, <2>1
<1>4. /\ b \in Seq(Int) /\ Len(b) = n - 1 /\ \A i \in 1 .. n - 1 : b[i] = f[t[i]]
  <2>1. \A i \in 1 .. n - 1 : i + 1 \in 1 .. n
    BY <1>1
  <2>2. \A i \in 1 .. n - 1 : f[t[i]] \in Int
    BY <1>1, <1>2, <2>1
  <2> QED BY <1>1, <2>2
<1> HIDE DEF a, b
<1>5. Tail(a) = b
  <2>1. /\ Tail(a) \in Seq(Int) /\ Len(Tail(a)) = n - 1
        /\ \A i \in 1 .. n - 1 : Tail(a)[i] = a[i + 1]
    BY <1>1, <1>3
  <2>2. \A i \in 1 .. n - 1 : i + 1 \in 1 .. n
    BY <1>1
  <2>3. \A i \in 1 .. n - 1 : Tail(a)[i] = b[i]
    BY <1>1, <1>3, <1>4, <2>1, <2>2
  <2> QED BY <1>4, <2>1, <2>3, SeqEqual
<1>6. Total(a) = a[1] + Total(Tail(a))
  BY <1>1, <1>3, TotalOfTail
<1>7. a[1] = f[s[1]]
  <2>1. 1 \in 1 .. n
    BY <1>1
  <2> QED BY <1>3, <2>1
<1>8. Total(b) \in Int
  BY <1>4, TotalTyped
<1>9. TotalOver(s, f) = Total(a) /\ TotalOver(t, f) = Total(b)
  BY DEF TotalOver, a, b
<1> QED BY <1>5, <1>6, <1>7, <1>8, <1>9 DEF t

\* Another first member counts instead of the old one.
LEMMA TotalOverFirst ==
  ASSUME NEW S, NEW s \in Seq(S), Len(s) # 0, NEW x \in S, NEW f \in [S -> Int]
  PROVE  TotalOver([s EXCEPT ![1] = x], f) = TotalOver(s, f) - f[s[1]] + f[x]
<1> DEFINE t == [s EXCEPT ![1] = x]
<1>1. /\ 1 \in 1 .. Len(s) /\ s[1] \in S
  <2>1. 1 \in 1 .. Len(s)
    OBVIOUS
  <2> QED BY <2>1, ElementOfSeq
<1>2. t \in Seq(S) /\ Len(t) = Len(s) /\ t[1] = x /\ Len(t) # 0
  BY <1>1, ExceptSeq
<1>3. Tail(t) = Tail(s)
  <2>1. /\ Tail(s) \in Seq(S) /\ Len(Tail(s)) = Len(s) - 1
        /\ \A i \in 1 .. Len(s) - 1 : Tail(s)[i] = s[i + 1]
    BY <1>1
  <2>2. \A i \in 1 .. Len(s) - 1 : t[i + 1] = s[i + 1]
    OBVIOUS
  <2> HIDE DEF t
  <2>3. /\ Tail(t) \in Seq(S) /\ Len(Tail(t)) = Len(s) - 1
        /\ \A i \in 1 .. Len(s) - 1 : Tail(t)[i] = t[i + 1]
    BY <1>2
  <2>4. \A i \in 1 .. Len(Tail(t)) : Tail(t)[i] = Tail(s)[i]
    BY <2>1, <2>2, <2>3
  <2> QED BY <2>1, <2>3, <2>4, SeqEqual
<1> HIDE DEF t
<1> DEFINE a == f[s[1]]  b == f[x]  rest == TotalOver(Tail(s), f)
<1>4. TotalOver(s, f) = a + rest /\ rest \in Int
  BY TotalOverTail
<1>5. TotalOver(t, f) = b + rest
  BY <1>2, <1>3, TotalOverTail
<1>6. a \in Int /\ b \in Int
  BY <1>1
<1>7. TotalOver(t, f) = TotalOver(s, f) - a + b
  <2> HIDE DEF a, b, rest
  <2> QED BY <1>4, <1>5, <1>6
<1> QED BY <1>7 DEF t
=============================================================================
