----------------------------- MODULE LedgerProofs -----------------------------
(***************************************************************************)
(* The two views of the position ledger, for ledgers of any length.        *)
(*                                                                         *)
(* Net and PositionInfo are folds, so each view is the last value of a     *)
(* chain with one value per entry (NetChain, InfoChain), and what holds of *)
(* a chain is shown from one entry to the next (UpTo of FoldLemmas).  From *)
(* the chains come what an entry appended, or inserted, does to a view     *)
(* (NetOfAppend, InfoOfAppend, NetOfInsert), when a ledger stays sound     *)
(* (SoundAppend) and its average stays among prices paid (AverageAppend).  *)
(***************************************************************************)
EXTENDS PositionViews, FoldLemmas
-----------------------------------------------------------------------------
(* Ledgers. *)

\* a position ledger: entries by B of stocks S
Ledgers(B, S) == Seq([by : B, stock : S, delta : Int, price : Nat])

\* what entry e adds to the sum of stock s
Delta(e, s) == IF e.stock = s THEN e.delta ELSE 0

\* the running sum, entry by entry
IsNetChain(u, l, s) ==
  /\ u \in [0 .. Len(l) -> Int]
  /\ u[0] = 0
  /\ \A k \in 1 .. Len(l) : u[k] = u[k - 1] + Delta(l[k], s)

\* the loop of get_position_info, turn by turn
NoShares == [qty |-> 0, cost |-> 0]
Turn(p, e, s) == IF e.stock = s THEN Tally(p, e) ELSE p
IsInfoChain(v, l, s) ==
  /\ v \in [0 .. Len(l) -> [qty : Nat, cost : Int]]
  /\ v[0] = NoShares
  /\ \A k \in 1 .. Len(l) : v[k] = Turn(v[k - 1], l[k], s)

\* What an entry of a ledger looks like.
LEMMA LedgerFacts ==
  ASSUME NEW B, NEW S, NEW l \in Ledgers(B, S)
  PROVE  /\ Len(l) \in Nat /\ DOMAIN l = 1 .. Len(l)
         /\ \A k \in 1 .. Len(l) : l[k] \in [by : B, stock : S, delta : Int, price : Nat]
         /\ \A s : \A k \in 1 .. Len(l) : Delta(l[k], s) \in Int
<1>1. Len(l) \in Nat /\ DOMAIN l = 1 .. Len(l)
  BY DEF Ledgers
<1>2. \A k \in 1 .. Len(l) : l[k] \in [by : B, stock : S, delta : Int, price : Nat]
  <2> DEFINE R == [by : B, stock : S, delta : Int, price : Nat]
  <2>1. l \in Seq(R)
    BY DEF Ledgers
  <2> HIDE DEF R
  <2>2. \A k \in 1 .. Len(l) : l[k] \in R
    BY <2>1
  <2> QED BY <2>2 DEF R
<1> QED BY <1>1, <1>2 DEF Delta

\* SUM(quantity_delta) is the last of the running sums.
LEMMA NetChain ==
  ASSUME NEW B, NEW S, NEW l \in Ledgers(B, S), NEW s
  PROVE  \E u : IsNetChain(u, l, s) /\ Net(l, s) = u[Len(l)]
<1> DEFINE n == Len(l)
           F(g) == [T \in SUBSET (1 .. n) |->
                      IF T = {} THEN 0
                      ELSE IF l[Max(T)].stock = s
                           THEN g[T \ {Max(T)}] + l[Max(T)].delta
                           ELSE g[T \ {Max(T)}]]
           G == CHOOSE g : g = F(g)
           h == [k \in 1 .. n |-> [x \in Int |-> x + Delta(l[k], s)]]
           u == [k \in 0 .. n |-> G[1 .. k]]
<1>1. n \in Nat /\ DOMAIN l = 1 .. n /\ \A k \in 1 .. n : Delta(l[k], s) \in Int
  BY LedgerFacts
<1>2. Net(l, s) = G[1 .. n]
  BY <1>1 DEF Net, FoldLeft, MapThenFoldSet
<1>3. G = F(G)
  <2>1. h \in [1 .. n -> [Int -> Int]]
    BY <1>1
  <2>2. PICK g \in [SUBSET (1 .. n) -> Int] : ChainSolves(g, n, 0, h)
    <3> HIDE DEF h, n
    <3>1. 0 \in Int
      OBVIOUS
    <3> QED BY <2>1, <1>1, <3>1, ChainFold, Zenon
  <2>3. g = F(g)
    <3>1. ASSUME NEW T \in SUBSET (1 .. n), T # {}
          PROVE  h[Max(T)][g[T \ {Max(T)}]] = IF l[Max(T)].stock = s
                           THEN g[T \ {Max(T)}] + l[Max(T)].delta
                           ELSE g[T \ {Max(T)}]
      <4>1. Max(T) \in 1 .. n
        BY <3>1, <1>1, LargestMember
      <4>2. g[T \ {Max(T)}] \in Int
        BY <2>2
      <4> QED BY <4>1, <4>2 DEF Delta
    <3> QED BY <3>1, <2>2 DEF ChainSolves
  <2> HIDE DEF F
  <2> QED BY <2>3
<1>4. \A k \in 1 .. n :
        G[1 .. k] = IF l[k].stock = s THEN G[1 .. (k - 1)] + l[k].delta ELSE G[1 .. (k - 1)]
  <2> SUFFICES ASSUME NEW k \in 1 .. n
               PROVE  G[1 .. k] = IF l[k].stock = s THEN G[1 .. (k - 1)] + l[k].delta
                                                    ELSE G[1 .. (k - 1)]
    OBVIOUS
  <2>1. /\ 1 .. k \in SUBSET (1 .. n) /\ 1 .. k # {} /\ Max(1 .. k) = k
        /\ (1 .. k) \ {k} = 1 .. (k - 1)
    BY <1>1, LastOfRange
  <2>2. G[1 .. k] = F(G)[1 .. k]
    BY <1>3
  <2> HIDE DEF G
  <2> QED BY <2>1, <2>2
<1>5. G[1 .. 0] = 0
  <2>1. G[1 .. 0] = F(G)[1 .. 0]
    BY <1>3
  <2> HIDE DEF G
  <2> QED BY <2>1
<1> HIDE DEF G
<1>6. \A k \in 0 .. n : G[1 .. k] \in Int
  <2> DEFINE A == {j \in 0 .. n : G[1 .. j] \in Int}
  <2>1. 0 \in A
    BY <1>5, <1>1
  <2>2. \A k \in 1 .. n : k - 1 \in A => k \in A
    BY <1>4, <1>1 DEF Delta
  <2>3. \A k \in 0 .. n : k \in A
    <3> HIDE DEF A
    <3> QED BY <2>1, <2>2, <1>1, UpTo
  <2> QED BY <2>3
<1>7. IsNetChain(u, l, s)
  <2>1. u \in [0 .. n -> Int] /\ u[0] = 0
    BY <1>5, <1>6, <1>1
  <2>2. \A k \in 1 .. n : u[k] = u[k - 1] + Delta(l[k], s)
    BY <1>4, <1>6, <1>1 DEF Delta
  <2> QED BY <2>1, <2>2 DEF IsNetChain
<1>8. Net(l, s) = u[Len(l)]
  BY <1>2, <1>1
<1> QED BY <1>7, <1>8

\* One turn of the loop keeps the type.
LEMMA TurnType ==
  ASSUME NEW B, NEW S, NEW e \in [by : B, stock : S, delta : Int, price : Nat],
         NEW p \in [qty : Nat, cost : Int], NEW s
  PROVE  Turn(p, e, s) \in [qty : Nat, cost : Int]
<1>1. e.delta * e.price \in Int
  OBVIOUS
<1>2. p.qty + e.delta \in Int /\ p.cost + e.delta * e.price \in Int
  BY <1>1
<1> QED BY <1>2 DEF Turn, Tally

\* get_position_info is the last turn of the loop.
LEMMA InfoChain ==
  ASSUME NEW B, NEW S, NEW l \in Ledgers(B, S), NEW s
  PROVE  \E v : IsInfoChain(v, l, s) /\ PositionInfo(l, s) = v[Len(l)]
<1> DEFINE n == Len(l)
           V == [qty : Nat, cost : Int]
           F(g) == [T \in SUBSET (1 .. n) |->
                      IF T = {} THEN NoShares
                      ELSE Turn(g[T \ {Max(T)}], l[Max(T)], s)]
           G == CHOOSE g : g = F(g)
           h == [k \in 1 .. n |-> [x \in V |-> Turn(x, l[k], s)]]
           v == [k \in 0 .. n |-> G[1 .. k]]
<1>1. /\ n \in Nat /\ DOMAIN l = 1 .. n
      /\ \A k \in 1 .. n : l[k] \in [by : B, stock : S, delta : Int, price : Nat]
  BY LedgerFacts
<1>2. PositionInfo(l, s) = G[1 .. n]
  BY <1>1 DEF PositionInfo, FoldLeft, MapThenFoldSet, Turn, NoShares
<1>3. NoShares \in V /\ \A k \in 1 .. n : \A x \in V : Turn(x, l[k], s) \in V
  BY <1>1, TurnType DEF NoShares
<1>4. G = F(G)
  <2>1. h \in [1 .. n -> [V -> V]]
    BY <1>3
  <2>2. PICK g \in [SUBSET (1 .. n) -> V] : ChainSolves(g, n, NoShares, h)
    <3> HIDE DEF h, n, V
    <3> QED BY <2>1, <1>1, <1>3, ChainFold, Zenon
  <2>3. g = F(g)
    <3>1. ASSUME NEW T \in SUBSET (1 .. n), T # {}
          PROVE  h[Max(T)][g[T \ {Max(T)}]] = Turn(g[T \ {Max(T)}], l[Max(T)], s)
      <4>1. Max(T) \in 1 .. n
        BY <3>1, <1>1, LargestMember
      <4>2. g[T \ {Max(T)}] \in V
        BY <2>2
      <4> HIDE DEF V
      <4> QED BY <4>1, <4>2
    <3> HIDE DEF h
    <3> QED BY <3>1, <2>2 DEF ChainSolves
  <2> HIDE DEF F
  <2> QED BY <2>3
<1>5. \A k \in 1 .. n : G[1 .. k] = Turn(G[1 .. (k - 1)], l[k], s)
  <2> SUFFICES ASSUME NEW k \in 1 .. n PROVE G[1 .. k] = Turn(G[1 .. (k - 1)], l[k], s)
    OBVIOUS
  <2>1. /\ 1 .. k \in SUBSET (1 .. n) /\ 1 .. k # {} /\ Max(1 .. k) = k
        /\ (1 .. k) \ {k} = 1 .. (k - 1)
    BY <1>1, LastOfRange
  <2>2. G[1 .. k] = F(G)[1 .. k]
    BY <1>4
  <2> HIDE DEF G
  <2> QED BY <2>1, <2>2
<1>6. G[1 .. 0] = NoShares
  <2>1. G[1 .. 0] = F(G)[1 .. 0]
    BY <1>4
  <2> HIDE DEF G
  <2> QED BY <2>1
<1> HIDE DEF G
<1>7. \A k \in 0 .. n : G[1 .. k] \in V
  <2> DEFINE A == {j \in 0 .. n : G[1 .. j] \in V}
  <2>1. 0 \in A
    BY <1>6, <1>1, <1>3
  <2>2. \A k \in 1 .. n : k - 1 \in A => k \in A
    <3> HIDE DEF V
    <3> QED BY <1>5, <1>1, <1>3
  <2>3. \A k \in 0 .. n : k \in A
    <3> HIDE DEF A
    <3> QED BY <2>1, <2>2, <1>1, UpTo
  <2> QED BY <2>3
<1>8. IsInfoChain(v, l, s)
  <2>1. v \in [0 .. n -> V] /\ v[0] = NoShares
    BY <1>6, <1>7, <1>1
  <2>2. \A k \in 1 .. n : v[k] = Turn(v[k - 1], l[k], s)
    BY <1>5, <1>1
  <2> HIDE DEF v, n
  <2> QED BY <2>1, <2>2 DEF IsInfoChain, n
<1>9. PositionInfo(l, s) = v[Len(l)]
  BY <1>2, <1>1
<1> HIDE DEF v
<1> QED BY <1>8, <1>9

\* There is one running sum ...
LEMMA NetIs ==
  ASSUME NEW B, NEW S, NEW l \in Ledgers(B, S), NEW s, NEW w, IsNetChain(w, l, s)
  PROVE  Net(l, s) = w[Len(l)]
<1>1. PICK u : IsNetChain(u, l, s) /\ Net(l, s) = u[Len(l)]
  BY NetChain
<1> DEFINE n == Len(l)
           A == {k \in 0 .. n : u[k] = w[k]}
<1>2. n \in Nat
  BY LedgerFacts
<1>3. 0 \in A /\ \A k \in 1 .. n : k - 1 \in A => k \in A
  BY <1>1, <1>2 DEF IsNetChain
<1>4. \A k \in 0 .. n : k \in A
  <2> HIDE DEF A, n
  <2> QED BY <1>2, <1>3, UpTo
<1> QED BY <1>1, <1>2, <1>4

\* ... and one history of the loop.
LEMMA InfoIs ==
  ASSUME NEW B, NEW S, NEW l \in Ledgers(B, S), NEW s, NEW w, IsInfoChain(w, l, s)
  PROVE  PositionInfo(l, s) = w[Len(l)]
<1>1. PICK v : IsInfoChain(v, l, s) /\ PositionInfo(l, s) = v[Len(l)]
  BY InfoChain
<1> DEFINE n == Len(l)
           A == {k \in 0 .. n : v[k] = w[k]}
<1>2. n \in Nat
  BY LedgerFacts
<1>3. 0 \in A /\ \A k \in 1 .. n : k - 1 \in A => k \in A
  BY <1>1, <1>2 DEF IsInfoChain
<1>4. \A k \in 0 .. n : k \in A
  <2> HIDE DEF A, n
  <2> QED BY <1>2, <1>3, UpTo
<1> QED BY <1>1, <1>2, <1>4

\* Both views of a ledger have their types.
LEMMA ViewTypes ==
  ASSUME NEW B, NEW S, NEW l \in Ledgers(B, S), NEW s
  PROVE  Net(l, s) \in Int /\ PositionInfo(l, s) \in [qty : Nat, cost : Int]
<1>1. PICK u : IsNetChain(u, l, s) /\ Net(l, s) = u[Len(l)]
  BY NetChain
<1>2. PICK v : IsInfoChain(v, l, s) /\ PositionInfo(l, s) = v[Len(l)]
  BY InfoChain
<1> QED BY <1>1, <1>2, LedgerFacts DEF IsNetChain, IsInfoChain

\* A prefix of a ledger adds up to the running sum at its end.
LEMMA NetOfPrefix ==
  ASSUME NEW B, NEW S, NEW l \in Ledgers(B, S), NEW s, NEW u, IsNetChain(u, l, s),
         NEW n \in 0 .. Len(l)
  PROVE  SubSeq(l, 1, n) \in Ledgers(B, S) /\ Net(SubSeq(l, 1, n), s) = u[n]
<1> DEFINE m == SubSeq(l, 1, n)
           R == [by : B, stock : S, delta : Int, price : Nat]
           w == [k \in 0 .. n |-> u[k]]
<1>1. l \in Seq(R) /\ Len(l) \in Nat /\ n \in Nat
  BY LedgerFacts DEF Ledgers
<1>2. m \in Seq(R) /\ Len(m) = n /\ \A k \in 1 .. n : m[k] = l[k]
  <2> HIDE DEF R
  <2> QED BY <1>1
<1>3. IsNetChain(w, m, s)
  <2> HIDE DEF m, R
  <2>0. /\ u \in [0 .. Len(l) -> Int] /\ u[0] = 0 /\ Len(l) \in Nat /\ n <= Len(l) /\ n \in Nat
        /\ \A k \in 1 .. Len(l) : u[k] = u[k - 1] + Delta(l[k], s)
    BY <1>1 DEF IsNetChain
  <2>1. w \in [0 .. n -> Int] /\ w[0] = 0
    BY <2>0
  <2>2. ASSUME NEW k \in 1 .. n PROVE w[k] = w[k - 1] + Delta(m[k], s)
    BY <2>0, <1>2
  <2> QED BY <2>1, <2>2, <1>2 DEF IsNetChain
<1>4. m \in Ledgers(B, S)
  BY <1>2 DEF Ledgers
<1> HIDE DEF w, m
<1>5. Net(m, s) = w[n]
  BY <1>2, <1>3, <1>4, NetIs
<1> QED BY <1>4, <1>5 DEF m, w

\* An entry more at the end.
LEMMA AppendFacts ==
  ASSUME NEW B, NEW S, NEW l \in Ledgers(B, S),
         NEW e \in [by : B, stock : S, delta : Int, price : Nat]
  PROVE  /\ Append(l, e) \in Ledgers(B, S)
         /\ Len(Append(l, e)) = Len(l) + 1 /\ Append(l, e)[Len(l) + 1] = e
         /\ \A k \in 1 .. Len(l) : Append(l, e)[k] = l[k]
<1> DEFINE R == [by : B, stock : S, delta : Int, price : Nat]
<1>1. l \in Seq(R) /\ e \in R
  BY DEF Ledgers
<1>2. /\ Append(l, e) \in Seq(R)
      /\ Len(Append(l, e)) = Len(l) + 1 /\ Append(l, e)[Len(l) + 1] = e
      /\ \A k \in 1 .. Len(l) : Append(l, e)[k] = l[k]
  <2> HIDE DEF R
  <2> QED BY <1>1
<1> QED BY <1>2 DEF Ledgers

\* An entry at the end adds its delta to the sum of its stock, and to no other.
LEMMA NetOfAppend ==
  ASSUME NEW B, NEW S, NEW l \in Ledgers(B, S), NEW s,
         NEW e \in [by : B, stock : S, delta : Int, price : Nat]
  PROVE  Net(Append(l, e), s) = Net(l, s) + Delta(e, s)
<1> DEFINE m == Append(l, e)
           n == Len(l)
<1>1. PICK u : IsNetChain(u, l, s) /\ Net(l, s) = u[Len(l)]
  BY NetChain
<1>2. /\ m \in Ledgers(B, S) /\ Len(m) = n + 1 /\ m[n + 1] = e
      /\ \A k \in 1 .. n : m[k] = l[k]
  BY AppendFacts
<1>3. n \in Nat /\ Delta(e, s) \in Int
  BY LedgerFacts DEF Delta
<1> DEFINE w == [k \in 0 .. n + 1 |-> IF k = n + 1 THEN u[n] + Delta(e, s) ELSE u[k]]
<1> HIDE DEF m
<1>4. IsNetChain(w, m, s)
  <2>1. w \in [0 .. n + 1 -> Int] /\ w[0] = 0
    BY <1>1, <1>3 DEF IsNetChain
  <2>2. ASSUME NEW k \in 1 .. n + 1 PROVE w[k] = w[k - 1] + Delta(m[k], s)
    BY <1>1, <1>2, <1>3 DEF IsNetChain
  <2> HIDE DEF w, n
  <2> QED BY <2>1, <2>2, <1>2 DEF IsNetChain
<1>5. w[n + 1] = u[n] + Delta(e, s)
  BY <1>3
<1> HIDE DEF w
<1>6. Net(m, s) = w[n + 1]
  BY <1>2, <1>4, NetIs
<1> QED BY <1>1, <1>5, <1>6 DEF m

\* An entry at the end is one more turn of the loop.
LEMMA InfoOfAppend ==
  ASSUME NEW B, NEW S, NEW l \in Ledgers(B, S), NEW s,
         NEW e \in [by : B, stock : S, delta : Int, price : Nat]
  PROVE  PositionInfo(Append(l, e), s) = Turn(PositionInfo(l, s), e, s)
<1> DEFINE m == Append(l, e)
           n == Len(l)
           V == [qty : Nat, cost : Int]
<1>1. PICK v : IsInfoChain(v, l, s) /\ PositionInfo(l, s) = v[Len(l)]
  BY InfoChain
<1>2. /\ m \in Ledgers(B, S) /\ Len(m) = n + 1 /\ m[n + 1] = e
      /\ \A k \in 1 .. n : m[k] = l[k]
  BY AppendFacts
<1>3. n \in Nat /\ v[n] \in V /\ Turn(v[n], e, s) \in V
  BY LedgerFacts, TurnType, <1>1 DEF IsInfoChain
<1> DEFINE w == [k \in 0 .. n + 1 |-> IF k = n + 1 THEN Turn(v[n], e, s) ELSE v[k]]
<1> HIDE DEF m, V
<1>4. IsInfoChain(w, m, s)
  <2>1. w \in [0 .. n + 1 -> V] /\ w[0] = NoShares
    BY <1>1, <1>3 DEF IsInfoChain, V
  <2>2. ASSUME NEW k \in 1 .. n + 1 PROVE w[k] = Turn(w[k - 1], m[k], s)
    <3>1. w[k - 1] = v[k - 1]
      BY <1>3
    <3>2. CASE k = n + 1
      <4>1. w[k] = Turn(v[n], e, s) /\ m[k] = e /\ k - 1 = n
        BY <3>2, <1>2, <1>3
      <4> QED BY <4>1, <3>1
    <3>3. CASE k # n + 1
      <4>1. k \in 1 .. n /\ w[k] = v[k] /\ m[k] = l[k]
        BY <3>3, <1>2, <1>3
      <4>2. v[k] = Turn(v[k - 1], l[k], s)
        BY <4>1, <1>1 DEF IsInfoChain
      <4> QED BY <4>1, <4>2, <3>1
    <3> QED BY <3>2, <3>3
  <2> HIDE DEF w, n
  <2> QED BY <2>1, <2>2, <1>2 DEF IsInfoChain, V
<1>5. w[n + 1] = Turn(v[n], e, s)
  BY <1>3
<1> HIDE DEF w
<1>6. PositionInfo(m, s) = w[n + 1]
  BY <1>2, <1>4, InfoIs
<1> QED BY <1>1, <1>5, <1>6 DEF m

\* An entry more anywhere: what is there besides, and what it adds up to.
LEMMA InsertFacts ==
  ASSUME NEW B, NEW S, NEW l \in Ledgers(B, S),
         NEW e \in [by : B, stock : S, delta : Int, price : Nat],
         NEW i \in 1 .. Len(l) + 1
  PROVE  /\ InsertAt(l, i, e) \in Ledgers(B, S)
         /\ Len(InsertAt(l, i, e)) = Len(l) + 1 /\ InsertAt(l, i, e)[i] = e
         /\ \A k \in 1 .. i - 1 : InsertAt(l, i, e)[k] = l[k]
         /\ \A k \in i + 1 .. Len(l) + 1 : InsertAt(l, i, e)[k] = l[k - 1]
<1> DEFINE R == [by : B, stock : S, delta : Int, price : Nat]
           a == SubSeq(l, 1, i - 1)
           b == SubSeq(l, i, Len(l))
           n == Len(l)
<1>1. l \in Seq(R) /\ e \in R /\ n \in Nat /\ i \in 1 .. n + 1
  BY LedgerFacts DEF Ledgers
<1> HIDE DEF R
<1>2. a \in Seq(R) /\ Len(a) = i - 1 /\ \A k \in 1 .. i - 1 : a[k] = l[k]
  BY <1>1
<1>3. b \in Seq(R) /\ Len(b) = n + 1 - i /\ \A k \in 1 .. n + 1 - i : b[k] = l[i + k - 1]
  BY <1>1
<1> DEFINE c == a \o <<e>>
           m == c \o b
<1> HIDE DEF a, b
<1>4. /\ c \in Seq(R) /\ Len(c) = i /\ c[i] = e
      /\ \A k \in 1 .. i - 1 : c[k] = a[k]
  BY <1>1, <1>2
<1> HIDE DEF c
<1>5. /\ m \in Seq(R) /\ Len(m) = n + 1
      /\ \A k \in 1 .. i : m[k] = c[k]
      /\ \A k \in i + 1 .. n + 1 : m[k] = b[k - i]
  BY <1>1, <1>3, <1>4
<1> HIDE DEF m
<1>6. m[i] = e /\ \A k \in 1 .. i - 1 : m[k] = l[k]
  BY <1>1, <1>2, <1>4, <1>5
<1>7. \A k \in i + 1 .. n + 1 : m[k] = l[k - 1]
  <2> SUFFICES ASSUME NEW k \in i + 1 .. n + 1 PROVE m[k] = l[k - 1]
    OBVIOUS
  <2>1. k - i \in 1 .. n + 1 - i /\ i + (k - i) - 1 = k - 1
    BY <1>1
  <2> QED BY <2>1, <1>3, <1>5
<1>8. InsertAt(l, i, e) = m
  BY DEF InsertAt, m, c, a, b
<1> QED BY <1>5, <1>6, <1>7, <1>8 DEF Ledgers, R

\* For the sum it does not matter where an entry is inserted.
LEMMA NetOfInsert ==
  ASSUME NEW B, NEW S, NEW l \in Ledgers(B, S), NEW s,
         NEW e \in [by : B, stock : S, delta : Int, price : Nat],
         NEW i \in 1 .. Len(l) + 1
  PROVE  Net(InsertAt(l, i, e), s) = Net(l, s) + Delta(e, s)
<1> DEFINE m == InsertAt(l, i, e)
           n == Len(l)
<1>1. PICK u : IsNetChain(u, l, s) /\ Net(l, s) = u[Len(l)]
  BY NetChain
<1>2. /\ m \in Ledgers(B, S) /\ Len(m) = n + 1 /\ m[i] = e
      /\ \A k \in 1 .. i - 1 : m[k] = l[k]
      /\ \A k \in i + 1 .. n + 1 : m[k] = l[k - 1]
  BY InsertFacts
<1>3. n \in Nat /\ Delta(e, s) \in Int /\ i \in 1 .. n + 1
  BY LedgerFacts DEF Delta
<1> DEFINE w == [k \in 0 .. n + 1 |-> IF k < i THEN u[k] ELSE u[k - 1] + Delta(e, s)]
<1> HIDE DEF m
<1>4. IsNetChain(w, m, s)
  <2>1. w \in [0 .. n + 1 -> Int] /\ w[0] = 0
    BY <1>1, <1>3 DEF IsNetChain
  <2>2. ASSUME NEW k \in 1 .. n + 1 PROVE w[k] = w[k - 1] + Delta(m[k], s)
    <3>0. \A j \in 1 .. n : u[j] = u[j - 1] + Delta(l[j], s) /\ u[j] \in Int /\ u[j - 1] \in Int
      BY <1>1, <1>3 DEF IsNetChain
    <3>1. CASE k < i
      <4>1. k \in 1 .. n /\ m[k] = l[k] /\ w[k] = u[k] /\ w[k - 1] = u[k - 1]
        BY <3>1, <1>2, <1>3
      <4> QED BY <4>1, <3>0
    <3>2. CASE k = i
      <4>1. m[k] = e /\ w[k] = u[k - 1] + Delta(e, s) /\ w[k - 1] = u[k - 1]
        BY <3>2, <1>2, <1>3
      <4> QED BY <4>1
    <3>3. CASE k > i
      <4>1. /\ k - 1 \in 1 .. n /\ m[k] = l[k - 1] /\ w[k] = u[k - 1] + Delta(e, s)
            /\ w[k - 1] = u[k - 1 - 1] + Delta(e, s)
        BY <3>3, <1>2, <1>3
      <4>2. u[k - 1] = u[k - 1 - 1] + Delta(l[k - 1], s) /\ u[k - 1 - 1] \in Int
        BY <4>1, <3>0
      <4>3. Delta(l[k - 1], s) \in Int
        BY <4>1, LedgerFacts
      <4> QED BY <4>1, <4>2, <4>3, <1>3
    <3> QED BY <3>1, <3>2, <3>3, <1>3
  <2> HIDE DEF w, n
  <2> QED BY <2>1, <2>2, <1>2 DEF IsNetChain
<1>5. w[n + 1] = u[n] + Delta(e, s)
  BY <1>3
<1> HIDE DEF w
<1>6. Net(m, s) = w[n + 1]
  BY <1>2, <1>4, NetIs
<1> QED BY <1>1, <1>5, <1>6 DEF m

\* A ledger without an entry of the stock
LEMMA NoEntry ==
  ASSUME NEW B, NEW S, NEW l \in Ledgers(B, S), NEW s,
         \A k \in 1 .. Len(l) : l[k].stock # s
  PROVE  /\ Net(l, s) = 0 /\ PositionInfo(l, s) = NoShares
         /\ \A n \in 0 .. Len(l) : Net(SubSeq(l, 1, n), s) = 0
<1> DEFINE n == Len(l)
           u == [k \in 0 .. n |-> 0]
           v == [k \in 0 .. n |-> NoShares]
<1>1. n \in Nat
  BY LedgerFacts
<1>2. IsNetChain(u, l, s)
  BY <1>1 DEF IsNetChain, Delta
<1>3. IsInfoChain(v, l, s)
  BY <1>1 DEF IsInfoChain, Turn, NoShares
<1>4. \A k \in 0 .. n : u[k] = 0 /\ v[k] = NoShares
  OBVIOUS
<1> HIDE DEF u, v
<1>5. Net(l, s) = u[n] /\ \A k \in 0 .. n : Net(SubSeq(l, 1, k), s) = u[k]
  BY <1>2, NetIs, NetOfPrefix
<1>6. PositionInfo(l, s) = v[n]
  BY <1>3, InfoIs
<1> QED BY <1>1, <1>4, <1>5, <1>6

\* A ledger with one entry of the stock, a purchase
LEMMA OneEntry ==
  ASSUME NEW B, NEW S, NEW l \in Ledgers(B, S), NEW i \in 1 .. Len(l),
         l[i].delta > 0,
         \A k \in 1 .. Len(l) : k # i => l[k].stock # l[i].stock
  PROVE  /\ Net(l, l[i].stock) = l[i].delta
         /\ PositionInfo(l, l[i].stock)
              = [qty |-> l[i].delta, cost |-> l[i].delta * l[i].price]
         /\ \A n \in 0 .. Len(l) : Net(SubSeq(l, 1, n), l[i].stock) >= 0
<1> DEFINE n == Len(l)
           s == l[i].stock
           held == [qty |-> l[i].delta, cost |-> l[i].delta * l[i].price]
           u == [k \in 0 .. n |-> IF k < i THEN 0 ELSE l[i].delta]
           v == [k \in 0 .. n |-> IF k < i THEN NoShares ELSE held]
<1>1. n \in Nat /\ i \in 1 .. n /\ l[i].delta \in Nat /\ l[i].price \in Nat
  BY LedgerFacts
<1>2. l[i].delta * l[i].price \in Int
  BY <1>1
<1>3. IsNetChain(u, l, s)
  <2>1. u \in [0 .. n -> Int] /\ u[0] = 0
    BY <1>1
  <2>2. ASSUME NEW k \in 1 .. n PROVE u[k] = u[k - 1] + Delta(l[k], s)
    BY <1>1 DEF Delta
  <2> HIDE DEF u, n
  <2> QED BY <2>1, <2>2 DEF IsNetChain, n
<1>4. IsInfoChain(v, l, s)
  <2>1. v \in [0 .. n -> [qty : Nat, cost : Int]] /\ v[0] = NoShares
    BY <1>1, <1>2 DEF NoShares
  <2>2. ASSUME NEW k \in 1 .. n PROVE v[k] = Turn(v[k - 1], l[k], s)
    <3>1. CASE k # i
      BY <3>1, <1>1 DEF Turn
    <3>2. CASE k = i
      <4>1. v[k] = held /\ v[k - 1] = NoShares
        BY <3>2, <1>1
      <4>2. Turn(NoShares, l[i], s) = held
        BY <1>1, <1>2 DEF Turn, Tally, NoShares
      <4> QED BY <3>2, <4>1, <4>2
    <3> QED BY <3>1, <3>2
  <2> HIDE DEF v, n
  <2> QED BY <2>1, <2>2 DEF IsInfoChain, n
<1>5. u[n] = l[i].delta /\ v[n] = held /\ \A k \in 0 .. n : u[k] >= 0
  BY <1>1
<1> HIDE DEF u, v
<1>6. Net(l, s) = u[n] /\ \A k \in 0 .. n : Net(SubSeq(l, 1, k), s) = u[k]
  BY <1>3, NetIs, NetOfPrefix
<1>7. PositionInfo(l, s) = v[n]
  BY <1>4, InfoIs
<1> QED BY <1>5, <1>6, <1>7

\* If every purchase has its price, what is left of a positive sum has a cost:
\* the loop never holds less than the sum, and what it holds was paid for.
LEMMA PaidForIsPriced ==
  ASSUME NEW B, NEW S, NEW l \in Ledgers(B, S), NEW s,
         \A k \in 1 .. Len(l) : l[k].delta > 0 => l[k].price > 0,
         Net(l, s) > 0
  PROVE  PositionInfo(l, s).cost > 0
<1> DEFINE n == Len(l)
<1>1. PICK u : IsNetChain(u, l, s) /\ Net(l, s) = u[n]
  BY NetChain
<1>2. PICK v : IsInfoChain(v, l, s) /\ PositionInfo(l, s) = v[n]
  BY InfoChain
<1>3. /\ n \in Nat
      /\ \A k \in 1 .. n : l[k] \in [by : B, stock : S, delta : Int, price : Nat]
  BY LedgerFacts
<1> DEFINE Fine(k) == v[k].qty >= u[k] /\ (v[k].qty > 0 => v[k].cost > 0) /\ v[k].cost >= 0
           A == {k \in 0 .. n : Fine(k)}
<1>4. 0 \in A
  BY <1>1, <1>2, <1>3 DEF IsNetChain, IsInfoChain, NoShares
<1>5. ASSUME NEW k \in 1 .. n, k - 1 \in A PROVE k \in A
  <2>1. /\ u[k] = u[k - 1] + Delta(l[k], s) /\ u[k - 1] \in Int
        /\ v[k] = Turn(v[k - 1], l[k], s) /\ v[k - 1] \in [qty : Nat, cost : Int]
        /\ v[k] \in [qty : Nat, cost : Int]
    BY <1>1, <1>2, <1>3 DEF IsNetChain, IsInfoChain
  <2>2. /\ l[k].delta \in Int /\ l[k].price \in Nat
        /\ l[k].delta > 0 => l[k].price > 0
    BY <1>3
  <2>3. l[k].delta > 0 => l[k].delta * l[k].price \in Int /\ l[k].delta * l[k].price > 0
    <3>1. \A x, y \in Nat : x > 0 /\ y > 0 => x * y \in Int /\ x * y > 0
      OBVIOUS
    <3> QED BY <3>1, <2>2
  <2>4. Fine(k - 1)
    BY <1>5
  <2>5. CASE l[k].stock # s
    BY <2>5, <2>1, <2>4 DEF Turn, Delta
  <2>6. CASE l[k].stock = s
    <3>1. u[k] = u[k - 1] + l[k].delta /\ v[k] = Tally(v[k - 1], l[k])
      BY <2>6, <2>1 DEF Turn, Delta
    <3>2. CASE v[k - 1].qty + l[k].delta <= 0
      <4>1. v[k] = NoShares
        BY <3>1, <3>2 DEF Tally, NoShares
      <4> QED BY <4>1, <3>1, <3>2, <2>1, <2>2, <2>4 DEF NoShares
    <3>3. CASE v[k - 1].qty + l[k].delta > 0
      <4>1. /\ v[k].qty = v[k - 1].qty + l[k].delta
            /\ v[k].cost = v[k - 1].cost + IF l[k].delta > 0 THEN l[k].delta * l[k].price ELSE 0
        BY <3>1, <3>3, <2>1, <2>2 DEF Tally
      <4>2. v[k].cost > 0
        <5>1. CASE l[k].delta > 0
          BY <5>1, <4>1, <2>3, <2>4, <2>1
        <5>2. CASE ~(l[k].delta > 0)
          <6>1. v[k - 1].qty > 0
            BY <5>2, <3>3, <2>1, <2>2
          <6> QED BY <6>1, <5>2, <4>1, <2>4, <2>1
        <5> QED BY <5>1, <5>2
      <4>3. v[k].qty >= u[k]
        BY <4>1, <3>1, <2>1, <2>2, <2>4
      <4> QED BY <4>2, <4>3, <2>1
    <3> QED BY <3>2, <3>3, <2>1, <2>2
  <2> QED BY <2>5, <2>6
<1>6. \A k \in 0 .. n : k \in A
  <2> HIDE DEF A, n
  <2> QED BY <1>3, <1>4, <1>5, UpTo
<1>7. Fine(n) /\ u[n] \in Int /\ v[n] \in [qty : Nat, cost : Int]
  BY <1>6, <1>3, <1>1, <1>2 DEF IsNetChain, IsInfoChain
<1> QED BY <1>7, <1>1, <1>2
-----------------------------------------------------------------------------
(* Sound ledgers. *)

\* A book that is sound for stock s: it never sold more than it had, and its
\* two views agree.
SoundFor(l, s) ==
  /\ \A n \in 0 .. Len(l) : Net(SubSeq(l, 1, n), s) >= 0
  /\ PositionInfo(l, s).qty = Net(l, s)

\* A sound book stays sound as long as no entry takes what is not there.
LEMMA SoundAppend ==
  ASSUME NEW B, NEW S, NEW l \in Ledgers(B, S), NEW s,
         NEW e \in [by : B, stock : S, delta : Int, price : Nat],
         SoundFor(l, s), Net(l, s) + Delta(e, s) >= 0
  PROVE  SoundFor(Append(l, e), s)
<1> DEFINE m == Append(l, e)
           n == Len(l)
<1>1. PICK u : IsNetChain(u, l, s) /\ Net(l, s) = u[Len(l)]
  BY NetChain
<1>2. /\ m \in Ledgers(B, S) /\ Len(m) = n + 1 /\ m[n + 1] = e
      /\ \A k \in 1 .. n : m[k] = l[k]
  BY AppendFacts
<1>3. n \in Nat /\ Delta(e, s) \in Int /\ Net(m, s) = Net(l, s) + Delta(e, s)
      /\ PositionInfo(m, s) = Turn(PositionInfo(l, s), e, s)
  BY LedgerFacts, NetOfAppend, InfoOfAppend DEF Delta
<1> HIDE DEF m
<1>4. PICK w : IsNetChain(w, m, s) /\ Net(m, s) = w[Len(m)]
  BY <1>2, NetChain
<1>5. \A k \in 0 .. n : w[k] = u[k]
  <2> DEFINE T == {j \in 0 .. n : w[j] = u[j]}
  <2>1. 0 \in T
    BY <1>1, <1>3, <1>4 DEF IsNetChain
  <2>2. ASSUME NEW k \in 1 .. n, k - 1 \in T PROVE k \in T
    <3>1. k \in 1 .. n + 1 /\ k \in 0 .. n
      BY <1>3
    <3>2. w[k] = w[k - 1] + Delta(m[k], s) /\ u[k] = u[k - 1] + Delta(l[k], s)
      BY <3>1, <1>1, <1>2, <1>4 DEF IsNetChain
    <3> QED BY <3>1, <3>2, <2>2, <1>2
  <2>3. \A k \in 0 .. n : k \in T
    <3> HIDE DEF T
    <3> QED BY <2>1, <2>2, <1>3, UpTo
  <2> QED BY <2>3
<1>6. ASSUME NEW k \in 0 .. Len(m) PROVE Net(SubSeq(m, 1, k), s) >= 0
  <2>1. Net(SubSeq(m, 1, k), s) = w[k]
    BY <1>2, <1>4, NetOfPrefix
  <2>2. CASE k = n + 1
    BY <2>1, <2>2, <1>2, <1>3, <1>4
  <2>3. CASE k # n + 1
    <3>1. k \in 0 .. n
      BY <2>3, <1>2, <1>3
    <3>2. Net(SubSeq(l, 1, k), s) = u[k]
      BY <3>1, <1>1, NetOfPrefix
    <3> QED BY <2>1, <3>1, <3>2, <1>5 DEF SoundFor
  <2> QED BY <2>2, <2>3
<1>7. PositionInfo(m, s).qty = Net(m, s)
  <2>1. Net(l, s) \in Int /\ PositionInfo(l, s).qty = Net(l, s)
    BY ViewTypes DEF SoundFor
  <2>2. CASE e.stock = s
    BY <2>1, <2>2, <1>3 DEF Turn, Tally, Delta
  <2>3. CASE e.stock # s
    BY <2>1, <2>3, <1>3 DEF Turn, Delta
  <2> QED BY <2>2, <2>3
<1> QED BY <1>6, <1>7 DEF SoundFor, m

\* The last place to insert an entry is the end.
LEMMA InsertLast ==
  ASSUME NEW B, NEW S, NEW l \in Ledgers(B, S),
         NEW e \in [by : B, stock : S, delta : Int, price : Nat]
  PROVE  InsertAt(l, Len(l) + 1, e) = Append(l, e)
<1> DEFINE R == [by : B, stock : S, delta : Int, price : Nat]
           a == InsertAt(l, Len(l) + 1, e)
           b == Append(l, e)
<1>1. Len(l) \in Nat /\ Len(l) + 1 \in 1 .. Len(l) + 1
  BY LedgerFacts
<1>2. /\ a \in Ledgers(B, S) /\ Len(a) = Len(l) + 1 /\ a[Len(l) + 1] = e
      /\ \A k \in 1 .. Len(l) : a[k] = l[k]
  <2> DEFINE i == Len(l) + 1
  <2>1. i \in 1 .. Len(l) + 1 /\ i - 1 = Len(l)
    BY <1>1
  <2> HIDE DEF i
  <2>2. /\ InsertAt(l, i, e) \in Ledgers(B, S) /\ Len(InsertAt(l, i, e)) = Len(l) + 1
        /\ InsertAt(l, i, e)[i] = e /\ \A k \in 1 .. i - 1 : InsertAt(l, i, e)[k] = l[k]
    BY <2>1, InsertFacts
  <2> QED BY <2>1, <2>2 DEF i
<1>3. /\ b \in Ledgers(B, S) /\ Len(b) = Len(l) + 1 /\ b[Len(l) + 1] = e
      /\ \A k \in 1 .. Len(l) : b[k] = l[k]
  BY AppendFacts
<1> HIDE DEF a, b
<1>4. a \in Seq(R) /\ b \in Seq(R)
  BY <1>2, <1>3 DEF Ledgers
<1>5. \A k \in 1 .. Len(a) : a[k] = b[k]
  BY <1>1, <1>2, <1>3
<1> HIDE DEF R
<1>6. a = b
  BY <1>2, <1>3, <1>4, <1>5, SeqEqual
<1> QED BY <1>6 DEF a, b
-----------------------------------------------------------------------------
(* The average of what was paid. *)

\* entry i of the ledger bought shares of s
Bought(l, i, s) == i \in 1 .. Len(l) /\ l[i].stock = s /\ l[i].delta > 0

\* The cost of the position in s is that of its shares at prices paid for s.
AveragePaid(l, s) ==
  LET v == PositionInfo(l, s)
  IN  /\ v.qty = 0 => v.cost = 0
      /\ v.qty > 0 => \E i, j \in 1 .. Len(l) :
           /\ Bought(l, i, s) /\ Bought(l, j, s)
           /\ v.qty * l[i].price <= v.cost /\ v.cost <= v.qty * l[j].price

\* More shares at another price stay between the two.
LEMMA MixedAverage ==
  ASSUME NEW q \in Nat, NEW d \in Nat, NEW c \in Int, NEW lo \in Nat, NEW hi \in Nat,
         NEW p \in Nat, q * lo <= c, c <= q * hi
  PROVE  /\ c + d * p \in Int
         /\ lo <= p => (q + d) * lo <= c + d * p
         /\ p <= lo => (q + d) * p <= c + d * p
         /\ p <= hi => c + d * p <= (q + d) * hi
         /\ hi <= p => c + d * p <= (q + d) * p
<1>1. \A n, x, y \in Nat : x <= y => n * x <= n * y
  OBVIOUS
<1>2. /\ (q + d) * lo = q * lo + d * lo /\ (q + d) * hi = q * hi + d * hi
      /\ (q + d) * p = q * p + d * p
  OBVIOUS
<1>3. /\ q * lo \in Nat /\ d * lo \in Nat /\ q * hi \in Nat /\ d * hi \in Nat
      /\ q * p \in Nat /\ d * p \in Nat
  OBVIOUS
<1>4. lo <= p => d * lo <= d * p
  BY <1>1
<1>5. p <= lo => q * p <= q * lo
  BY <1>1
<1>6. p <= hi => d * p <= d * hi
  BY <1>1
<1>7. hi <= p => q * hi <= q * p
  BY <1>1
<1> QED BY <1>2, <1>3, <1>4, <1>5, <1>6, <1>7

\* It stays so, unless an entry sells some of the shares and keeps others.
LEMMA AverageAppend ==
  ASSUME NEW B, NEW S, NEW l \in Ledgers(B, S), NEW s,
         NEW e \in [by : B, stock : S, delta : Int, price : Nat],
         AveragePaid(l, s),
         e.stock = s /\ e.delta < 0 => PositionInfo(l, s).qty + e.delta <= 0
  PROVE  AveragePaid(Append(l, e), s)
<1> DEFINE m == Append(l, e)
<1>1. /\ Len(m) = Len(l) + 1 /\ m[Len(l) + 1] = e /\ Len(l) \in Nat
      /\ \A k \in 1 .. Len(l) : m[k] = l[k] /\ l[k].price \in Nat
  BY AppendFacts, LedgerFacts
<1>2. PICK v \in [qty : Nat, cost : Int] : v = PositionInfo(l, s)
  BY ViewTypes
<1>3. PICK w : w = PositionInfo(m, s)
  OBVIOUS
<1>4. w = Turn(v, e, s)
  BY <1>2, <1>3, InfoOfAppend
<1> HIDE DEF m
<1>5. \A k : Bought(l, k, s) => Bought(m, k, s) /\ k \in 1 .. Len(l)
                                /\ k \in 1 .. Len(m) /\ m[k] = l[k]
  BY <1>1 DEF Bought
<1>6. /\ v.qty = 0 => v.cost = 0
      /\ v.qty > 0 => \E i, j \in 1 .. Len(l) :
           /\ Bought(l, i, s) /\ Bought(l, j, s)
           /\ v.qty * l[i].price <= v.cost /\ v.cost <= v.qty * l[j].price
  BY <1>2 DEF AveragePaid
<1> DEFINE Shown == /\ w.qty = 0 => w.cost = 0
                    /\ w.qty > 0 => \E i, j \in 1 .. Len(m) :
                         /\ Bought(m, i, s) /\ Bought(m, j, s)
                         /\ w.qty * m[i].price <= w.cost /\ w.cost <= w.qty * m[j].price
<1> SUFFICES Shown
  BY <1>3 DEF AveragePaid, m
<1>7. CASE e.stock # s \/ e.delta = 0
  <2>1. w.qty = v.qty /\ w.cost = v.cost
    <3>1. CASE e.stock # s
      BY <3>1, <1>4 DEF Turn
    <3>2. CASE e.stock = s /\ e.delta = 0
      BY <3>2, <1>4, <1>6 DEF Turn, Tally
    <3> QED BY <3>1, <3>2, <1>7
  <2> QED BY <2>1, <1>5, <1>6
<1>8. CASE e.stock = s /\ e.delta < 0
  BY <1>4, <1>2, <1>8 DEF Turn, Tally
<1>9. CASE e.stock = s /\ e.delta > 0
  <2>1. /\ w.qty = v.qty + e.delta /\ w.cost = v.cost + e.delta * e.price
        /\ w.qty > 0 /\ e.delta \in Nat /\ e.price \in Nat /\ v.qty \in Nat /\ v.cost \in Int
    BY <1>4, <1>9 DEF Turn, Tally
  <2>2. Bought(m, Len(m), s) /\ Len(m) \in 1 .. Len(m) /\ m[Len(m)] = e
    BY <1>1, <1>9 DEF Bought
  <2>3. CASE v.qty = 0
    <3>1. w.qty = e.delta /\ w.cost = e.delta * e.price
      BY <2>1, <2>3, <1>6
    <3>2. w.qty * m[Len(m)].price <= w.cost /\ w.cost <= w.qty * m[Len(m)].price
      <4>1. e.delta * e.price \in Int
        BY <2>1
      <4> QED BY <3>1, <4>1, <2>2
    <3>3. PICK n : n = Len(m)
      OBVIOUS
    <3>4. /\ n \in 1 .. Len(m) /\ Bought(m, n, s)
          /\ w.qty * m[n].price <= w.cost /\ w.cost <= w.qty * m[n].price
      BY <3>2, <3>3, <2>2
    <3>5. \E i, j \in 1 .. Len(m) :
            /\ Bought(m, i, s) /\ Bought(m, j, s)
            /\ w.qty * m[i].price <= w.cost /\ w.cost <= w.qty * m[j].price
      BY <3>4, Zenon
    <3>6. ~(w.qty = 0)
      BY <2>1
    <3> QED BY <3>5, <3>6
  <2>4. CASE v.qty > 0
    <3>1. PICK i, j \in 1 .. Len(l) :
            /\ Bought(l, i, s) /\ Bought(l, j, s)
            /\ v.qty * l[i].price <= v.cost /\ v.cost <= v.qty * l[j].price
      BY <2>4, <1>6
    <3>2. PICK lo \in Nat, hi \in Nat : lo = l[i].price /\ hi = l[j].price
      BY <1>1
    <3>3. /\ lo <= e.price => w.qty * lo <= w.cost
          /\ e.price <= lo => w.qty * e.price <= w.cost
          /\ e.price <= hi => w.cost <= w.qty * hi
          /\ hi <= e.price => w.cost <= w.qty * e.price
      <4>1. PICK q \in Nat, d \in Nat, c \in Int, p \in Nat :
              q = v.qty /\ d = e.delta /\ c = v.cost /\ p = e.price
        BY <2>1
      <4>2. q * lo <= c /\ c <= q * hi
        BY <3>1, <3>2, <4>1
      <4>3. /\ lo <= p => (q + d) * lo <= c + d * p
            /\ p <= lo => (q + d) * p <= c + d * p
            /\ p <= hi => c + d * p <= (q + d) * hi
            /\ hi <= p => c + d * p <= (q + d) * p
        BY <4>2, MixedAverage
      <4> QED BY <4>1, <4>3, <2>1
    <3>4. \E x \in 1 .. Len(m) : Bought(m, x, s) /\ w.qty * m[x].price <= w.cost
      <4>1. CASE lo <= e.price
        <5>1. w.qty * m[i].price <= w.cost
          BY <4>1, <3>2, <3>3, <1>1
        <5> QED BY <5>1, <3>1, <1>5
      <4>2. CASE e.price <= lo
        BY <4>2, <3>3, <2>2
      <4> QED BY <4>1, <4>2, <2>1
    <3>5. \E y \in 1 .. Len(m) : Bought(m, y, s) /\ w.cost <= w.qty * m[y].price
      <4>1. CASE e.price <= hi
        <5>1. w.cost <= w.qty * m[j].price
          BY <4>1, <3>2, <3>3, <1>1
        <5> QED BY <5>1, <3>1, <1>5
      <4>2. CASE hi <= e.price
        BY <4>2, <3>3, <2>2
      <4> QED BY <4>1, <4>2, <2>1
    <3> QED BY <3>4, <3>5, <2>1
  <2> QED BY <2>3, <2>4, <1>2
<1>10. e.delta \in Int
  OBVIOUS
<1> QED BY <1>10, <1>7, <1>8, <1>9
=============================================================================
