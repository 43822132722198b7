----------------------------- MODULE Blake3Proofs -----------------------------
(***************************************************************************)
(* The incremental hasher of BLAKE3 computes the tree hash of what it has  *)
(* absorbed, for all lengths of blocks and chunks, all modes, inputs of    *)
(* all lengths and any sequence of updates, copies and resets.             *)
(***************************************************************************)
EXTENDS Blake3Tree, SequenceTheorems, WellFoundedInduction, TLAPS

-----------------------------------------------------------------------------
(* Induction and recursion on natural numbers.                               *)

\* A set of natural numbers has a least one.
LEMMA LeastElement ==
  ASSUME NEW T, T \subseteq Nat, T # {}
  PROVE  \E m \in T : \A k \in T : m <= k
<1>1. IsWellFoundedOn(OpToRel(<, Nat), Nat)
  BY NatLessThanWellFounded
<1>2. PICK m \in T : \A k \in T : ~(<<k, m>> \in OpToRel(<, Nat))
  BY <1>1, WFMin
<1>3. \A k \in T : ~(k < m)
  BY <1>2 DEF OpToRel
<1> QED BY <1>3

\* Induction over all smaller numbers, for a set of natural numbers.
LEMMA StrongInduction ==
  ASSUME NEW T, \A n \in Nat : (\A m \in 0 .. n - 1 : m \in T) => n \in T
  PROVE  \A n \in Nat : n \in T
<1> SUFFICES ASSUME Nat \ T # {} PROVE FALSE
  OBVIOUS
<1>1. PICK m \in Nat \ T : \A k \in Nat \ T : m <= k
  BY LeastElement
<1>2. \A k \in 0 .. m - 1 : k \in T
  BY <1>1
<1> QED BY <1>1, <1>2

LEMMA StepInduction ==
  ASSUME NEW T, 0 \in T, \A n \in Nat : n \in T => n + 1 \in T
  PROVE  \A n \in Nat : n \in T
<1> SUFFICES ASSUME NEW n \in Nat, \A m \in 0 .. n - 1 : m \in T PROVE n \in T
  BY StrongInduction
<1>1. CASE n = 0
  BY <1>1
<1>2. CASE n # 0
  <2>1. n - 1 \in Nat /\ n - 1 \in T
    BY <1>2
  <2> QED BY <2>1
<1> QED BY <1>1, <1>2

LEMMA Power2Unfolded ==
  /\ Power2[0] = 1
  /\ \A k \in Nat : Power2[k + 1] = 2 * Power2[k]
<1> DEFINE B(f, n) == IF n = 0 THEN 1 ELSE 2 * f[n - 1]
           Ok(f, n) == \A k \in 0 .. n : f[k] = B(f, k)
<1>1. ASSUME NEW f, NEW g, NEW n \in Nat, \A k \in 0 .. n - 1 : f[k] = g[k]
      PROVE  B(f, n) = B(g, n)
  <2>1. n # 0 => n - 1 \in 0 .. n - 1
    OBVIOUS
  <2> QED BY <1>1, <2>1
<1>. HIDE DEF B
<1>2. \A n \in Nat : \E f : Ok(f, n)
  <2> DEFINE T == {n \in Nat : \E f : Ok(f, n)}
  <2>1. 0 \in T
    <3> DEFINE g == [k \in 0 .. 0 |-> B(<<>>, 0)]
    <3>1. B(g, 0) = B(<<>>, 0)
      BY <1>1
    <3>2. Ok(g, 0)
      BY <3>1
    <3> QED BY <3>2
  <2>2. ASSUME NEW n \in Nat, n \in T PROVE n + 1 \in T
    <3>1. PICK f : Ok(f, n)
      BY <2>2
    <3> DEFINE g == [k \in 0 .. n + 1 |-> IF k <= n THEN f[k] ELSE B(f, n + 1)]
    <3>2. \A k \in 0 .. n : g[k] = f[k]
      OBVIOUS
    <3>3. g[n + 1] = B(f, n + 1)
      OBVIOUS
    <3>. HIDE DEF g
    <3>4. \A k \in 0 .. n + 1 : B(g, k) = B(f, k)
      <4> TAKE k \in 0 .. n + 1
      <4>1. k \in Nat /\ \A i \in 0 .. k - 1 : g[i] = f[i]
        BY <3>2
      <4> QED BY <4>1, <1>1
    <3>5. \A k \in 0 .. n + 1 : k \in 0 .. n \/ k = n + 1
      OBVIOUS
    <3>6. Ok(g, n + 1)
      BY <3>1, <3>2, <3>3, <3>4, <3>5
    <3> QED BY <3>6
  <2>. HIDE DEF T
  <2>3. \A n \in Nat : n \in T
    BY <2>1, <2>2, StepInduction
  <2> QED BY <2>3 DEF T
<1>3. ASSUME NEW f, NEW g, NEW n \in Nat, Ok(f, n), Ok(g, n)
      PROVE  \A k \in 0 .. n : f[k] = g[k]
  <2> DEFINE T == {k \in Nat : k <= n => f[k] = g[k]}
  <2>1. ASSUME NEW k \in Nat, \A i \in 0 .. k - 1 : i \in T PROVE k \in T
    <3> SUFFICES ASSUME k <= n PROVE f[k] = g[k]
      OBVIOUS
    <3>1. \A i \in 0 .. k - 1 : f[i] = g[i]
      BY <2>1
    <3>2. k \in 0 .. n /\ B(f, k) = B(g, k)
      BY <3>1, <1>1
    <3> QED BY <3>2, <1>3
  <2>. HIDE DEF T
  <2>2. \A k \in Nat : k \in T
    BY <2>1, StrongInduction
  <2> QED BY <2>2 DEF T
<1> DEFINE G(n) == CHOOSE f : Ok(f, n)
           F == [n \in Nat |-> G(n)[n]]
<1>4. \A n \in Nat : Ok(G(n), n)
  BY <1>2
<1>5. ASSUME NEW n \in Nat, NEW k \in 0 .. n PROVE G(n)[k] = F[k]
  <2>1. k \in Nat /\ Ok(G(n), k) /\ Ok(G(k), k)
    BY <1>4
  <2>. HIDE DEF G, Ok
  <2>2. k \in 0 .. k /\ F[k] = G(k)[k]
    BY <2>1
  <2> QED BY <1>3, <2>1, <2>2
<1>6. ASSUME NEW n \in Nat PROVE F[n] = B(F, n)
  <2>1. G(n)[n] = B(G(n), n)
    BY <1>4
  <2>. HIDE DEF G
  <2>2. B(G(n), n) = B(F, n)
    <3>1. \A k \in 0 .. n - 1 : G(n)[k] = F[k]
      BY <1>5
    <3>. HIDE DEF F
    <3> QED BY <3>1, <1>1
  <2> QED BY <2>1, <2>2
<1>7. \E f : f = [n \in Nat |-> B(f, n)]
  <2>1. F = [n \in Nat |-> F[n]]
    OBVIOUS
  <2>. HIDE DEF F
  <2>2. F = [n \in Nat |-> B(F, n)]
    BY <1>6, <2>1
  <2> QED BY <2>2
<1>8. Power2 = CHOOSE f : f = [n \in Nat |-> B(f, n)]
  BY DEF Power2, B
<1>9. \A n \in Nat : Power2[n] = B(Power2, n)
  <2>1. Power2 = [n \in Nat |-> B(Power2, n)]
    BY <1>7, <1>8
  <2> QED BY <2>1
<1>10. Power2[0] = 1
  BY <1>9 DEF B
<1>11. ASSUME NEW k \in Nat PROVE Power2[k + 1] = 2 * Power2[k]
  <2>1. k + 1 \in Nat /\ k + 1 # 0 /\ (k + 1) - 1 = k
    OBVIOUS
  <2> QED BY <1>9, <2>1 DEF B
<1> QED BY <1>10, <1>11

\* The powers of two grow, and the k-th one is above k.
LEMMA Power2Grows ==
  /\ \A k \in Nat : Power2[k] \in Nat /\ Power2[k] > k
  /\ \A j \in Nat : \A k \in Nat : j < k => 2 * Power2[j] <= Power2[k]
<1>1. \A k \in Nat : Power2[k] \in Nat /\ Power2[k] > k
  <2> DEFINE T == {k \in Nat : Power2[k] \in Nat /\ Power2[k] > k}
  <2>1. 0 \in T
    BY Power2Unfolded
  <2>2. ASSUME NEW n \in Nat, n \in T PROVE n + 1 \in T
    <3>1. Power2[n + 1] = 2 * Power2[n] /\ Power2[n] \in Nat /\ Power2[n] > n
      BY <2>2, Power2Unfolded
    <3> QED BY <3>1
  <2>. HIDE DEF T
  <2>3. \A n \in Nat : n \in T
    BY <2>1, <2>2, StepInduction
  <2> QED BY <2>3 DEF T
<1>2. ASSUME NEW j \in Nat PROVE \A k \in Nat : j < k => 2 * Power2[j] <= Power2[k]
  <2> DEFINE T == {k \in Nat : j < k => 2 * Power2[j] <= Power2[k]}
  <2>1. 0 \in T
    OBVIOUS
  <2>2. ASSUME NEW n \in Nat, n \in T PROVE n + 1 \in T
    <3>1. Power2[n + 1] = 2 * Power2[n] /\ Power2[n] \in Nat /\ Power2[j] \in Nat
      BY <1>1, Power2Unfolded
    <3>2. j < n + 1 => j < n \/ j = n
      OBVIOUS
    <3>3. j < n => 2 * Power2[j] <= Power2[n]
      BY <2>2
    <3> QED BY <3>1, <3>2, <3>3
  <2>. HIDE DEF T
  <2>3. \A n \in Nat : n \in T
    BY <2>1, <2>2, StepInduction
  <2> QED BY <2>3 DEF T
<1> QED BY <1>1, <1>2

\* There is one largest power of two below n.
LEMMA LeftSizeIs ==
  ASSUME NEW n \in Nat, NEW k \in Nat, Power2[k] < n, 2 * Power2[k] >= n
  PROVE  LeftSize(n) = Power2[k]
<1> DEFINE P(p) == p \in {Power2[i] : i \in 0 .. n} /\ p < n /\ 2 * p >= n
<1>1. k \in 0 .. n
  BY Power2Grows
<1>2. P(Power2[k])
  BY <1>1
<1>3. ASSUME NEW p, P(p) PROVE p = Power2[k]
  <2>1. PICK i \in 0 .. n : p = Power2[i]
    BY <1>3
  <2>2. i \in Nat /\ p \in Nat /\ Power2[k] \in Nat
    BY <2>1, Power2Grows
  <2>3. ~(i < k)
    <3>1. i < k => 2 * Power2[i] <= Power2[k]
      BY <2>2, Power2Grows
    <3> QED BY <3>1, <2>1, <2>2, <1>3
  <2>4. ~(k < i)
    <3>1. k < i => 2 * Power2[k] <= Power2[i]
      BY <2>2, Power2Grows
    <3> QED BY <3>1, <2>1, <2>2, <1>3
  <2> QED BY <2>1, <2>2, <2>3, <2>4
<1>4. LeftSize(n) = CHOOSE p : P(p)
  BY DEF LeftSize
<1>. HIDE DEF P
<1> QED BY <1>2, <1>3, <1>4

\* 2^k chunks and up to as many more are divided after 2^k.
LEMMA LeftSizeSplits ==
  ASSUME NEW k \in Nat, NEW r \in 1 .. Power2[k]
  PROVE  LeftSize(Power2[k] + r) = Power2[k]
<1>1. Power2[k] \in Nat
  BY Power2Grows
<1>2. Power2[k] + r \in Nat /\ Power2[k] < Power2[k] + r /\ 2 * Power2[k] >= Power2[k] + r
  BY <1>1
<1> QED BY <1>2, LeftSizeIs

LEMMA LeftSizeExists ==
  \A n \in Nat : n >= 2 => \E k \in Nat : Power2[k] < n /\ 2 * Power2[k] >= n
<1> DEFINE T == {n \in Nat : \E k \in Nat : Power2[k] < n + 2 /\ 2 * Power2[k] >= n + 2}
<1>1. 0 \in T
  BY Power2Unfolded
<1>2. ASSUME NEW n \in Nat, n \in T PROVE n + 1 \in T
  <2>1. PICK k \in Nat : Power2[k] < n + 2 /\ 2 * Power2[k] >= n + 2
    BY <1>2
  <2>2. Power2[k] \in Nat /\ k + 1 \in Nat /\ Power2[k + 1] = 2 * Power2[k]
    BY Power2Grows, Power2Unfolded
  <2>3. CASE 2 * Power2[k] >= n + 3
    BY <2>1, <2>2, <2>3
  <2>4. CASE ~(2 * Power2[k] >= n + 3)
    <3>1. 2 * Power2[k] < n + 3 /\ 2 * (2 * Power2[k]) >= n + 3
      BY <2>1, <2>2, <2>4
    <3>2. Power2[k + 1] < (n + 1) + 2 /\ 2 * Power2[k + 1] >= (n + 1) + 2
      BY <2>2, <3>1
    <3> QED BY <2>2, <3>2
  <2> QED BY <2>3, <2>4
<1>. HIDE DEF T
<1>3. \A n \in Nat : n \in T
  BY <1>1, <1>2, StepInduction
<1> SUFFICES ASSUME NEW n \in Nat, n >= 2
             PROVE  \E k \in Nat : Power2[k] < n /\ 2 * Power2[k] >= n
  OBVIOUS
<1>4. n - 2 \in Nat /\ (n - 2) + 2 = n
  OBVIOUS
<1> QED BY <1>3, <1>4 DEF T

LEMMA LeftSizeType ==
  ASSUME NEW n \in Nat, n >= 2
  PROVE  LeftSize(n) \in 1 .. n - 1
<1>1. PICK k \in Nat : Power2[k] < n /\ 2 * Power2[k] >= n
  BY LeftSizeExists
<1>2. LeftSize(n) = Power2[k] /\ Power2[k] \in Nat /\ Power2[k] > k
  BY <1>1, LeftSizeIs, Power2Grows
<1> QED BY <1>1, <1>2

-----------------------------------------------------------------------------
(* The recursive definitions of the tree.                                    *)

LEMMA LeafChainUnfolded ==
  ASSUME NEW mode, NEW chunk, NEW counter
  PROVE  /\ LeafChain(mode, chunk, counter)[0] = mode.key
         /\ \A k \in Nat :
              LeafChain(mode, chunk, counter)[k + 1] =
                Compress(LeafChain(mode, chunk, counter)[k], Piece(chunk, BlockLen, k), counter, LeafFlags(mode, k))
<1> DEFINE B(f, n) ==
             IF n = 0 THEN mode.key
             ELSE Compress(f[n - 1], Piece(chunk, BlockLen, n - 1), counter, LeafFlags(mode, n - 1))
           Ok(f, n) == \A k \in 0 .. n : f[k] = B(f, k)
           chain == LeafChain(mode, chunk, counter)
<1>1. ASSUME NEW f, NEW g, NEW n \in Nat, \A k \in 0 .. n - 1 : f[k] = g[k]
      PROVE  B(f, n) = B(g, n)
  <2>1. n # 0 => n - 1 \in 0 .. n - 1
    OBVIOUS
  <2> QED BY <1>1, <2>1, Zenon
<1>. HIDE DEF B
<1>2. \A n \in Nat : \E f : Ok(f, n)
  <2> DEFINE T == {n \in Nat : \E f : Ok(f, n)}
  <2>1. 0 \in T
    <3> DEFINE g == [k \in 0 .. 0 |-> B(<<>>, 0)]
    <3>1. B(g, 0) = B(<<>>, 0)
      BY <1>1
    <3>2. Ok(g, 0)
      BY <3>1
    <3> QED BY <3>2
  <2>2. ASSUME NEW n \in Nat, n \in T PROVE n + 1 \in T
    <3>1. PICK f : Ok(f, n)
      BY <2>2
    <3> DEFINE g == [k \in 0 .. n + 1 |-> IF k <= n THEN f[k] ELSE B(f, n + 1)]
    <3>2. \A k \in 0 .. n : g[k] = f[k]
      OBVIOUS
    <3>3. g[n + 1] = B(f, n + 1)
      OBVIOUS
    <3>. HIDE DEF g
    <3>4. \A k \in 0 .. n + 1 : B(g, k) = B(f, k)
      <4> TAKE k \in 0 .. n + 1
      <4>1. k \in Nat /\ \A i \in 0 .. k - 1 : g[i] = f[i]
        BY <3>2
      <4> QED BY <4>1, <1>1
    <3>5. \A k \in 0 .. n + 1 : k \in 0 .. n \/ k = n + 1
      OBVIOUS
    <3>6. Ok(g, n + 1)
      BY <3>1, <3>2, <3>3, <3>4, <3>5
    <3> QED BY <3>6
  <2>. HIDE DEF T
  <2>3. \A n \in Nat : n \in T
    BY <2>1, <2>2, StepInduction
  <2> QED BY <2>3 DEF T
<1>3. ASSUME NEW f, NEW g, NEW n \in Nat, Ok(f, n), Ok(g, n)
      PROVE  \A k \in 0 .. n : f[k] = g[k]
  <2> DEFINE T == {k \in Nat : k <= n => f[k] = g[k]}
  <2>1. ASSUME NEW k \in Nat, \A i \in 0 .. k - 1 : i \in T PROVE k \in T
    <3> SUFFICES ASSUME k <= n PROVE f[k] = g[k]
      OBVIOUS
    <3>1. \A i \in 0 .. k - 1 : f[i] = g[i]
      BY <2>1
    <3>2. k \in 0 .. n /\ B(f, k) = B(g, k)
      BY <3>1, <1>1
    <3> QED BY <3>2, <1>3
  <2>. HIDE DEF T
  <2>2. \A k \in Nat : k \in T
    BY <2>1, StrongInduction
  <2> QED BY <2>2 DEF T
<1> DEFINE G(n) == CHOOSE f : Ok(f, n)
           F == [n \in Nat |-> G(n)[n]]
<1>4. \A n \in Nat : Ok(G(n), n)
  BY <1>2
<1>5. ASSUME NEW n \in Nat, NEW k \in 0 .. n PROVE G(n)[k] = F[k]
  <2>1. k \in Nat /\ Ok(G(n), k) /\ Ok(G(k), k)
    BY <1>4
  <2>. HIDE DEF G, Ok
  <2>2. k \in 0 .. k /\ F[k] = G(k)[k]
    BY <2>1
  <2> QED BY <1>3, <2>1, <2>2
<1>6. ASSUME NEW n \in Nat PROVE F[n] = B(F, n)
  <2>1. G(n)[n] = B(G(n), n)
    BY <1>4
  <2>. HIDE DEF G
  <2>2. B(G(n), n) = B(F, n)
    <3>1. \A k \in 0 .. n - 1 : G(n)[k] = F[k]
      BY <1>5
    <3>. HIDE DEF F
    <3> QED BY <3>1, <1>1
  <2> QED BY <2>1, <2>2
<1>7. \E f : f = [n \in Nat |-> B(f, n)]
  <2>1. F = [n \in Nat |-> F[n]]
    OBVIOUS
  <2>. HIDE DEF F
  <2>2. F = [n \in Nat |-> B(F, n)]
    BY <1>6, <2>1
  <2> QED BY <2>2
<1>8. chain = CHOOSE f : f = [n \in Nat |-> B(f, n)]
  BY DEF LeafChain, B
<1>. HIDE DEF chain
<1>9. \A n \in Nat : chain[n] = B(chain, n)
  <2>1. chain = [n \in Nat |-> B(chain, n)]
    BY <1>7, <1>8
  <2> QED BY <2>1
<1>10. chain[0] = mode.key
  BY <1>9 DEF B
<1>11. ASSUME NEW k \in Nat
       PROVE  chain[k + 1] = Compress(chain[k], Piece(chunk, BlockLen, k), counter, LeafFlags(mode, k))
  <2>1. k + 1 \in Nat /\ k + 1 # 0 /\ (k + 1) - 1 = k
    OBVIOUS
  <2> QED BY <1>9, <2>1 DEF B
<1> QED BY <1>10, <1>11 DEF chain

\* A node has one over its first l chunks and one over the others below it.
IsParent(mode, bytes, n, first, l) ==
  Tree(mode, bytes)[n][first] =
    ParentOutput(mode, ChainingValue(Tree(mode, bytes)[l][first]),
                       ChainingValue(Tree(mode, bytes)[n - l][first + l]))

\* A node over one chunk is its leaf; a larger one has the nodes over its two parts below it.
LEMMA TreeUnfolded ==
  ASSUME NEW mode, NEW bytes, NEW first \in Nat
  PROVE  /\ Tree(mode, bytes)[1][first] = LeafOutput(mode, Piece(bytes, ChunkLen, first), first)
         /\ \A n \in Nat : n >= 2 => IsParent(mode, bytes, n, first, LeftSize(n))
<1> DEFINE B(f, n) ==
             [i \in Nat |->
                IF n <= 1 THEN LeafOutput(mode, Piece(bytes, ChunkLen, i), i)
                ELSE ParentOutput(mode, ChainingValue(f[LeftSize(n)][i]),
                                        ChainingValue(f[n - LeftSize(n)][i + LeftSize(n)]))]
           Ok(f, n) == \A k \in 0 .. n : f[k] = B(f, k)
           tree == Tree(mode, bytes)
<1>1. ASSUME NEW f, NEW g, NEW n \in Nat, \A k \in 0 .. n - 1 : f[k] = g[k]
      PROVE  B(f, n) = B(g, n)
  <2>1. CASE n <= 1
    BY <2>1
  <2>2. CASE ~(n <= 1)
    <3>1. LeftSize(n) \in 0 .. n - 1 /\ n - LeftSize(n) \in 0 .. n - 1
      BY <2>2, LeftSizeType
    <3> QED BY <1>1, <3>1, Zenon
  <2> QED BY <2>1, <2>2
<1>. HIDE DEF B
<1>2. \A n \in Nat : \E f : Ok(f, n)
  <2> DEFINE T == {n \in Nat : \E f : Ok(f, n)}
  <2>1. 0 \in T
    <3> DEFINE g == [k \in 0 .. 0 |-> B(<<>>, 0)]
    <3>1. B(g, 0) = B(<<>>, 0)
      BY <1>1
    <3>2. Ok(g, 0)
      BY <3>1
    <3> QED BY <3>2
  <2>2. ASSUME NEW n \in Nat, n \in T PROVE n + 1 \in T
    <3>1. PICK f : Ok(f, n)
      BY <2>2
    <3> DEFINE g == [k \in 0 .. n + 1 |-> IF k <= n THEN f[k] ELSE B(f, n + 1)]
    <3>2. \A k \in 0 .. n : g[k] = f[k]
      OBVIOUS
    <3>3. g[n + 1] = B(f, n + 1)
      OBVIOUS
    <3>. HIDE DEF g
    <3>4. \A k \in 0 .. n + 1 : B(g, k) = B(f, k)
      <4> TAKE k \in 0 .. n + 1
      <4>1. k \in Nat /\ \A i \in 0 .. k - 1 : g[i] = f[i]
        BY <3>2
      <4> QED BY <4>1, <1>1
    <3>5. \A k \in 0 .. n + 1 : k \in 0 .. n \/ k = n + 1
      OBVIOUS
    <3>6. Ok(g, n + 1)
      BY <3>1, <3>2, <3>3, <3>4, <3>5
    <3> QED BY <3>6
  <2>. HIDE DEF T
  <2>3. \A n \in Nat : n \in T
    BY <2>1, <2>2, StepInduction
  <2> QED BY <2>3 DEF T
<1>3. ASSUME NEW f, NEW g, NEW n \in Nat, Ok(f, n), Ok(g, n)
      PROVE  \A k \in 0 .. n : f[k] = g[k]
  <2> DEFINE T == {k \in Nat : k <= n => f[k] = g[k]}
  <2>1. ASSUME NEW k \in Nat, \A i \in 0 .. k - 1 : i \in T PROVE k \in T
    <3> SUFFICES ASSUME k <= n PROVE f[k] = g[k]
      OBVIOUS
    <3>1. \A i \in 0 .. k - 1 : f[i] = g[i]
      BY <2>1
    <3>2. k \in 0 .. n /\ B(f, k) = B(g, k)
      BY <3>1, <1>1
    <3> QED BY <3>2, <1>3
  <2>. HIDE DEF T
  <2>2. \A k \in Nat : k \in T
    BY <2>1, StrongInduction
  <2> QED BY <2>2 DEF T
<1> DEFINE G(n) == CHOOSE f : Ok(f, n)
           F == [n \in Nat |-> G(n)[n]]
<1>4. \A n \in Nat : Ok(G(n), n)
  BY <1>2
<1>5. ASSUME NEW n \in Nat, NEW k \in 0 .. n PROVE G(n)[k] = F[k]
  <2>1. k \in Nat /\ Ok(G(n), k) /\ Ok(G(k), k)
    BY <1>4
  <2>. HIDE DEF G, Ok
  <2>2. k \in 0 .. k /\ F[k] = G(k)[k]
    BY <2>1
  <2> QED BY <1>3, <2>1, <2>2
<1>6. ASSUME NEW n \in Nat PROVE F[n] = B(F, n)
  <2>1. G(n)[n] = B(G(n), n)
    BY <1>4
  <2>. HIDE DEF G
  <2>2. B(G(n), n) = B(F, n)
    <3>1. \A k \in 0 .. n - 1 : G(n)[k] = F[k]
      BY <1>5
    <3>. HIDE DEF F
    <3> QED BY <3>1, <1>1
  <2> QED BY <2>1, <2>2
<1>7. \E f : f = [n \in Nat |-> B(f, n)]
  <2>1. F = [n \in Nat |-> F[n]]
    OBVIOUS
  <2>. HIDE DEF F
  <2>2. F = [n \in Nat |-> B(F, n)]
    BY <1>6, <2>1
  <2> QED BY <2>2
<1>8. tree = CHOOSE f : f = [n \in Nat |-> B(f, n)]
  BY DEF Tree, B
<1>. HIDE DEF tree
<1>9. \A n \in Nat : tree[n] = B(tree, n)
  <2>1. tree = [n \in Nat |-> B(tree, n)]
    BY <1>7, <1>8
  <2> QED BY <2>1
<1>10. tree[1][first] = LeafOutput(mode, Piece(bytes, ChunkLen, first), first)
  <2>1. PICK n \in Nat : n = 1 /\ n <= 1
    OBVIOUS
  <2>2. \A m \in Nat : m <= 1 => B(tree, m)[first] = LeafOutput(mode, Piece(bytes, ChunkLen, first), first)
    BY Zenon DEF B
  <2>3. tree[n][first] = LeafOutput(mode, Piece(bytes, ChunkLen, first), first)
    BY <1>9, <2>1, <2>2, Zenon
  <2> QED BY <2>1, <2>3
<1>11. ASSUME NEW n \in Nat, n >= 2
       PROVE  IsParent(mode, bytes, n, first, LeftSize(n))
  <2>1. ~(n <= 1)
    BY <1>11
  <2>2. tree[n][first] = ParentOutput(mode, ChainingValue(tree[LeftSize(n)][first]),
                                      ChainingValue(tree[n - LeftSize(n)][first + LeftSize(n)]))
    BY <1>9, <2>1, Zenon DEF B
  <2> QED BY <2>2 DEF tree, IsParent
<1> QED BY <1>10, <1>11 DEF tree

\* Of n subtrees of 2^j chunks every two join, to the u subtrees at the next level; an odd
\* one is left over.
AllJoin(mode, bytes, n, j, u) ==
  Subtrees(mode, bytes)[n][j] = Subtrees(mode, bytes)[u][j + 1] \o <<>>

OneLeft(mode, bytes, n, j, u, p, q) ==
  Subtrees(mode, bytes)[n][j] = Subtrees(mode, bytes)[u][j + 1] \o <<ChainingValue(Tree(mode, bytes)[p][q])>>

LEMMA SubtreesUnfolded ==
  ASSUME NEW mode, NEW bytes, NEW j \in Nat
  PROVE  /\ Subtrees(mode, bytes)[0][j] = <<>>
         /\ \A n \in Nat \ {0} :
              /\ n % 2 = 0 => AllJoin(mode, bytes, n, j, n \div 2)
              /\ n % 2 # 0 => OneLeft(mode, bytes, n, j, n \div 2, Power2[j], (n - 1) * Power2[j])
<1> DEFINE B(f, n) ==
             [i \in Nat |->
                IF n = 0 THEN <<>>
                ELSE f[n \div 2][i + 1]
                     \o (IF n % 2 = 0 THEN <<>>
                         ELSE <<ChainingValue(Tree(mode, bytes)[Power2[i]][(n - 1) * Power2[i]])>>)]
           Ok(f, n) == \A k \in 0 .. n : f[k] = B(f, k)
           roots == Subtrees(mode, bytes)
<1>1. ASSUME NEW f, NEW g, NEW n \in Nat, \A k \in 0 .. n - 1 : f[k] = g[k]
      PROVE  B(f, n) = B(g, n)
  <2>1. CASE n = 0
    BY <2>1
  <2>2. CASE n # 0
    <3>1. n \div 2 \in 0 .. n - 1
      BY <2>2
    <3> QED BY <1>1, <3>1, Zenon
  <2> QED BY <2>1, <2>2
<1>. HIDE DEF B
<1>2. \A n \in Nat : \E f : Ok(f, n)
  <2> DEFINE T == {n \in Nat : \E f : Ok(f, n)}
  <2>1. 0 \in T
    <3> DEFINE g == [k \in 0 .. 0 |-> B(<<>>, 0)]
    <3>1. B(g, 0) = B(<<>>, 0)
      BY <1>1
    <3>2. Ok(g, 0)
      BY <3>1
    <3> QED BY <3>2
  <2>2. ASSUME NEW n \in Nat, n \in T PROVE n + 1 \in T
    <3>1. PICK f : Ok(f, n)
      BY <2>2
    <3> DEFINE g == [k \in 0 .. n + 1 |-> IF k <= n THEN f[k] ELSE B(f, n + 1)]
    <3>2. \A k \in 0 .. n : g[k] = f[k]
      OBVIOUS
    <3>3. g[n + 1] = B(f, n + 1)
      OBVIOUS
    <3>. HIDE DEF g
    <3>4. \A k \in 0 .. n + 1 : B(g, k) = B(f, k)
      <4> TAKE k \in 0 .. n + 1
      <4>1. k \in Nat /\ \A i \in 0 .. k - 1 : g[i] = f[i]
        BY <3>2
      <4> QED BY <4>1, <1>1
    <3>5. \A k \in 0 .. n + 1 : k \in 0 .. n \/ k = n + 1
      OBVIOUS
    <3>6. Ok(g, n + 1)
      BY <3>1, <3>2, <3>3, <3>4, <3>5
    <3> QED BY <3>6
  <2>. HIDE DEF T
  <2>3. \A n \in Nat : n \in T
    BY <2>1, <2>2, StepInduction
  <2> QED BY <2>3 DEF T
<1>3. ASSUME NEW f, NEW g, NEW n \in Nat, Ok(f, n), Ok(g, n)
      PROVE  \A k \in 0 .. n : f[k] = g[k]
  <2> DEFINE T == {k \in Nat : k <= n => f[k] = g[k]}
  <2>1. ASSUME NEW k \in Nat, \A i \in 0 .. k - 1 : i \in T PROVE k \in T
    <3> SUFFICES ASSUME k <= n PROVE f[k] = g[k]
      OBVIOUS
    <3>1. \A i \in 0 .. k - 1 : f[i] = g[i]
      BY <2>1
    <3>2. k \in 0 .. n /\ B(f, k) = B(g, k)
      BY <3>1, <1>1
    <3> QED BY <3>2, <1>3
  <2>. HIDE DEF T
  <2>2. \A k \in Nat : k \in T
    BY <2>1, StrongInduction
  <2> QED BY <2>2 DEF T
<1> DEFINE G(n) == CHOOSE f : Ok(f, n)
           F == [n \in Nat |-> G(n)[n]]
<1>4. \A n \in Nat : Ok(G(n), n)
  BY <1>2
<1>5. ASSUME NEW n \in Nat, NEW k \in 0 .. n PROVE G(n)[k] = F[k]
  <2>1. k \in Nat /\ Ok(G(n), k) /\ Ok(G(k), k)
    BY <1>4
  <2>. HIDE DEF G, Ok
  <2>2. k \in 0 .. k /\ F[k] = G(k)[k]
    BY <2>1
  <2> QED BY <1>3, <2>1, <2>2
<1>6. ASSUME NEW n \in Nat PROVE F[n] = B(F, n)
  <2>1. G(n)[n] = B(G(n), n)
    BY <1>4
  <2>. HIDE DEF G
  <2>2. B(G(n), n) = B(F, n)
    <3>1. \A k \in 0 .. n - 1 : G(n)[k] = F[k]
      BY <1>5
    <3>. HIDE DEF F
    <3> QED BY <3>1, <1>1
  <2> QED BY <2>1, <2>2
<1>7. \E f : f = [n \in Nat |-> B(f, n)]
  <2>1. F = [n \in Nat |-> F[n]]
    OBVIOUS
  <2>. HIDE DEF F
  <2>2. F = [n \in Nat |-> B(F, n)]
    BY <1>6, <2>1
  <2> QED BY <2>2
<1>8. roots = CHOOSE f : f = [n \in Nat |-> B(f, n)]
  BY DEF Subtrees, B
<1>. HIDE DEF roots
<1>9. \A n \in Nat : roots[n] = B(roots, n)
  <2>1. roots = [n \in Nat |-> B(roots, n)]
    BY <1>7, <1>8
  <2> QED BY <2>1
<1>10. roots[0][j] = <<>>
  BY <1>9 DEF B
<1>11. ASSUME NEW n \in Nat \ {0}, n % 2 = 0
       PROVE  AllJoin(mode, bytes, n, j, n \div 2)
  <2>1. roots[n][j] = roots[n \div 2][j + 1] \o <<>>
    BY <1>9, <1>11, Zenon DEF B
  <2> QED BY <2>1, Zenon DEF roots, AllJoin
<1>12. ASSUME NEW n \in Nat \ {0}, n % 2 # 0
       PROVE  OneLeft(mode, bytes, n, j, n \div 2, Power2[j], (n - 1) * Power2[j])
  <2>1. roots[n][j] = roots[n \div 2][j + 1] \o <<ChainingValue(Tree(mode, bytes)[Power2[j]][(n - 1) * Power2[j]])>>
    BY <1>9, <1>12, Zenon DEF B
  <2> QED BY <2>1, Zenon DEF roots, OneLeft
<1> QED BY <1>10, <1>11, <1>12 DEF roots

-----------------------------------------------------------------------------
(* Pieces of a sequence.                                                     *)

\* A sequence of length len has its last piece, of length n at most, at number k.
Fits(len, n, k) == k * n <= len /\ len <= (k + 1) * n /\ (len = k * n => len = 0)

LEMMA Multiple ==
  ASSUME NEW n \in Nat \ {0}, NEW k \in Nat
  PROVE  k * n \in Nat /\ (k + 1) * n = k * n + n
OBVIOUS

LEMMA FitsPieces ==
  ASSUME NEW len \in Nat, NEW n \in Nat \ {0}, NEW k \in Nat, Fits(len, n, k)
  PROVE  Pieces(len, n) = k + 1
<1> PICK b \in Nat : b = k * n /\ (k + 1) * n = b + n
  BY Multiple
<1>1. b <= len /\ len <= b + n /\ (len = b => len = 0)
  BY DEF Fits
<1>2. CASE len = 0
  <2>1. b = 0
    BY <1>1, <1>2
  <2>2. k = 0
    BY <2>1
  <2> QED BY <1>2, <2>2 DEF Pieces
<1>3. CASE len # 0
  <2> PICK d \in Nat : d = (len + n - 1) \div n
    BY <1>3
  <2>1. d * n <= len + n - 1 /\ len + n - 1 < (d + 1) * n
    BY <1>3
  <2> PICK x \in Nat : x = d * n /\ (d + 1) * n = x + n
    BY Multiple
  <2>2. x <= len + n - 1 /\ len + n - 1 < x + n /\ b < len /\ len <= b + n
    BY <1>1, <1>3, <2>1
  <2>3. d = k + 1
    <3>1. x < b + 2 * n /\ x > b - 1
      BY <2>2
    <3>2. (d - k) * n = x - b
      OBVIOUS
    <3>7. d - k \in Int
      OBVIOUS
    <3> PICK e \in Int : e = d - k
      BY <3>7
    <3>3. e * n < 2 * n /\ e * n >= 0
      BY <3>1, <3>2
    <3>4. e < 2 /\ e > -1
      BY <3>3
    <3>5. e # 0
      <4>1. e = 0 => x = b
        BY <3>2
      <4>2. x # b
        BY <2>2
      <4> QED BY <4>1, <4>2
    <3> QED BY <3>4, <3>5
  <2> QED BY <1>3, <2>3 DEF Pieces
<1> QED BY <1>2, <1>3

LEMMA FitsExists ==
  ASSUME NEW len \in Nat, NEW n \in Nat \ {0}
  PROVE  \E k \in Nat : Fits(len, n, k)
<1>1. CASE len = 0
  <2>1. Fits(len, n, 0)
    BY <1>1 DEF Fits
  <2> QED BY <2>1
<1>2. CASE len # 0
  <2> PICK k \in Nat : k = (len - 1) \div n
    BY <1>2
  <2>1. k * n <= len - 1 /\ len - 1 < (k + 1) * n
    BY <1>2
  <2> PICK b \in Nat : b = k * n /\ (k + 1) * n = b + n
    BY Multiple
  <2>2. Fits(len, n, k)
    BY <1>2, <2>1 DEF Fits
  <2> QED BY <2>2
<1> QED BY <1>1, <1>2

\* What is known of a concatenation.
LEMMA Concatenated ==
  ASSUME NEW S, NEW s \in Seq(S), NEW e \in Seq(S)
  PROVE  \E z \in Seq(S) :
           /\ z = s \o e /\ Len(z) = Len(s) + Len(e)
           /\ \A i \in 1 .. Len(s) + Len(e) : z[i] = IF i <= Len(s) THEN s[i] ELSE e[i - Len(s)]
<1>1. /\ s \o e \in Seq(S) /\ Len(s \o e) = Len(s) + Len(e)
      /\ \A i \in 1 .. Len(s) + Len(e) : (s \o e)[i] = IF i <= Len(s) THEN s[i] ELSE e[i - Len(s)]
  BY ConcatProperties
<1> QED BY <1>1, Zenon

\* n elements after the first b, or those there are.
Span(s, b, n) == SubSeq(s, b + 1, Smaller(b + n, Len(s)))

LEMMA PieceIsSpan ==
  ASSUME NEW s, NEW n \in Nat \ {0}, NEW k \in Nat
  PROVE  Piece(s, n, k) = Span(s, k * n, n)
BY Multiple DEF Piece, Span

LEMMA SpanProperties ==
  ASSUME NEW S, NEW s \in Seq(S), NEW n \in Nat, NEW b \in Nat, b <= Len(s)
  PROVE  \E t \in Seq(S) : /\ t = Span(s, b, n)
                           /\ Len(t) = IF b + n < Len(s) THEN n ELSE Len(s) - b
                           /\ \A i \in 1 .. Len(t) : t[i] = s[b + i]
<1>1. PICK len \in Nat : len = Len(s)
  BY LenProperties
<1>2. \A i \in 1 .. len : s[i] \in S
  BY <1>1, ElementOfSeq
<1>3. PICK c \in Nat : c = Smaller(b + n, len) /\ c = IF b + n < len THEN b + n ELSE len
  <2>1. Smaller(b + n, len) \in Nat
    BY DEF Smaller
  <2> QED BY <2>1 DEF Smaller
<1>4. b <= c /\ c <= len /\ c - b = IF b + n < len THEN n ELSE len - b
  BY <1>1, <1>3
<1>5. \A i \in b + 1 .. c : s[i] \in S
  BY <1>2, <1>4
<1>6. /\ SubSeq(s, b + 1, c) \in Seq(S)
      /\ Len(SubSeq(s, b + 1, c)) = IF b + 1 <= c THEN c - (b + 1) + 1 ELSE 0
      /\ \A i \in 1 .. c - (b + 1) + 1 : SubSeq(s, b + 1, c)[i] = s[(b + 1) + i - 1]
  BY <1>5, SubSeqProperties
<1>7. PICK t : t = SubSeq(s, b + 1, c)
  OBVIOUS
<1>8. t \in Seq(S) /\ Len(t) = c - b /\ \A i \in 1 .. c - b : t[i] = s[b + i]
  <2>1. c - (b + 1) + 1 = c - b /\ (b + 1 <= c \/ c - b = 0)
    BY <1>4
  <2>2. \A i \in 1 .. c - b : (b + 1) + i - 1 = b + i
    OBVIOUS
  <2> QED BY <1>6, <1>7, <2>1, <2>2
<1>9. t = Span(s, b, n)
  BY <1>1, <1>3, <1>7 DEF Span
<1> QED BY <1>1, <1>4, <1>8, <1>9

LEMMA SpanKept ==
  ASSUME NEW S, NEW s \in Seq(S), NEW e \in Seq(S), NEW n \in Nat, NEW b \in Nat, b + n <= Len(s)
  PROVE  Span(s \o e, b, n) = Span(s, b, n)
<1>1. Len(s) \in Nat /\ Len(e) \in Nat
  BY LenProperties
<1>2. PICK z \in Seq(S) : /\ z = s \o e /\ Len(z) = Len(s) + Len(e)
                          /\ \A i \in 1 .. Len(s) + Len(e) : z[i] = IF i <= Len(s) THEN s[i] ELSE e[i - Len(s)]
  BY Concatenated
<1>3. PICK q \in Seq(S) : /\ q = Span(z, b, n) /\ Len(q) = IF b + n < Len(z) THEN n ELSE Len(z) - b
                          /\ \A i \in 1 .. Len(q) : q[i] = z[b + i]
  <2>1. b <= Len(z)
    BY <1>1, <1>2
  <2> QED BY <2>1, SpanProperties
<1>4. PICK p \in Seq(S) : /\ p = Span(s, b, n) /\ Len(p) = IF b + n < Len(s) THEN n ELSE Len(s) - b
                          /\ \A i \in 1 .. Len(p) : p[i] = s[b + i]
  <2>1. b <= Len(s)
    BY <1>1
  <2> QED BY <2>1, SpanProperties
<1>5. Len(q) = n /\ Len(p) = n
  BY <1>1, <1>2, <1>3, <1>4
<1>6. \A i \in 1 .. n : q[i] = p[i]
  <2> TAKE i \in 1 .. n
  <2>1. b + i \in 1 .. Len(s) + Len(e) /\ b + i <= Len(s)
    BY <1>1
  <2>2. z[b + i] = s[b + i]
    BY <1>2, <2>1
  <2> QED BY <1>3, <1>4, <1>5, <2>2
<1>7. q = p
  BY <1>5, <1>6, SeqEqual
<1> QED BY <1>2, <1>3, <1>4, <1>7

LEMMA SpanExtended ==
  ASSUME NEW S, NEW s \in Seq(S), NEW e \in Seq(S), NEW n \in Nat, NEW b \in Nat,
         b <= Len(s), Len(s) + Len(e) <= b + n
  PROVE  Span(s \o e, b, n) = Span(s, b, n) \o e
<1>1. Len(s) \in Nat /\ Len(e) \in Nat
  BY LenProperties
<1>2. PICK z \in Seq(S) : /\ z = s \o e /\ Len(z) = Len(s) + Len(e)
                          /\ \A i \in 1 .. Len(s) + Len(e) : z[i] = IF i <= Len(s) THEN s[i] ELSE e[i - Len(s)]
  BY Concatenated
<1>3. PICK q \in Seq(S) : /\ q = Span(z, b, n) /\ Len(q) = IF b + n < Len(z) THEN n ELSE Len(z) - b
                          /\ \A i \in 1 .. Len(q) : q[i] = z[b + i]
  <2>1. b <= Len(z)
    BY <1>1, <1>2
  <2> QED BY <2>1, SpanProperties
<1>4. PICK p \in Seq(S) : /\ p = Span(s, b, n) /\ Len(p) = IF b + n < Len(s) THEN n ELSE Len(s) - b
                          /\ \A i \in 1 .. Len(p) : p[i] = s[b + i]
  BY SpanProperties
<1>5. PICK r \in Seq(S) : /\ r = p \o e /\ Len(r) = Len(p) + Len(e)
                          /\ \A i \in 1 .. Len(p) + Len(e) : r[i] = IF i <= Len(p) THEN p[i] ELSE e[i - Len(p)]
  <2>1. p \in Seq(S)
    BY <1>4
  <2>2. /\ p \o e \in Seq(S) /\ Len(p \o e) = Len(p) + Len(e)
        /\ \A i \in 1 .. Len(p) + Len(e) : (p \o e)[i] = IF i <= Len(p) THEN p[i] ELSE e[i - Len(p)]
    BY <2>1, ConcatProperties
  <2> QED BY <2>2, Zenon
<1>6. Len(q) = Len(s) + Len(e) - b /\ Len(p) = Len(s) - b /\ Len(r) = Len(q)
  BY <1>1, <1>2, <1>3, <1>4, <1>5
<1>7. ASSUME NEW i \in 1 .. Len(q) PROVE q[i] = r[i]
  <2>1. q[i] = z[b + i] /\ b + i \in 1 .. Len(s) + Len(e) /\ i \in 1 .. Len(p) + Len(e)
    <3>1. p \in Seq(S) /\ q \in Seq(S)
      BY <1>3, <1>4
    <3>2. PICK lp \in Nat, lq \in Nat : lp = Len(p) /\ lq = Len(q)
      BY <3>1, LenProperties
    <3>3. i \in 1 .. lq /\ lq = Len(s) + Len(e) - b /\ lp = Len(s) - b
      BY <1>6, <3>2
    <3> QED BY <1>1, <1>3, <3>2, <3>3
  <2>2. CASE i <= Len(p)
    <3>1. i \in 1 .. Len(p) /\ b + i <= Len(s)
      BY <1>1, <1>6, <2>2
    <3>2. z[b + i] = s[b + i] /\ r[i] = p[i] /\ p[i] = s[b + i]
      BY <1>2, <1>4, <1>5, <2>1, <2>2, <3>1
    <3> QED BY <2>1, <3>2
  <2>3. CASE ~(i <= Len(p))
    <3>1. ~(b + i <= Len(s)) /\ (b + i) - Len(s) = i - Len(p)
      BY <1>1, <1>6, <2>3
    <3>2. z[b + i] = e[i - Len(p)] /\ r[i] = e[i - Len(p)]
      BY <1>2, <1>5, <2>1, <2>3, <3>1
    <3> QED BY <2>1, <3>2
  <2> QED BY <2>2, <2>3
<1>8. q = r
  BY <1>6, <1>7, SeqEqual
<1> QED BY <1>2, <1>3, <1>4, <1>5, <1>8

\* The part of data before p, and the part from there to q.
LEMMA AbsorbedMore ==
  ASSUME NEW S, NEW data \in Seq(S), NEW p \in 0 .. Len(data), NEW q \in p .. Len(data)
  PROVE  /\ SubSeq(data, 1, p) \in Seq(S) /\ Len(SubSeq(data, 1, p)) = p
         /\ SubSeq(data, p + 1, q) \in Seq(S) /\ Len(SubSeq(data, p + 1, q)) = q - p
<1>1. Len(data) \in Nat
  BY LenProperties
<1>2. \A i \in 1 .. Len(data) : data[i] \in S
  BY ElementOfSeq
<1>3. SubSeq(data, 1, p) \in Seq(S) /\ Len(SubSeq(data, 1, p)) = p
  <2>1. \A i \in 1 .. p : data[i] \in S
    BY <1>1, <1>2
  <2>2. Len(SubSeq(data, 1, p)) = IF 1 <= p THEN p - 1 + 1 ELSE 0
    BY <1>1, <2>1, SubSeqProperties
  <2>3. (IF 1 <= p THEN p - 1 + 1 ELSE 0) = p
    BY <1>1
  <2> QED BY <1>1, <2>1, <2>2, <2>3, SubSeqProperties
<1>4. SubSeq(data, p + 1, q) \in Seq(S) /\ Len(SubSeq(data, p + 1, q)) = q - p
  <2>1. \A i \in p + 1 .. q : data[i] \in S
    BY <1>1, <1>2
  <2>2. Len(SubSeq(data, p + 1, q)) = IF p + 1 <= q THEN q - (p + 1) + 1 ELSE 0
    BY <1>1, <2>1, SubSeqProperties
  <2>3. (IF p + 1 <= q THEN q - (p + 1) + 1 ELSE 0) = q - p
    BY <1>1
  <2> QED BY <1>1, <2>1, <2>2, <2>3, SubSeqProperties
<1> QED BY <1>3, <1>4

LEMMA AbsorbedThen ==
  ASSUME NEW S, NEW data \in Seq(S), NEW s \in Seq(S), NEW p \in 0 .. Len(data), NEW q \in p .. Len(data)
  PROVE  (s \o SubSeq(data, 1, p)) \o SubSeq(data, p + 1, q) = s \o SubSeq(data, 1, q)
<1>1. Len(data) \in Nat
  BY LenProperties
<1>2. SubSeq(data, 1, p) \o SubSeq(data, p + 1, q) = SubSeq(data, 1, q)
  <2>1. 1 \in 1 .. Len(data) + 1 /\ p \in 1 - 1 .. Len(data) /\ q \in p .. Len(data)
    BY <1>1
  <2> QED BY <2>1, ConcatAdjacentSubSeq
<1>3. PICK u \in Seq(S), v \in Seq(S) : u = SubSeq(data, 1, p) /\ v = SubSeq(data, p + 1, q)
  BY AbsorbedMore, Zenon
<1>4. (s \o u) \o v = s \o (u \o v)
  BY ConcatAssociative
<1> QED BY <1>2, <1>3, <1>4, Zenon

\* The last piece that len elements reach: its length, ...
LEMMA PieceLength ==
  ASSUME NEW S, NEW x \in Seq(S), NEW n \in Nat \ {0}, NEW k \in Nat, k * n <= Len(x), Len(x) <= (k + 1) * n
  PROVE  \E t \in Seq(S) : t = Piece(x, n, k) /\ Len(t) = Len(x) - k * n
<1>1. PICK b \in Nat : b = k * n /\ (k + 1) * n = b + n
  BY Multiple
<1>2. PICK len \in Nat : len = Len(x)
  BY LenProperties
<1>3. b <= len /\ len <= b + n /\ n \in Nat
  BY <1>1, <1>2
<1>4. PICK t \in Seq(S) : t = Span(x, b, n) /\ Len(t) = IF b + n < len THEN n ELSE len - b
  BY <1>2, <1>3, SpanProperties
<1>5. Len(t) = len - b
  BY <1>3, <1>4
<1>6. t = Piece(x, n, k)
  BY <1>1, <1>4, PieceIsSpan
<1> QED BY <1>1, <1>2, <1>5, <1>6

\* ... what it is when more elements come, as long as it has room, ...
LEMMA PieceExtended ==
  ASSUME NEW S, NEW x \in Seq(S), NEW e \in Seq(S), NEW n \in Nat \ {0}, NEW k \in Nat,
         k * n <= Len(x), Len(x) + Len(e) <= (k + 1) * n
  PROVE  Piece(x \o e, n, k) = Piece(x, n, k) \o e
<1>1. PICK b \in Nat : b = k * n /\ (k + 1) * n = b + n
  BY Multiple
<1>2. b <= Len(x) /\ Len(x) + Len(e) <= b + n /\ n \in Nat
  BY <1>1
<1>3. Span(x \o e, b, n) = Span(x, b, n) \o e
  BY <1>2, SpanExtended
<1> QED BY <1>1, <1>3, PieceIsSpan

\* ... and the piece after one that is full.
LEMMA PieceBeyond ==
  ASSUME NEW S, NEW x \in Seq(S), NEW n \in Nat \ {0}, NEW k \in Nat, Len(x) = (k + 1) * n
  PROVE  Piece(x, n, k + 1) = <<>>
<1>1. PICK j \in Nat, len \in Nat : j = k + 1 /\ len = j * n /\ len = Len(x)
  BY Multiple, LenProperties
<1>2. len <= Len(x) /\ n \in Nat
  BY <1>1
<1>3. PICK t \in Seq(S) : t = Span(x, len, n) /\ Len(t) = IF len + n < len THEN n ELSE len - len
  BY <1>1, <1>2, SpanProperties
<1>4. Len(t) = 0
  BY <1>2, <1>3
<1>5. t = <<>>
  BY <1>4, EmptySeq
<1> QED BY <1>1, <1>3, <1>5, PieceIsSpan

\* A whole piece is not changed by more elements.
LEMMA PieceKept ==
  ASSUME NEW S, NEW x \in Seq(S), NEW e \in Seq(S), NEW n \in Nat \ {0}, NEW k \in Nat, (k + 1) * n <= Len(x)
  PROVE  Piece(x \o e, n, k) = Piece(x, n, k)
<1>1. PICK b \in Nat : b = k * n /\ (k + 1) * n = b + n
  BY Multiple
<1>2. b + n <= Len(x) /\ n \in Nat
  BY <1>1
<1>3. Span(x \o e, b, n) = Span(x, b, n)
  BY <1>2, SpanKept
<1> QED BY <1>1, <1>3, PieceIsSpan

-----------------------------------------------------------------------------
(* A chunk: its state is a function of the bytes it has absorbed.            *)

LEMMA Lengths == BlockLen \in Nat \ {0} /\ ChunkLen \in Nat \ {0}
BY LengthAssumption

\* The chaining value before a block depends on the whole blocks before it only.
LEMMA LeafChainKept ==
  ASSUME NEW S, NEW x \in Seq(S), NEW e \in Seq(S), NEW mode, NEW c
  PROVE  \A k \in Nat : k * BlockLen <= Len(x) => LeafChain(mode, x \o e, c)[k] = LeafChain(mode, x, c)[k]
<1> DEFINE T == {k \in Nat : k * BlockLen <= Len(x) => LeafChain(mode, x \o e, c)[k] = LeafChain(mode, x, c)[k]}
<1>1. 0 \in T
  <2>1. LeafChain(mode, x \o e, c)[0] = mode.key /\ LeafChain(mode, x, c)[0] = mode.key
    BY LeafChainUnfolded
  <2> QED BY <2>1
<1>2. ASSUME NEW k \in Nat, k \in T PROVE k + 1 \in T
  <2> SUFFICES ASSUME (k + 1) * BlockLen <= Len(x)
               PROVE  LeafChain(mode, x \o e, c)[k + 1] = LeafChain(mode, x, c)[k + 1]
    OBVIOUS
  <2>1. PICK b \in Nat : b = k * BlockLen /\ (k + 1) * BlockLen = b + BlockLen
    BY Multiple, Lengths
  <2>2. Len(x) \in Nat /\ b + BlockLen <= Len(x) /\ BlockLen \in Nat
    BY <2>1, Lengths, LenProperties
  <2>3. LeafChain(mode, x \o e, c)[k] = LeafChain(mode, x, c)[k]
    <3>1. k * BlockLen <= Len(x)
      BY <2>1, <2>2
    <3> QED BY <1>2, <3>1
  <2>4. Piece(x \o e, BlockLen, k) = Piece(x, BlockLen, k)
    BY PieceKept, Lengths
  <2> QED BY <2>3, <2>4, LeafChainUnfolded
<1>. HIDE DEF T
<1>3. \A k \in Nat : k \in T
  BY <1>1, <1>2, StepInduction
<1> QED BY <1>3 DEF T

\* The state of a chunk that has absorbed x, with k blocks compressed.
ChunkWith(mode, x, c, k) ==
  [cv |-> LeafChain(mode, x, c)[k], counter |-> c, buf |-> Piece(x, BlockLen, k), blocks |-> k]

ChunkAt(mode, x, c) == ChunkWith(mode, x, c, Pieces(Len(x), BlockLen) - 1)

LEMMA ChunkAtFits ==
  ASSUME NEW S, NEW x \in Seq(S), NEW mode, NEW c, NEW k \in Nat, Fits(Len(x), BlockLen, k)
  PROVE  ChunkAt(mode, x, c) = ChunkWith(mode, x, c, k)
<1>1. Pieces(Len(x), BlockLen) = k + 1
  BY FitsPieces, Lengths, LenProperties
<1>2. Pieces(Len(x), BlockLen) - 1 = k
  BY <1>1
<1> QED BY <1>2 DEF ChunkAt

LEMMA ChunkLengthIs ==
  ASSUME NEW S, NEW x \in Seq(S), NEW mode, NEW c
  PROVE  ChunkLength(ChunkAt(mode, x, c)) = Len(x)
<1>1. PICK len \in Nat : len = Len(x)
  BY LenProperties
<1>2. PICK k \in Nat : Fits(len, BlockLen, k)
  BY FitsExists, Lengths
<1>3. PICK b \in Nat : b = k * BlockLen /\ b = BlockLen * k
  BY Multiple, Lengths
<1>4. Len(Piece(x, BlockLen, k)) = len - b
  BY <1>1, <1>2, <1>3, PieceLength, Lengths DEF Fits
<1>5. ChunkAt(mode, x, c) = ChunkWith(mode, x, c, k)
  BY <1>1, <1>2, ChunkAtFits
<1>6. ChunkLength(ChunkAt(mode, x, c)) = BlockLen * k + Len(Piece(x, BlockLen, k))
  BY <1>5 DEF ChunkLength, ChunkWith
<1>7. b + (len - b) = len
  OBVIOUS
<1> QED BY <1>1, <1>3, <1>4, <1>6, <1>7

\* A chunk with e added to its buffer.
Extended(chunk, e) == [chunk EXCEPT !.buf = @ \o e]

\* More bytes go into a buffer that has room for them.
LEMMA BufferExtended ==
  ASSUME NEW S, NEW x \in Seq(S), NEW e \in Seq(S), NEW mode, NEW c, NEW k \in Nat,
         k * BlockLen <= Len(x), Len(e) > 0, Len(x) + Len(e) <= (k + 1) * BlockLen
  PROVE  ChunkAt(mode, x \o e, c) = Extended(ChunkWith(mode, x, c, k), e)
<1>1. PICK b \in Nat : b = k * BlockLen /\ (k + 1) * BlockLen = b + BlockLen
  BY Multiple, Lengths
<1>2. PICK len \in Nat, n \in Nat : len = Len(x) /\ n = Len(e)
  BY LenProperties
<1>3. b <= len /\ n > 0 /\ len + n <= b + BlockLen /\ BlockLen \in Nat
  BY <1>1, <1>2, Lengths
<1>4. PICK z \in Seq(S) : z = x \o e /\ Len(z) = len + n
  <2>1. x \o e \in Seq(S) /\ Len(x \o e) = Len(x) + Len(e)
    BY ConcatProperties
  <2> QED BY <1>2, <2>1
<1>5. Fits(Len(z), BlockLen, k)
  <2>1. b <= len + n /\ len + n <= b + BlockLen /\ len + n # b
    BY <1>3
  <2> QED BY <1>1, <1>4, <2>1 DEF Fits
<1>6. ChunkAt(mode, z, c) = ChunkWith(mode, z, c, k)
  BY <1>5, ChunkAtFits
<1>7. LeafChain(mode, x \o e, c)[k] = LeafChain(mode, x, c)[k]
  BY LeafChainKept
<1>8. Piece(x \o e, BlockLen, k) = Piece(x, BlockLen, k) \o e
  <2>1. k * BlockLen <= Len(x) /\ Len(x) + Len(e) <= (k + 1) * BlockLen
    OBVIOUS
  <2> QED BY <2>1, PieceExtended, Lengths
<1>9. ChunkWith(mode, x \o e, c, k) = [ChunkWith(mode, x, c, k) EXCEPT !.buf = @ \o e]
  <2>1. ASSUME NEW r, r = ChunkWith(mode, x, c, k)
        PROVE  [r EXCEPT !.buf = @ \o e] = ChunkWith(mode, x \o e, c, k)
    <3>1. PICK chain, buf : chain = LeafChain(mode, x, c)[k] /\ buf = Piece(x, BlockLen, k)
      OBVIOUS
    <3>2. r = [cv |-> chain, counter |-> c, buf |-> buf, blocks |-> k]
      BY <2>1, <3>1 DEF ChunkWith
    <3>3. PICK m : m = buf \o e
      OBVIOUS
    <3>4. r.buf = buf
      BY <3>2, SMT
    <3>5. [r EXCEPT !.buf = m] = [cv |-> chain, counter |-> c, buf |-> m, blocks |-> k]
      BY <3>2, SMT
    <3>6. ChunkWith(mode, x \o e, c, k) = [cv |-> chain, counter |-> c, buf |-> m, blocks |-> k]
      BY <1>7, <1>8, <3>1, <3>3, Zenon DEF ChunkWith
    <3> QED BY <3>3, <3>4, <3>5, <3>6, Zenon
  <2> QED BY <2>1, Zenon
<1> QED BY <1>4, <1>6, <1>9, Zenon DEF Extended

\* A full buffer is compressed when more data comes.
LEMMA BufferCompressed ==
  ASSUME NEW S, NEW x \in Seq(S), NEW mode, NEW c, NEW k \in Nat, Len(x) = (k + 1) * BlockLen
  PROVE  CompressBuffer(mode, ChunkWith(mode, x, c, k)) = ChunkWith(mode, x, c, k + 1)
<1>3. Piece(x, BlockLen, k + 1) = <<>>
  BY PieceBeyond, Lengths
<1>4. LeafChain(mode, x, c)[k + 1] =
        Compress(LeafChain(mode, x, c)[k], Piece(x, BlockLen, k), c, mode.flags \cup StartFlag(ChunkWith(mode, x, c, k)))
  <2>1. LeafFlags(mode, k) = mode.flags \cup StartFlag(ChunkWith(mode, x, c, k))
    BY DEF LeafFlags, StartFlag, ChunkWith
  <2> QED BY <2>1, LeafChainUnfolded
<1>6. CompressBuffer(mode, ChunkWith(mode, x, c, k)) =
        [cv |-> Compress(LeafChain(mode, x, c)[k], Piece(x, BlockLen, k), c, mode.flags \cup StartFlag(ChunkWith(mode, x, c, k))),
         counter |-> c, buf |-> <<>>, blocks |-> k + 1]
  <2>1. PICK w : w = ChunkWith(mode, x, c, k)
    OBVIOUS
  <2>2. w.cv = LeafChain(mode, x, c)[k] /\ w.buf = Piece(x, BlockLen, k) /\ w.counter = c /\ w.blocks = k
    BY <2>1 DEF ChunkWith
  <2> QED BY <2>1, <2>2, Zenon DEF CompressBuffer
<1>7. ChunkWith(mode, x, c, k + 1) =
        [cv |-> LeafChain(mode, x, c)[k + 1], counter |-> c, buf |-> Piece(x, BlockLen, k + 1), blocks |-> k + 1]
  BY DEF ChunkWith
<1> QED BY <1>3, <1>4, <1>6, <1>7

\* After x, an iteration of the chunk's update that is at p of the data absorbs it up to q.
TakesTo(mode, data, x, c, p, q) ==
  ChunkTake(mode, data, [chunk |-> ChunkAt(mode, x, c), pos |-> p])
    = [chunk |-> ChunkAt(mode, x \o SubSeq(data, p + 1, q), c), pos |-> q]

\* One iteration of the chunk's update absorbs some of the data.
LEMMA ChunkTakes ==
  ASSUME NEW S, NEW x \in Seq(S), NEW data \in Seq(S), NEW mode, NEW c, NEW p \in Nat, p < Len(data)
  PROVE  \E q \in p + 1 .. Len(data) : TakesTo(mode, data, x, c, p, q)
<1>1. PICK len \in Nat, n \in Nat : len = Len(x) /\ n = Len(data)
  BY LenProperties
<1>2. PICK k \in Nat : Fits(len, BlockLen, k)
  BY FitsExists, Lengths
<1>3. PICK b \in Nat : b = k * BlockLen /\ (k + 1) * BlockLen = b + BlockLen
  BY Multiple, Lengths
<1>4. b <= len /\ len <= b + BlockLen /\ BlockLen \in Nat \ {0}
  BY <1>2, <1>3, Lengths DEF Fits
<1>5. ChunkAt(mode, x, c) = ChunkWith(mode, x, c, k)
  BY <1>1, <1>2, ChunkAtFits
<1>6. Len(ChunkWith(mode, x, c, k).buf) = len - b
  <2>1. k * BlockLen <= Len(x) /\ Len(x) <= (k + 1) * BlockLen
    BY <1>1, <1>3, <1>4
  <2>2. Len(Piece(x, BlockLen, k)) = Len(x) - k * BlockLen
    BY <2>1, PieceLength, Lengths
  <2> QED BY <1>1, <1>3, <2>2 DEF ChunkWith
<1> DEFINE s == [chunk |-> ChunkAt(mode, x, c), pos |-> p]
<1>7. ASSUME NEW j \in Nat, NEW d \in Nat, d = j * BlockLen, d <= len, len < d + BlockLen,
             Len(ChunkWith(mode, x, c, j).buf) = len - d,
             ChunkWith(mode, x, c, j) =
               IF Len(s.chunk.buf) = BlockLen THEN CompressBuffer(mode, s.chunk) ELSE s.chunk
      PROVE  \E q \in p + 1 .. Len(data) : TakesTo(mode, data, x, c, p, q)
  <2>1. PICK take \in Nat : take = Smaller(BlockLen - (len - d), n - p) /\ take > 0 /\ take <= n - p
                            /\ take <= BlockLen - (len - d)
    <3>1. PICK u \in Nat \ {0}, v \in Nat \ {0} : u = BlockLen - (len - d) /\ v = n - p
      <4>1. BlockLen - (len - d) \in Nat \ {0} /\ n - p \in Nat \ {0}
        BY <1>1, <1>4, <1>7
      <4> QED BY <4>1
    <3>2. /\ Smaller(u, v) \in Nat \ {0}
          /\ Smaller(u, v) <= u /\ Smaller(u, v) <= v
      BY DEF Smaller
    <3> QED BY <3>1, <3>2
  <2>2. PICK q \in p + 1 .. n : q = p + take
    <3>1. p + take \in p + 1 .. n
      BY <1>1, <2>1
    <3> QED BY <3>1
  <2>3. SubSeq(data, p + 1, q) \in Seq(S) /\ Len(SubSeq(data, p + 1, q)) = q - p
    <3>1. p \in 0 .. Len(data) /\ q \in p .. Len(data)
      BY <1>1, <2>2
    <3> QED BY <3>1, AbsorbedMore
  <2>4. PICK e \in Seq(S) : e = SubSeq(data, p + 1, q) /\ Len(e) = take
    <3>1. q - p = take
      BY <2>2
    <3> QED BY <2>3, <3>1
  <2>5. ChunkAt(mode, x \o e, c) = Extended(ChunkWith(mode, x, c, j), e)
    <3>1. (j + 1) * BlockLen = d + BlockLen
      BY <1>7, Multiple, Lengths
    <3>2. len + take <= d + BlockLen
      BY <1>4, <1>7, <2>1
    <3>3. j * BlockLen <= Len(x) /\ Len(e) > 0 /\ Len(x) + Len(e) <= (j + 1) * BlockLen
      BY <1>1, <1>7, <2>1, <2>4, <3>1, <3>2
    <3>4. j \in Nat /\ e \in Seq(S)
      BY <1>7, <2>4
    <3> QED BY <3>3, <3>4, BufferExtended
  <2>6. ChunkTake(mode, data, s) = [chunk |-> Extended(ChunkWith(mode, x, c, j), e), pos |-> q]
    <3>1. s.pos = p
      OBVIOUS
    <3>. HIDE DEF s
    <3> QED BY <1>1, <1>7, <2>1, <2>2, <2>4, <3>1, Zenon DEF ChunkTake, Extended
  <2>7. TakesTo(mode, data, x, c, p, q)
    BY <2>4, <2>5, <2>6 DEF TakesTo
  <2> QED BY <1>1, <2>7
<1>8. s.chunk = ChunkWith(mode, x, c, k)
  BY <1>5
<1>. HIDE DEF s
<1>9. CASE len < b + BlockLen
  <2>1. Len(s.chunk.buf) # BlockLen
    BY <1>4, <1>6, <1>8, <1>9
  <2> QED BY <1>3, <1>4, <1>6, <1>7, <1>8, <1>9, <2>1
<1>10. CASE ~(len < b + BlockLen)
  <2>1. len = b + BlockLen /\ len - b = BlockLen
    BY <1>4, <1>10
  <2>2. Len(s.chunk.buf) = BlockLen
    BY <1>6, <1>8, <2>1
  <2>3. CompressBuffer(mode, s.chunk) = ChunkWith(mode, x, c, k + 1)
    <3>1. Len(x) = (k + 1) * BlockLen
      BY <1>1, <1>3, <2>1
    <3>2. CompressBuffer(mode, ChunkWith(mode, x, c, k)) = ChunkWith(mode, x, c, k + 1)
      BY <3>1, BufferCompressed
    <3> QED BY <1>8, <3>2
  <2>4. PICK j \in Nat, d \in Nat : j = k + 1 /\ d = j * BlockLen /\ d = b + BlockLen
    BY <1>3, <1>4
  <2>5. Len(ChunkWith(mode, x, c, j).buf) = len - d
    <3>1. (j + 1) * BlockLen = d + BlockLen
      BY <2>4, Multiple, Lengths
    <3>2. j * BlockLen <= Len(x) /\ Len(x) <= (j + 1) * BlockLen
      BY <1>1, <1>4, <2>1, <2>4, <3>1
    <3>3. Len(Piece(x, BlockLen, j)) = Len(x) - j * BlockLen
      BY <3>2, PieceLength, Lengths
    <3> QED BY <1>1, <2>4, <3>3 DEF ChunkWith
  <2>6. d <= len /\ len < d + BlockLen
    BY <1>4, <2>1, <2>4
  <2> QED BY <1>7, <2>2, <2>3, <2>4, <2>5, <2>6
<1> QED BY <1>9, <1>10

LEMMA ChunkStepsUnfolded ==
  ASSUME NEW mode, NEW chunk, NEW data, Len(data) \in Nat
  PROVE  /\ ChunkSteps(mode, chunk, data)[0] = [chunk |-> chunk, pos |-> 0]
         /\ \A i \in Nat : i < Len(data) =>
              ChunkSteps(mode, chunk, data)[i + 1] =
                LET s == ChunkSteps(mode, chunk, data)[i]
                IN  IF s.pos < Len(data) THEN ChunkTake(mode, data, s) ELSE s
<1> DEFINE N == Len(data)
           B(f, i) == IF i = 0 THEN [chunk |-> chunk, pos |-> 0]
                      ELSE LET s == f[i - 1] IN IF s.pos < Len(data) THEN ChunkTake(mode, data, s) ELSE s
           Ok(f, n) == \A k \in 0 .. n : f[k] = B(f, k)
           step == ChunkSteps(mode, chunk, data)
<1>0. N \in Nat
  OBVIOUS
<1>1. ASSUME NEW f, NEW g, NEW n \in Nat, \A k \in 0 .. n - 1 : f[k] = g[k]
      PROVE  B(f, n) = B(g, n)
  <2>1. n # 0 => n - 1 \in 0 .. n - 1
    OBVIOUS
  <2> QED BY <1>1, <2>1, Zenon
<1>a. step = CHOOSE f : f = [i \in 0 .. N |-> B(f, i)]
  BY DEF ChunkSteps
<1>. HIDE DEF B, N
<1>2. \A n \in Nat : \E f : Ok(f, n)
  <2> DEFINE T == {n \in Nat : \E f : Ok(f, n)}
  <2>1. 0 \in T
    <3> DEFINE g == [k \in 0 .. 0 |-> B(<<>>, 0)]
    <3>1. B(g, 0) = B(<<>>, 0)
      BY <1>1
    <3>2. Ok(g, 0)
      BY <3>1
    <3> QED BY <3>2
  <2>2. ASSUME NEW n \in Nat, n \in T PROVE n + 1 \in T
    <3>1. PICK f : Ok(f, n)
      BY <2>2
    <3> DEFINE g == [k \in 0 .. n + 1 |-> IF k <= n THEN f[k] ELSE B(f, n + 1)]
    <3>2. \A k \in 0 .. n : g[k] = f[k]
      OBVIOUS
    <3>3. g[n + 1] = B(f, n + 1)
      OBVIOUS
    <3>. HIDE DEF g
    <3>4. \A k \in 0 .. n + 1 : B(g, k) = B(f, k)
      <4> TAKE k \in 0 .. n + 1
      <4>1. k \in Nat /\ \A i \in 0 .. k - 1 : g[i] = f[i]
        BY <3>2
      <4> QED BY <4>1, <1>1
    <3>5. \A k \in 0 .. n + 1 : k \in 0 .. n \/ k = n + 1
      OBVIOUS
    <3>6. Ok(g, n + 1)
      BY <3>1, <3>2, <3>3, <3>4, <3>5
    <3> QED BY <3>6
  <2>. HIDE DEF T
  <2>3. \A n \in Nat : n \in T
    BY <2>1, <2>2, StepInduction
  <2> QED BY <2>3 DEF T
<1>3. PICK f : Ok(f, N)
  BY <1>0, <1>2
<1> DEFINE F == [k \in 0 .. N |-> f[k]]
<1>4. ASSUME NEW k \in 0 .. N PROVE F[k] = B(F, k)
  <2>1. f[k] = B(f, k)
    BY <1>3
  <2>2. k \in Nat /\ \A i \in 0 .. k - 1 : f[i] = F[i]
    BY <1>0
  <2>. HIDE DEF F
  <2>3. B(f, k) = B(F, k)
    BY <2>2, <1>1
  <2> QED BY <2>1, <2>3 DEF F
<1>5. F = [k \in 0 .. N |-> F[k]]
  OBVIOUS
<1>6. \E g : g = [k \in 0 .. N |-> B(g, k)]
  <2>. HIDE DEF F
  <2>1. F = [k \in 0 .. N |-> B(F, k)]
    BY <1>4, <1>5
  <2> QED BY <2>1
<1>. HIDE DEF step
<1>8. step = [i \in 0 .. N |-> B(step, i)]
  BY <1>a, <1>6
<1>9. \A i \in 0 .. N : step[i] = B(step, i)
  BY <1>8
<1>10. step[0] = [chunk |-> chunk, pos |-> 0]
  BY <1>0, <1>9 DEF B
<1>11. ASSUME NEW i \in Nat, i < Len(data)
       PROVE  step[i + 1] = LET s == step[i]
                            IN  IF s.pos < Len(data) THEN ChunkTake(mode, data, s) ELSE s
  <2>1. i + 1 \in 0 .. N /\ i + 1 # 0 /\ (i + 1) - 1 = i
    BY <1>0, <1>11 DEF N
  <2> QED BY <1>9, <2>1 DEF B
<1> QED BY <1>10, <1>11 DEF step

\* update absorbs all of the data.
LEMMA ChunkUpdates ==
  ASSUME NEW S, NEW x \in Seq(S), NEW data \in Seq(S), NEW mode, NEW c
  PROVE  ChunkUpdate(mode, ChunkAt(mode, x, c), data) = ChunkAt(mode, x \o data, c)
<1>1. PICK n \in Nat : n = Len(data)
  BY LenProperties
<1>2. PICK step : step = ChunkSteps(mode, ChunkAt(mode, x, c), data)
  OBVIOUS
<1>3. /\ step[0] = [chunk |-> ChunkAt(mode, x, c), pos |-> 0]
      /\ \A i \in Nat : i < n =>
           step[i + 1] = LET s == step[i] IN IF s.pos < n THEN ChunkTake(mode, data, s) ELSE s
  BY <1>1, <1>2, ChunkStepsUnfolded
<1> DEFINE State(p) == [chunk |-> ChunkAt(mode, x \o SubSeq(data, 1, p), c), pos |-> p]
           T == {i \in Nat : i <= n => \E p \in Nat : p <= n /\ step[i] = State(p) /\ (p = n \/ p >= i)}
<1>4. 0 \in T
  <2>1. SubSeq(data, 1, 0) = <<>> /\ x \o <<>> = x
    <3>1. 0 \in 0 .. Len(data) /\ 0 \in 0 .. Len(data)
      BY <1>1
    <3>2. SubSeq(data, 1, 0) \in Seq(S) /\ Len(SubSeq(data, 1, 0)) = 0
      BY <3>1, AbsorbedMore
    <3> QED BY <3>2, EmptySeq, ConcatEmptySeq
  <2>2. step[0] = State(0)
    BY <1>3, <2>1
  <2>. HIDE DEF State
  <2>3. 0 \in Nat /\ 0 <= n /\ 0 >= 0
    OBVIOUS
  <2> QED BY <2>2, <2>3
<1>5. ASSUME NEW i \in Nat, i \in T PROVE i + 1 \in T
  <2> SUFFICES ASSUME i + 1 <= n
               PROVE  \E p \in Nat : p <= n /\ step[i + 1] = State(p) /\ (p = n \/ p >= i + 1)
    OBVIOUS
  <2>. HIDE DEF State
  <2>1. PICK p \in Nat : p <= n /\ step[i] = State(p) /\ (p = n \/ p >= i)
    BY <1>5
  <2>. HIDE DEF T
  <2>2. State(p).pos = p
    BY DEF State
  <2>3. CASE p = n
    <3>1. step[i + 1] = step[i]
      BY <1>3, <2>1, <2>2, <2>3
    <3> QED BY <2>1, <2>3, <3>1
  <2>4. CASE p < n
    <3>1. step[i + 1] = ChunkTake(mode, data, State(p))
      BY <1>3, <2>1, <2>2, <2>4
    <3>2. p \in 0 .. Len(data)
      BY <1>1, <2>4
    <3>3. PICK y \in Seq(S) : y = x \o SubSeq(data, 1, p)
      <4>1. p \in p .. Len(data)
        BY <3>2
      <4>2. SubSeq(data, 1, p) \in Seq(S)
        BY <3>2, <4>1, AbsorbedMore
      <4> QED BY <4>2, ConcatProperties
    <3>4. PICK q \in p + 1 .. n : TakesTo(mode, data, y, c, p, q)
      <4>1. y \in Seq(S) /\ p < Len(data) /\ p \in Nat
        BY <1>1, <2>1, <2>4, <3>3
      <4>2. \E q \in p + 1 .. Len(data) : TakesTo(mode, data, y, c, p, q)
        BY <4>1, ChunkTakes
      <4> QED BY <1>1, <4>2
    <3>5. y \o SubSeq(data, p + 1, q) = x \o SubSeq(data, 1, q)
      <4>1. q \in p .. Len(data)
        BY <1>1, <3>4
      <4>2. (x \o SubSeq(data, 1, p)) \o SubSeq(data, p + 1, q) = x \o SubSeq(data, 1, q)
        BY <3>2, <4>1, AbsorbedThen
      <4> QED BY <3>3, <4>2, Zenon
    <3>6. step[i + 1] = State(q)
      BY <3>1, <3>3, <3>4, <3>5, Zenon DEF State, TakesTo
    <3>7. q \in Nat /\ q <= n /\ q >= i + 1
      BY <2>1, <2>4, <3>4
    <3> QED BY <3>6, <3>7
  <2> QED BY <2>1, <2>3, <2>4
<1>. HIDE DEF T
<1>6. \A i \in Nat : i \in T
  BY <1>4, <1>5, StepInduction
<1>7. step[n] = State(n)
  <2>1. n \in T
    BY <1>6
  <2>. HIDE DEF State
  <2>2. PICK p \in Nat : p <= n /\ step[n] = State(p) /\ (p = n \/ p >= n)
    BY <2>1 DEF T
  <2>3. p = n
    BY <2>2
  <2> QED BY <2>2, <2>3
<1>8. SubSeq(data, 1, n) = data
  BY <1>1, SubSeqFull
<1>9. step[n].chunk = ChunkAt(mode, x \o data, c)
  <2>1. State(n).chunk = ChunkAt(mode, x \o SubSeq(data, 1, n), c)
    BY Zenon
  <2> QED BY <1>7, <1>8, <2>1, Zenon
<1> QED BY <1>1, <1>2, <1>9 DEF ChunkUpdate

\* What a chunk that has absorbed x would finish with.
LEMMA ChunkOutputIs ==
  ASSUME NEW S, NEW x \in Seq(S), NEW mode, NEW c
  PROVE  ChunkOutput(mode, ChunkAt(mode, x, c)) = LeafOutput(mode, x, c)
<1>1. PICK k : k = Pieces(Len(x), BlockLen) - 1
  OBVIOUS
<1>2. ChunkAt(mode, x, c) = ChunkWith(mode, x, c, k)
  BY <1>1 DEF ChunkAt
<1>3. LeafFlags(mode, k) = mode.flags \cup StartFlag(ChunkWith(mode, x, c, k))
  BY DEF LeafFlags, StartFlag, ChunkWith
<1>4. LeafOutput(mode, x, c) = Output(LeafChain(mode, x, c)[k], Piece(x, BlockLen, k), c,
                                      LeafFlags(mode, k) \cup {"CHUNK_END"})
  BY <1>1 DEF LeafOutput
<1>5. PICK w : w = ChunkWith(mode, x, c, k)
  OBVIOUS
<1>6. w.cv = LeafChain(mode, x, c)[k] /\ w.buf = Piece(x, BlockLen, k) /\ w.counter = c
  BY <1>5 DEF ChunkWith
<1>7. ChunkOutput(mode, w) = Output(LeafChain(mode, x, c)[k], Piece(x, BlockLen, k), c,
                                    LeafFlags(mode, k) \cup {"CHUNK_END"})
  BY <1>3, <1>5, <1>6, Zenon DEF ChunkOutput
<1> QED BY <1>2, <1>4, <1>5, <1>7

\* A new chunk has absorbed nothing.
LEMMA NewChunkIs ==
  ASSUME NEW mode, NEW c
  PROVE  NewChunk(mode, c) = ChunkAt(mode, <<>>, c)
<1>1. PICK k \in Nat : k = 0
  OBVIOUS
<1>2. Len(<<>>) = 0
  OBVIOUS
<1>3. PICK x \in Seq({}) : x = <<>> /\ Len(x) = 0
  <2>1. <<>> \in Seq({})
    OBVIOUS
  <2> QED BY <2>1, <1>2
<1>4. k * BlockLen = 0 /\ (k + 1) * BlockLen = BlockLen
  BY <1>1, Lengths
<1>5. k * BlockLen <= Len(x) /\ Len(x) <= (k + 1) * BlockLen /\ Fits(Len(x), BlockLen, k)
  BY <1>3, <1>4, Lengths DEF Fits
<1>6. ChunkAt(mode, x, c) = ChunkWith(mode, x, c, k)
  BY <1>3, <1>5, ChunkAtFits
<1>7. Piece(x, BlockLen, k) = <<>>
  <2>1. PICK t \in Seq({}) : t = Piece(x, BlockLen, k) /\ Len(t) = Len(x) - k * BlockLen
    <3>1. BlockLen \in Nat \ {0} /\ k * BlockLen <= Len(x) /\ Len(x) <= (k + 1) * BlockLen
      BY <1>5, Lengths
    <3> QED BY <3>1, PieceLength
  <2>2. Len(t) = 0
    BY <1>3, <1>4, <2>1
  <2> QED BY <2>1, <2>2, EmptySeq
<1>8. LeafChain(mode, x, c)[k] = mode.key
  BY <1>1, LeafChainUnfolded
<1> QED BY <1>1, <1>3, <1>6, <1>7, <1>8 DEF ChunkWith, NewChunk

-----------------------------------------------------------------------------
(* The tree: its complete parts are not changed by more bytes.               *)

LEMMA MultipleMonotonic ==
  ASSUME NEW n \in Nat, NEW a \in Nat, NEW b \in Nat, a <= b
  PROVE  a * n <= b * n
<1>1. PICK d \in Nat : d = b - a
  <2>1. b - a \in Nat
    OBVIOUS
  <2> QED BY <2>1
<1>2. b = a + d
  BY <1>1
<1>3. b * n = a * n + d * n /\ d * n >= 0
  BY <1>2
<1>4. a * n \in Nat /\ d * n \in Nat
  OBVIOUS
<1> QED BY <1>3, <1>4

\* The definitions of the tree once more, for any input.
LEMMA TreeNode ==
  ASSUME NEW mode, NEW first \in Nat, NEW n \in Nat, n >= 2, NEW l, l = LeftSize(n)
  PROVE  \A y : IsParent(mode, y, n, first, l)
BY TreeUnfolded

LEMMA SubtreesNone ==
  ASSUME NEW mode, NEW j \in Nat
  PROVE  \A y : Subtrees(mode, y)[0][j] = <<>>
BY SubtreesUnfolded

LEMMA SubtreesEven ==
  ASSUME NEW mode, NEW j \in Nat, NEW n \in Nat, n # 0, n % 2 = 0, NEW u, u = n \div 2
  PROVE  \A y : AllJoin(mode, y, n, j, u)
BY SubtreesUnfolded

LEMMA SubtreesOdd ==
  ASSUME NEW mode, NEW j \in Nat, NEW n \in Nat, n # 0, n % 2 # 0, NEW u, u = n \div 2,
         NEW p, p = Power2[j], NEW q, q = (n - 1) * p
  PROVE  \A y : OneLeft(mode, y, n, j, u, p, q)
BY SubtreesUnfolded

\* The nodes over the first d chunks, which are whole.
LEMMA TreeKept ==
  ASSUME NEW S, NEW bytes \in Seq(S), NEW e \in Seq(S), NEW mode, NEW d \in Nat, d * ChunkLen <= Len(bytes)
  PROVE  \A n \in Nat \ {0}, first \in Nat :
           first + n <= d => Tree(mode, bytes \o e)[n][first] = Tree(mode, bytes)[n][first]
<1> DEFINE Same(n) == \A first \in Nat :
             first + n <= d => Tree(mode, bytes \o e)[n][first] = Tree(mode, bytes)[n][first]
           T == {n \in Nat : n # 0 => Same(n)}
<1>1. ASSUME NEW n \in Nat, \A m \in 0 .. n - 1 : m \in T, n # 0, NEW first \in Nat, first + n <= d
      PROVE  Tree(mode, bytes \o e)[n][first] = Tree(mode, bytes)[n][first]
  <2>1. CASE n = 1
    <3>1. (first + 1) * ChunkLen <= Len(bytes)
      <4>1. first + 1 <= d /\ first + 1 \in Nat /\ ChunkLen \in Nat
        BY <1>1, <2>1, Lengths
      <4>2. (first + 1) * ChunkLen <= d * ChunkLen
        BY <4>1, MultipleMonotonic
      <4>3. PICK u \in Nat, v \in Nat : u = (first + 1) * ChunkLen /\ v = d * ChunkLen
        BY <4>1
      <4>4. Len(bytes) \in Nat
        BY LenProperties
      <4> QED BY <4>2, <4>3, <4>4
    <3>2. Piece(bytes \o e, ChunkLen, first) = Piece(bytes, ChunkLen, first)
      BY <3>1, PieceKept, Lengths
    <3>3. \A y : Tree(mode, y)[n][first] = LeafOutput(mode, Piece(y, ChunkLen, first), first)
      BY <1>1, <2>1, TreeUnfolded
    <3> QED BY <3>2, <3>3, Zenon
  <2>2. CASE n >= 2
    <3>1. PICK l \in 1 .. n - 1 : l = LeftSize(n)
      BY <2>2, LeftSizeType
    <3>2. l \in 0 .. n - 1 /\ l # 0 /\ n - l \in 0 .. n - 1 /\ n - l # 0
      BY <3>1
    <3>3. Same(l) /\ Same(n - l)
      BY <1>1, <3>2
    <3>4. first + l <= d /\ first + l \in Nat /\ (first + l) + (n - l) <= d
      BY <1>1, <3>1
    <3>5. /\ Tree(mode, bytes \o e)[l][first] = Tree(mode, bytes)[l][first]
          /\ Tree(mode, bytes \o e)[n - l][first + l] = Tree(mode, bytes)[n - l][first + l]
      BY <3>3, <3>4
    <3>. HIDE DEF T, Same
    <3>6. \A y : IsParent(mode, y, n, first, l)
      <4>1. first \in Nat /\ n \in Nat /\ n >= 2 /\ l = LeftSize(n)
        BY <1>1, <2>2, <3>1
      <4> QED BY <4>1, TreeNode
    <3>7. IsParent(mode, bytes \o e, n, first, l) /\ IsParent(mode, bytes, n, first, l)
      BY <3>6, Zenon
    <3> QED BY <3>5, <3>7, Zenon DEF IsParent
  <2>3. n = 1 \/ n >= 2
    BY <1>1
  <2> QED BY <2>1, <2>2, <2>3
<1>2. ASSUME NEW n \in Nat, \A m \in 0 .. n - 1 : m \in T PROVE n \in T
  BY <1>1, <1>2
<1>. HIDE DEF T
<1>3. \A n \in Nat : n \in T
  BY <1>2, StrongInduction
<1> QED BY <1>3 DEF T

LEMMA Half ==
  ASSUME NEW n \in Nat
  PROVE  \E u \in Nat : /\ u = n \div 2 /\ (n = 2 * u \/ n = 2 * u + 1)
                        /\ (n % 2 = 0 <=> n = 2 * u) /\ (n # 0 => u < n)
OBVIOUS

\* So are the roots of n subtrees of 2^j chunks, if the first d chunks have them all.
LEMMA SubtreesKept ==
  ASSUME NEW S, NEW bytes \in Seq(S), NEW e \in Seq(S), NEW mode, NEW d \in Nat, d * ChunkLen <= Len(bytes)
  PROVE  \A n \in Nat, j \in Nat :
           n * Power2[j] <= d => Subtrees(mode, bytes \o e)[n][j] = Subtrees(mode, bytes)[n][j]
<1> DEFINE Same(n) == \A j \in Nat :
             n * Power2[j] <= d => Subtrees(mode, bytes \o e)[n][j] = Subtrees(mode, bytes)[n][j]
           T == {n \in Nat : Same(n)}
<1>1. ASSUME NEW n \in Nat, \A m \in 0 .. n - 1 : m \in T, NEW j \in Nat, n * Power2[j] <= d
      PROVE  Subtrees(mode, bytes \o e)[n][j] = Subtrees(mode, bytes)[n][j]
  <2>1. CASE n = 0
    <3>1. \A y : Subtrees(mode, y)[n][j] = <<>>
      <4>1. \A y : Subtrees(mode, y)[0][j] = <<>>
        BY SubtreesNone
      <4> QED BY <2>1, <4>1, Zenon
    <3> QED BY <3>1, Zenon
  <2>2. CASE n # 0
    <3>1. PICK u \in Nat : /\ u = n \div 2 /\ (n = 2 * u \/ n = 2 * u + 1)
                           /\ (n % 2 = 0 <=> n = 2 * u) /\ (n # 0 => u < n)
      BY Half
    <3>2. PICK p \in Nat : p = Power2[j] /\ Power2[j + 1] = 2 * p
      BY Power2Grows, Power2Unfolded
    <3>3. Subtrees(mode, bytes \o e)[u][j + 1] = Subtrees(mode, bytes)[u][j + 1]
      <4>1. u * Power2[j + 1] <= d
        <5>1. (2 * u) * p <= n * p
          BY <3>1, MultipleMonotonic
        <5>2. u * (2 * p) = (2 * u) * p
          OBVIOUS
        <5>3. PICK a \in Nat, b \in Nat : a = (2 * u) * p /\ b = n * p
          OBVIOUS
        <5> QED BY <1>1, <3>2, <5>1, <5>2, <5>3
      <4>2. u \in 0 .. n - 1 /\ j + 1 \in Nat
        BY <2>2, <3>1
      <4> QED BY <1>1, <4>1, <4>2
    <3>4. CASE n % 2 = 0
      <4>1. \A y : AllJoin(mode, y, n, j, u)
        BY <1>1, <2>2, <3>1, <3>4, SubtreesEven
      <4>2. AllJoin(mode, bytes \o e, n, j, u) /\ AllJoin(mode, bytes, n, j, u)
        BY <4>1, Zenon
      <4> QED BY <3>3, <4>2, Zenon DEF AllJoin
    <3>5. CASE n % 2 # 0
      <4>1. PICK q \in Nat : q = (n - 1) * p /\ q + p <= d
        <5>1. PICK m \in Nat : m = n - 1 /\ n = m + 1
          <6>1. n - 1 \in Nat
            BY <2>2
          <6> QED BY <6>1
        <5>2. m * p \in Nat /\ n * p = m * p + p
          BY <5>1
        <5> QED BY <1>1, <3>2, <5>1, <5>2
      <4>2. p \in Nat \ {0}
        BY <3>2, Power2Grows
      <4>3. Tree(mode, bytes \o e)[p][q] = Tree(mode, bytes)[p][q]
        <5>1. p \in Nat \ {0} /\ q \in Nat /\ q + p <= d
          BY <4>1, <4>2
        <5> QED BY <5>1, TreeKept
      <4>4. \A y : OneLeft(mode, y, n, j, u, p, q)
        <5>1. /\ j \in Nat /\ n \in Nat /\ n # 0 /\ n % 2 # 0 /\ u = n \div 2
              /\ p = Power2[j] /\ q = (n - 1) * p
          BY <1>1, <2>2, <3>1, <3>2, <3>5, <4>1
        <5> QED BY <5>1, SubtreesOdd
      <4>5. OneLeft(mode, bytes \o e, n, j, u, p, q) /\ OneLeft(mode, bytes, n, j, u, p, q)
        BY <4>4, Zenon
      <4> QED BY <3>3, <4>3, <4>5, Zenon DEF OneLeft
    <3> QED BY <3>4, <3>5
  <2> QED BY <2>1, <2>2
<1>2. ASSUME NEW n \in Nat, \A m \in 0 .. n - 1 : m \in T PROVE n \in T
  BY <1>1, <1>2
<1>. HIDE DEF T
<1>3. \A n \in Nat : n \in T
  BY <1>2, StrongInduction
<1> QED BY <1>3 DEF T

\* The chaining values of the nodes of a tree.
NodeCvs(mode, bytes) == {ChainingValue(Tree(mode, bytes)[n][first]) : n \in Nat, first \in Nat}

LEMMA SubtreesType ==
  ASSUME NEW mode, NEW bytes
  PROVE  \A n \in Nat, j \in Nat : Subtrees(mode, bytes)[n][j] \in Seq(NodeCvs(mode, bytes))
<1> DEFINE Typed(n) == \A j \in Nat : Subtrees(mode, bytes)[n][j] \in Seq(NodeCvs(mode, bytes))
           T == {n \in Nat : Typed(n)}
<1>1. ASSUME NEW n \in Nat, \A m \in 0 .. n - 1 : m \in T, NEW j \in Nat
      PROVE  Subtrees(mode, bytes)[n][j] \in Seq(NodeCvs(mode, bytes))
  <2>1. CASE n = 0
    <3>1. Subtrees(mode, bytes)[n][j] = <<>>
      BY <1>1, <2>1, SubtreesUnfolded
    <3> QED BY <3>1
  <2>2. CASE n # 0
    <3>1. PICK u \in Nat : u = n \div 2 /\ (n # 0 => u < n)
      BY Half
    <3>2. PICK s \in Seq(NodeCvs(mode, bytes)) : s = Subtrees(mode, bytes)[u][j + 1]
      <4>1. u \in 0 .. n - 1 /\ j + 1 \in Nat
        BY <2>2, <3>1
      <4> QED BY <1>1, <4>1
    <3>3. PICK v : v = ChainingValue(Tree(mode, bytes)[Power2[j]][(n - 1) * Power2[j]])
      OBVIOUS
    <3>4. v \in NodeCvs(mode, bytes)
      <4>1. PICK p \in Nat : p = Power2[j]
        BY Power2Grows
      <4>2. (n - 1) * p \in Nat
        BY <2>2
      <4> QED BY <3>3, <4>1, <4>2 DEF NodeCvs
    <3>5. <<>> \in Seq(NodeCvs(mode, bytes)) /\ <<v>> \in Seq(NodeCvs(mode, bytes))
      BY <3>4
    <3>6. s \o <<>> \in Seq(NodeCvs(mode, bytes)) /\ s \o <<v>> \in Seq(NodeCvs(mode, bytes))
      BY <3>2, <3>5, ConcatProperties
    <3>7. CASE n % 2 = 0
      <4>1. AllJoin(mode, bytes, n, j, u)
        BY <1>1, <2>2, <3>1, <3>7, SubtreesEven
      <4> QED BY <3>2, <3>6, <4>1, Zenon DEF AllJoin
    <3>8. CASE n % 2 # 0
      <4>1. PICK p, q : p = Power2[j] /\ q = (n - 1) * p
        OBVIOUS
      <4>2. OneLeft(mode, bytes, n, j, u, p, q)
        BY <1>1, <2>2, <3>1, <3>8, <4>1, SubtreesOdd
      <4>3. v = ChainingValue(Tree(mode, bytes)[p][q])
        BY <3>3, <4>1, Zenon
      <4> QED BY <3>2, <3>6, <4>2, <4>3, Zenon DEF OneLeft
    <3> QED BY <3>7, <3>8
  <2> QED BY <2>1, <2>2
<1>2. ASSUME NEW n \in Nat, \A m \in 0 .. n - 1 : m \in T PROVE n \in T
  BY <1>1, <1>2
<1>. HIDE DEF T
<1>3. \A n \in Nat : n \in T
  BY <1>2, StrongInduction
<1> QED BY <1>3 DEF T

-----------------------------------------------------------------------------
(* The stack: a finished chunk is joined to the subtrees before it.          *)

LEMMA FrontAndLast ==
  ASSUME NEW S, NEW s \in Seq(S), NEW v \in S
  PROVE  Front(s \o <<v>>) = s /\ Last(s \o <<v>>) = v
<1>1. PICK z \in Seq(S), n \in Nat : z = s \o <<v>> /\ Len(z) = n + 1 /\ n = Len(s)
  <2>1. <<v>> \in Seq(S) /\ Len(<<v>>) = 1
    OBVIOUS
  <2>2. s \o <<v>> \in Seq(S) /\ Len(s \o <<v>>) = Len(s) + Len(<<v>>)
    BY <2>1, ConcatProperties
  <2> QED BY <2>1, <2>2, LenProperties
<1>2. \A i \in 1 .. n + 1 : z[i] = IF i <= n THEN s[i] ELSE v
  BY <1>1
<1>3. Last(z) = v
  BY <1>1, <1>2 DEF Last
<1>4. Front(z) = s
  <2>1. PICK y : y = SubSeq(z, 1, n)
    OBVIOUS
  <2>2. y \in Seq(S) /\ Len(y) = n /\ \A i \in 1 .. n : y[i] = z[i]
    <3>1. \A i \in 1 .. n : z[i] \in S
      BY <1>1, ElementOfSeq
    <3> QED BY <1>1, <2>1, <3>1, SubSeqProperties
  <2>3. y = s
    BY <1>1, <1>2, <2>2, SeqEqual
  <2> QED BY <1>1, <2>1, <2>3 DEF Front
<1> QED BY <1>1, <1>3, <1>4, Zenon

LEMMA MergesUnfolded ==
  ASSUME NEW mode, NEW stack, NEW cv, NEW totalChunks \in Nat
  PROVE  /\ Merges(mode, stack, cv, totalChunks)[0] = [stack |-> stack, cv |-> cv, total |-> totalChunks]
         /\ \A i \in Nat : i < totalChunks =>
              Merges(mode, stack, cv, totalChunks)[i + 1] = Merge(mode, Merges(mode, stack, cv, totalChunks)[i])
<1> DEFINE N == totalChunks
           B(f, i) == IF i = 0 THEN [stack |-> stack, cv |-> cv, total |-> totalChunks] ELSE Merge(mode, f[i - 1])
           Ok(f, n) == \A k \in 0 .. n : f[k] = B(f, k)
           merge == Merges(mode, stack, cv, totalChunks)
<1>0. N \in Nat
  OBVIOUS
<1>1. ASSUME NEW f, NEW g, NEW n \in Nat, \A k \in 0 .. n - 1 : f[k] = g[k]
      PROVE  B(f, n) = B(g, n)
  <2>1. n # 0 => n - 1 \in 0 .. n - 1
    OBVIOUS
  <2> QED BY <1>1, <2>1, Zenon
<1>a. merge = CHOOSE f : f = [i \in 0 .. N |-> B(f, i)]
  BY DEF Merges
<1>. HIDE DEF B, N
<1>2. \A n \in Nat : \E f : Ok(f, n)
  <2> DEFINE T == {n \in Nat : \E f : Ok(f, n)}
  <2>1. 0 \in T
    <3> DEFINE g == [k \in 0 .. 0 |-> B(<<>>, 0)]
    <3>1. B(g, 0) = B(<<>>, 0)
      BY <1>1
    <3>2. Ok(g, 0)
      BY <3>1
    <3> QED BY <3>2
  <2>2. ASSUME NEW n \in Nat, n \in T PROVE n + 1 \in T
    <3>1. PICK f : Ok(f, n)
      BY <2>2
    <3> DEFINE g == [k \in 0 .. n + 1 |-> IF k <= n THEN f[k] ELSE B(f, n + 1)]
    <3>2. \A k \in 0 .. n : g[k] = f[k]
      OBVIOUS
    <3>3. g[n + 1] = B(f, n + 1)
      OBVIOUS
    <3>. HIDE DEF g
    <3>4. \A k \in 0 .. n + 1 : B(g, k) = B(f, k)
      <4> TAKE k \in 0 .. n + 1
      <4>1. k \in Nat /\ \A i \in 0 .. k - 1 : g[i] = f[i]
        BY <3>2
      <4> QED BY <4>1, <1>1
    <3>5. \A k \in 0 .. n + 1 : k \in 0 .. n \/ k = n + 1
      OBVIOUS
    <3>6. Ok(g, n + 1)
      BY <3>1, <3>2, <3>3, <3>4, <3>5
    <3> QED BY <3>6
  <2>. HIDE DEF T
  <2>3. \A n \in Nat : n \in T
    BY <2>1, <2>2, StepInduction
  <2> QED BY <2>3 DEF T
<1>3. PICK f : Ok(f, N)
  BY <1>0, <1>2
<1> DEFINE F == [k \in 0 .. N |-> f[k]]
<1>4. ASSUME NEW k \in 0 .. N PROVE F[k] = B(F, k)
  <2>1. f[k] = B(f, k)
    BY <1>3
  <2>2. k \in Nat /\ \A i \in 0 .. k - 1 : f[i] = F[i]
    BY <1>0
  <2>. HIDE DEF F
  <2>3. B(f, k) = B(F, k)
    BY <2>2, <1>1
  <2> QED BY <2>1, <2>3 DEF F
<1>5. F = [k \in 0 .. N |-> F[k]]
  OBVIOUS
<1>6. \E g : g = [k \in 0 .. N |-> B(g, k)]
  <2>. HIDE DEF F
  <2>1. F = [k \in 0 .. N |-> B(F, k)]
    BY <1>4, <1>5
  <2> QED BY <2>1
<1>. HIDE DEF merge
<1>8. merge = [i \in 0 .. N |-> B(merge, i)]
  BY <1>a, <1>6
<1>9. \A i \in 0 .. N : merge[i] = B(merge, i)
  BY <1>8
<1>10. merge[0] = [stack |-> stack, cv |-> cv, total |-> totalChunks]
  BY <1>0, <1>9 DEF B
<1>11. ASSUME NEW i \in Nat, i < totalChunks
       PROVE  merge[i + 1] = Merge(mode, merge[i])
  <2>1. i + 1 \in 0 .. N /\ i + 1 # 0 /\ (i + 1) - 1 = i
    BY <1>0, <1>11 DEF N
  <2> QED BY <1>9, <2>1 DEF B
<1> QED BY <1>10, <1>11 DEF merge

\* A node over n chunks has one over p and one over r chunks below it.
IsJoin(mode, bytes, n, first, p, r, second) ==
  Tree(mode, bytes)[n][first] =
    ParentOutput(mode, ChainingValue(Tree(mode, bytes)[p][first]), ChainingValue(Tree(mode, bytes)[r][second]))

\* Two nodes of 2^j chunks, the second of which may be smaller, make one.
LEMMA TreeJoin ==
  ASSUME NEW mode, NEW bytes, NEW j \in Nat, NEW p, p = Power2[j], NEW r \in 1 .. p, NEW first \in Nat,
         NEW n, n = p + r, NEW second, second = first + p
  PROVE  IsJoin(mode, bytes, n, first, p, r, second)
<1>1. p \in Nat /\ p > 0
  BY Power2Grows
<1>2. n \in Nat /\ n >= 2 /\ n - p = r /\ first + p = second
  BY <1>1
<1>3. p = LeftSize(n)
  BY LeftSizeSplits
<1>4. IsParent(mode, bytes, n, first, p)
  BY <1>2, <1>3, TreeNode
<1> QED BY <1>2, <1>4, Zenon DEF IsParent, IsJoin

\* n subtrees of 2^j chunks and u of the next level leave the same roots.
SameRoots(mode, bytes, n, j, u) == Subtrees(mode, bytes)[n][j] = Subtrees(mode, bytes)[u][j + 1]

LEMMA SubtreesDouble ==
  ASSUME NEW mode, NEW bytes, NEW j \in Nat, NEW u \in Nat, NEW n, n = 2 * u
  PROVE  SameRoots(mode, bytes, n, j, u)
<1>1. CASE u = 0
  <2>1. n = 0 /\ j + 1 \in Nat
    BY <1>1
  <2>2. \A i \in Nat : Subtrees(mode, bytes)[0][i] = <<>>
    BY SubtreesNone
  <2> QED BY <1>1, <2>1, <2>2 DEF SameRoots
<1>2. CASE u # 0
  <2>1. n \in Nat /\ n # 0 /\ n % 2 = 0 /\ u = n \div 2
    BY <1>2
  <2>2. AllJoin(mode, bytes, n, j, u)
    BY <2>1, SubtreesEven
  <2>3. PICK s \in Seq(NodeCvs(mode, bytes)) : s = Subtrees(mode, bytes)[u][j + 1]
    <3>1. j + 1 \in Nat
      OBVIOUS
    <3> QED BY <3>1, SubtreesType
  <2>4. s \o <<>> = s
    BY <2>3, ConcatEmptySeq
  <2> QED BY <2>1, <2>2, <2>3, <2>4, Zenon DEF AllJoin, SameRoots
<1> QED BY <1>1, <1>2

\* The root of subtree number k of 2^j chunks.
NodeCv(mode, bytes, j, k) == ChainingValue(Tree(mode, bytes)[Power2[j]][k * Power2[j]])

LEMMA SubtreesAppended ==
  ASSUME NEW mode, NEW bytes, NEW j \in Nat, NEW u \in Nat
  PROVE  /\ NodeCv(mode, bytes, j, 2 * u) \in NodeCvs(mode, bytes)
         /\ Subtrees(mode, bytes)[2 * u + 1][j] =
              Subtrees(mode, bytes)[u][j + 1] \o <<NodeCv(mode, bytes, j, 2 * u)>>
<1>1. PICK n \in Nat : n = 2 * u + 1 /\ n # 0 /\ n % 2 # 0 /\ u = n \div 2 /\ n - 1 = 2 * u
  <2>1. (2 * u + 1) % 2 # 0 /\ u = (2 * u + 1) \div 2
    OBVIOUS
  <2> QED BY <2>1
<1>2. PICK p \in Nat, q \in Nat : p = Power2[j] /\ q = (n - 1) * p /\ q = (2 * u) * p
  <2>1. PICK p \in Nat : p = Power2[j]
    BY Power2Grows
  <2>2. (2 * u) * p \in Nat
    OBVIOUS
  <2> QED BY <1>1, <2>1, <2>2
<1>3. OneLeft(mode, bytes, n, j, u, p, q)
  BY <1>1, <1>2, SubtreesOdd
<1>4. NodeCv(mode, bytes, j, 2 * u) = ChainingValue(Tree(mode, bytes)[p][q])
  BY <1>2, Zenon DEF NodeCv
<1>5. ChainingValue(Tree(mode, bytes)[p][q]) \in NodeCvs(mode, bytes)
  BY DEF NodeCvs
<1> QED BY <1>1, <1>3, <1>4, <1>5, Zenon DEF OneLeft

\* Two neighbouring subtrees make one of the next level.
LEMMA NodesJoin ==
  ASSUME NEW mode, NEW bytes, NEW j \in Nat, NEW u \in Nat
  PROVE  ParentCv(mode, NodeCv(mode, bytes, j, 2 * u), NodeCv(mode, bytes, j, 2 * u + 1)) = NodeCv(mode, bytes, j + 1, u)
<1>1. PICK p \in Nat : p = Power2[j] /\ p > 0 /\ Power2[j + 1] = 2 * p
  <2>1. Power2[j] \in Nat /\ Power2[j] > j /\ Power2[j + 1] = 2 * Power2[j]
    BY Power2Grows, Power2Unfolded
  <2>2. Power2[j] > 0
    BY <2>1
  <2> QED BY <2>1, <2>2
<1>2. PICK f \in Nat : f = (2 * u) * p /\ f = u * (2 * p) /\ (2 * u + 1) * p = f + p
  <2>1. (2 * u) * p \in Nat /\ (2 * u) * p = u * (2 * p) /\ (2 * u + 1) * p = (2 * u) * p + p
    OBVIOUS
  <2> QED BY <2>1
<1>3. PICK n, second : n = p + p /\ n = 2 * p /\ second = f + p
  <2>1. p + p = 2 * p
    BY <1>1
  <2> QED BY <2>1, Zenon
<1>4. IsJoin(mode, bytes, n, f, p, p, second)
  <2>1. p \in 1 .. p
    BY <1>1
  <2> QED BY <1>1, <1>3, <2>1, TreeJoin
<1>5. NodeCv(mode, bytes, j, 2 * u) = ChainingValue(Tree(mode, bytes)[p][f])
  BY <1>1, <1>2, Zenon DEF NodeCv
<1>6. NodeCv(mode, bytes, j, 2 * u + 1) = ChainingValue(Tree(mode, bytes)[p][second])
  BY <1>1, <1>2, <1>3, Zenon DEF NodeCv
<1>7. NodeCv(mode, bytes, j + 1, u) = ChainingValue(Tree(mode, bytes)[n][f])
  BY <1>1, <1>2, <1>3, Zenon DEF NodeCv
<1> QED BY <1>4, <1>5, <1>6, <1>7, Zenon DEF ParentCv, IsJoin

\* While _push_cv runs: t subtrees of 2^j chunks are left, the last of which is in hand.
MergedTo(mode, bytes, j, t) ==
  [stack |-> Subtrees(mode, bytes)[t - 1][j], cv |-> NodeCv(mode, bytes, j, t - 1), total |-> t]

LEMMA MergeJoins ==
  ASSUME NEW mode, NEW bytes, NEW j \in Nat, NEW t \in Nat \ {0}
  PROVE  /\ t % 2 # 0 => Merge(mode, MergedTo(mode, bytes, j, t)) = MergedTo(mode, bytes, j, t)
         /\ t % 2 = 0 => \E u \in Nat \ {0} : /\ t = 2 * u
                                              /\ Merge(mode, MergedTo(mode, bytes, j, t)) = MergedTo(mode, bytes, j + 1, u)
<1>1. PICK s : s = MergedTo(mode, bytes, j, t)
  OBVIOUS
<1>2. /\ s.stack = Subtrees(mode, bytes)[t - 1][j] /\ s.cv = NodeCv(mode, bytes, j, t - 1) /\ s.total = t
  BY <1>1 DEF MergedTo
<1>3. t % 2 # 0 => Merge(mode, s) = s
  BY <1>2 DEF Merge
<1>4. ASSUME t % 2 = 0
      PROVE  \E u \in Nat \ {0} : t = 2 * u /\ Merge(mode, s) = MergedTo(mode, bytes, j + 1, u)
  <2>1. PICK u \in Nat \ {0}, v \in Nat : t = 2 * u /\ u = t \div 2 /\ v = u - 1 /\ t - 1 = 2 * v + 1
    <3>1. t = 2 * (t \div 2) /\ t \div 2 \in Nat \ {0} /\ (t \div 2) - 1 \in Nat
      BY <1>4
    <3>2. t - 1 = 2 * ((t \div 2) - 1) + 1
      BY <3>1
    <3> QED BY <3>1, <3>2
  <2>2. PICK x : x = NodeCv(mode, bytes, j, 2 * v)
    OBVIOUS
  <2>3. PICK r \in Seq(NodeCvs(mode, bytes)) : r = Subtrees(mode, bytes)[v][j + 1]
    <3>1. j + 1 \in Nat
      OBVIOUS
    <3> QED BY <3>1, SubtreesType
  <2>4. x \in NodeCvs(mode, bytes) /\ s.stack = r \o <<x>>
    <3>1. /\ NodeCv(mode, bytes, j, 2 * v) \in NodeCvs(mode, bytes)
          /\ Subtrees(mode, bytes)[2 * v + 1][j] =
               Subtrees(mode, bytes)[v][j + 1] \o <<NodeCv(mode, bytes, j, 2 * v)>>
      BY <2>1, SubtreesAppended
    <3> QED BY <1>2, <2>1, <2>2, <2>3, <3>1, Zenon
  <2>5. Front(s.stack) = r /\ Last(s.stack) = x
    <3>1. Front(r \o <<x>>) = r /\ Last(r \o <<x>>) = x
      BY <2>3, <2>4, FrontAndLast
    <3> QED BY <2>4, <3>1, Zenon
  <2>6. ParentCv(mode, x, s.cv) = NodeCv(mode, bytes, j + 1, v)
    <3>1. ParentCv(mode, NodeCv(mode, bytes, j, 2 * v), NodeCv(mode, bytes, j, 2 * v + 1)) = NodeCv(mode, bytes, j + 1, v)
      BY <2>1, NodesJoin
    <3> QED BY <1>2, <2>1, <2>2, <3>1, Zenon
  <2>7. Merge(mode, s) = [stack |-> r, cv |-> NodeCv(mode, bytes, j + 1, v), total |-> u]
    <3>1. s.total % 2 = 0 /\ s.total \div 2 = u
      BY <1>2, <1>4, <2>1
    <3> QED BY <2>5, <2>6, <3>1, Zenon DEF Merge
  <2>8. Merge(mode, s) = MergedTo(mode, bytes, j + 1, u)
    BY <2>1, <2>3, <2>7, Zenon DEF MergedTo
  <2> QED BY <2>1, <2>8
<1> QED BY <1>1, <1>3, <1>4, Zenon

\* The stack of T - 1 finished chunks becomes the one of T.
LEMMA PushCvIs ==
  ASSUME NEW mode, NEW bytes, NEW k \in Nat
  PROVE  PushCv(mode, Subtrees(mode, bytes)[k][0], NodeCv(mode, bytes, 0, k), k + 1) = Subtrees(mode, bytes)[k + 1][0]
<1>1. PICK n \in Nat \ {0} : n = k + 1 /\ n - 1 = k
  <2>1. k + 1 \in Nat \ {0} /\ (k + 1) - 1 = k
    OBVIOUS
  <2> QED BY <2>1
<1>2. PICK merge : merge = Merges(mode, Subtrees(mode, bytes)[k][0], NodeCv(mode, bytes, 0, k), n)
  OBVIOUS
<1>3. merge[0] = MergedTo(mode, bytes, 0, n) /\ \A i \in Nat : i < n => merge[i + 1] = Merge(mode, merge[i])
  <2>1. /\ merge[0] = [stack |-> Subtrees(mode, bytes)[k][0], cv |-> NodeCv(mode, bytes, 0, k), total |-> n]
        /\ \A i \in Nat : i < n => merge[i + 1] = Merge(mode, merge[i])
    BY <1>2, MergesUnfolded
  <2> QED BY <1>1, <2>1, Zenon DEF MergedTo
<1> DEFINE Reached(i, j, t) == /\ merge[i] = MergedTo(mode, bytes, j, t)
                               /\ Subtrees(mode, bytes)[t][j] = Subtrees(mode, bytes)[n][0]
                               /\ t % 2 # 0 \/ t + i <= n
           T == {i \in Nat : i <= n => \E j \in Nat, t \in Nat \ {0} : Reached(i, j, t)}
<1>4. 0 \in T
  <2>1. PICK j \in Nat, i \in Nat : j = 0 /\ i = 0
    OBVIOUS
  <2>2. Reached(i, j, n)
    <3>1. n + i <= n
      BY <2>1
    <3> QED BY <1>3, <2>1, <3>1, Zenon
  <2>. HIDE DEF Reached
  <2> QED BY <2>1, <2>2
<1>5. ASSUME NEW i \in Nat, i \in T, i + 1 <= n PROVE \E j \in Nat, t \in Nat \ {0} : Reached(i + 1, j, t)
  <2>1. PICK j \in Nat, t \in Nat \ {0} : Reached(i, j, t)
    <3>. HIDE DEF Reached
    <3> QED BY <1>5
  <2>2. merge[i + 1] = Merge(mode, MergedTo(mode, bytes, j, t))
    BY <1>3, <1>5, <2>1
  <2>3. CASE t % 2 # 0
    <3>1. Merge(mode, MergedTo(mode, bytes, j, t)) = MergedTo(mode, bytes, j, t)
      BY <2>1, <2>3, MergeJoins
    <3>2. Reached(i + 1, j, t)
      BY <2>1, <2>2, <2>3, <3>1, Zenon
    <3>. HIDE DEF Reached
    <3> QED BY <2>1, <3>2
  <2>4. CASE t % 2 = 0
    <3>1. PICK u \in Nat \ {0} : t = 2 * u /\ Merge(mode, MergedTo(mode, bytes, j, t)) = MergedTo(mode, bytes, j + 1, u)
      BY <2>1, <2>4, MergeJoins
    <3>2. Subtrees(mode, bytes)[t][j] = Subtrees(mode, bytes)[u][j + 1]
      <4>1. SameRoots(mode, bytes, t, j, u)
        BY <2>1, <3>1, SubtreesDouble
      <4> QED BY <4>1 DEF SameRoots
    <3>3. u + (i + 1) <= n
      <4>1. t + i <= n
        BY <2>1, <2>4
      <4> QED BY <1>5, <3>1, <4>1
    <3>4. Reached(i + 1, j + 1, u)
      BY <2>1, <2>2, <3>1, <3>2, <3>3, Zenon
    <3>5. j + 1 \in Nat
      BY <2>1
    <3>. HIDE DEF Reached
    <3> QED BY <3>1, <3>4, <3>5
  <2>5. t % 2 = 0 \/ t % 2 # 0
    OBVIOUS
  <2> QED BY <2>3, <2>4, <2>5
<1>6. ASSUME NEW i \in Nat, i \in T PROVE i + 1 \in T
  <2>. HIDE DEF Reached
  <2> QED BY <1>5, <1>6
<1>. HIDE DEF T
<1>7. \A i \in Nat : i \in T
  BY <1>4, <1>6, StepInduction
<1>8. PICK j \in Nat, t \in Nat \ {0} : Reached(n, j, t)
  <2>. HIDE DEF Reached
  <2>1. n \in T
    BY <1>7
  <2> QED BY <2>1 DEF T
<1>9. t % 2 # 0
  <2>1. ~(t + n <= n)
    BY <1>8
  <2> QED BY <1>8, <2>1
<1>10. PICK u \in Nat : t = 2 * u + 1 /\ t - 1 = 2 * u
  <2>1. t = 2 * (t \div 2) + 1 /\ t \div 2 \in Nat
    BY <1>9
  <2> QED BY <2>1
<1>11. PICK s : s = merge[n]
  OBVIOUS
<1>12. s.stack = Subtrees(mode, bytes)[t - 1][j] /\ s.cv = NodeCv(mode, bytes, j, t - 1)
  BY <1>8, <1>11 DEF MergedTo
<1>13. Append(s.stack, s.cv) = Subtrees(mode, bytes)[t][j]
  <2>1. PICK r \in Seq(NodeCvs(mode, bytes)) : r = Subtrees(mode, bytes)[u][j + 1]
    <3>1. j + 1 \in Nat
      BY <1>8
    <3> QED BY <1>10, <3>1, SubtreesType
  <2>2. s.stack = r
    <3>1. SameRoots(mode, bytes, t - 1, j, u)
      BY <1>8, <1>10, SubtreesDouble
    <3> QED BY <1>10, <1>12, <2>1, <3>1, Zenon DEF SameRoots
  <2>3. s.cv \in NodeCvs(mode, bytes) /\ Subtrees(mode, bytes)[t][j] = r \o <<s.cv>>
    <3>1. /\ NodeCv(mode, bytes, j, 2 * u) \in NodeCvs(mode, bytes)
          /\ Subtrees(mode, bytes)[2 * u + 1][j] =
               Subtrees(mode, bytes)[u][j + 1] \o <<NodeCv(mode, bytes, j, 2 * u)>>
      BY <1>8, <1>10, SubtreesAppended
    <3> QED BY <1>10, <1>12, <2>1, <3>1, Zenon
  <2>4. Append(r, s.cv) = r \o <<s.cv>>
    BY <2>1, <2>3, AppendIsConcat
  <2> QED BY <2>2, <2>3, <2>4, Zenon
<1>14. PushCv(mode, Subtrees(mode, bytes)[k][0], NodeCv(mode, bytes, 0, k), n) = Append(s.stack, s.cv)
  BY <1>2, <1>11, Zenon DEF PushCv
<1> QED BY <1>1, <1>8, <1>13, <1>14, Zenon

-----------------------------------------------------------------------------
(* A hasher: its state is a function of its mode and the bytes it has        *)
(* absorbed since it was created or reset.                                   *)

HasherWith(mode, x, k) ==
  [mode |-> mode, chunk |-> ChunkAt(mode, Piece(x, ChunkLen, k), k), stack |-> Subtrees(mode, x)[k][0]]

HasherAt(mode, x) == HasherWith(mode, x, Pieces(Len(x), ChunkLen) - 1)

LEMMA HasherAtFits ==
  ASSUME NEW S, NEW x \in Seq(S), NEW mode, NEW k \in Nat, Fits(Len(x), ChunkLen, k)
  PROVE  HasherAt(mode, x) = HasherWith(mode, x, k)
<1>1. Pieces(Len(x), ChunkLen) = k + 1
  BY FitsPieces, Lengths, LenProperties
<1>2. Pieces(Len(x), ChunkLen) - 1 = k
  BY <1>1
<1> QED BY <1>2 DEF HasherAt

LEMMA HasherChunkLength ==
  ASSUME NEW S, NEW x \in Seq(S), NEW mode, NEW k \in Nat, k * ChunkLen <= Len(x), Len(x) <= (k + 1) * ChunkLen
  PROVE  ChunkLength(HasherWith(mode, x, k).chunk) = Len(x) - k * ChunkLen
<1>1. PICK y \in Seq(S) : y = Piece(x, ChunkLen, k) /\ Len(y) = Len(x) - k * ChunkLen
  <2>1. ChunkLen \in Nat \ {0}
    BY Lengths
  <2> QED BY <2>1, PieceLength
<1>2. HasherWith(mode, x, k).chunk = ChunkAt(mode, y, k)
  BY <1>1 DEF HasherWith
<1>3. ChunkLength(ChunkAt(mode, y, k)) = Len(y)
  BY ChunkLengthIs
<1> QED BY <1>1, <1>2, <1>3

\* A hasher the open chunk of which absorbs e.
MoreIn(hs, e) == [hs EXCEPT !.chunk = ChunkUpdate(hs.mode, @, e)]

\* The root of a single chunk.
LEMMA NodeCvIsLeaf ==
  ASSUME NEW mode, NEW x, NEW k \in Nat
  PROVE  NodeCv(mode, x, 0, k) = ChainingValue(LeafOutput(mode, Piece(x, ChunkLen, k), k))
<1>1. Power2[0] = 1 /\ k * 1 = k
  BY Power2Unfolded
<1>2. Tree(mode, x)[1][k] = LeafOutput(mode, Piece(x, ChunkLen, k), k)
  BY TreeUnfolded
<1> QED BY <1>1, <1>2, Zenon DEF NodeCv

\* More bytes go into a chunk that has room for them.
LEMMA HasherExtended ==
  ASSUME NEW S, NEW x \in Seq(S), NEW e \in Seq(S), NEW mode, NEW k \in Nat,
         k * ChunkLen <= Len(x), Len(e) > 0, Len(x) + Len(e) <= (k + 1) * ChunkLen
  PROVE  HasherAt(mode, x \o e) = MoreIn(HasherWith(mode, x, k), e)
<1>1. PICK b \in Nat : b = k * ChunkLen /\ (k + 1) * ChunkLen = b + ChunkLen
  BY Multiple, Lengths
<1>2. PICK len \in Nat, n \in Nat : len = Len(x) /\ n = Len(e)
  BY LenProperties
<1>3. b <= len /\ n > 0 /\ len + n <= b + ChunkLen /\ ChunkLen \in Nat
  BY <1>1, <1>2, Lengths
<1>4. PICK z \in Seq(S) : z = x \o e /\ Len(z) = len + n
  <2>1. x \o e \in Seq(S) /\ Len(x \o e) = Len(x) + Len(e)
    BY ConcatProperties
  <2> QED BY <1>2, <2>1
<1>5. Fits(Len(z), ChunkLen, k)
  <2>1. b <= len + n /\ len + n <= b + ChunkLen /\ len + n # b
    BY <1>3
  <2> QED BY <1>1, <1>4, <2>1 DEF Fits
<1>6. HasherAt(mode, z) = HasherWith(mode, z, k)
  BY <1>5, HasherAtFits
<1>7. Subtrees(mode, x \o e)[k][0] = Subtrees(mode, x)[k][0]
  <2>1. k * Power2[0] <= k
    BY Power2Unfolded
  <2> QED BY <2>1, SubtreesKept
<1>8. PICK y \in Seq(S) : y = Piece(x, ChunkLen, k)
  <2>1. Len(x) <= (k + 1) * ChunkLen
    BY <1>1, <1>2, <1>3
  <2>2. ChunkLen \in Nat \ {0}
    BY Lengths
  <2> QED BY <2>1, <2>2, PieceLength
<1>9. Piece(x \o e, ChunkLen, k) = y \o e
  <2>1. Piece(x \o e, ChunkLen, k) = Piece(x, ChunkLen, k) \o e
    BY PieceExtended, Lengths
  <2> QED BY <1>8, <2>1, Zenon
<1>10. ChunkUpdate(mode, ChunkAt(mode, y, k), e) = ChunkAt(mode, y \o e, k)
  BY <1>8, ChunkUpdates
<1>11. PICK r : r = HasherWith(mode, x, k)
  OBVIOUS
<1>12. PICK old, new, stack : /\ old = ChunkAt(mode, y, k) /\ new = ChunkAt(mode, y \o e, k)
                              /\ stack = Subtrees(mode, x)[k][0]
  OBVIOUS
<1>13. r = [mode |-> mode, chunk |-> old, stack |-> stack]
  BY <1>8, <1>11, <1>12, Zenon DEF HasherWith
<1>14. HasherWith(mode, x \o e, k) = [mode |-> mode, chunk |-> new, stack |-> stack]
  BY <1>7, <1>9, <1>12, Zenon DEF HasherWith
<1>15. ChunkUpdate(r.mode, r.chunk, e) = new
  <2>1. r.mode = mode /\ r.chunk = old
    BY <1>13
  <2> QED BY <1>10, <1>12, <2>1, Zenon
<1>16. [r EXCEPT !.chunk = new] = [mode |-> mode, chunk |-> new, stack |-> stack]
  BY <1>13, SMT
<1>17. MoreIn(r, e) = [r EXCEPT !.chunk = new]
  BY <1>15, Zenon DEF MoreIn
<1> QED BY <1>4, <1>6, <1>11, <1>14, <1>16, <1>17, Zenon

\* A full chunk is closed when more data comes.
LEMMA ChunkClosed ==
  ASSUME NEW S, NEW x \in Seq(S), NEW mode, NEW k \in Nat, Len(x) = (k + 1) * ChunkLen
  PROVE  CloseChunk(HasherWith(mode, x, k)) = HasherWith(mode, x, k + 1)
<1>1. Piece(x, ChunkLen, k + 1) = <<>>
  BY PieceBeyond, Lengths
<1>2. NewChunk(mode, k + 1) = ChunkAt(mode, <<>>, k + 1)
  BY NewChunkIs
<1>3. PICK y \in Seq(S) : y = Piece(x, ChunkLen, k)
  <2>1. PICK b \in Nat : b = k * ChunkLen /\ (k + 1) * ChunkLen = b + ChunkLen
    BY Multiple, Lengths
  <2>2. ChunkLen \in Nat \ {0} /\ k * ChunkLen <= Len(x) /\ Len(x) <= (k + 1) * ChunkLen
    BY <2>1, Lengths
  <2> QED BY <2>2, PieceLength
<1>4. ChainingValue(ChunkOutput(mode, ChunkAt(mode, y, k))) = NodeCv(mode, x, 0, k)
  <2>1. ChunkOutput(mode, ChunkAt(mode, y, k)) = LeafOutput(mode, y, k)
    BY <1>3, ChunkOutputIs
  <2>2. NodeCv(mode, x, 0, k) = ChainingValue(LeafOutput(mode, Piece(x, ChunkLen, k), k))
    BY NodeCvIsLeaf
  <2> QED BY <1>3, <2>1, <2>2, Zenon
<1>5. PushCv(mode, Subtrees(mode, x)[k][0], NodeCv(mode, x, 0, k), k + 1) = Subtrees(mode, x)[k + 1][0]
  BY PushCvIs
<1>6. PICK hs : hs = HasherWith(mode, x, k)
  OBVIOUS
<1>7. hs.mode = mode /\ hs.chunk = ChunkAt(mode, y, k) /\ hs.stack = Subtrees(mode, x)[k][0]
  BY <1>3, <1>6 DEF HasherWith
<1>8. hs.chunk.counter = k
  BY <1>7 DEF ChunkAt, ChunkWith
<1>9. CloseChunk(hs) = [mode |-> mode, chunk |-> NewChunk(mode, k + 1), stack |-> Subtrees(mode, x)[k + 1][0]]
  BY <1>4, <1>5, <1>7, <1>8, Zenon DEF CloseChunk
<1> QED BY <1>1, <1>2, <1>6, <1>9, Zenon DEF HasherWith

\* After x, an iteration of the hasher's update that is at p of the data absorbs it up to q.
HasherTakesTo(mode, data, x, p, q) ==
  HasherTake(data, [hs |-> HasherAt(mode, x), pos |-> p])
    = [hs |-> HasherAt(mode, x \o SubSeq(data, p + 1, q)), pos |-> q]

\* One iteration of the hasher's update absorbs some of the data.
LEMMA HasherTakes ==
  ASSUME NEW S, NEW x \in Seq(S), NEW data \in Seq(S), NEW mode, NEW p \in Nat, p < Len(data)
  PROVE  \E q \in p + 1 .. Len(data) : HasherTakesTo(mode, data, x, p, q)
<1>1. PICK len \in Nat, n \in Nat : len = Len(x) /\ n = Len(data)
  BY LenProperties
<1>2. PICK k \in Nat : Fits(len, ChunkLen, k)
  BY FitsExists, Lengths
<1>3. PICK b \in Nat : b = k * ChunkLen /\ (k + 1) * ChunkLen = b + ChunkLen
  BY Multiple, Lengths
<1>4. b <= len /\ len <= b + ChunkLen /\ ChunkLen \in Nat \ {0}
  BY <1>2, <1>3, Lengths DEF Fits
<1>5. HasherAt(mode, x) = HasherWith(mode, x, k)
  BY <1>1, <1>2, HasherAtFits
<1>6. ChunkLength(HasherWith(mode, x, k).chunk) = len - b
  <2>1. k * ChunkLen <= Len(x) /\ Len(x) <= (k + 1) * ChunkLen
    BY <1>1, <1>3, <1>4
  <2>2. ChunkLength(HasherWith(mode, x, k).chunk) = Len(x) - k * ChunkLen
    BY <2>1, HasherChunkLength
  <2> QED BY <1>1, <1>3, <2>2
<1> DEFINE s == [hs |-> HasherAt(mode, x), pos |-> p]
<1>7. ASSUME NEW j \in Nat, NEW d \in Nat, d = j * ChunkLen, d <= len, len < d + ChunkLen,
             ChunkLength(HasherWith(mode, x, j).chunk) = len - d,
             HasherWith(mode, x, j) =
               IF ChunkLength(s.hs.chunk) = ChunkLen THEN CloseChunk(s.hs) ELSE s.hs
      PROVE  \E q \in p + 1 .. Len(data) : HasherTakesTo(mode, data, x, p, q)
  <2>1. PICK take \in Nat : take = Smaller(ChunkLen - (len - d), n - p) /\ take > 0 /\ take <= n - p
                            /\ take <= ChunkLen - (len - d)
    <3>1. PICK u \in Nat \ {0}, v \in Nat \ {0} : u = ChunkLen - (len - d) /\ v = n - p
      <4>1. ChunkLen - (len - d) \in Nat \ {0} /\ n - p \in Nat \ {0}
        BY <1>1, <1>4, <1>7
      <4> QED BY <4>1
    <3>2. /\ Smaller(u, v) \in Nat \ {0}
          /\ Smaller(u, v) <= u /\ Smaller(u, v) <= v
      BY DEF Smaller
    <3> QED BY <3>1, <3>2
  <2>2. PICK q \in p + 1 .. n : q = p + take
    <3>1. p + take \in p + 1 .. n
      BY <1>1, <2>1
    <3> QED BY <3>1
  <2>3. SubSeq(data, p + 1, q) \in Seq(S) /\ Len(SubSeq(data, p + 1, q)) = q - p
    <3>1. p \in 0 .. Len(data) /\ q \in p .. Len(data)
      BY <1>1, <2>2
    <3> QED BY <3>1, AbsorbedMore
  <2>4. PICK e \in Seq(S) : e = SubSeq(data, p + 1, q) /\ Len(e) = take
    <3>1. q - p = take
      BY <2>2
    <3> QED BY <2>3, <3>1
  <2>5. HasherAt(mode, x \o e) = MoreIn(HasherWith(mode, x, j), e)
    <3>1. (j + 1) * ChunkLen = d + ChunkLen
      BY <1>7, Multiple, Lengths
    <3>2. len + take <= d + ChunkLen
      BY <1>4, <1>7, <2>1
    <3>3. j * ChunkLen <= Len(x) /\ Len(e) > 0 /\ Len(x) + Len(e) <= (j + 1) * ChunkLen
      BY <1>1, <1>7, <2>1, <2>4, <3>1, <3>2
    <3>4. j \in Nat /\ e \in Seq(S)
      BY <1>7, <2>4
    <3> QED BY <3>3, <3>4, HasherExtended
  <2>6. HasherTake(data, s) = [hs |-> MoreIn(HasherWith(mode, x, j), e), pos |-> q]
    <3>1. s.pos = p
      OBVIOUS
    <3>. HIDE DEF s
    <3> QED BY <1>1, <1>7, <2>1, <2>2, <2>4, <3>1, Zenon DEF HasherTake, MoreIn
  <2>7. HasherTakesTo(mode, data, x, p, q)
    BY <2>4, <2>5, <2>6 DEF HasherTakesTo
  <2> QED BY <1>1, <2>7
<1>8. s.hs = HasherWith(mode, x, k)
  BY <1>5
<1>. HIDE DEF s
<1>9. CASE len < b + ChunkLen
  <2>1. ChunkLength(s.hs.chunk) # ChunkLen
    BY <1>4, <1>6, <1>8, <1>9
  <2> QED BY <1>3, <1>4, <1>6, <1>7, <1>8, <1>9, <2>1
<1>10. CASE ~(len < b + ChunkLen)
  <2>1. len = b + ChunkLen /\ len - b = ChunkLen
    BY <1>4, <1>10
  <2>2. ChunkLength(s.hs.chunk) = ChunkLen
    BY <1>6, <1>8, <2>1
  <2>3. CloseChunk(s.hs) = HasherWith(mode, x, k + 1)
    <3>1. Len(x) = (k + 1) * ChunkLen
      BY <1>1, <1>3, <2>1
    <3>2. CloseChunk(HasherWith(mode, x, k)) = HasherWith(mode, x, k + 1)
      BY <3>1, ChunkClosed
    <3> QED BY <1>8, <3>2
  <2>4. PICK j \in Nat, d \in Nat : j = k + 1 /\ d = j * ChunkLen /\ d = b + ChunkLen
    BY <1>3, <1>4
  <2>5. ChunkLength(HasherWith(mode, x, j).chunk) = len - d
    <3>1. (j + 1) * ChunkLen = d + ChunkLen
      BY <2>4, Multiple, Lengths
    <3>2. j * ChunkLen <= Len(x) /\ Len(x) <= (j + 1) * ChunkLen
      BY <1>1, <1>4, <2>1, <2>4, <3>1
    <3>3. ChunkLength(HasherWith(mode, x, j).chunk) = Len(x) - j * ChunkLen
      BY <3>2, HasherChunkLength
    <3> QED BY <1>1, <2>4, <3>3
  <2>6. d <= len /\ len < d + ChunkLen
    BY <1>4, <2>1, <2>4
  <2> QED BY <1>7, <2>2, <2>3, <2>4, <2>5, <2>6
<1> QED BY <1>9, <1>10

LEMMA HasherStepsUnfolded ==
  ASSUME NEW hs, NEW data, Len(data) \in Nat
  PROVE  /\ HasherSteps(hs, data)[0] = [hs |-> hs, pos |-> 0]
         /\ \A i \in Nat : i < Len(data) =>
              HasherSteps(hs, data)[i + 1] =
                LET s == HasherSteps(hs, data)[i]
                IN  IF s.pos < Len(data) THEN HasherTake(data, s) ELSE s
<1> DEFINE N == Len(data)
           B(f, i) == IF i = 0 THEN [hs |-> hs, pos |-> 0]
                      ELSE LET s == f[i - 1] IN IF s.pos < Len(data) THEN HasherTake(data, s) ELSE s
           Ok(f, n) == \A k \in 0 .. n : f[k] = B(f, k)
           step == HasherSteps(hs, data)
<1>0. N \in Nat
  OBVIOUS
<1>1. ASSUME NEW f, NEW g, NEW n \in Nat, \A k \in 0 .. n - 1 : f[k] = g[k]
      PROVE  B(f, n) = B(g, n)
  <2>1. n # 0 => n - 1 \in 0 .. n - 1
    OBVIOUS
  <2> QED BY <1>1, <2>1, Zenon
<1>a. step = CHOOSE f : f = [i \in 0 .. N |-> B(f, i)]
  BY DEF HasherSteps
<1>. HIDE DEF B, N
<1>2. \A n \in Nat : \E f : Ok(f, n)
  <2> DEFINE T == {n \in Nat : \E f : Ok(f, n)}
  <2>1. 0 \in T
    <3> DEFINE g == [k \in 0 .. 0 |-> B(<<>>, 0)]
    <3>1. B(g, 0) = B(<<>>, 0)
      BY <1>1
    <3>2. Ok(g, 0)
      BY <3>1
    <3> QED BY <3>2
  <2>2. ASSUME NEW n \in Nat, n \in T PROVE n + 1 \in T
    <3>1. PICK f : Ok(f, n)
      BY <2>2
    <3> DEFINE g == [k \in 0 .. n + 1 |-> IF k <= n THEN f[k] ELSE B(f, n + 1)]
    <3>2. \A k \in 0 .. n : g[k] = f[k]
      OBVIOUS
    <3>3. g[n + 1] = B(f, n + 1)
      OBVIOUS
    <3>. HIDE DEF g
    <3>4. \A k \in 0 .. n + 1 : B(g, k) = B(f, k)
      <4> TAKE k \in 0 .. n + 1
      <4>1. k \in Nat /\ \A i \in 0 .. k - 1 : g[i] = f[i]
        BY <3>2
      <4> QED BY <4>1, <1>1
    <3>5. \A k \in 0 .. n + 1 : k \in 0 .. n \/ k = n + 1
      OBVIOUS
    <3>6. Ok(g, n + 1)
      BY <3>1, <3>2, <3>3, <3>4, <3>5
    <3> QED BY <3>6
  <2>. HIDE DEF T
  <2>3. \A n \in Nat : n \in T
    BY <2>1, <2>2, StepInduction
  <2> QED BY <2>3 DEF T
<1>3. PICK f : Ok(f, N)
  BY <1>0, <1>2
<1> DEFINE F == [k \in 0 .. N |-> f[k]]
<1>4. ASSUME NEW k \in 0 .. N PROVE F[k] = B(F, k)
  <2>1. f[k] = B(f, k)
    BY <1>3
  <2>2. k \in Nat /\ \A i \in 0 .. k - 1 : f[i] = F[i]
    BY <1>0
  <2>. HIDE DEF F
  <2>3. B(f, k) = B(F, k)
    BY <2>2, <1>1
  <2> QED BY <2>1, <2>3 DEF F
<1>5. F = [k \in 0 .. N |-> F[k]]
  OBVIOUS
<1>6. \E g : g = [k \in 0 .. N |-> B(g, k)]
  <2>. HIDE DEF F
  <2>1. F = [k \in 0 .. N |-> B(F, k)]
    BY <1>4, <1>5
  <2> QED BY <2>1
<1>. HIDE DEF step
<1>8. step = [i \in 0 .. N |-> B(step, i)]
  BY <1>a, <1>6
<1>9. \A i \in 0 .. N : step[i] = B(step, i)
  BY <1>8
<1>10. step[0] = [hs |-> hs, pos |-> 0]
  BY <1>0, <1>9 DEF B
<1>11. ASSUME NEW i \in Nat, i < Len(data)
       PROVE  step[i + 1] = LET s == step[i]
                            IN  IF s.pos < Len(data) THEN HasherTake(data, s) ELSE s
  <2>1. i + 1 \in 0 .. N /\ i + 1 # 0 /\ (i + 1) - 1 = i
    BY <1>0, <1>11 DEF N
  <2> QED BY <1>9, <2>1 DEF B
<1> QED BY <1>10, <1>11 DEF step

\* update absorbs all of the data.
LEMMA HasherUpdates ==
  ASSUME NEW S, NEW x \in Seq(S), NEW data \in Seq(S), NEW mode
  PROVE  HasherUpdate(HasherAt(mode, x), data) = HasherAt(mode, x \o data)
<1>1. PICK n \in Nat : n = Len(data)
  BY LenProperties
<1>2. PICK step : step = HasherSteps(HasherAt(mode, x), data)
  OBVIOUS
<1>3. /\ step[0] = [hs |-> HasherAt(mode, x), pos |-> 0]
      /\ \A i \in Nat : i < n =>
           step[i + 1] = LET s == step[i] IN IF s.pos < n THEN HasherTake(data, s) ELSE s
  BY <1>1, <1>2, HasherStepsUnfolded
<1> DEFINE State(p) == [hs |-> HasherAt(mode, x \o SubSeq(data, 1, p)), pos |-> p]
           T == {i \in Nat : i <= n => \E p \in Nat : p <= n /\ step[i] = State(p) /\ (p = n \/ p >= i)}
<1>4. 0 \in T
  <2>1. SubSeq(data, 1, 0) = <<>> /\ x \o <<>> = x
    <3>1. 0 \in 0 .. Len(data) /\ 0 \in 0 .. Len(data)
      BY <1>1
    <3>2. SubSeq(data, 1, 0) \in Seq(S) /\ Len(SubSeq(data, 1, 0)) = 0
      BY <3>1, AbsorbedMore
    <3> QED BY <3>2, EmptySeq, ConcatEmptySeq
  <2>2. step[0] = State(0)
    BY <1>3, <2>1
  <2>. HIDE DEF State
  <2>3. 0 \in Nat /\ 0 <= n /\ 0 >= 0
    OBVIOUS
  <2> QED BY <2>2, <2>3
<1>5. ASSUME NEW i \in Nat, i \in T PROVE i + 1 \in T
  <2> SUFFICES ASSUME i + 1 <= n
               PROVE  \E p \in Nat : p <= n /\ step[i + 1] = State(p) /\ (p = n \/ p >= i + 1)
    OBVIOUS
  <2>. HIDE DEF State
  <2>1. PICK p \in Nat : p <= n /\ step[i] = State(p) /\ (p = n \/ p >= i)
    BY <1>5
  <2>. HIDE DEF T
  <2>2. State(p).pos = p
    BY DEF State
  <2>3. CASE p = n
    <3>1. step[i + 1] = step[i]
      BY <1>3, <2>1, <2>2, <2>3
    <3> QED BY <2>1, <2>3, <3>1
  <2>4. CASE p < n
    <3>1. step[i + 1] = HasherTake(data, State(p))
      BY <1>3, <2>1, <2>2, <2>4
    <3>2. p \in 0 .. Len(data)
      BY <1>1, <2>4
    <3>3. PICK y \in Seq(S) : y = x \o SubSeq(data, 1, p)
      <4>1. p \in p .. Len(data)
        BY <3>2
      <4>2. SubSeq(data, 1, p) \in Seq(S)
        BY <3>2, <4>1, AbsorbedMore
      <4> QED BY <4>2, ConcatProperties
    <3>4. PICK q \in p + 1 .. n : HasherTakesTo(mode, data, y, p, q)
      <4>1. y \in Seq(S) /\ p < Len(data) /\ p \in Nat
        BY <1>1, <2>1, <2>4, <3>3
      <4>2. \E q \in p + 1 .. Len(data) : HasherTakesTo(mode, data, y, p, q)
        BY <4>1, HasherTakes
      <4> QED BY <1>1, <4>2
    <3>5. y \o SubSeq(data, p + 1, q) = x \o SubSeq(data, 1, q)
      <4>1. q \in p .. Len(data)
        BY <1>1, <3>4
      <4>2. (x \o SubSeq(data, 1, p)) \o SubSeq(data, p + 1, q) = x \o SubSeq(data, 1, q)
        BY <3>2, <4>1, AbsorbedThen
      <4> QED BY <3>3, <4>2, Zenon
    <3>6. step[i + 1] = State(q)
      BY <3>1, <3>3, <3>4, <3>5, Zenon DEF State, HasherTakesTo
    <3>7. q \in Nat /\ q <= n /\ q >= i + 1
      BY <2>1, <2>4, <3>4
    <3> QED BY <3>6, <3>7
  <2> QED BY <2>1, <2>3, <2>4
<1>. HIDE DEF T
<1>6. \A i \in Nat : i \in T
  BY <1>4, <1>5, StepInduction
<1>7. step[n] = State(n)
  <2>1. n \in T
    BY <1>6
  <2>. HIDE DEF State
  <2>2. PICK p \in Nat : p <= n /\ step[n] = State(p) /\ (p = n \/ p >= n)
    BY <2>1 DEF T
  <2>3. p = n
    BY <2>2
  <2> QED BY <2>2, <2>3
<1>8. SubSeq(data, 1, n) = data
  BY <1>1, SubSeqFull
<1>9. step[n].hs = HasherAt(mode, x \o data)
  <2>1. State(n).hs = HasherAt(mode, x \o SubSeq(data, 1, n))
    BY Zenon
  <2> QED BY <1>7, <1>8, <2>1, Zenon
<1> QED BY <1>1, <1>2, <1>9 DEF HasherUpdate

\* A new hasher has absorbed nothing.
LEMMA NewHasherIs ==
  ASSUME NEW mode
  PROVE  NewHasher(mode) = HasherAt(mode, <<>>)
<1>1. PICK k \in Nat, x \in Seq({}) : k = 0 /\ x = <<>> /\ Len(x) = 0
  <2>1. <<>> \in Seq({}) /\ Len(<<>>) = 0
    OBVIOUS
  <2> QED BY <2>1, Zenon
<1>2. k * ChunkLen = 0 /\ (k + 1) * ChunkLen = ChunkLen
  BY <1>1, Lengths
<1>3. k * ChunkLen <= Len(x) /\ Len(x) <= (k + 1) * ChunkLen /\ Fits(Len(x), ChunkLen, k)
  BY <1>1, <1>2, Lengths DEF Fits
<1>4. HasherAt(mode, x) = HasherWith(mode, x, k)
  BY <1>1, <1>3, HasherAtFits
<1>5. Piece(x, ChunkLen, k) = <<>>
  <2>1. PICK t \in Seq({}) : t = Piece(x, ChunkLen, k) /\ Len(t) = Len(x) - k * ChunkLen
    <3>1. ChunkLen \in Nat \ {0} /\ k * ChunkLen <= Len(x) /\ Len(x) <= (k + 1) * ChunkLen
      BY <1>3, Lengths
    <3> QED BY <3>1, PieceLength
  <2>2. Len(t) = 0
    BY <1>1, <1>2, <2>1
  <2> QED BY <2>1, <2>2, EmptySeq
<1>6. Subtrees(mode, x)[k][0] = <<>>
  BY <1>1, SubtreesNone
<1>7. NewChunk(mode, 0) = ChunkAt(mode, <<>>, 0)
  BY NewChunkIs
<1> QED BY <1>1, <1>4, <1>5, <1>6, <1>7, Zenon DEF HasherWith, NewHasher

-----------------------------------------------------------------------------
(* The node over the open chunk and the stack is the root of the tree.       *)

LEMMA FinalOutputsUnfolded ==
  ASSUME NEW hs, Len(hs.stack) \in Nat
  PROVE  /\ FinalOutputs(hs)[Len(hs.stack)] = ChunkOutput(hs.mode, hs.chunk)
         /\ \A i \in Nat : i < Len(hs.stack) =>
              FinalOutputs(hs)[i] = ParentOutput(hs.mode, hs.stack[i + 1], ChainingValue(FinalOutputs(hs)[i + 1]))
<1> DEFINE N == Len(hs.stack)
           B(f, k) == IF k = 0 THEN ChunkOutput(hs.mode, hs.chunk)
                      ELSE ParentOutput(hs.mode, hs.stack[N - k + 1], ChainingValue(f[k - 1]))
           Ok(f, n) == \A k \in 0 .. n : f[k] = B(f, k)
           D(f, i) == IF i = N THEN ChunkOutput(hs.mode, hs.chunk)
                      ELSE ParentOutput(hs.mode, hs.stack[i + 1], ChainingValue(f[i + 1]))
           out == FinalOutputs(hs)
<1>0. N \in Nat
  OBVIOUS
<1>1. ASSUME NEW f, NEW g, NEW n \in Nat, \A k \in 0 .. n - 1 : f[k] = g[k]
      PROVE  B(f, n) = B(g, n)
  <2>1. n # 0 => n - 1 \in 0 .. n - 1
    OBVIOUS
  <2> QED BY <1>1, <2>1, Zenon
<1>a. out = CHOOSE f : f = [i \in 0 .. N |-> D(f, i)]
  BY DEF FinalOutputs
<1>. HIDE DEF B, N, D
<1>2. \A n \in Nat : \E f : Ok(f, n)
  <2> DEFINE T == {n \in Nat : \E f : Ok(f, n)}
  <2>1. 0 \in T
    <3> DEFINE g == [k \in 0 .. 0 |-> B(<<>>, 0)]
    <3>1. B(g, 0) = B(<<>>, 0)
      BY <1>1
    <3>2. Ok(g, 0)
      BY <3>1
    <3> QED BY <3>2
  <2>2. ASSUME NEW n \in Nat, n \in T PROVE n + 1 \in T
    <3>1. PICK f : Ok(f, n)
      BY <2>2
    <3> DEFINE g == [k \in 0 .. n + 1 |-> IF k <= n THEN f[k] ELSE B(f, n + 1)]
    <3>2. \A k \in 0 .. n : g[k] = f[k]
      OBVIOUS
    <3>3. g[n + 1] = B(f, n + 1)
      OBVIOUS
    <3>. HIDE DEF g
    <3>4. \A k \in 0 .. n + 1 : B(g, k) = B(f, k)
      <4> TAKE k \in 0 .. n + 1
      <4>1. k \in Nat /\ \A i \in 0 .. k - 1 : g[i] = f[i]
        BY <3>2
      <4> QED BY <4>1, <1>1
    <3>5. \A k \in 0 .. n + 1 : k \in 0 .. n \/ k = n + 1
      OBVIOUS
    <3>6. Ok(g, n + 1)
      BY <3>1, <3>2, <3>3, <3>4, <3>5
    <3> QED BY <3>6
  <2>. HIDE DEF T
  <2>3. \A n \in Nat : n \in T
    BY <2>1, <2>2, StepInduction
  <2> QED BY <2>3 DEF T
<1>3. PICK f : Ok(f, N)
  BY <1>0, <1>2
<1> DEFINE F == [k \in 0 .. N |-> f[k]]
<1>4. ASSUME NEW k \in 0 .. N PROVE F[k] = B(F, k)
  <2>1. f[k] = B(f, k)
    BY <1>3
  <2>2. k \in Nat /\ \A i \in 0 .. k - 1 : f[i] = F[i]
    BY <1>0
  <2>. HIDE DEF F
  <2>3. B(f, k) = B(F, k)
    BY <2>2, <1>1
  <2> QED BY <2>1, <2>3 DEF F
<1>5. F = [k \in 0 .. N |-> F[k]]
  OBVIOUS
<1>6. \E g : g = [k \in 0 .. N |-> B(g, k)]
  <2>. HIDE DEF F
  <2>1. F = [k \in 0 .. N |-> B(F, k)]
    BY <1>4, <1>5
  <2> QED BY <2>1
<1>7. PICK g : g = [k \in 0 .. N |-> B(g, k)]
  BY <1>6
<1> DEFINE h == [i \in 0 .. N |-> g[N - i]]
<1>8. ASSUME NEW i \in 0 .. N PROVE h[i] = D(h, i)
  <2>1. h[i] = g[N - i] /\ N - i \in 0 .. N
    BY <1>0
  <2>2. g[N - i] = B(g, N - i)
    BY <1>7, <2>1
  <2>3. CASE i = N
    <3>1. N - i = 0
      BY <1>0, <2>3
    <3> QED BY <2>1, <2>2, <2>3, <3>1, Zenon DEF B, D
  <2>4. CASE i # N
    <3>1. N - i # 0 /\ N - (N - i) + 1 = i + 1 /\ (N - i) - 1 = N - (i + 1) /\ i + 1 \in 0 .. N
      BY <1>0, <2>4
    <3>2. h[i + 1] = g[N - (i + 1)]
      BY <3>1
    <3>. HIDE DEF h
    <3>3. B(g, N - i) = ParentOutput(hs.mode, hs.stack[i + 1], ChainingValue(g[N - (i + 1)]))
      BY <3>1, Zenon DEF B
    <3>4. D(h, i) = ParentOutput(hs.mode, hs.stack[i + 1], ChainingValue(h[i + 1]))
      BY <2>4, Zenon DEF D
    <3> QED BY <2>1, <2>2, <3>2, <3>3, <3>4, Zenon
  <2> QED BY <2>3, <2>4
<1>9. \E e : e = [i \in 0 .. N |-> D(e, i)]
  <2>1. h = [i \in 0 .. N |-> h[i]]
    OBVIOUS
  <2>. HIDE DEF h
  <2>2. h = [i \in 0 .. N |-> D(h, i)]
    BY <1>8, <2>1
  <2> QED BY <2>2
<1>. HIDE DEF h, out
<1>10. out = [i \in 0 .. N |-> D(out, i)]
  BY <1>a, <1>9
<1>11. \A i \in 0 .. N : out[i] = D(out, i)
  BY <1>10
<1>12. out[N] = ChunkOutput(hs.mode, hs.chunk)
  <2>1. N \in 0 .. N
    BY <1>0
  <2>2. out[N] = D(out, N)
    BY <1>11, <2>1
  <2> QED BY <2>2, Zenon DEF D
<1>13. ASSUME NEW i \in Nat, i < N
       PROVE  out[i] = ParentOutput(hs.mode, hs.stack[i + 1], ChainingValue(out[i + 1]))
  <2>1. i \in 0 .. N /\ i # N
    BY <1>0, <1>13
  <2>2. out[i] = D(out, i)
    BY <1>11, <2>1
  <2> QED BY <2>1, <2>2, Zenon DEF D
<1> QED BY <1>12, <1>13 DEF out, N

\* The stack holds the roots of t subtrees of 2^j chunks first, and r more chunks with the
\* open one, 2^j at most, come after them.
Before(mode, x, k, t, j, r) ==
  /\ r \in 1 .. Power2[j] /\ k + 1 = t * Power2[j] + r
  /\ Len(Subtrees(mode, x)[t][j]) <= Len(Subtrees(mode, x)[k][0])
  /\ \A i \in 1 .. Len(Subtrees(mode, x)[t][j]) : Subtrees(mode, x)[k][0][i] = Subtrees(mode, x)[t][j][i]

LEMMA EvenCount ==
  ASSUME NEW u \in Nat, NEW p \in Nat, NEW t, t = 2 * u
  PROVE  \E f \in Nat : f = t * p /\ f = u * (2 * p)
<1>1. u * (2 * p) \in Nat /\ (2 * u) * p = u * (2 * p)
  OBVIOUS
<1> QED BY <1>1

LEMMA OddCount ==
  ASSUME NEW u \in Nat, NEW p \in Nat, NEW t, t = 2 * u + 1
  PROVE  \E f \in Nat, second \in Nat : f = (2 * u) * p /\ f = u * (2 * p) /\ second = t * p /\ second = f + p
<1>1. PICK f \in Nat : f = (2 * u) * p /\ f = u * (2 * p)
  BY EvenCount
<1>2. PICK w \in Nat : w = 2 * u
  OBVIOUS
<1>3. (w + 1) * p = w * p + p
  OBVIOUS
<1>4. t * p = f + p
  BY <1>1, <1>2, <1>3
<1>5. f + p \in Nat
  OBVIOUS
<1> QED BY <1>1, <1>4, <1>5

\* out[n] is the open chunk, the node before it joins it to the last entry of the stack, and so on.
Joins(mode, x, k, out) ==
  LET stack == Subtrees(mode, x)[k][0]
  IN  /\ out[Len(stack)] = Tree(mode, x)[1][k]
      /\ \A i \in Nat : i < Len(stack) => out[i] = ParentOutput(mode, stack[i + 1], ChainingValue(out[i + 1]))

LEMMA StackJoins ==
  ASSUME NEW mode, NEW x, NEW k \in Nat, NEW out, Joins(mode, x, k, out)
  PROVE  out[0] = Tree(mode, x)[k + 1][0]
<1>2. PICK stack \in Seq(NodeCvs(mode, x)) : stack = Subtrees(mode, x)[k][0]
  BY SubtreesType
<1>5. PICK n \in Nat : n = Len(stack)
  BY <1>2, LenProperties
<1>6. \A i \in Nat : i < n => out[i] = ParentOutput(mode, stack[i + 1], ChainingValue(out[i + 1]))
  BY <1>2, <1>5, Zenon DEF Joins
<1>7. out[n] = Tree(mode, x)[1][k]
  BY <1>2, <1>5, Zenon DEF Joins
<1> DEFINE Root == Tree(mode, x)[k + 1][0]
           Covers(t, j, r) == out[Len(Subtrees(mode, x)[t][j])] = Tree(mode, x)[r][t * Power2[j]]
           T == {t \in Nat : \A j \in Nat : \A r \in Nat :
                   Before(mode, x, k, t, j, r) /\ Covers(t, j, r) => out[0] = Root}
<1>8. ASSUME NEW t \in Nat, \A m \in 0 .. t - 1 : m \in T, NEW j \in Nat, NEW r \in Nat,
             Before(mode, x, k, t, j, r), Covers(t, j, r)
      PROVE  out[0] = Root
  <2>. HIDE DEF T, Covers, Root
  <2>0. t \in Nat /\ j \in Nat /\ r \in Nat
    BY <1>8
  <2>1. PICK p \in Nat : p = Power2[j] /\ Power2[j + 1] = 2 * p
    BY <2>0, Power2Grows, Power2Unfolded
  <2>2. PICK f \in Nat : f = t * p /\ r \in 1 .. p /\ k + 1 = f + r
    <3>1. t * p \in Nat
      BY <2>0
    <3>2. r \in 1 .. p /\ k + 1 = t * p + r
      BY <1>8, <2>1, Zenon DEF Before
    <3> QED BY <3>1, <3>2
  <2>7. p \in Nat /\ f \in Nat /\ r \in 1 .. p /\ k + 1 = f + r
    BY <2>1, <2>2
  <2>3. CASE t = 0
    <3>0. f = 0
      BY <2>1, <2>2, <2>3
    <3>1. t * p = 0 /\ r = k + 1
      BY <2>0, <2>2, <2>7, <3>0
    <3>2. Subtrees(mode, x)[t][j] = <<>>
      BY <2>0, <2>3, SubtreesNone
    <3>3. Len(Subtrees(mode, x)[t][j]) = 0
      BY <3>2
    <3>4. t * Power2[j] = 0
      BY <2>1, <3>1
    <3> QED BY <1>8, <3>1, <3>3, <3>4, Zenon DEF Covers, Root
  <2>4. CASE t # 0 /\ t % 2 = 0
    <3>1. PICK u \in Nat : t = 2 * u /\ u \in 0 .. t - 1
      <4>1. t = 2 * (t \div 2) /\ t \div 2 \in 0 .. t - 1
        BY <2>0, <2>4
      <4> QED BY <4>1
    <3>2. Subtrees(mode, x)[t][j] = Subtrees(mode, x)[u][j + 1]
      <4>1. SameRoots(mode, x, t, j, u)
        BY <2>0, <3>1, SubtreesDouble
      <4> QED BY <4>1 DEF SameRoots
    <3>3. f = t * p /\ f = u * (2 * p)
      <4>1. u \in Nat /\ p \in Nat /\ t = 2 * u
        BY <2>7, <3>1
      <4>2. \E g \in Nat : g = t * p /\ g = u * (2 * p)
        BY <4>1, EvenCount
      <4> QED BY <2>2, <4>2, Zenon
    <3>4. r \in 1 .. Power2[j + 1] /\ k + 1 = u * Power2[j + 1] + r
      <4>1. r \in 1 .. 2 * p /\ k + 1 = f + r
        BY <2>0, <2>7
      <4> QED BY <2>1, <3>3, <4>1, Zenon
    <3>5. Before(mode, x, k, u, j + 1, r)
      BY <1>8, <3>2, <3>4, Zenon DEF Before
    <3>6. Covers(u, j + 1, r)
      BY <1>8, <2>1, <3>2, <3>3, Zenon DEF Covers
    <3>7. j + 1 \in Nat /\ r \in Nat /\ u \in T
      <4>1. u \in T
        BY <1>8, <3>1, Zenon
      <4> QED BY <2>0, <4>1
    <3> QED BY <3>5, <3>6, <3>7, Zenon DEF T
  <2>5. CASE t % 2 # 0
    <3>1. PICK u \in Nat : t = 2 * u + 1 /\ u \in 0 .. t - 1
      <4>1. t = 2 * (t \div 2) + 1 /\ t \div 2 \in 0 .. t - 1
        BY <2>0, <2>5
      <4> QED BY <4>1
    <3>2. PICK a \in Seq(NodeCvs(mode, x)), l \in Nat : a = Subtrees(mode, x)[u][j + 1] /\ l = Len(a)
      <4>1. j + 1 \in Nat
        BY <2>0
      <4>2. Subtrees(mode, x)[u][j + 1] \in Seq(NodeCvs(mode, x))
        BY <3>1, <4>1, SubtreesType
      <4> QED BY <4>2, LenProperties
    <3>3. PICK v \in NodeCvs(mode, x) : v = NodeCv(mode, x, j, 2 * u) /\ Subtrees(mode, x)[t][j] = a \o <<v>>
      <4>1. /\ NodeCv(mode, x, j, 2 * u) \in NodeCvs(mode, x)
            /\ Subtrees(mode, x)[2 * u + 1][j] = Subtrees(mode, x)[u][j + 1] \o <<NodeCv(mode, x, j, 2 * u)>>
        BY <2>0, <3>1, SubtreesAppended
      <4> QED BY <3>1, <3>2, <4>1, Zenon
    <3>4. PICK b \in Seq(NodeCvs(mode, x)) : /\ b = Subtrees(mode, x)[t][j] /\ Len(b) = l + 1
                                             /\ b[l + 1] = v /\ \A i \in 1 .. l : b[i] = a[i]
      <4>1. Append(a, v) = a \o <<v>>
        BY <3>2, <3>3, AppendIsConcat
      <4>2. /\ Append(a, v) \in Seq(NodeCvs(mode, x)) /\ Len(Append(a, v)) = Len(a) + 1
            /\ \A i \in 1 .. Len(a) : Append(a, v)[i] = a[i]
            /\ Append(a, v)[Len(a) + 1] = v
        BY <3>2, <3>3, AppendProperties
      <4> QED BY <3>2, <3>3, <4>1, <4>2, Zenon
    <3>5. l + 1 <= n /\ \A i \in 1 .. l + 1 : stack[i] = b[i]
      BY <1>2, <1>5, <1>8, <3>4 DEF Before
    <3>6. stack[l + 1] = v /\ l < n /\ \A i \in 1 .. l : stack[i] = a[i]
      <4>1. l + 1 \in 1 .. l + 1 /\ l < n /\ \A i \in 1 .. l : i \in 1 .. l + 1
        BY <1>5, <3>2, <3>5
      <4> QED BY <3>4, <3>5, <4>1, Zenon
    <3>7. PICK g \in Nat : g = (2 * u) * p /\ g = u * (2 * p) /\ f = g + p
      <4>1. u \in Nat /\ p \in Nat /\ t = 2 * u + 1
        BY <2>7, <3>1
      <4>2. \E g \in Nat, second \in Nat : g = (2 * u) * p /\ g = u * (2 * p) /\ second = t * p /\ second = g + p
        BY <4>1, OddCount
      <4> QED BY <2>2, <4>2, Zenon
    <3>16. g \in Nat /\ f = g + p
      BY <3>7
    <3>8. out[l + 1] = Tree(mode, x)[r][f]
      BY <1>8, <2>1, <2>2, <3>4, Zenon DEF Covers
    <3>9. v = ChainingValue(Tree(mode, x)[p][g])
      BY <2>1, <3>3, <3>7, Zenon DEF NodeCv
    <3>10. PICK m \in Nat : m = p + r
      BY <2>0, <2>7
    <3>11. out[l] = Tree(mode, x)[m][g]
      <4>1. out[l] = ParentOutput(mode, v, ChainingValue(out[l + 1]))
        BY <1>6, <3>2, <3>6
      <4>2. IsJoin(mode, x, m, g, p, r, f)
        <5>1. p = Power2[j]
          BY <2>1
        <5>2. j \in Nat /\ r \in 1 .. p /\ g \in Nat /\ m = p + r /\ f = g + p
          BY <2>0, <2>7, <3>10, <3>16
        <5> QED BY <5>1, <5>2, TreeJoin
      <4> QED BY <3>8, <3>9, <4>1, <4>2, Zenon DEF IsJoin
    <3>12. m \in 1 .. Power2[j + 1] /\ k + 1 = u * Power2[j + 1] + m
      <4>1. m \in 1 .. 2 * p /\ k + 1 = g + m
        BY <2>0, <2>7, <3>10, <3>16
      <4> QED BY <2>1, <3>7, <4>1, Zenon
    <3>13. Before(mode, x, k, u, j + 1, m)
      <4>1. l <= n
        BY <1>5, <3>2, <3>6
      <4> QED BY <1>2, <1>5, <3>2, <3>6, <3>12, <4>1, Zenon DEF Before
    <3>14. Covers(u, j + 1, m)
      BY <2>1, <3>2, <3>7, <3>11, Zenon DEF Covers
    <3>15. j + 1 \in Nat /\ m \in Nat /\ u \in T
      <4>1. u \in T
        BY <1>8, <3>1, Zenon
      <4> QED BY <2>0, <3>10, <4>1
    <3> QED BY <3>13, <3>14, <3>15, Zenon DEF T
  <2>6. t = 0 \/ (t # 0 /\ t % 2 = 0) \/ t % 2 # 0
    BY <1>8
  <2> QED BY <2>3, <2>4, <2>5, <2>6
<1>9. ASSUME NEW t \in Nat, \A m \in 0 .. t - 1 : m \in T PROVE t \in T
  <2>. HIDE DEF Covers, Root
  <2> QED BY <1>8, <1>9
<1>10. \A t \in Nat : t \in T
  <2>. HIDE DEF T
  <2> QED BY <1>9, StrongInduction
<1>11. PICK j \in Nat, r \in Nat : j = 0 /\ r = 1 /\ r \in 1 .. 1
  OBVIOUS
<1>12. Power2[j] = 1 /\ k * Power2[j] = k
  BY <1>11, Power2Unfolded
<1>13. Before(mode, x, k, k, j, r)
  <2>1. r \in 1 .. Power2[j] /\ k + 1 = k * Power2[j] + r
    BY <1>11, <1>12
  <2>2. Len(Subtrees(mode, x)[k][j]) <= Len(Subtrees(mode, x)[k][0])
    BY <1>2, <1>5, <1>11
  <2> QED BY <1>11, <2>1, <2>2, Zenon DEF Before
<1>14. Covers(k, j, r)
  BY <1>2, <1>5, <1>7, <1>11, <1>12, Zenon
<1>15. out[0] = Root
  <2>1. k \in T
    BY <1>10
  <2>. HIDE DEF Covers, Root
  <2> QED BY <1>11, <1>13, <1>14, <2>1
<1> QED BY <1>15

LEMMA FinalOutputIs ==
  ASSUME NEW S, NEW x \in Seq(S), NEW mode, NEW k \in Nat, k * ChunkLen <= Len(x), Len(x) <= (k + 1) * ChunkLen
  PROVE  FinalOutput(HasherWith(mode, x, k)) = Tree(mode, x)[k + 1][0]
<1>1. PICK hs : hs = HasherWith(mode, x, k)
  OBVIOUS
<1>2. PICK stack \in Seq(NodeCvs(mode, x)) : stack = Subtrees(mode, x)[k][0]
  BY SubtreesType
<1>3. PICK y \in Seq(S) : y = Piece(x, ChunkLen, k)
  <2>1. ChunkLen \in Nat \ {0}
    BY Lengths
  <2> QED BY <2>1, PieceLength
<1>4. hs.mode = mode /\ hs.chunk = ChunkAt(mode, y, k) /\ hs.stack = stack
  BY <1>1, <1>2, <1>3 DEF HasherWith
<1>5. PICK n \in Nat : n = Len(stack)
  BY <1>2, LenProperties
<1>8. PICK out : out = FinalOutputs(hs)
  OBVIOUS
<1>6. /\ out[n] = ChunkOutput(mode, ChunkAt(mode, y, k))
      /\ \A i \in Nat : i < n => out[i] = ParentOutput(mode, stack[i + 1], ChainingValue(out[i + 1]))
  BY <1>4, <1>5, <1>8, FinalOutputsUnfolded
<1>7. out[n] = Tree(mode, x)[1][k]
  <2>1. ChunkOutput(mode, ChunkAt(mode, y, k)) = LeafOutput(mode, y, k)
    BY <1>3, ChunkOutputIs
  <2>2. Tree(mode, x)[1][k] = LeafOutput(mode, Piece(x, ChunkLen, k), k)
    BY TreeUnfolded
  <2> QED BY <1>3, <1>6, <2>1, <2>2, Zenon
<1>9. Joins(mode, x, k, out)
  BY <1>2, <1>5, <1>6, <1>7, Zenon DEF Joins
<1>10. out[0] = Tree(mode, x)[k + 1][0]
  BY <1>9, StackJoins
<1> QED BY <1>1, <1>8, <1>10, Zenon DEF FinalOutput

\* The whole of what a hasher promises, for one object.
LEMMA HasherFinishes ==
  ASSUME NEW S, NEW x \in Seq(S), NEW mode
  PROVE  FinalOutput(HasherAt(mode, x)) = RootOutput(mode, x)
<1>1. PICK len \in Nat : len = Len(x)
  BY LenProperties
<1>2. PICK k \in Nat : Fits(len, ChunkLen, k)
  BY FitsExists, Lengths
<1>3. HasherAt(mode, x) = HasherWith(mode, x, k)
  BY <1>1, <1>2, HasherAtFits
<1>4. FinalOutput(HasherWith(mode, x, k)) = Tree(mode, x)[k + 1][0]
  BY <1>1, <1>2, FinalOutputIs DEF Fits
<1>5. Pieces(Len(x), ChunkLen) = k + 1
  BY <1>1, <1>2, FitsPieces, Lengths
<1> QED BY <1>3, <1>4, <1>5, Zenon DEF RootOutput

-----------------------------------------------------------------------------
(* The output stream: blocks of one length, put together.                    *)

LEMMA Divided ==
  ASSUME NEW w \in Nat \ {0}, NEW i \in Nat, NEW q \in 0 .. w - 1, NEW p, p = i * w + q
  PROVE  p \in Nat /\ p \div w = i /\ p % w = q
<1>1. PICK b \in Nat : b = i * w
  <2>1. i * w \in Nat
    OBVIOUS
  <2> QED BY <2>1
<1>2. p \in Nat /\ p = b + q
  BY <1>1
<1>3. PICK d \in Nat, r \in Nat : d = p \div w /\ r = p % w
  <2>1. p \div w \in Nat /\ p % w \in Nat
    BY <1>2
  <2> QED BY <2>1
<1>4. p = w * d + r /\ r < w
  BY <1>2, <1>3
<1>5. w * (d - i) = q - r
  BY <1>1, <1>2, <1>4
<1>6. d - i \in Int
  OBVIOUS
<1>7. PICK e \in Int : e = d - i
  BY <1>6
<1>8. w * e = q - r /\ q - r < w /\ q - r > 0 - w
  BY <1>4, <1>5, <1>7
<1>9. e = 0
  <2>1. e >= 1 => w * e >= w
    OBVIOUS
  <2>2. e <= 0 - 1 => w * e <= 0 - w
    OBVIOUS
  <2>3. PICK x \in Int : x = w * e
    OBVIOUS
  <2>4. ~(e >= 1) /\ ~(e <= 0 - 1)
    BY <1>8, <2>1, <2>2, <2>3
  <2> QED BY <2>4
<1>10. d = i /\ r = q
  BY <1>7, <1>8, <1>9
<1> QED BY <1>2, <1>3, <1>10

\* Every number is the sum of a multiple and a rest.
LEMMA Division ==
  ASSUME NEW w \in Nat \ {0}, NEW p \in Nat
  PROVE  \E i \in Nat, q \in 0 .. w - 1 : p = i * w + q /\ i = p \div w /\ q = p % w
<1>1. p \div w \in Nat /\ p % w \in 0 .. w - 1 /\ p = w * (p \div w) + (p % w)
  OBVIOUS
<1>2. PICK i \in Nat, q \in 0 .. w - 1 : i = p \div w /\ q = p % w /\ p = w * i + q
  BY <1>1
<1>3. w * i = i * w
  OBVIOUS
<1>4. p = i * w + q
  BY <1>2, <1>3
<1> QED BY <1>2, <1>4, Zenon

\* Byte p of blocks of w bytes.
ByteAt(seqs, w, p) == seqs[(p \div w) + 1][(p % w) + 1]

LEMMA FlattenUnfolded ==
  ASSUME NEW seqs, NEW N \in Nat, Len(seqs) = N + 1
  PROVE  \E flatten : /\ FlattenSeq(seqs) = flatten[N + 1]
                      /\ flatten[1] = seqs[1]
                      /\ \A i \in 1 .. N : flatten[i + 1] = flatten[i] \o seqs[i + 1]
<1> DEFINE B(f, k) == IF k = 0 THEN seqs[1] ELSE f[k - 1] \o seqs[k + 1]
           Ok(f, n) == \A k \in 0 .. n : f[k] = B(f, k)
           D(f, i) == IF i = 1 THEN seqs[i] ELSE f[i - 1] \o seqs[i]
<1>0. N \in Nat
  OBVIOUS
<1>1. ASSUME NEW f, NEW g, NEW n \in Nat, \A k \in 0 .. n - 1 : f[k] = g[k]
      PROVE  B(f, n) = B(g, n)
  <2>1. n # 0 => n - 1 \in 0 .. n - 1
    OBVIOUS
  <2> QED BY <1>1, <2>1, Zenon
<1>. HIDE DEF B
<1>2. \A n \in Nat : \E f : Ok(f, n)
  <2> DEFINE T == {n \in Nat : \E f : Ok(f, n)}
  <2>1. 0 \in T
    <3> DEFINE g == [k \in 0 .. 0 |-> B(<<>>, 0)]
    <3>1. B(g, 0) = B(<<>>, 0)
      BY <1>1
    <3>2. Ok(g, 0)
      BY <3>1
    <3> QED BY <3>2
  <2>2. ASSUME NEW n \in Nat, n \in T PROVE n + 1 \in T
    <3>1. PICK f : Ok(f, n)
      BY <2>2
    <3> DEFINE g == [k \in 0 .. n + 1 |-> IF k <= n THEN f[k] ELSE B(f, n + 1)]
    <3>2. \A k \in 0 .. n : g[k] = f[k]
      OBVIOUS
    <3>3. g[n + 1] = B(f, n + 1)
      OBVIOUS
    <3>. HIDE DEF g
    <3>4. \A k \in 0 .. n + 1 : B(g, k) = B(f, k)
      <4> TAKE k \in 0 .. n + 1
      <4>1. k \in Nat /\ \A i \in 0 .. k - 1 : g[i] = f[i]
        BY <3>2
      <4> QED BY <4>1, <1>1
    <3>5. \A k \in 0 .. n + 1 : k \in 0 .. n \/ k = n + 1
      OBVIOUS
    <3>6. Ok(g, n + 1)
      BY <3>1, <3>2, <3>3, <3>4, <3>5
    <3> QED BY <3>6
  <2>. HIDE DEF T
  <2>3. \A n \in Nat : n \in T
    BY <2>1, <2>2, StepInduction
  <2> QED BY <2>3 DEF T
<1>3. PICK f : Ok(f, N)
  BY <1>0, <1>2
<1> DEFINE F == [k \in 0 .. N |-> f[k]]
<1>4. ASSUME NEW k \in 0 .. N PROVE F[k] = B(F, k)
  <2>1. f[k] = B(f, k)
    BY <1>3
  <2>2. k \in Nat /\ \A i \in 0 .. k - 1 : f[i] = F[i]
    BY <1>0
  <2>. HIDE DEF F
  <2>3. B(f, k) = B(F, k)
    BY <2>2, <1>1
  <2> QED BY <2>1, <2>3 DEF F
<1>5. F = [k \in 0 .. N |-> F[k]]
  OBVIOUS
<1>6. \E g : g = [k \in 0 .. N |-> B(g, k)]
  <2>. HIDE DEF F
  <2>1. F = [k \in 0 .. N |-> B(F, k)]
    BY <1>4, <1>5
  <2> QED BY <2>1
<1>7. PICK g : g = [k \in 0 .. N |-> B(g, k)]
  BY <1>6
<1> DEFINE h == [i \in 1 .. N + 1 |-> g[i - 1]]
<1>. HIDE DEF D
<1>8. ASSUME NEW i \in 1 .. N + 1 PROVE h[i] = D(h, i)
  <2>1. h[i] = g[i - 1] /\ i - 1 \in 0 .. N
    OBVIOUS
  <2>2. g[i - 1] = B(g, i - 1)
    BY <1>7, <2>1
  <2>3. CASE i = 1
    <3>1. i - 1 = 0
      BY <2>3
    <3> QED BY <2>1, <2>2, <2>3, <3>1, Zenon DEF B, D
  <2>4. CASE i # 1
    <3>1. i - 1 # 0 /\ (i - 1) + 1 = i /\ i - 1 \in 1 .. N + 1
      BY <2>4
    <3>2. h[i - 1] = g[(i - 1) - 1]
      BY <3>1
    <3>. HIDE DEF h
    <3>3. B(g, i - 1) = g[(i - 1) - 1] \o seqs[i]
      BY <3>1, Zenon DEF B
    <3>4. D(h, i) = h[i - 1] \o seqs[i]
      BY <2>4, Zenon DEF D
    <3> QED BY <2>1, <2>2, <3>2, <3>3, <3>4, Zenon
  <2> QED BY <2>3, <2>4
<1>9. \E e : e = [i \in 1 .. N + 1 |-> D(e, i)]
  <2>1. h = [i \in 1 .. N + 1 |-> h[i]]
    OBVIOUS
  <2>. HIDE DEF h
  <2>2. h = [i \in 1 .. N + 1 |-> D(h, i)]
    BY <1>8, <2>1
  <2> QED BY <2>2
<1>. HIDE DEF h
<1>10. PICK flatten : flatten = CHOOSE e : e = [i \in 1 .. N + 1 |-> D(e, i)]
  OBVIOUS
<1>11. flatten = [i \in 1 .. N + 1 |-> D(flatten, i)]
  BY <1>9, <1>10
<1>12. \A i \in 1 .. N + 1 : flatten[i] = D(flatten, i)
  BY <1>11
<1>13. FlattenSeq(seqs) = flatten[N + 1]
  <2>1. Len(seqs) # 0
    OBVIOUS
  <2> QED BY <1>10, <2>1 DEF FlattenSeq, D
<1>14. flatten[1] = seqs[1]
  BY <1>12 DEF D
<1>15. ASSUME NEW i \in 1 .. N PROVE flatten[i + 1] = flatten[i] \o seqs[i + 1]
  <2>1. i + 1 \in 1 .. N + 1 /\ i + 1 # 1 /\ (i + 1) - 1 = i
    OBVIOUS
  <2>2. flatten[i + 1] = D(flatten, i + 1)
    BY <1>12, <2>1
  <2> QED BY <2>1, <2>2, Zenon DEF D
<1> QED BY <1>13, <1>14, <1>15, Zenon

\* flat is the bytes of n blocks of w bytes.
IsFlat(S, w, n, seqs, flat) ==
  /\ flat \in Seq(S) /\ Len(flat) = n * w
  /\ \A p \in Nat : p < n * w => flat[p + 1] = ByteAt(seqs, w, p)

LEMMA FlattenBlocks ==
  ASSUME NEW S, NEW w \in Nat \ {0}, NEW n \in Nat, NEW seqs, n > 0, Len(seqs) = n,
         \A i \in 1 .. n : seqs[i] \in Seq(S) /\ Len(seqs[i]) = w
  PROVE  IsFlat(S, w, n, seqs, FlattenSeq(seqs))
<1>1. PICK N \in Nat : N = n - 1 /\ N + 1 = n
  <2>1. n - 1 \in Nat
    OBVIOUS
  <2> QED BY <2>1
<1>2. PICK flatten : /\ FlattenSeq(seqs) = flatten[N + 1]
                     /\ flatten[1] = seqs[1]
                     /\ \A i \in 1 .. N : flatten[i + 1] = flatten[i] \o seqs[i + 1]
  BY <1>1, FlattenUnfolded
<1> DEFINE Good(i, b) == /\ flatten[i] \in Seq(S) /\ Len(flatten[i]) = b
                         /\ \A p \in Nat : p < b => flatten[i][p + 1] = ByteAt(seqs, w, p)
           T == {i \in Nat : i + 1 <= n => \E b \in Nat : b = (i + 1) * w /\ Good(i + 1, b)}
<1>3. 0 \in T
  <2>1. PICK z \in Seq(S) : z = seqs[1] /\ Len(z) = w /\ z = flatten[1]
    <3>1. 1 \in 1 .. n
      OBVIOUS
    <3> QED BY <1>2, <3>1
  <2>2. \A p \in Nat : p < w => p \div w = 0 /\ p % w = p
    OBVIOUS
  <2>3. \A p \in Nat : p < w => z[p + 1] = ByteAt(seqs, w, p)
    <3>1. ASSUME NEW p \in Nat, p < w PROVE z[p + 1] = ByteAt(seqs, w, p)
      <4>0. PICK d, r : d = p \div w /\ r = p % w
        OBVIOUS
      <4>1. (p \div w) + 1 = 1 /\ (p % w) + 1 = p + 1
        <5>1. d = 0 /\ r = p
          BY <2>2, <3>1, <4>0
        <5>2. d + 1 = 1 /\ r + 1 = p + 1
          BY <5>1
        <5> QED BY <4>0, <5>2, Zenon
      <4>2. ByteAt(seqs, w, p) = seqs[1][p + 1]
        BY <4>1, Zenon DEF ByteAt
      <4> QED BY <2>1, <4>2, Zenon
    <3> QED BY <3>1
  <2>4. Good(1, w)
    BY <2>1, <2>3, Zenon
  <2>. HIDE DEF Good
  <2>5. 0 + 1 = 1 /\ w = (0 + 1) * w
    OBVIOUS
  <2> QED BY <2>4, <2>5
<1>4. ASSUME NEW i \in Nat, i \in T, i + 2 <= n PROVE \E d \in Nat : d = (i + 2) * w /\ Good(i + 2, d)
  <2>. HIDE DEF Good
  <2>1. PICK b \in Nat : b = (i + 1) * w /\ Good(i + 1, b)
    <3>1. i + 1 <= n
      BY <1>4
    <3> QED BY <1>4, <3>1
  <2>. HIDE DEF T
  <2>2. PICK s \in Seq(S) : /\ s = flatten[i + 1] /\ Len(s) = b
                            /\ \A p \in Nat : p < b => s[p + 1] = ByteAt(seqs, w, p)
    BY <2>1, Zenon DEF Good
  <2>3. PICK e \in Seq(S) : e = seqs[i + 2] /\ Len(e) = w
    <3>1. i + 2 \in 1 .. n
      BY <1>4
    <3> QED BY <3>1
  <2>4. PICK z \in Seq(S) : /\ z = s \o e /\ Len(z) = b + w
                            /\ \A k \in 1 .. b + w : z[k] = IF k <= b THEN s[k] ELSE e[k - b]
    <3>1. /\ s \o e \in Seq(S) /\ Len(s \o e) = Len(s) + Len(e)
          /\ \A k \in 1 .. Len(s) + Len(e) : (s \o e)[k] = IF k <= Len(s) THEN s[k] ELSE e[k - Len(s)]
      BY ConcatProperties
    <3> QED BY <2>2, <2>3, <3>1, Zenon
  <2>5. z = flatten[i + 2]
    <3>1. i + 1 \in 1 .. N /\ (i + 1) + 1 = i + 2
      BY <1>1, <1>4
    <3>2. flatten[(i + 1) + 1] = flatten[i + 1] \o seqs[(i + 1) + 1]
      BY <1>2, <3>1
    <3> QED BY <2>2, <2>3, <2>4, <3>1, <3>2, Zenon
  <2>6. ASSUME NEW p \in Nat, p < b + w PROVE z[p + 1] = ByteAt(seqs, w, p)
    <3>1. b \in Nat /\ p + 1 \in 1 .. b + w
      BY <2>1, <2>6
    <3>2. CASE p < b
      <4>1. z[p + 1] = s[p + 1]
        <5>1. p + 1 <= b
          BY <3>1, <3>2
        <5> QED BY <2>4, <3>1, <5>1
      <4> QED BY <2>2, <3>2, <4>1
    <3>3. CASE ~(p < b)
      <4>1. PICK q \in 0 .. w - 1 : q = p - b /\ p = b + q
        <5>1. p - b \in 0 .. w - 1
          BY <2>6, <3>1, <3>3
        <5> QED BY <3>1, <5>1
      <4>2. p \div w = i + 1 /\ p % w = q
        <5>1. PICK j \in Nat : j = i + 1
          OBVIOUS
        <5>2. p = j * w + q
          BY <2>1, <4>1, <5>1
        <5>3. p \div w = j /\ p % w = q
          BY <5>2, Divided
        <5> QED BY <5>1, <5>3
      <4>3. z[p + 1] = e[q + 1]
        <5>1. ~(p + 1 <= b) /\ (p + 1) - b = q + 1
          BY <3>1, <3>3, <4>1
        <5>2. z[p + 1] = e[(p + 1) - b]
          BY <2>4, <3>1, <5>1
        <5> QED BY <5>1, <5>2
      <4>4. (p \div w) + 1 = i + 2 /\ (p % w) + 1 = q + 1
        BY <4>2
      <4>5. ByteAt(seqs, w, p) = e[q + 1]
        BY <2>3, <4>4, Zenon DEF ByteAt
      <4> QED BY <4>3, <4>5, Zenon
    <3> QED BY <3>2, <3>3
  <2>7. Good(i + 2, b + w)
    <3>1. \A p \in Nat : p < b + w => z[p + 1] = ByteAt(seqs, w, p)
      BY <2>6
    <3>2. flatten[i + 2] \in Seq(S) /\ Len(flatten[i + 2]) = b + w
      BY <2>4, <2>5
    <3>3. \A p \in Nat : p < b + w => flatten[i + 2][p + 1] = ByteAt(seqs, w, p)
      BY <2>5, <3>1, Zenon
    <3> QED BY <3>2, <3>3 DEF Good
  <2>8. b + w = (i + 2) * w /\ b + w \in Nat
    BY <2>1
  <2> QED BY <2>7, <2>8, Zenon
<1>5. ASSUME NEW i \in Nat, i \in T PROVE i + 1 \in T
  <2>. HIDE DEF Good
  <2>1. (i + 1) + 1 = i + 2 /\ i + 1 \in Nat
    OBVIOUS
  <2>2. i + 2 <= n => \E d \in Nat : d = (i + 2) * w /\ Good(i + 2, d)
    BY <1>4, <1>5, Zenon
  <2> QED BY <2>1, <2>2, Zenon
<1>. HIDE DEF T
<1>6. \A i \in Nat : i \in T
  BY <1>3, <1>5, StepInduction
<1>7. Good(n, n * w)
  <2>. HIDE DEF Good
  <2>1. N \in T /\ N + 1 <= n
    BY <1>1, <1>6
  <2>2. PICK b \in Nat : b = (N + 1) * w /\ Good(N + 1, b)
    BY <2>1, Zenon DEF T
  <2> QED BY <1>1, <2>2, Zenon
<1>8. FlattenSeq(seqs) = flatten[n]
  BY <1>1, <1>2, Zenon
<1>9. Good(n, n * w) => IsFlat(S, w, n, seqs, flatten[n])
  BY Zenon DEF Good, IsFlat
<1> QED BY <1>7, <1>8, <1>9, Zenon

\* Byte k, counted from 1, of output block m.
WordByte(o, m, k) == <<Compress(o.cv, o.block, m, o.flags \cup {"ROOT"}), k>>

WordBytes(o) == {WordByte(o, m, k) : m \in Nat, k \in Nat}

LEMMA RootBlockIs ==
  ASSUME NEW o, NEW m
  PROVE  RootBlock(o, m) = [k \in 1 .. BlockLen |-> WordByte(o, m, k)]
BY Zenon DEF RootBlock, WordByte

LEMMA StreamByteIs ==
  ASSUME NEW o, NEW p, NEW m, NEW q, p \div BlockLen = m, p % BlockLen = q
  PROVE  StreamByte(o, p) = WordByte(o, m, q + 1)
BY Zenon DEF StreamByte, WordByte

\* flat is n output blocks, from number c on.
IsStream(o, c, n, flat) ==
  /\ Len(flat) = n * BlockLen
  /\ \E S : flat \in Seq(S)
  /\ \A p \in Nat : p < n * BlockLen => flat[p + 1] = StreamByte(o, c * BlockLen + p)

LEMMA BlocksOfStream ==
  ASSUME NEW o, NEW c \in Nat, NEW n \in Nat, NEW flat,
         flat = FlattenSeq([i \in 1 .. n |-> RootBlock(o, c + i - 1)])
  PROVE  IsStream(o, c, n, flat)
<1>1. PICK w \in Nat \ {0} : w = BlockLen
  BY Lengths
<1>2. PICK seqs : seqs = [i \in 1 .. n |-> RootBlock(o, c + i - 1)]
  OBVIOUS
<1>3. CASE n = 0
  <2>1. flat = <<>>
    <3>1. seqs = <<>>
      BY <1>2, <1>3
    <3>2. Len(seqs) = 0
      BY <3>1
    <3> QED BY <1>2, <3>1, <3>2, Zenon DEF FlattenSeq
  <2>2. Len(flat) = 0 /\ flat \in Seq({})
    BY <2>1
  <2>3. n * BlockLen = 0
    BY <1>1, <1>3
  <2>4. \A p \in Nat : ~(p < 0)
    OBVIOUS
  <2> QED BY <2>2, <2>3, <2>4, Zenon DEF IsStream
<1>4. CASE n > 0
  <2>1. PICK S : S = WordBytes(o)
    OBVIOUS
  <2>2. ASSUME NEW i \in 1 .. n
        PROVE  /\ seqs[i] \in Seq(S) /\ Len(seqs[i]) = w
               /\ \A q \in 0 .. w - 1 : seqs[i][q + 1] = WordByte(o, c + i - 1, q + 1)
    <3>1. PICK m \in Nat : m = c + i - 1
      <4>1. c + i - 1 \in Nat
        OBVIOUS
      <4> QED BY <4>1
    <3>2. PICK block : block = [k \in 1 .. w |-> WordByte(o, m, k)]
      OBVIOUS
    <3>3. seqs[i] = block
      <4>1. seqs[i] = RootBlock(o, m)
        BY <1>2, <3>1
      <4> QED BY <1>1, <3>2, <4>1, RootBlockIs, Zenon
    <3>4. \A k \in 1 .. w : WordByte(o, m, k) \in S
      BY <2>1 DEF WordBytes
    <3>5. block \in Seq(S) /\ Len(block) = w
      BY <3>2, <3>4
    <3>6. \A q \in 0 .. w - 1 : block[q + 1] = WordByte(o, m, q + 1)
      BY <3>2
    <3> QED BY <3>1, <3>3, <3>5, <3>6, Zenon
  <2>3. Len(seqs) = n
    BY <1>2
  <2>4. flat = FlattenSeq(seqs)
    BY <1>2
  <2>5. \A i \in 1 .. n : seqs[i] \in Seq(S) /\ Len(seqs[i]) = w
    BY <2>2
  <2>6. /\ flat \in Seq(S)
        /\ Len(flat) = n * w
        /\ \A p \in Nat : p < n * w => flat[p + 1] = ByteAt(seqs, w, p)
    <3>1. IsFlat(S, w, n, seqs, FlattenSeq(seqs))
      BY <1>4, <2>3, <2>5, FlattenBlocks
    <3> QED BY <2>4, <3>1, Zenon DEF IsFlat
  <2>7. ASSUME NEW p \in Nat, p < n * w PROVE flat[p + 1] = StreamByte(o, c * w + p)
    <3>1. PICK d \in Nat, q \in 0 .. w - 1 : p = d * w + q /\ d = p \div w /\ q = p % w
      BY Division
    <3>2. d + 1 \in 1 .. n
      <4>1. d >= n => d * w >= n * w
        OBVIOUS
      <4>2. PICK a \in Nat, b \in Nat : a = d * w /\ b = n * w
        OBVIOUS
      <4>3. p < b /\ p = a + q
        BY <2>7, <3>1, <4>2
      <4>4. d >= n => a >= b
        BY <4>1, <4>2
      <4>5. ~(d >= n)
        BY <4>3, <4>4
      <4> QED BY <4>5
    <3>3. PICK m \in Nat : m = c + d /\ m = c + (d + 1) - 1
      <4>1. c + d \in Nat /\ c + d = c + (d + 1) - 1
        OBVIOUS
      <4> QED BY <4>1
    <3>4. ByteAt(seqs, w, p) = WordByte(o, m, q + 1)
      <4>1. seqs[d + 1][q + 1] = WordByte(o, c + (d + 1) - 1, q + 1)
        BY <2>2, <3>2
      <4> QED BY <3>1, <3>3, <4>1, Zenon DEF ByteAt
    <3>5. PICK z : z = c * w + p
      OBVIOUS
    <3>6. z = m * w + q
      <4>1. (c + d) * w = c * w + d * w
        OBVIOUS
      <4>2. PICK a \in Nat, b \in Nat : a = c * w /\ b = d * w
        OBVIOUS
      <4>3. m * w = a + b
        BY <3>3, <4>1, <4>2, Zenon
      <4>4. z = a + (b + q)
        BY <3>1, <3>5, <4>2, Zenon
      <4>5. z = (a + b) + q
        BY <4>4
      <4> QED BY <4>3, <4>5, Zenon
    <3>7. z \div w = m /\ z % w = q
      BY <3>6, Divided
    <3>8. StreamByte(o, z) = WordByte(o, m, q + 1)
      BY <1>1, <3>7, StreamByteIs, Zenon
    <3>9. flat[p + 1] = ByteAt(seqs, w, p)
      BY <2>6, <2>7
    <3> QED BY <3>4, <3>5, <3>8, <3>9, Zenon
  <2>8. \A p \in Nat : p < n * w => flat[p + 1] = StreamByte(o, c * w + p)
    BY <2>7
  <2> QED BY <1>1, <2>6, <2>8, Zenon DEF IsStream
<1> QED BY <1>3, <1>4

LEMMA RootOutputBytesIs ==
  ASSUME NEW o, NEW seek \in Nat, NEW length \in Nat
  PROVE  RootOutputBytes(o, seek, length) = [k \in 1 .. length |-> StreamByte(o, seek + k - 1)]
<1>1. PICK w \in Nat \ {0} : w = BlockLen
  BY Lengths
<1>2. PICK c \in Nat, offset \in 0 .. w - 1 : seek = c * w + offset /\ c = seek \div w /\ offset = seek % w
  BY Division
<1>3. PICK sum \in Nat : sum = length + offset + w - 1
  <2>1. length + offset + w - 1 \in Nat
    OBVIOUS
  <2> QED BY <2>1
<1>4. PICK n \in Nat, rest \in 0 .. w - 1 : sum = n * w + rest /\ n = sum \div w
  BY Division
<1>5. PICK flat : flat = FlattenSeq([i \in 1 .. n |-> RootBlock(o, c + i - 1)])
  OBVIOUS
<1>6. PICK size \in Nat : size = n * w
  OBVIOUS
<1>7. PICK base \in Nat : base = c * w
  OBVIOUS
<1>8. length + offset <= size
  BY <1>3, <1>4, <1>6
<1>9. /\ Len(flat) = size
      /\ \E S : flat \in Seq(S)
      /\ \A p \in Nat : p < size => flat[p + 1] = StreamByte(o, base + p)
  <2>1. /\ Len(flat) = n * w
        /\ \E S : flat \in Seq(S)
        /\ \A p \in Nat : p < n * w => flat[p + 1] = StreamByte(o, c * w + p)
    <3>1. IsStream(o, c, n, flat)
      BY <1>2, <1>4, <1>5, BlocksOfStream
    <3>2. IsStream(o, c, n, flat) =>
            /\ Len(flat) = n * BlockLen
            /\ \E S : flat \in Seq(S)
            /\ \A p \in Nat : p < n * BlockLen => flat[p + 1] = StreamByte(o, c * BlockLen + p)
      BY Zenon DEF IsStream
    <3> QED BY <1>1, <3>1, <3>2
  <2> QED BY <1>6, <1>7, <2>1, Zenon
<1>10. RootOutputBytes(o, seek, length) = SubSeq(flat, offset + 1, offset + length)
  BY <1>1, <1>2, <1>3, <1>4, <1>5, Zenon DEF RootOutputBytes
<1>11. SubSeq(flat, offset + 1, offset + length) = [k \in 1 .. length |-> flat[offset + k]]
  <2>1. PICK S : flat \in Seq(S)
    BY <1>9
  <2> QED BY <1>8, <1>9, <2>1
<1>12. ASSUME NEW k \in 1 .. length PROVE flat[offset + k] = StreamByte(o, seek + k - 1)
  <2>1. PICK p \in Nat : p = offset + k - 1 /\ p < size /\ p + 1 = offset + k /\ base + p = seek + k - 1
    <3>1. /\ offset + k - 1 \in Nat /\ offset + k - 1 < size /\ (offset + k - 1) + 1 = offset + k
          /\ base + (offset + k - 1) = seek + k - 1
      <4>1. seek = base + offset
        BY <1>2, <1>7, Zenon
      <4> QED BY <1>8, <4>1
    <3> QED BY <3>1
  <2>2. flat[p + 1] = StreamByte(o, base + p)
    BY <1>9, <2>1
  <2> QED BY <2>1, <2>2, Zenon
<1>13. [k \in 1 .. length |-> flat[offset + k]] = [k \in 1 .. length |-> StreamByte(o, seek + k - 1)]
  BY <1>12, Zenon
<1> QED BY <1>10, <1>11, <1>13, Zenon

-----------------------------------------------------------------------------
(* The program: every hasher has absorbed its input.                         *)

Bytes == Handle \X Nat

Absorbed(hs, x) == x \in Seq(Bytes) /\ hs = HasherAt(hs.mode, x)

IInv ==
  /\ InUse \subseteq Handle /\ DOMAIN input = InUse
  /\ hasher = [h \in InUse |-> hasher[h]]
  /\ input = [h \in InUse |-> input[h]]
  /\ \A h \in InUse : Absorbed(hasher[h], input[h])

LEMMA HasherAtMode ==
  ASSUME NEW mode, NEW x
  PROVE  HasherAt(mode, x).mode = mode
BY DEF HasherAt, HasherWith

LEMMA NewAbsorbed ==
  ASSUME NEW mode
  PROVE  Absorbed(NewHasher(mode), <<>>)
<1>1. NewHasher(mode) = HasherAt(mode, <<>>) /\ <<>> \in Seq(Bytes)
  BY NewHasherIs
<1>2. NewHasher(mode).mode = mode
  BY DEF NewHasher
<1> QED BY <1>1, <1>2, Zenon DEF Absorbed

LEMMA UpdateAbsorbed ==
  ASSUME NEW hs, NEW x, Absorbed(hs, x), NEW data \in Seq(Bytes)
  PROVE  Absorbed(HasherUpdate(hs, data), x \o data)
<1>1. PICK mode : mode = hs.mode
  OBVIOUS
<1>2. x \in Seq(Bytes) /\ hs = HasherAt(mode, x)
  BY <1>1, Zenon DEF Absorbed
<1>3. HasherUpdate(HasherAt(mode, x), data) = HasherAt(mode, x \o data)
  BY <1>2, HasherUpdates
<1>4. x \o data \in Seq(Bytes)
  BY <1>2
<1> QED BY <1>2, <1>3, <1>4, HasherAtMode, Zenon DEF Absorbed

LEMMA CopyIsSame ==
  ASSUME NEW mode, NEW x
  PROVE  CopyOf(HasherAt(mode, x)) = HasherAt(mode, x)
BY DEF CopyOf, HasherAt, HasherWith

LEMMA FreshBytes ==
  ASSUME NEW h \in Handle, NEW n \in Nat, input[h] \in Seq(Bytes)
  PROVE  Fresh(h, n) \in Seq(Bytes)
<1>1. PICK len \in Nat : len = Len(input[h])
  OBVIOUS
<1>2. \A k \in 1 .. n : <<h, len + k>> \in Bytes
  BY DEF Bytes
<1>3. [k \in 1 .. n |-> <<h, len + k>>] \in Seq(Bytes)
  BY <1>2
<1> QED BY <1>1, <1>3, Zenon DEF Fresh

LEMMA InitAbsorbed == Init => IInv
<1> SUFFICES ASSUME Init PROVE IInv
  OBVIOUS
<1>1. PICK mode : hasher = [h \in {Origin} |-> NewHasher(mode)]
  BY Zenon DEF Init
<1>2. input = [h \in {Origin} |-> <<>>]
  BY DEF Init
<1>3. Origin \in Handle
  BY LengthAssumption
<1>4. InUse = {Origin} /\ DOMAIN input = {Origin}
  BY <1>1, <1>2 DEF InUse
<1>5. hasher[Origin] = NewHasher(mode) /\ input[Origin] = <<>>
  BY <1>1, <1>2
<1>6. Absorbed(hasher[Origin], input[Origin])
  BY <1>5, NewAbsorbed, Zenon
<1>7. hasher = [h \in InUse |-> hasher[h]]
  BY <1>1, <1>4
<1>8. input = [h \in InUse |-> input[h]]
  BY <1>2, <1>4
<1> QED BY <1>3, <1>4, <1>6, <1>7, <1>8 DEF IInv

LEMMA NextAbsorbed == IInv /\ [Next]_vars => IInv'
<1> SUFFICES ASSUME IInv, [Next]_vars PROVE IInv'
  OBVIOUS
<1>1. /\ InUse \subseteq Handle /\ DOMAIN input = InUse /\ DOMAIN hasher = InUse
      /\ hasher = [h \in InUse |-> hasher[h]]
      /\ input = [h \in InUse |-> input[h]]
      /\ \A h \in InUse : Absorbed(hasher[h], input[h])
  BY DEF IInv, InUse
<1>2. ASSUME NEW h \in InUse, NEW hs, NEW x, Absorbed(hs, x),
             hasher' = [hasher EXCEPT ![h] = hs], input' = [input EXCEPT ![h] = x]
      PROVE  IInv'
  <2>1. InUse' = InUse /\ DOMAIN input' = InUse
    BY <1>1, <1>2 DEF InUse
  <2>2. hasher' = [g \in InUse |-> hasher'[g]] /\ input' = [g \in InUse |-> input'[g]]
    BY <1>1, <1>2
  <2>3. \A g \in InUse : /\ hasher'[g] = IF g = h THEN hs ELSE hasher[g]
                         /\ input'[g] = IF g = h THEN x ELSE input[g]
    BY <1>1, <1>2
  <2>4. \A g \in InUse : Absorbed(hasher'[g], input'[g])
    BY <1>1, <1>2, <2>3, Zenon
  <2> QED BY <1>1, <2>1, <2>2, <2>4, Zenon DEF IInv
<1>3. ASSUME NEW h \in Handle, NEW n \in 1 .. MaxUpdate, Update(h, n) PROVE IInv'
  <2>1. h \in InUse
    BY <1>3 DEF Update
  <2>2. PICK hs, x, data : hs = hasher[h] /\ x = input[h] /\ data = Fresh(h, n)
    OBVIOUS
  <2>3. Absorbed(hs, x)
    BY <1>1, <2>1, <2>2
  <2>4. data \in Seq(Bytes)
    <3>1. input[h] \in Seq(Bytes)
      BY <2>2, <2>3, Zenon DEF Absorbed
    <3>2. n \in Nat
      BY LengthAssumption
    <3> QED BY <2>2, <3>1, <3>2, FreshBytes
  <2>5. Absorbed(HasherUpdate(hs, data), x \o data)
    BY <2>3, <2>4, UpdateAbsorbed
  <2>6. /\ hasher' = [hasher EXCEPT ![h] = HasherUpdate(hs, data)]
        /\ input' = [input EXCEPT ![h] = x \o data]
    BY <1>3, <2>2 DEF Update
  <2> QED BY <1>2, <2>1, <2>5, <2>6
<1>4. ASSUME NEW h \in Handle, NEW g \in Handle, Copy(h, g) PROVE IInv'
  <2>1. h \in InUse /\ g \notin InUse
    BY <1>4 DEF Copy
  <2>2. PICK hs, x : hs = hasher[h] /\ x = input[h]
    OBVIOUS
  <2>3. Absorbed(hs, x)
    BY <1>1, <2>1, <2>2
  <2>4. CopyOf(hs) = hs
    BY <2>3, CopyIsSame, Zenon DEF Absorbed
  <2>5. hasher' = Extend(hasher, g, hs) /\ input' = Extend(input, g, x)
    BY <1>4, <2>2, <2>4, Zenon DEF Copy
  <2>6. /\ hasher' = [f \in InUse \cup {g} |-> IF f = g THEN hs ELSE hasher[f]]
        /\ input' = [f \in InUse \cup {g} |-> IF f = g THEN x ELSE input[f]]
    BY <1>1, <2>5, Zenon DEF Extend
  <2>7. InUse' = InUse \cup {g} /\ DOMAIN input' = InUse \cup {g}
    BY <2>6 DEF InUse
  <2>8. hasher' = [f \in InUse' |-> hasher'[f]] /\ input' = [f \in InUse' |-> input'[f]]
    BY <2>6, <2>7
  <2>9. \A f \in InUse' : Absorbed(hasher'[f], input'[f])
    <3>1. ASSUME NEW f \in InUse' PROVE Absorbed(hasher'[f], input'[f])
      <4>1. CASE f \in InUse
        <5>1. hasher'[f] = hasher[f] /\ input'[f] = input[f]
          BY <2>1, <2>6, <2>7, <4>1
        <5> QED BY <1>1, <4>1, <5>1, Zenon
      <4>2. CASE f \notin InUse
        <5>1. hasher'[f] = hs /\ input'[f] = x
          BY <2>6, <2>7, <4>2
        <5> QED BY <2>3, <5>1, Zenon
      <4> QED BY <4>1, <4>2
    <3> QED BY <3>1
  <2>10. InUse' \subseteq Handle
    BY <1>1, <2>7
  <2> QED BY <2>7, <2>8, <2>9, <2>10, Zenon DEF IInv
<1>5. ASSUME NEW h \in Handle, Reset(h) PROVE IInv'
  <2>1. h \in InUse
    BY <1>5 DEF Reset
  <2>2. PICK mode : mode = hasher[h].mode
    OBVIOUS
  <2>3. hasher' = [hasher EXCEPT ![h] = NewHasher(mode)] /\ input' = [input EXCEPT ![h] = <<>>]
    BY <1>5, <2>2 DEF Reset
  <2> QED BY <1>2, <2>1, <2>3, NewAbsorbed
<1>6. CASE UNCHANGED vars
  <2>1. hasher' = hasher /\ input' = input
    BY <1>6 DEF vars
  <2> QED BY <1>1, <2>1, Zenon DEF IInv, InUse
<1> QED BY <1>3, <1>4, <1>5, <1>6 DEF Next

LEMMA AlwaysAbsorbed == Spec => []IInv
BY InitAbsorbed, NextAbsorbed, PTL DEF Spec

LEMMA AbsorbedIsOneShot == IInv => IncrementalIsOneShot
<1> SUFFICES ASSUME IInv, NEW h \in InUse
    PROVE  FinalOutput(hasher[h]) = RootOutput(hasher[h].mode, input[h])
  BY Zenon DEF IncrementalIsOneShot
<1>1. PICK hs, x, mode : hs = hasher[h] /\ x = input[h] /\ mode = hs.mode
  OBVIOUS
<1>2. x \in Seq(Bytes) /\ hs = HasherAt(mode, x)
  BY <1>1, Zenon DEF IInv, Absorbed
<1>3. FinalOutput(HasherAt(mode, x)) = RootOutput(mode, x)
  BY <1>2, HasherFinishes
<1> QED BY <1>1, <1>2, <1>3, Zenon

(* Whatever the program does with its hashers, for every block and chunk     *)
(* length and inputs of any length: a digest is taken from the root of the   *)
(* tree over the bytes absorbed since creation or the last reset, however    *)
(* they were cut into updates and whichever object they were absorbed by     *)
(* before a copy (Hasher.update, copy, reset, _final_output).                *)
THEOREM IncrementalCorrect == Spec => []IncrementalIsOneShot
BY AlwaysAbsorbed, AbsorbedIsOneShot, PTL

\* The last block of a nonempty input is in the buffer.
LEMMA BufferNotEmpty ==
  ASSUME NEW S, NEW x \in Seq(S), x # <<>>, NEW mode
  PROVE  \E k \in Nat : /\ HasherAt(mode, x) = HasherWith(mode, x, k)
                        /\ HasherAt(mode, x).chunk.buf # <<>>
<1>1. PICK len \in Nat : len = Len(x) /\ len > 0
  OBVIOUS
<1>2. PICK k \in Nat : Fits(len, ChunkLen, k)
  BY FitsExists, Lengths
<1>3. HasherAt(mode, x) = HasherWith(mode, x, k)
  BY <1>1, <1>2, HasherAtFits
<1>4. PICK chunk \in Seq(S) : chunk = Piece(x, ChunkLen, k) /\ Len(chunk) = len - k * ChunkLen
  <2>1. k * ChunkLen <= Len(x) /\ Len(x) <= (k + 1) * ChunkLen
    BY <1>1, <1>2, Zenon DEF Fits
  <2>2. \E t \in Seq(S) : t = Piece(x, ChunkLen, k) /\ Len(t) = Len(x) - k * ChunkLen
    BY <2>1, Lengths, PieceLength
  <2> QED BY <1>1, <2>2
<1>5. PICK c \in Nat : c = Len(chunk) /\ c > 0
  <2>1. PICK b \in Nat : b = k * ChunkLen
    BY Lengths
  <2>2. b <= len /\ len # b /\ Len(chunk) = len - b
    BY <1>1, <1>2, <1>4, <2>1 DEF Fits
  <2>3. Len(chunk) > 0 /\ Len(chunk) \in Nat
    BY <1>1, <2>2
  <2> QED BY <2>3
<1>6. PICK j \in Nat : Fits(c, BlockLen, j)
  BY <1>5, FitsExists, Lengths
<1>7. ChunkAt(mode, chunk, k) = ChunkWith(mode, chunk, k, j)
  BY <1>5, <1>6, ChunkAtFits
<1>8. PICK block \in Seq(S) : block = Piece(chunk, BlockLen, j) /\ Len(block) = c - j * BlockLen
  <2>1. j * BlockLen <= Len(chunk) /\ Len(chunk) <= (j + 1) * BlockLen
    BY <1>5, <1>6, Zenon DEF Fits
  <2>2. chunk \in Seq(S)
    BY <1>4
  <2>3. \E t \in Seq(S) : t = Piece(chunk, BlockLen, j) /\ Len(t) = Len(chunk) - j * BlockLen
    BY <2>1, <2>2, Lengths, PieceLength
  <2> QED BY <1>5, <2>3
<1>9. block # <<>>
  <2>1. PICK b \in Nat : b = j * BlockLen
    BY Lengths
  <2>2. b <= c /\ c # b /\ Len(block) = c - b
    BY <1>5, <1>6, <1>8, <2>1 DEF Fits
  <2> QED BY <1>5, <2>2
<1>10. HasherWith(mode, x, k).chunk = ChunkAt(mode, chunk, k)
  BY <1>4 DEF HasherWith
<1>11. ChunkWith(mode, chunk, k, j).buf = block
  BY <1>8 DEF ChunkWith
<1> QED BY <1>3, <1>7, <1>9, <1>10, <1>11, Zenon

LEMMA CounterIs ==
  ASSUME NEW S, NEW x \in Seq(S), NEW mode
  PROVE  HasherAt(mode, x).stack = Subtrees(mode, x)[HasherAt(mode, x).chunk.counter][0]
<1>1. PICK k : k = Pieces(Len(x), ChunkLen) - 1
  OBVIOUS
<1>2. HasherAt(mode, x) = HasherWith(mode, x, k)
  BY <1>1, Zenon DEF HasherAt
<1>3. HasherWith(mode, x, k).stack = Subtrees(mode, x)[k][0]
  BY DEF HasherWith
<1>4. HasherWith(mode, x, k).chunk.counter = k
  BY DEF HasherWith, ChunkAt, ChunkWith
<1> QED BY <1>2, <1>3, <1>4, Zenon

LEMMA AbsorbedIsCounter == IInv => StackIsBinaryCounter
<1> SUFFICES ASSUME IInv, NEW h \in InUse, NEW hs, NEW x, NEW mode,
                    hs = hasher[h], x = input[h], mode = hs.mode
    PROVE  /\ hs.stack = Subtrees(mode, x)[hs.chunk.counter][0]
           /\ x # <<>> => hs.chunk.buf # <<>>
  BY Zenon DEF StackIsBinaryCounter
<1>1. x \in Seq(Bytes) /\ hs = HasherAt(mode, x)
  BY Zenon DEF IInv, Absorbed
<1>2. HasherAt(mode, x).stack = Subtrees(mode, x)[HasherAt(mode, x).chunk.counter][0]
  BY <1>1, CounterIs
<1>3. x # <<>> => HasherAt(mode, x).chunk.buf # <<>>
  BY <1>1, BufferNotEmpty
<1> QED BY <1>1, <1>2, <1>3, Zenon

(* The stack of chaining values is a binary counter of the finished chunks,  *)
(* and the last block of a nonempty input is never compressed before a       *)
(* digest or more data asks for it (_push_cv and both update methods).       *)
THEOREM StackCorrect == Spec => []StackIsBinaryCounter
BY AlwaysAbsorbed, AbsorbedIsCounter, PTL

LEMMA DigestIsPart == DigestIsStream
<1> SUFFICES ASSUME NEW o, NEW length \in 0 .. MaxOutput, NEW seek \in 0 .. MaxOutput
    PROVE  RootOutputBytes(o, seek, length) = [k \in 1 .. length |-> StreamByte(o, seek + k - 1)]
  BY Zenon DEF DigestIsStream
<1>1. length \in Nat /\ seek \in Nat
  BY MaxOutputAssumption
<1> QED BY <1>1, RootOutputBytesIs

(* For every block length: digest(length, seek) is the bytes from seek on of *)
(* one output stream of the hasher (_Output.root_output_bytes).              *)
THEOREM DigestCorrect == Spec => []DigestIsStream
BY DigestIsPart, PTL
=============================================================================
