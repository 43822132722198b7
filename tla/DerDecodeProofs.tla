--------------------------- MODULE DerDecodeProofs ----------------------------
(***************************************************************************)
(* The decoder of asn1.py stays inside its input and inside the nesting    *)
(* bound, accepts the DER encodings and nothing else, and is the inverse   *)
(* of the encoders: for every input, nesting bound and size of the length  *)
(* field.                                                                  *)
(***************************************************************************)
EXTENDS DerGrammar, SequenceTheorems, WellFoundedInduction, TLAPS

\* A set of natural numbers has a least one.
LEMMA Least ==
  ASSUME NEW S, S \subseteq Nat, S # {}
  PROVE  \E k \in S : \A j \in S : k <= j
<1>1. IsWellFoundedOn(OpToRel(<, Nat), Nat)
  BY NatLessThanWellFounded
<1>2. PICK k \in S : \A j \in S : ~(<<j, k>> \in OpToRel(<, Nat))
  BY <1>1, WFMin
<1>3. \A j \in S : ~(j < k)
  BY <1>2 DEF OpToRel
<1> QED BY <1>3

\* What holds of a number when it holds of all smaller ones holds of all.
LEMMA SmallerFirst ==
  ASSUME NEW T, \A n \in Nat : (\A k \in 0 .. n - 1 : k \in T) => n \in T
  PROVE  \A n \in Nat : n \in T
<1> SUFFICES ASSUME Nat \ T # {} PROVE FALSE
  OBVIOUS
<1>1. PICK m \in Nat \ T : \A j \in Nat \ T : m <= j
  BY Least
<1>2. \A k \in 0 .. m - 1 : k \in T
  BY <1>1
<1> QED BY <1>1, <1>2

\* What holds of 0 and of each successor holds of all.
LEMMA CountUp ==
  ASSUME NEW T, 0 \in T, \A n \in Nat : n \in T => n + 1 \in T
  PROVE  \A n \in Nat : n \in T
<1>1. ASSUME NEW n \in Nat, \A k \in 0 .. n - 1 : k \in T PROVE n \in T
  <2>1. CASE n = 0
    BY <2>1
  <2>2. CASE n # 0
    <3>1. n - 1 \in Nat /\ n - 1 \in 0 .. n - 1 /\ (n - 1) + 1 = n
      BY <2>2
    <3>2. n - 1 \in T
      BY <1>1, <3>1
    <3> QED BY <3>1, <3>2
  <2> QED BY <2>1, <2>2
<1> QED BY <1>1, SmallerFirst

\* D is an initial part of the natural numbers, and G[f, n] depends on f below n only.
Recurs(D, U, G) ==
  /\ D \subseteq Nat /\ \A n \in D : \A k \in 0 .. n : k \in D
  /\ G \in [[D -> U] \X D -> U]
  /\ \A f, g \in [D -> U] : \A n \in D :
       (\A k \in 0 .. n - 1 : f[k] = g[k]) => G[f, n] = G[g, n]

\* f follows the recursion up to n.
Follows(D, U, G, f, n) == f \in [D -> U] /\ \A k \in 0 .. n : k \in D => f[k] = G[f, k]

\* Functions that follow the recursion agree.
LEMMA FollowersAgree ==
  ASSUME NEW D, NEW U, NEW G, Recurs(D, U, G), NEW n \in D, NEW f, NEW g,
         Follows(D, U, G, f, n), Follows(D, U, G, g, n)
  PROVE  \A k \in 0 .. n : f[k] = g[k]
<1> DEFINE T == {k \in Nat : k <= n => f[k] = g[k]}
<1>1. /\ n \in Nat /\ \A k \in 0 .. n : k \in D
  BY DEF Recurs
<1>2. ASSUME NEW m \in Nat, \A k \in 0 .. m - 1 : k \in T PROVE m \in T
  <2>1. ASSUME m <= n PROVE f[m] = g[m]
    <3>1. m \in 0 .. n
      BY <1>1, <1>2, <2>1
    <3>2. m \in D
      BY <1>1, <3>1
    <3>3. \A k \in 0 .. m - 1 : f[k] = g[k]
      <4> TAKE k \in 0 .. m - 1
      <4>1. k \in Nat /\ k <= n
        BY <1>1, <1>2, <2>1
      <4>2. k \in T
        BY <1>2
      <4> QED BY <4>1, <4>2
    <3>4. f \in [D -> U] /\ g \in [D -> U] /\ f[m] = G[f, m] /\ g[m] = G[g, m]
      BY <3>1, <3>2, Zenon DEF Follows
    <3>5. G[f, m] = G[g, m]
      BY <3>2, <3>3, <3>4, Zenon DEF Recurs
    <3> QED BY <3>4, <3>5, Zenon
  <2> QED BY <1>2, <2>1
<1>. HIDE DEF T
<1>3. \A m \in Nat : m \in T
  BY <1>2, SmallerFirst
<1> QED BY <1>1, <1>3 DEF T

\* A function that follows it up to n can be continued.
LEMMA FollowOn ==
  ASSUME NEW D, NEW U, NEW G, Recurs(D, U, G), NEW n \in Nat, NEW f, Follows(D, U, G, f, n)
  PROVE  \E g : Follows(D, U, G, g, n + 1)
<1>1. CASE n + 1 \in D
  <2> DEFINE g == [k \in D |-> IF k = n + 1 THEN G[f, n + 1] ELSE f[k]]
  <2>1. f \in [D -> U]
    BY DEF Follows
  <2>2. G[f, n + 1] \in U
    BY <1>1, <2>1 DEF Recurs
  <2>3. g \in [D -> U]
    BY <2>1, <2>2
  <2>4. \A k \in D : k # n + 1 => g[k] = f[k]
    OBVIOUS
  <2>5. g[n + 1] = G[f, n + 1]
    BY <1>1
  <2>. HIDE DEF g
  <2>6. ASSUME NEW k \in 0 .. n + 1, k \in D PROVE g[k] = G[g, k]
    <3>1. \A i \in 0 .. k - 1 : i \in 0 .. k /\ i # n + 1
      OBVIOUS
    <3>2. \A i \in 0 .. k : i \in D
      BY <2>6 DEF Recurs
    <3>3. \A i \in 0 .. k - 1 : f[i] = g[i]
      BY <2>4, <3>1, <3>2
    <3>4. G[f, k] = G[g, k]
      BY <2>1, <2>3, <2>6, <3>3, Zenon DEF Recurs
    <3>5. CASE k = n + 1
      BY <2>5, <3>4, <3>5
    <3>6. CASE k # n + 1
      <4>1. k \in 0 .. n
        BY <2>6, <3>6
      <4>2. f[k] = G[f, k]
        BY <2>6, <4>1, Zenon DEF Follows
      <4> QED BY <2>4, <2>6, <3>4, <3>6, <4>2, Zenon
    <3> QED BY <3>5, <3>6
  <2> QED BY <2>3, <2>6, Zenon DEF Follows
<1>2. CASE n + 1 \notin D
  <2>1. \A k \in 0 .. n + 1 : k \in D => k \in 0 .. n
    BY <1>2
  <2> QED BY <2>1, Zenon DEF Follows
<1> QED BY <1>1, <1>2

\* A function satisfies the recursion.
HasSolution(D, U, G) == \E f \in [D -> U] : \A n \in D : f[n] = G[f, n]

\* Such a recursion defines a function.
LEMMA Recursion ==
  ASSUME NEW D, NEW U, NEW G, U # {}, Recurs(D, U, G)
  PROVE  HasSolution(D, U, G)
<1>a. PICK u : u \in U
  OBVIOUS
<1>1. \A n \in D : n \in Nat /\ \A k \in 0 .. n : k \in D
  BY DEF Recurs
<1>2. \A n \in Nat : \E f : Follows(D, U, G, f, n)
  <2> DEFINE T == {n \in Nat : \E f : Follows(D, U, G, f, n)}
  <2>1. 0 \in T
    <3> DEFINE e == [k \in D |-> u]
               g == [k \in D |-> IF k = 0 THEN G[e, 0] ELSE u]
    <3>1. e \in [D -> U]
      BY <1>a
    <3>2. 0 \in D => G[e, 0] \in U
      BY <3>1 DEF Recurs
    <3>3. g \in [D -> U]
      BY <1>a, <3>2
    <3>4. 0 \in D => g[0] = G[e, 0]
      OBVIOUS
    <3>. HIDE DEF e, g
    <3>5. \A k \in 0 .. 0 - 1 : e[k] = g[k]
      OBVIOUS
    <3>6. 0 \in D => G[e, 0] = G[g, 0]
      BY <3>1, <3>3, <3>5, Zenon DEF Recurs
    <3>7. \A k \in 0 .. 0 : k = 0
      OBVIOUS
    <3>8. Follows(D, U, G, g, 0)
      BY <3>3, <3>4, <3>6, <3>7, Zenon DEF Follows
    <3> QED BY <3>8
  <2>2. ASSUME NEW n \in Nat, n \in T PROVE n + 1 \in T
    <3>1. n + 1 \in Nat
      OBVIOUS
    <3>2. \E f : Follows(D, U, G, f, n)
      BY <2>2
    <3>3. \E f : Follows(D, U, G, f, n + 1)
      BY <3>2, FollowOn
    <3> QED BY <3>1, <3>3
  <2>. HIDE DEF T
  <2>3. \A n \in Nat : n \in T
    BY <2>1, <2>2, CountUp
  <2> QED BY <2>3 DEF T
<1> DEFINE h(n) == CHOOSE f : Follows(D, U, G, f, n)
           F    == [n \in D |-> h(n)[n]]
<1>3. \A n \in D : Follows(D, U, G, h(n), n)
  BY <1>1, <1>2, Zenon
<1>. HIDE DEF h
<1>4. \A n \in D : n \in 0 .. n
  BY <1>1
<1>5. \A n \in D : h(n) \in [D -> U] /\ h(n)[n] = G[h(n), n]
  BY <1>3, <1>4, Zenon DEF Follows
<1>6. \A n \in D : h(n)[n] \in U
  <2> TAKE n \in D
  <2>1. PICK a : a = h(n)
    OBVIOUS
  <2>2. a \in [D -> U]
    BY <1>5, <2>1
  <2> QED BY <2>1, <2>2
<1>7. F \in [D -> U]
  BY <1>6, Zenon
<1>8. \A n \in D : F[n] = h(n)[n]
  OBVIOUS
<1>. HIDE DEF F
<1>9. ASSUME NEW n \in D PROVE F[n] = G[F, n]
  <2>1. \A k \in 0 .. n - 1 : h(n)[k] = F[k]
    <3> TAKE k \in 0 .. n - 1
    <3>1. n \in Nat
      BY <1>1, <1>9
    <3>2. k \in 0 .. n /\ \A i \in 0 .. k : i \in 0 .. n
      BY <3>1
    <3>3. k \in D /\ k \in 0 .. k
      BY <1>1, <1>4, <1>9, <3>2
    <3>4. Follows(D, U, G, h(n), k)
      BY <1>3, <1>9, <3>2, Zenon DEF Follows
    <3>5. PICK a, b : a = h(n) /\ b = h(k)
      OBVIOUS
    <3>6. Follows(D, U, G, a, k) /\ Follows(D, U, G, b, k)
      BY <1>3, <3>3, <3>4, <3>5, Zenon
    <3>7. \A i \in 0 .. k : a[i] = b[i]
      BY <3>3, <3>6, FollowersAgree
    <3> QED BY <1>8, <3>3, <3>5, <3>7, Zenon
  <2>2. G[h(n), n] = G[F, n]
    BY <1>5, <1>7, <1>9, <2>1, Zenon DEF Recurs
  <2> QED BY <1>5, <1>8, <1>9, <2>2, Zenon
<1> QED BY <1>7, <1>9, Zenon DEF HasSolution

-----------------------------------------------------------------------------
(* Numbers and their octets.                                                 *)

\* Strings of octets are strings of numbers.
LEMMA OctetsAreNumbers ==
  ASSUME NEW s \in Seq(Octet)
  PROVE  /\ s \in Seq(Int) /\ s \in Seq(Nat) /\ Len(s) \in Nat
         /\ \A k \in 1 .. Len(s) : s[k] \in 0 .. 255
<1>1. Octet \subseteq Int /\ Octet \subseteq Nat
  BY DEF Octet
<1>2. \A k \in 1 .. Len(s) : s[k] \in Octet
  BY ElementOfSeq
<1>3. \A k \in 1 .. Len(s) : s[k] \in 0 .. 255
  BY <1>2 DEF Octet
<1>4. s \in Seq(Int)
  BY <1>1, SeqMonotonic
<1>5. s \in Seq(Nat)
  BY <1>1, SeqMonotonic
<1> QED BY <1>3, <1>4, <1>5

\* v holds the values of the beginnings of s.
IsValues(v, first, s) ==
  /\ v \in [0 .. Len(s) -> Int] /\ v[0] = first
  /\ \A k \in 1 .. Len(s) : v[k] = v[k - 1] * 256 + s[k]

\* The recursion of BytesAfter is defined.
LEMMA ValuesExist ==
  ASSUME NEW s \in Seq(Int), NEW first \in Int
  PROVE  \E v : IsValues(v, first, s) /\ BytesAfter(first, s) = v[Len(s)]
<1> DEFINE D == 0 .. Len(s)
           B(f, k) == IF k = 0 THEN first ELSE f[k - 1] * 256 + s[k]
           G == [x \in [D -> Int] \X D |-> B(x[1], x[2])]
           W == CHOOSE f : f = [k \in D |-> B(f, k)]
<1>1. \A k \in D : k # 0 => k - 1 \in 0 .. k - 1 /\ k - 1 \in D /\ k \in 1 .. Len(s)
  OBVIOUS
<1>2. \A f \in [D -> Int], k \in D : B(f, k) \in Int
  BY <1>1
<1>3. \A f \in [D -> Int], k \in D : G[f, k] = B(f, k)
  BY Zenon
<1>4. \A f, g \in [D -> Int] : \A n \in D :
        (\A k \in 0 .. n - 1 : f[k] = g[k]) => B(f, n) = B(g, n)
  BY <1>1
<1>5. G \in [[D -> Int] \X D -> Int]
  BY <1>2
<1>6. Recurs(D, Int, G)
  <2>. HIDE DEF G, B
  <2>1. D \subseteq Nat /\ \A n \in D : \A k \in 0 .. n : k \in D
    OBVIOUS
  <2>. HIDE DEF D
  <2>2. \A f, g \in [D -> Int] : \A n \in D :
          (\A k \in 0 .. n - 1 : f[k] = g[k]) => G[f, n] = G[g, n]
    <3> TAKE f, g \in [D -> Int]
    <3> TAKE n \in D
    <3> HAVE \A k \in 0 .. n - 1 : f[k] = g[k]
    <3>1. B(f, n) = B(g, n)
      BY <1>4, Zenon
    <3>2. G[f, n] = B(f, n) /\ G[g, n] = B(g, n)
      BY <1>3, Zenon
    <3> QED BY <3>1, <3>2, Zenon
  <2> QED BY <2>1, <2>2, <1>5, Zenon DEF Recurs
<1>7. PICK v \in [D -> Int] : \A n \in D : v[n] = B(v, n)
  <2>. HIDE DEF G, D, B
  <2>1. \E v \in [D -> Int] : \A n \in D : v[n] = G[v, n]
    <3>1. Int # {}
      OBVIOUS
    <3>2. HasSolution(D, Int, G)
      BY <1>6, <3>1, Recursion, Zenon
    <3> QED BY <3>2, Zenon DEF HasSolution
  <2> QED BY <2>1, <1>3, Zenon
<1>8. W = [k \in D |-> B(W, k)]
  <2>1. v = [k \in D |-> B(v, k)]
    <3>. HIDE DEF D, B
    <3> QED BY <1>7
  <2>. HIDE DEF D, B
  <2> QED BY <2>1, Zenon
<1>9. PICK w : w = W
  OBVIOUS
<1>10. BytesAfter(first, s) = w[Len(s)]
  BY <1>9, Zenon DEF BytesAfter
<1>11. w = [k \in D |-> B(w, k)]
  BY <1>8, <1>9, Zenon
<1>12. \A k \in D : w[k] \in Int
  <2> DEFINE T == {k \in Nat : k \in D => w[k] \in Int}
  <2>1. 0 \in T
    BY <1>11
  <2>2. ASSUME NEW n \in Nat, n \in T PROVE n + 1 \in T
    <3>1. ASSUME n + 1 \in D PROVE w[n + 1] \in Int
      <4>1. n \in D /\ n + 1 \in 1 .. Len(s)
        BY <2>2, <3>1
      <4>2. w[n] \in Int /\ s[n + 1] \in Int
        BY <2>2, <4>1
      <4>3. w[n + 1] = B(w, n + 1)
        BY <1>11, <3>1, Zenon
      <4>4. n + 1 # 0 /\ (n + 1) - 1 = n
        BY <2>2
      <4>5. w[n + 1] = w[n] * 256 + s[n + 1]
        BY <4>3, <4>4, Zenon
      <4> QED BY <4>2, <4>5
    <3> QED BY <2>2, <3>1
  <2>. HIDE DEF T
  <2>3. \A k \in Nat : k \in T
    BY <2>1, <2>2, CountUp
  <2> QED BY <2>3 DEF T
<1>13. IsValues(w, first, s)
  <2>1. w \in [D -> Int]
    <3>. HIDE DEF B, D
    <3> QED BY <1>11, <1>12
  <2>2. \A k \in D : w[k] = B(w, k)
    <3>. HIDE DEF B, D
    <3> QED BY <1>11
  <2>3. w[0] = first
    BY <2>2
  <2>4. \A k \in 1 .. Len(s) : w[k] = w[k - 1] * 256 + s[k]
    BY <2>2
  <2> QED BY <2>1, <2>3, <2>4, Zenon DEF IsValues
<1> QED BY <1>10, <1>13

\* The value after one octet more.
LEMMA BytesFront ==
  ASSUME NEW s \in Seq(Int), NEW first \in Int, NEW x \in Int
  PROVE  /\ BytesAfter(first, s) \in Int
         /\ BytesAfter(first, Append(s, x)) = BytesAfter(first, s) * 256 + x
         /\ BytesAfter(first, <<>>) = first
<1> DEFINE t == Append(s, x)
           n == Len(s)
<1>1. /\ t \in Seq(Int) /\ Len(t) = n + 1 /\ n \in Nat /\ t[n + 1] = x
      /\ \A k \in 1 .. n : t[k] = s[k]
  OBVIOUS
<1>2. PICK v : IsValues(v, first, s) /\ BytesAfter(first, s) = v[n]
  BY ValuesExist, Zenon
<1>. HIDE DEF t
<1>3. PICK w : IsValues(w, first, t) /\ BytesAfter(first, t) = w[n + 1]
  BY <1>1, ValuesExist, Zenon
<1>. HIDE DEF n
<1>4. /\ v \in [0 .. n -> Int] /\ v[0] = first
      /\ \A k \in 1 .. n : v[k] = v[k - 1] * 256 + s[k]
  BY <1>2, Zenon DEF IsValues, n
<1>5. /\ w[0] = first
      /\ \A k \in 1 .. n + 1 : w[k] = w[k - 1] * 256 + t[k]
  BY <1>1, <1>3, Zenon DEF IsValues
<1>6. \A k \in Nat : k \in {i \in Nat : i <= n => w[i] = v[i]}
  <2> DEFINE T == {i \in Nat : i <= n => w[i] = v[i]}
  <2>1. 0 \in T
    BY <1>4, <1>5
  <2>2. ASSUME NEW k \in Nat, k \in T PROVE k + 1 \in T
    <3>1. ASSUME k + 1 <= n PROVE w[k + 1] = v[k + 1]
      <4>1. k + 1 \in 1 .. n /\ k + 1 \in 1 .. n + 1 /\ (k + 1) - 1 = k /\ k <= n
        BY <1>1, <2>2, <3>1
      <4>2. w[k] = v[k] /\ t[k + 1] = s[k + 1]
        BY <1>1, <2>2, <4>1
      <4> QED BY <1>4, <1>5, <4>1, <4>2
    <3> QED BY <2>2, <3>1
  <2>. HIDE DEF T
  <2>3. \A k \in Nat : k \in T
    BY <2>1, <2>2, CountUp
  <2> QED BY <2>3 DEF T
<1>7. w[n] = v[n] /\ v[n] \in Int
  BY <1>1, <1>4, <1>6
<1>8. w[n + 1] = w[n] * 256 + x
  BY <1>1, <1>5
<1>9. BytesAfter(first, <<>>) = first
  <2>1. PICK u : IsValues(u, first, <<>>) /\ BytesAfter(first, <<>>) = u[Len(<<>>)]
    <3>1. <<>> \in Seq(Int)
      OBVIOUS
    <3> QED BY <3>1, ValuesExist, Zenon
  <2> QED BY <2>1 DEF IsValues
<1> QED BY <1>2, <1>3, <1>7, <1>8, <1>9 DEF t

\* The first octet may go to the value before it.
LEMMA BytesTail ==
  ASSUME NEW s \in Seq(Int), s # <<>>, NEW first \in Int
  PROVE  BytesAfter(first, s) = BytesAfter(first * 256 + s[1], Tail(s))
<1> DEFINE t == Tail(s)
           n == Len(t)
           next == first * 256 + s[1]
<1>1. /\ t \in Seq(Int) /\ Len(s) = n + 1 /\ n \in Nat
      /\ \A k \in 1 .. n : t[k] = s[k + 1]
  OBVIOUS
<1>2. next \in Int
  OBVIOUS
<1>. HIDE DEF t, next
<1>3. PICK v : IsValues(v, first, s) /\ BytesAfter(first, s) = v[n + 1]
  BY <1>1, ValuesExist, Zenon
<1>4. PICK w : IsValues(w, next, t) /\ BytesAfter(next, t) = w[n]
  BY <1>1, <1>2, ValuesExist, Zenon
<1>. HIDE DEF n
<1>5. /\ v \in [0 .. n + 1 -> Int] /\ v[0] = first
      /\ \A k \in 1 .. n + 1 : v[k] = v[k - 1] * 256 + s[k]
  BY <1>1, <1>3, Zenon DEF IsValues
<1>6. /\ w \in [0 .. n -> Int] /\ w[0] = next
      /\ \A k \in 1 .. n : w[k] = w[k - 1] * 256 + t[k]
  BY <1>4, Zenon DEF IsValues, n
<1>7. \A k \in Nat : k \in {i \in Nat : i <= n => w[i] = v[i + 1]}
  <2> DEFINE T == {i \in Nat : i <= n => w[i] = v[i + 1]}
  <2>1. 0 \in T
    <3>1. 1 \in 1 .. n + 1
      BY <1>1
    <3>2. v[1] = v[0] * 256 + s[1]
      BY <1>5, <3>1
    <3> QED BY <1>5, <1>6, <3>2 DEF next
  <2>2. ASSUME NEW k \in Nat, k \in T PROVE k + 1 \in T
    <3>1. ASSUME k + 1 <= n PROVE w[k + 1] = v[(k + 1) + 1]
      <4>1. k + 1 \in 1 .. n /\ (k + 1) + 1 \in 1 .. n + 1 /\ (k + 1) - 1 = k /\ k <= n
            /\ ((k + 1) + 1) - 1 = k + 1
        BY <1>1, <2>2, <3>1
      <4>2. w[k] = v[k + 1] /\ t[k + 1] = s[(k + 1) + 1]
        BY <1>1, <2>2, <4>1
      <4>3. w[k + 1] = w[k] * 256 + t[k + 1]
        BY <1>6, <4>1
      <4>4. v[(k + 1) + 1] = v[k + 1] * 256 + s[(k + 1) + 1]
        BY <1>5, <4>1
      <4> QED BY <4>2, <4>3, <4>4
    <3> QED BY <2>2, <3>1
  <2>. HIDE DEF T
  <2>3. \A k \in Nat : k \in T
    BY <2>1, <2>2, CountUp
  <2> QED BY <2>3 DEF T
<1>8. w[n] = v[n + 1]
  BY <1>1, <1>7
<1> QED BY <1>3, <1>4, <1>8 DEF t, next

\* Octets that are read after a larger value give a larger one.
LEMMA BytesMonotone ==
  ASSUME NEW s \in Seq(Octet), NEW x \in Int, NEW y \in Int
  PROVE  /\ x < y => BytesAfter(x, s) < BytesAfter(y, s)
         /\ x >= 0 => BytesAfter(x, s) >= x
<1> DEFINE n == Len(s)
<1>1. s \in Seq(Int) /\ n \in Nat /\ \A k \in 1 .. n : s[k] \in 0 .. 255
  BY OctetsAreNumbers
<1>2. PICK v : IsValues(v, x, s) /\ BytesAfter(x, s) = v[n]
  BY <1>1, ValuesExist, Zenon
<1>3. PICK w : IsValues(w, y, s) /\ BytesAfter(y, s) = w[n]
  BY <1>1, ValuesExist, Zenon
<1>4. /\ v \in [0 .. n -> Int] /\ v[0] = x
      /\ \A k \in 1 .. n : v[k] = v[k - 1] * 256 + s[k]
  BY <1>2, Zenon DEF IsValues
<1>5. /\ w \in [0 .. n -> Int] /\ w[0] = y
      /\ \A k \in 1 .. n : w[k] = w[k - 1] * 256 + s[k]
  BY <1>3, Zenon DEF IsValues
<1>. HIDE DEF n
<1>6. \A k \in Nat : k <= n => (x < y => v[k] < w[k]) /\ (x >= 0 => v[k] >= x)
  <2> DEFINE T == {i \in Nat : i <= n => (x < y => v[i] < w[i]) /\ (x >= 0 => v[i] >= x)}
  <2>1. 0 \in T
    BY <1>4, <1>5
  <2>2. ASSUME NEW k \in Nat, k \in T PROVE k + 1 \in T
    <3>1. ASSUME k + 1 <= n
          PROVE  (x < y => v[k + 1] < w[k + 1]) /\ (x >= 0 => v[k + 1] >= x)
      <4>1. k + 1 \in 1 .. n /\ (k + 1) - 1 = k /\ k \in 0 .. n
        BY <1>1, <2>2, <3>1
      <4>2. (x < y => v[k] < w[k]) /\ (x >= 0 => v[k] >= x)
        BY <2>2, <4>1
      <4>3. v[k] \in Int /\ w[k] \in Int /\ s[k + 1] \in 0 .. 255
        BY <1>1, <1>4, <1>5, <4>1
      <4>4. v[k + 1] = v[k] * 256 + s[k + 1] /\ w[k + 1] = w[k] * 256 + s[k + 1]
        BY <1>4, <1>5, <4>1
      <4>5. PICK a, b, c, d, o : /\ a = v[k] /\ b = w[k] /\ o = s[k + 1]
                                 /\ c = v[k + 1] /\ d = w[k + 1]
        OBVIOUS
      <4>. HIDE DEF n
      <4>6. a \in Int /\ b \in Int /\ o \in 0 .. 255 /\ c = a * 256 + o /\ d = b * 256 + o
        BY <4>3, <4>4, <4>5
      <4>7. (x < y => a < b) /\ (x >= 0 => a >= x)
        BY <4>2, <4>5
      <4>8. (x < y => c < d) /\ (x >= 0 => c >= x)
        BY <4>6, <4>7
      <4> QED BY <4>5, <4>8, Zenon
    <3> QED BY <2>2, <3>1
  <2>. HIDE DEF T
  <2>3. \A k \in Nat : k \in T
    BY <2>1, <2>2, CountUp
  <2> QED BY <2>3 DEF T
<1>7. (x < y => v[n] < w[n]) /\ (x >= 0 => v[n] >= x)
  BY <1>1, <1>6
<1> QED BY <1>2, <1>3, <1>7

\* The bases of lengths and integers, and of arcs.
DigitBase == {128, 256}

\* Division by a base of the digits.
LEMMA Divided ==
  ASSUME NEW b \in DigitBase, NEW n \in Nat
  PROVE  /\ n \div b \in Nat /\ n % b \in 0 .. b - 1 /\ n = (n \div b) * b + (n % b)
         /\ n >= b => n \div b \in 1 .. n - 1
         /\ n < b => n % b = n
         /\ b \in Nat /\ b > 1
<1>1. CASE b = 128
  <2>1. /\ n \div 128 \in Nat /\ n % 128 \in 0 .. 128 - 1 /\ n = (n \div 128) * 128 + (n % 128)
        /\ n >= 128 => n \div 128 \in 1 .. n - 1
        /\ n < 128 => n % 128 = n
    OBVIOUS
  <2> QED BY <1>1, <2>1
<1>2. CASE b = 256
  <2>1. /\ n \div 256 \in Nat /\ n % 256 \in 0 .. 256 - 1 /\ n = (n \div 256) * 256 + (n % 256)
        /\ n >= 256 => n \div 256 \in 1 .. n - 1
        /\ n < 256 => n % 256 = n
    OBVIOUS
  <2> QED BY <1>2, <2>1
<1> QED BY <1>1, <1>2 DEF DigitBase

\* The recursion of Digits is defined.
LEMMA DigitsExist ==
  ASSUME NEW b \in DigitBase
  PROVE  \E d : \A n \in Nat : /\ Digits(n, b) = d[n]
                               /\ d[n] = IF n < b THEN <<n>> ELSE Append(d[n \div b], n % b)
<1> DEFINE B(f, k) == IF k < b THEN <<k>> ELSE Append(f[k \div b], k % b)
           U == Seq(Int)
           D == Nat
           G == [x \in [D -> U] \X D |-> B(x[1], x[2])]
           W == CHOOSE f : f = [k \in D |-> B(f, k)]
<1>1. \A k \in Nat : k % b \in Int /\ k \div b \in Nat /\ (~(k < b) => k \div b \in 0 .. k - 1)
  <2> TAKE k \in Nat
  <2>1. /\ k \div b \in Nat /\ k % b \in 0 .. b - 1 /\ b \in Nat
        /\ k >= b => k \div b \in 1 .. k - 1
    BY Divided
  <2> QED BY <2>1
<1>2. \A f \in [D -> U], k \in D : B(f, k) \in U
  <2> TAKE f \in [D -> U], k \in D
  <2>1. f[k \div b] \in U /\ k % b \in Int
    BY <1>1
  <2>2. Append(f[k \div b], k % b) \in U
    BY <2>1, AppendProperties
  <2>3. <<k>> \in U
    OBVIOUS
  <2> QED BY <2>2, <2>3
<1>. HIDE DEF U
<1>4. \A f, g \in [D -> U] : \A n \in D :
        (\A k \in 0 .. n - 1 : f[k] = g[k]) => B(f, n) = B(g, n)
  <2> TAKE f, g \in [D -> U]
  <2> TAKE n \in D
  <2> HAVE \A k \in 0 .. n - 1 : f[k] = g[k]
  <2>1. ~(n < b) => n \div b \in 0 .. n - 1
    BY <1>1
  <2>2. ~(n < b) => f[n \div b] = g[n \div b]
    BY <2>1, Zenon
  <2> QED BY <2>2, Zenon
<1>10. \A n \in D : Digits(n, b) = W[n]
  BY Zenon DEF Digits
<1>11. ASSUME NEW d, NEW n \in D, d[n] = B(d, n)
       PROVE  d[n] = IF n < b THEN <<n>> ELSE Append(d[n \div b], n % b)
  BY <1>11
<1>. HIDE DEF B, D
<1>3. \A f \in [D -> U], k \in D : G[f, k] = B(f, k)
  BY Zenon
<1>5. G \in [[D -> U] \X D -> U]
  BY <1>2, Zenon
<1>6. Recurs(D, U, G)
  <2>. HIDE DEF G
  <2>1. D \subseteq Nat /\ \A n \in D : \A k \in 0 .. n : k \in D
    BY DEF D
  <2>2. \A f, g \in [D -> U] : \A n \in D :
          (\A k \in 0 .. n - 1 : f[k] = g[k]) => G[f, n] = G[g, n]
    <3> TAKE f, g \in [D -> U]
    <3> TAKE n \in D
    <3> HAVE \A k \in 0 .. n - 1 : f[k] = g[k]
    <3>1. B(f, n) = B(g, n)
      BY <1>4, Zenon
    <3>2. G[f, n] = B(f, n) /\ G[g, n] = B(g, n)
      BY <1>3, Zenon
    <3> QED BY <3>1, <3>2, Zenon
  <2> QED BY <2>1, <2>2, <1>5, Zenon DEF Recurs
<1>7. PICK v \in [D -> U] : \A n \in D : v[n] = B(v, n)
  <2>. HIDE DEF G
  <2>1. U # {}
    <3>1. <<>> \in Seq(Int)
      OBVIOUS
    <3> QED BY <3>1 DEF U
  <2>2. HasSolution(D, U, G)
    BY <1>6, <2>1, Recursion, Zenon
  <2> QED BY <1>3, <2>2, Zenon DEF HasSolution
<1>8. W = [k \in D |-> B(W, k)]
  <2>1. v = [k \in D |-> B(v, k)]
    BY <1>7
  <2> QED BY <2>1, Zenon
<1>9. PICK w : w = W
  OBVIOUS
<1>. HIDE DEF W
<1>12. \A n \in D : Digits(n, b) = w[n]
  BY <1>9, <1>10, Zenon
<1>13. w = [k \in D |-> B(w, k)]
  BY <1>8, <1>9, Zenon
<1>14. \A n \in D : w[n] = B(w, n)
  BY <1>13
<1>15. \A n \in D : w[n] = IF n < b THEN <<n>> ELSE Append(w[n \div b], n % b)
  BY <1>11, <1>14
<1> QED BY <1>12, <1>15 DEF D

\* One digit, or the digits of the quotient and the remainder.
LEMMA DigitsUnfolded ==
  ASSUME NEW b \in DigitBase, NEW n \in Nat
  PROVE  Digits(n, b) = IF n < b THEN <<n>> ELSE Append(Digits(n \div b, b), n % b)
<1>1. PICK d : \A k \in Nat : /\ Digits(k, b) = d[k]
                            /\ d[k] = IF k < b THEN <<k>> ELSE Append(d[k \div b], k % b)
  BY DigitsExist
<1>2. n \div b \in Nat
  BY Divided
<1> QED BY <1>1, <1>2

\* s is a string of digits without leading zeros.
IsDigits(s, n, b) ==
  /\ s \in Seq(0 .. b - 1) /\ Len(s) \in Nat \ {0}
  /\ n > 0 => s[1] # 0
  /\ n < b <=> Len(s) = 1
  /\ s[Len(s)] = n % b
  /\ n < b => s = <<n>>

\* The digits of a number are such a string.
LEMMA DigitsAre ==
  ASSUME NEW b \in DigitBase, NEW n \in Nat
  PROVE  IsDigits(Digits(n, b), n, b)
<1> DEFINE T == {k \in Nat : IsDigits(Digits(k, b), k, b)}
<1>0. b \in Nat /\ b > 1
  BY DEF DigitBase
<1>1. ASSUME NEW m \in Nat, \A k \in 0 .. m - 1 : k \in T PROVE m \in T
  <2>1. Digits(m, b) = IF m < b THEN <<m>> ELSE Append(Digits(m \div b, b), m % b)
    BY <1>1, DigitsUnfolded
  <2>2. CASE m < b
    <3>1. Digits(m, b) = <<m>> /\ m \in 0 .. b - 1
      BY <1>0, <1>1, <2>1, <2>2
    <3>2. m % b = m
      BY <1>1, <2>2, Divided
    <3>3. <<m>> \in Seq(0 .. b - 1) /\ Len(<<m>>) = 1 /\ <<m>>[1] = m
      BY <3>1
    <3>4. IsDigits(<<m>>, m, b)
      BY <2>2, <3>2, <3>3 DEF IsDigits
    <3> QED BY <1>1, <3>1, <3>4
  <2>3. CASE ~(m < b)
    <3> DEFINE q == m \div b
               r == m % b
    <3>1. q \in 0 .. m - 1 /\ q > 0 /\ q \in Nat /\ r \in 0 .. b - 1
      <4>1. /\ q \in Nat /\ r \in 0 .. b - 1
            /\ m >= b => q \in 1 .. m - 1
        BY <1>1, Divided
      <4>. HIDE DEF q, r
      <4> QED BY <1>0, <1>1, <2>3, <4>1
    <3>2. IsDigits(Digits(q, b), q, b)
      <4> HIDE DEF q
      <4> QED BY <1>1, <3>1
    <3>. HIDE DEF q, r
    <3>3. PICK d : d = Digits(q, b)
      OBVIOUS
    <3>4. d \in Seq(0 .. b - 1) /\ Len(d) \in Nat \ {0} /\ d[1] # 0
      BY <3>1, <3>2, <3>3 DEF IsDigits
    <3>5. /\ Append(d, r) \in Seq(0 .. b - 1) /\ Len(Append(d, r)) = Len(d) + 1
          /\ Append(d, r)[1] = d[1] /\ Append(d, r)[Len(d) + 1] = r
      <4>1. 1 \in 1 .. Len(d)
        BY <3>4
      <4> QED BY <3>1, <3>4, <4>1, AppendProperties
    <3>6. IsDigits(Append(d, r), m, b)
      <4>1. Len(d) + 1 \in Nat \ {0} /\ Len(d) + 1 # 1
        BY <3>4
      <4> QED BY <2>3, <3>4, <3>5, <4>1 DEF IsDigits, r
    <3>7. Digits(m, b) = Append(d, r)
      BY <2>1, <2>3, <3>3 DEF q, r
    <3> QED BY <1>1, <3>6, <3>7
  <2> QED BY <2>2, <2>3
<1>. HIDE DEF T
<1>2. n \in T
  BY <1>1, SmallerFirst
<1> QED BY <1>2 DEF T

\* The beginnings of a string.
LEMMA Beginnings ==
  ASSUME NEW S, NEW s \in Seq(S), NEW k \in 0 .. Len(s) - 1
  PROVE  /\ SubSeq(s, 1, k) \in Seq(S) /\ Len(SubSeq(s, 1, k)) = k
         /\ s[k + 1] \in S
         /\ SubSeq(s, 1, k + 1) = Append(SubSeq(s, 1, k), s[k + 1])
<1>1. /\ Len(s) \in Nat /\ k + 1 \in 1 .. Len(s) /\ 1 \in 1 .. Len(s) /\ (k + 1) - 1 = k
      /\ k + 1 \in 1 .. Len(s) /\ 1 \in Int /\ k \in Int
      /\ \A i \in 1 .. k : i \in 1 .. Len(s)
  OBVIOUS
<1>2. s[k + 1] \in S /\ \A i \in 1 .. k : s[i] \in S
  BY <1>1, ElementOfSeq
<1>3. SubSeq(s, 1, k) \in Seq(S) /\ Len(SubSeq(s, 1, k)) = IF 1 <= k THEN k - 1 + 1 ELSE 0
  BY <1>1, <1>2, SubSeqProperties
<1>4. Len(SubSeq(s, 1, k)) = k
  BY <1>3
<1>5. k + 1 \in 1 .. Len(s)
  BY <1>1
<1>6. SubSeq(s, 1, k + 1) = SubSeq(s, 1, (k + 1) - 1) \o <<s[k + 1]>>
  BY <1>1, <1>5, SubSeqRecursiveSecond
<1> QED BY <1>1, <1>2, <1>3, <1>4, <1>6, AppendIsConcat

\* One digit more.
LEMMA DigitsExtended ==
  ASSUME NEW b \in DigitBase, NEW n \in Nat, NEW r \in 0 .. b - 1
  PROVE  /\ n * b + r \in Nat
         /\ n > 0 => Digits(n * b + r, b) = Append(Digits(n, b), r)
         /\ Digits(r, b) = <<r>>
<1>1. b \in Nat /\ b > 1 /\ r \in Nat /\ r < b
  BY DEF DigitBase
<1>2. /\ n * b + r \in Nat /\ (n * b + r) \div b = n /\ (n * b + r) % b = r
      /\ n > 0 => n * b + r >= b
  <2>1. CASE b = 128
    <3>1. /\ n * 128 + r \in Nat /\ (n * 128 + r) \div 128 = n /\ (n * 128 + r) % 128 = r
          /\ n > 0 => n * 128 + r >= 128
      BY <1>1, <2>1
    <3> QED BY <2>1, <3>1
  <2>2. CASE b = 256
    <3>1. /\ n * 256 + r \in Nat /\ (n * 256 + r) \div 256 = n /\ (n * 256 + r) % 256 = r
          /\ n > 0 => n * 256 + r >= 256
      BY <1>1, <2>2
    <3> QED BY <2>2, <3>1
  <2> QED BY <2>1, <2>2 DEF DigitBase
<1>3. PICK m : m = n * b + r
  OBVIOUS
<1>4. Digits(m, b) = IF m < b THEN <<m>> ELSE Append(Digits(m \div b, b), m % b)
  BY <1>2, <1>3, DigitsUnfolded
<1>5. n > 0 => ~(m < b)
  BY <1>1, <1>2, <1>3
<1>6. Digits(r, b) = <<r>>
  <2>1. Digits(r, b) = IF r < b THEN <<r>> ELSE Append(Digits(r \div b, b), r % b)
    BY <1>1, DigitsUnfolded
  <2> QED BY <1>1, <2>1
<1> QED BY <1>2, <1>3, <1>4, <1>5, <1>6

\* The digits of a number have its value.
LEMMA DigitsValue ==
  ASSUME NEW n \in Nat
  PROVE  FromBytes(Digits(n, 256)) = n
<1> DEFINE T == {k \in Nat : FromBytes(Digits(k, 256)) = k}
<1>0. 256 \in DigitBase
  BY DEF DigitBase
<1>1. ASSUME NEW m \in Nat, \A k \in 0 .. m - 1 : k \in T PROVE m \in T
  <2>1. Digits(m, 256) = IF m < 256 THEN <<m>> ELSE Append(Digits(m \div 256, 256), m % 256)
    BY <1>0, <1>1, DigitsUnfolded
  <2>2. CASE m < 256
    <3>0. <<>> \in Seq(Int)
      OBVIOUS
    <3>1. PICK e \in Seq(Int) : e = <<>>
      BY <3>0
    <3>2. Digits(m, 256) = Append(e, m)
      BY <2>1, <2>2, <3>1
    <3>3. PICK z : z = 0 /\ z \in Int /\ m \in Int
      BY <1>1
    <3>4. /\ BytesAfter(z, e) \in Int
          /\ BytesAfter(z, Append(e, m)) = BytesAfter(z, e) * 256 + m
          /\ BytesAfter(z, <<>>) = z
      BY <3>3, BytesFront
    <3>5. BytesAfter(z, Append(e, m)) = m
      BY <3>1, <3>3, <3>4
    <3> QED BY <1>1, <3>2, <3>3, <3>5 DEF FromBytes
  <2>3. CASE ~(m < 256)
    <3> DEFINE q == m \div 256
               r == m % 256
    <3>1. q \in 0 .. m - 1 /\ q \in Nat /\ r \in Int /\ q * 256 + r = m
      BY <1>1, <2>3
    <3>. HIDE DEF q, r
    <3>2. PICK d : d = Digits(q, 256)
      OBVIOUS
    <3>3. d \in Seq(0 .. 256 - 1)
      BY <1>0, <3>1, <3>2, DigitsAre DEF IsDigits
    <3>4. d \in Seq(Int)
      <4>1. 0 .. 256 - 1 \subseteq Int
        OBVIOUS
      <4> QED BY <3>3, <4>1, SeqMonotonic
    <3>5. BytesAfter(0, Append(d, r)) = BytesAfter(0, d) * 256 + r
      BY <3>1, <3>4, BytesFront
    <3>6. BytesAfter(0, d) = q
      BY <1>1, <3>1, <3>2 DEF FromBytes
    <3>7. Digits(m, 256) = Append(d, r)
      BY <2>1, <2>3, <3>2 DEF q, r
    <3> QED BY <1>1, <3>1, <3>5, <3>6, <3>7 DEF FromBytes
  <2> QED BY <2>2, <2>3
<1>. HIDE DEF T
<1>2. n \in T
  BY <1>1, SmallerFirst
<1> QED BY <1>2 DEF T

\* Octets that do not begin with zero are the digits of their value.
LEMMA DigitsOfValue ==
  ASSUME NEW s \in Seq(Octet), s # <<>>, s[1] # 0
  PROVE  FromBytes(s) \in Nat /\ Digits(FromBytes(s), 256) = s
<1> DEFINE n == Len(s)
<1>0. 256 \in DigitBase
  BY DEF DigitBase
<1>1. /\ n \in Nat \ {0} /\ s \in Seq(Int) /\ s \in Seq(Nat)
      /\ \A k \in 1 .. n : s[k] \in 0 .. 255
  BY OctetsAreNumbers, EmptySeq
<1>2. 0 \in Int
  OBVIOUS
<1>3. PICK v : IsValues(v, 0, s) /\ BytesAfter(0, s) = v[n]
  BY <1>1, <1>2, ValuesExist, Zenon
<1>4. /\ v[0] = 0
      /\ \A k \in 1 .. n : v[k] = v[k - 1] * 256 + s[k]
  BY <1>3, Zenon DEF IsValues
<1>. HIDE DEF n
<1> DEFINE T == {k \in Nat : k + 1 <= n => /\ v[k + 1] \in Nat \ {0}
                                        /\ Digits(v[k + 1], 256) = SubSeq(s, 1, k + 1)}
<1>5. 0 \in T
  <2>1. 1 \in 1 .. n /\ s[1] \in 1 .. 255
    BY <1>1
  <2>2. v[1] = s[1]
    <3>1. v[1] = v[1 - 1] * 256 + s[1]
      BY <1>4, <2>1
    <3>2. 1 - 1 = 0
      OBVIOUS
    <3>3. PICK x : x = s[1] /\ x \in Int
      BY <2>1
    <3>4. v[1] = 0 * 256 + x
      BY <1>4, <3>1, <3>2, <3>3, Zenon
    <3> QED BY <3>3, <3>4
  <2>3. Digits(s[1], 256) = <<s[1]>>
    <3>1. 1 \in Nat /\ s[1] \in 0 .. 256 - 1
      BY <2>1
    <3> QED BY <1>0, <3>1, DigitsExtended
  <2>4. SubSeq(s, 1, 1) = <<s[1]>>
    <3>1. 0 \in 0 .. Len(s) - 1 /\ 0 + 1 = 1
      BY <1>1 DEF n
    <3>2. /\ SubSeq(s, 1, 0) \in Seq(Int) /\ Len(SubSeq(s, 1, 0)) = 0
          /\ SubSeq(s, 1, 0 + 1) = Append(SubSeq(s, 1, 0), s[0 + 1])
      BY <1>1, <3>1, Beginnings
    <3>3. SubSeq(s, 1, 0) = <<>>
      BY <3>2, EmptySeq
    <3>4. SubSeq(s, 1, 1) = Append(<<>>, s[1])
      BY <3>1, <3>2, <3>3, Zenon
    <3> QED BY <3>4
  <2>5. v[0 + 1] \in Nat \ {0} /\ Digits(v[0 + 1], 256) = SubSeq(s, 1, 0 + 1)
    <3>1. 0 + 1 = 1
      OBVIOUS
    <3>a. \A x \in 1 .. 255 : x \in Nat \ {0}
      OBVIOUS
    <3>2. v[1] \in Nat \ {0}
      BY <2>1, <2>2, <3>a, Zenon
    <3>3. Digits(v[1], 256) = SubSeq(s, 1, 1)
      BY <2>2, <2>3, <2>4, Zenon
    <3> QED BY <3>1, <3>2, <3>3, Zenon
  <2> QED BY <2>5
<1>6. ASSUME NEW k \in Nat, k \in T PROVE k + 1 \in T
  <2>1. ASSUME (k + 1) + 1 <= n
        PROVE  /\ v[(k + 1) + 1] \in Nat \ {0}
               /\ Digits(v[(k + 1) + 1], 256) = SubSeq(s, 1, (k + 1) + 1)
    <3> DEFINE i == (k + 1) + 1
    <3>1. i \in 1 .. n /\ i - 1 = k + 1 /\ k + 1 <= n /\ k + 1 \in 0 .. n
      BY <1>1, <1>6, <2>1
    <3>2. v[k + 1] \in Nat \ {0} /\ Digits(v[k + 1], 256) = SubSeq(s, 1, k + 1)
      BY <1>6, <3>1
    <3>3. s[i] \in 0 .. 256 - 1
      BY <1>1, <3>1
    <3>4. v[i] = v[k + 1] * 256 + s[i]
      BY <1>4, <3>1
    <3>. HIDE DEF i
    <3>5. PICK a : a = v[k + 1]
      OBVIOUS
    <3>6. a \in Nat /\ a > 0
      BY <3>2, <3>5
    <3>a. PICK o : o = s[i]
      OBVIOUS
    <3>7. a * 256 + o \in Nat /\ Digits(a * 256 + o, 256) = Append(Digits(a, 256), o)
      <4>1. PICK b \in DigitBase : b = 256
        BY <1>0
      <4>2. o \in 0 .. b - 1
        BY <3>3, <3>a, <4>1
      <4>3. a * b + o \in Nat /\ Digits(a * b + o, b) = Append(Digits(a, b), o)
        BY <3>6, <4>2, DigitsExtended
      <4> QED BY <4>1, <4>3
    <3>8. a * 256 + o # 0
      <4>0. \A x \in 0 .. 256 - 1 : x \in Nat
        OBVIOUS
      <4>1. o \in Nat
        BY <3>3, <3>a, <4>0, Zenon
      <4> QED BY <3>6, <4>1
    <3>9. SubSeq(s, 1, i) = Append(SubSeq(s, 1, k + 1), o)
      <4>1. k + 1 \in 0 .. Len(s) - 1
        BY <1>1, <1>6, <2>1 DEF n
      <4>2. SubSeq(s, 1, (k + 1) + 1) = Append(SubSeq(s, 1, k + 1), s[(k + 1) + 1])
        BY <1>1, <4>1, Beginnings
      <4> QED BY <3>a, <4>2 DEF i
    <3> QED BY <3>2, <3>4, <3>5, <3>a, <3>7, <3>8, <3>9 DEF i
  <2> QED BY <1>6, <2>1
<1>7. n - 1 \in T
  <2>. HIDE DEF T
  <2>1. \A k \in Nat : k \in T
    BY <1>5, <1>6, CountUp
  <2> QED BY <1>1, <2>1
<1>8. v[n] \in Nat /\ Digits(v[n], 256) = SubSeq(s, 1, n)
  <2>1. (n - 1) + 1 = n /\ n <= n
    BY <1>1
  <2> QED BY <1>7, <2>1
<1>9. SubSeq(s, 1, n) = s
  BY <1>1, SubSeqFull DEF n
<1> QED BY <1>3, <1>8, <1>9 DEF FromBytes

-----------------------------------------------------------------------------
(* Lengths.                                                                  *)

\* The length field of n, in the octets after the first p of data.
IsLengthField(data, p, q, n) ==
  /\ q - p <= 1 + MaxLenOctets
  /\ SubSeq(data, p + 1, q) = EncodeLength(n)

\* A part of a string.
LEMMA PartOf ==
  ASSUME NEW S, NEW s \in Seq(S), NEW m \in Nat, NEW n \in Nat, m <= n, n <= Len(s)
  PROVE  /\ SubSeq(s, m + 1, n) \in Seq(S)
         /\ Len(SubSeq(s, m + 1, n)) = n - m
         /\ \A i \in 1 .. n - m : SubSeq(s, m + 1, n)[i] = s[m + i]
<1>1. /\ m + 1 \in Int /\ n \in Int
      /\ \A i \in m + 1 .. n : i \in 1 .. Len(s)
  OBVIOUS
<1>2. \A i \in m + 1 .. n : s[i] \in S
  BY <1>1, ElementOfSeq
<1>3. /\ SubSeq(s, m + 1, n) \in Seq(S)
      /\ Len(SubSeq(s, m + 1, n)) = IF m + 1 <= n THEN n - (m + 1) + 1 ELSE 0
      /\ \A i \in 1 .. n - (m + 1) + 1 : SubSeq(s, m + 1, n)[i] = s[(m + 1) + i - 1]
  BY <1>1, <1>2, SubSeqProperties
<1>4. n - (m + 1) + 1 = n - m /\ (m + 1 > n => n - m = 0)
  OBVIOUS
<1>5. \A i \in 1 .. n - m : (m + 1) + i - 1 = m + i
  OBVIOUS
<1>6. Len(SubSeq(s, m + 1, n)) = n - m
  BY <1>3, <1>4
<1>7. \A i \in 1 .. n - m : SubSeq(s, m + 1, n)[i] = s[m + i]
  BY <1>3, <1>4, <1>5
<1> QED BY <1>3, <1>6, <1>7

\* A part of one octet.
LEMMA OnePart ==
  ASSUME NEW S, NEW s \in Seq(S), NEW m \in Nat, m < Len(s)
  PROVE  SubSeq(s, m + 1, m + 1) = <<s[m + 1]>>
<1>1. m + 1 \in Nat /\ m <= m + 1 /\ m + 1 <= Len(s) /\ (m + 1) - m = 1 /\ m + 1 \in 1 .. Len(s)
  OBVIOUS
<1>2. s[m + 1] \in S
  BY <1>1, ElementOfSeq
<1>3. PICK t, u : t = SubSeq(s, m + 1, m + 1) /\ u = <<s[m + 1]>>
  OBVIOUS
<1>4. t \in Seq(S) /\ Len(t) = 1 /\ \A i \in 1 .. 1 : t[i] = s[m + i]
  BY <1>1, <1>3, PartOf
<1>5. u \in Seq(S) /\ Len(u) = 1 /\ u[1] = s[m + 1]
  BY <1>2, <1>3
<1>6. \A i \in 1 .. 1 : i = 1
  OBVIOUS
<1>7. \A i \in 1 .. Len(t) : t[i] = u[i]
  BY <1>4, <1>5, <1>6
<1>8. t = u
  BY <1>4, <1>5, <1>7, SeqEqual
<1> QED BY <1>3, <1>8

\* What _read_length accepts is a length field.
LEMMA LengthAccepted ==
  ASSUME NEW data \in Seq(Octet), NEW p \in Nat, NEW limit \in Nat, limit <= Len(data),
         ReadLength(data, p, limit) # Malformed
  PROVE  \E n \in Nat, q \in p + 1 .. limit :
           ReadLength(data, p, limit) = <<n, q>> /\ IsLengthField(data, p, q, n)
<1> DEFINE first == data[p + 1]
           count == first - 128
           digits == SubSeq(data, p + 2, p + 1 + count)
           value == FromBytes(digits)
           len   == Len(data)
<1>0. MaxLenOctets \in 1 .. 126
  BY MaxLenOctetsAssumption
<1>1. p < limit /\ len \in Nat /\ p + 1 \in 1 .. len
  BY DEF ReadLength
<1>2. first \in 0 .. 255 /\ \A k \in 1 .. len : data[k] \in 0 .. 255
  BY <1>1, OctetsAreNumbers
<1>3. CASE first < 128
  <2>1. ReadLength(data, p, limit) = <<first, p + 1>>
    BY <1>1, <1>3 DEF ReadLength
  <2>2. SubSeq(data, p + 1, p + 1) = <<first>>
    BY <1>1, OnePart
  <2>3. EncodeLength(first) = <<first>>
    BY <1>3 DEF EncodeLength
  <2>4. IsLengthField(data, p, p + 1, first)
    BY <1>0, <1>1, <2>2, <2>3 DEF IsLengthField
  <2>5. first \in Nat /\ p + 1 \in p + 1 .. limit
    <3>1. \A x \in 0 .. 255 : x \in Nat
      OBVIOUS
    <3>2. first \in Nat
      BY <1>2, <3>1, Zenon
    <3> QED BY <1>1, <3>2
  <2> QED BY <2>1, <2>4, <2>5
<1>4. CASE ~(first < 128)
  <2>. HIDE DEF first, digits, value
  <2>1. /\ ReadLength(data, p, limit) = <<value, p + 1 + count>>
        /\ count # 0 /\ ~(count > MaxLenOctets) /\ ~(p + 1 + count > limit)
        /\ data[p + 2] # 0 /\ ~(value < 128)
    BY <1>1, <1>4 DEF ReadLength, first, digits, value
  <2>2. count \in 1 .. MaxLenOctets /\ p + 1 + count <= limit /\ first = 128 + count
        /\ count \in Nat
    BY <1>0, <1>2, <1>4, <2>1
  <2>. HIDE DEF count
  <2>3. /\ digits \in Seq(Octet) /\ Len(digits) = count
        /\ \A i \in 1 .. count : digits[i] = data[(p + 1) + i]
    <3> DEFINE m == p + 1
               n == p + 1 + count
    <3>1. m \in Nat /\ n \in Nat /\ m <= n /\ n <= Len(data) /\ m + 1 = p + 2 /\ n - m = count
      BY <1>1, <2>2
    <3>. HIDE DEF m, n
    <3>2. /\ SubSeq(data, m + 1, n) \in Seq(Octet)
          /\ Len(SubSeq(data, m + 1, n)) = n - m
          /\ \A i \in 1 .. n - m : SubSeq(data, m + 1, n)[i] = data[m + i]
      BY <3>1, PartOf
    <3> QED BY <3>1, <3>2 DEF digits, m, n
  <2>4. digits # <<>> /\ digits[1] = data[p + 2]
    <3>1. 1 \in 1 .. count /\ (p + 1) + 1 = p + 2
      BY <2>2
    <3>2. Len(digits) # 0
      BY <2>2, <2>3
    <3> QED BY <2>3, <3>1, <3>2
  <2>5. value \in Nat /\ Digits(value, 256) = digits
    BY <2>1, <2>3, <2>4, DigitsOfValue DEF value
  <2>6. EncodeLength(value) = <<first>> \o digits
    BY <2>1, <2>2, <2>3, <2>5 DEF EncodeLength
  <2>7. SubSeq(data, p + 1, p + 1 + count) = <<first>> \o digits
    <3>1. p + 1 \in 1 .. Len(data) /\ p + 1 + count \in p + 1 .. Len(data) /\ (p + 1) + 1 = p + 2
      BY <1>1, <2>2
    <3>2. SubSeq(data, p + 1, p + 1 + count) = <<data[p + 1]>> \o SubSeq(data, (p + 1) + 1, p + 1 + count)
      BY <3>1, SubSeqRecursiveFirst
    <3> QED BY <3>1, <3>2 DEF digits, first
  <2>8. IsLengthField(data, p, p + 1 + count, value)
    BY <1>0, <2>2, <2>6, <2>7 DEF IsLengthField
  <2>9. p + 1 + count \in p + 1 .. limit
    BY <1>1, <2>2
  <2> QED BY <2>1, <2>5, <2>8, <2>9
<1> QED BY <1>3, <1>4

\* A length field is accepted.
LEMMA LengthFieldRead ==
  ASSUME NEW data \in Seq(Octet), NEW p \in Nat, NEW limit \in Nat, limit <= Len(data),
         NEW n \in Nat, NEW q \in p .. limit, IsLengthField(data, p, q, n)
  PROVE  ReadLength(data, p, limit) = <<n, q>>
<1> DEFINE first == data[p + 1]
           count == first - 128
           digits == SubSeq(data, p + 2, p + 1 + count)
           field == SubSeq(data, p + 1, q)
           d == Digits(n, 256)
<1>0. MaxLenOctets \in 1 .. 126 /\ 256 \in DigitBase
  BY MaxLenOctetsAssumption DEF DigitBase
<1>1. field = EncodeLength(n) /\ q - p <= 1 + MaxLenOctets
  BY DEF IsLengthField
<1>2. /\ field \in Seq(Octet) /\ Len(field) = q - p
      /\ \A i \in 1 .. q - p : field[i] = data[p + i]
  <2>1. q \in Nat /\ p <= q /\ q <= Len(data)
    OBVIOUS
  <2> QED BY <2>1, PartOf
<1>. HIDE DEF field
<1>3. CASE n < 128
  <2>1. field = <<n>>
    BY <1>1, <1>3 DEF EncodeLength
  <2>2. q - p = 1
    BY <1>2, <2>1
  <2>3. q = p + 1 /\ p < limit /\ 1 \in 1 .. q - p
    BY <2>2
  <2>4. first = n
    BY <1>2, <2>1, <2>3
  <2> QED BY <1>3, <2>3, <2>4 DEF ReadLength
<1>4. CASE ~(n < 128)
  <2>1. field = <<128 + Len(d)>> \o d
    BY <1>1, <1>4 DEF EncodeLength
  <2>2. d \in Seq(Octet) /\ Len(d) \in Nat \ {0} /\ d[1] # 0
    <3>1. IsDigits(d, n, 256)
      BY <1>0, DigitsAre
    <3>2. d \in Seq(0 .. 256 - 1) /\ Len(d) \in Nat \ {0} /\ d[1] # 0
      BY <1>4, <3>1 DEF IsDigits
    <3>3. 0 .. 256 - 1 = Octet
      BY DEF Octet
    <3> QED BY <3>2, <3>3
  <2>3. FromBytes(d) = n
    BY DigitsValue
  <2>. HIDE DEF d
  <2>4. /\ d \in Seq(Int) /\ <<128 + Len(d)>> \in Seq(Int) /\ Len(<<128 + Len(d)>>) = 1
    <3>1. 128 + Len(d) \in Int
      BY <2>2
    <3> QED BY <2>2, <3>1, OctetsAreNumbers
  <2>5. /\ Len(field) = 1 + Len(d)
        /\ \A i \in 1 .. 1 + Len(d) : field[i] = IF i <= 1 THEN <<128 + Len(d)>>[i] ELSE d[i - 1]
    BY <2>1, <2>4, ConcatProperties
  <2>6. /\ q = p + 1 + Len(d) /\ Len(d) <= MaxLenOctets /\ p < limit
    <3>1. PICK l \in Nat : l = Len(d) /\ l # 0
      BY <2>2
    <3>2. q - p = 1 + l
      BY <1>2, <2>5, <3>1, Zenon
    <3>3. q \in Nat /\ q <= limit
      OBVIOUS
    <3>4. q = p + 1 + l /\ l <= MaxLenOctets /\ p < limit
      BY <1>0, <1>1, <3>1, <3>2, <3>3
    <3> QED BY <3>1, <3>4
  <2>7. first = 128 + Len(d)
    <3>1. 1 \in 1 .. q - p /\ 1 \in 1 .. 1 + Len(d)
      BY <2>2, <2>6
    <3>2. field[1] = 128 + Len(d)
      BY <2>5, <3>1
    <3> QED BY <1>2, <3>1, <3>2
  <2>8. count = Len(d)
    BY <2>2, <2>7
  <2>9. digits = d
    <3> DEFINE m == p + 1
               t == SubSeq(data, m + 1, q)
    <3>1. m \in Nat /\ q \in Nat /\ m <= q /\ q <= Len(data) /\ q - m = Len(d) /\ m + 1 = p + 2
      BY <2>2, <2>6
    <3>2. t \in Seq(Octet) /\ Len(t) = q - m /\ \A i \in 1 .. q - m : t[i] = data[m + i]
      <4>. HIDE DEF m
      <4> QED BY <3>1, PartOf
    <3>. HIDE DEF t
    <3>3. ASSUME NEW i \in 1 .. Len(d) PROVE t[i] = d[i]
      <4>1. t[i] = data[m + i]
        BY <3>1, <3>2
      <4>2. i + 1 \in 1 .. q - p /\ p + (i + 1) = m + i /\ i + 1 \in 1 .. 1 + Len(d)
            /\ ~(i + 1 <= 1) /\ (i + 1) - 1 = i
        BY <2>2, <2>6
      <4>3. field[i + 1] = data[p + (i + 1)] /\ field[i + 1] = d[i]
        BY <1>2, <2>5, <4>2
      <4> QED BY <4>1, <4>2, <4>3
    <3>4. t = d
      BY <2>2, <3>1, <3>2, <3>3, SeqEqual
    <3> QED BY <2>6, <2>8, <3>1, <3>4 DEF t
  <2>10. data[p + 2] # 0
    <3>1. 2 \in 1 .. q - p /\ 2 \in 1 .. 1 + Len(d) /\ 2 - 1 = 1 /\ ~(2 <= 1)
      BY <2>2, <2>6
    <3>2. field[2] = d[1]
      BY <2>5, <3>1
    <3>3. field[2] = data[p + 2]
      BY <1>2, <3>1
    <3> QED BY <2>2, <3>2, <3>3
  <2>. HIDE DEF first, digits
  <2>11. ~(first < 128) /\ count # 0 /\ ~(count > MaxLenOctets) /\ ~(p + 1 + count > limit)
         /\ ~(p >= limit) /\ p + 1 + count = q
    BY <1>0, <2>2, <2>6, <2>7, <2>8
  <2>12. ReadLength(data, p, limit) = <<FromBytes(digits), p + 1 + count>>
    BY <1>4, <2>3, <2>9, <2>10, <2>11 DEF ReadLength, first, digits
  <2> QED BY <2>3, <2>9, <2>11, <2>12
<1> QED BY <1>3, <1>4

-----------------------------------------------------------------------------
(* Contents.                                                                 *)

\* The rule for integers leaves the shortest encodings.
LEMMA IntegersShortest ==
  ASSUME NEW c \in Seq(Octet)
  PROVE  ShortestInteger(c) <=> IntegerAllowed(c)
<1>0. Len(c) \in Nat /\ (c = <<>> <=> Len(c) = 0)
  BY EmptySeq, OctetsAreNumbers
<1>1. CASE Len(c) <= 1
  BY <1>0, <1>1 DEF ShortestInteger, IntegerAllowed
<1>2. CASE Len(c) > 1
  <2> DEFINE t == Tail(c)
             u == Tail(t)
             signed(x) == IF x >= 128 THEN x - 256 ELSE x
  <2>1. /\ t \in Seq(Octet) /\ t # <<>> /\ t[1] = c[2] /\ c # <<>>
        /\ u \in Seq(Octet)
    <3>1. /\ c # <<>> /\ t \in Seq(Octet) /\ Len(t) = Len(c) - 1
          /\ \A i \in 1 .. Len(t) : t[i] = c[i + 1]
      BY <1>0, <1>2, HeadTailProperties
    <3>2. 1 \in 1 .. Len(t) /\ 1 + 1 = 2 /\ Len(t) # 0
      BY <1>0, <1>2, <3>1
    <3>3. t # <<>> /\ t[1] = c[2]
      BY <3>1, <3>2, EmptySeq
    <3>4. u \in Seq(Octet)
      <4>. HIDE DEF t
      <4> QED BY <3>1, <3>3, HeadTailProperties
    <3> QED BY <3>1, <3>3, <3>4
  <2>. HIDE DEF t, u
  <2>2. PICK x, y : x = c[1] /\ y = c[2]
    OBVIOUS
  <2>3. x \in 0 .. 255 /\ y \in 0 .. 255
    <3>1. 1 \in 1 .. Len(c) /\ 2 \in 1 .. Len(c)
      BY <1>0, <1>2
    <3>2. c[1] \in 0 .. 255 /\ c[2] \in 0 .. 255
      BY <3>1, OctetsAreNumbers
    <3> QED BY <2>2, <3>2, Zenon
  <2>4. PICK a \in Int, b \in Int : a = signed(x) * 256 + y /\ b = signed(y)
    BY <2>3
  <2>5. signed(x) \in Int /\ signed(y) \in Int
    BY <2>3
  <2>6. a = b <=> (x = 0 /\ y < 128) \/ (x = 255 /\ y >= 128)
    BY <2>3, <2>4
  <2>7. SignedIntValue(c) = BytesAfter(signed(x), t)
    BY <2>2 DEF SignedIntValue, IsNegative, t
  <2>8. SignedIntValue(t) = BytesAfter(signed(y), u)
    BY <2>1, <2>2 DEF SignedIntValue, IsNegative, u
  <2>. HIDE DEF signed
  <2>9. BytesAfter(signed(x), t) = BytesAfter(a, u)
    <3>1. t \in Seq(Int)
      BY <2>1, OctetsAreNumbers
    <3>2. BytesAfter(signed(x), t) = BytesAfter(signed(x) * 256 + t[1], Tail(t))
      BY <2>1, <2>5, <3>1, BytesTail
    <3> QED BY <2>1, <2>2, <2>4, <3>2, Zenon DEF u
  <2>10. BytesAfter(a, u) = BytesAfter(b, u) <=> a = b
    <3>1. u \in Seq(Int)
      BY <2>1, OctetsAreNumbers
    <3>2. BytesAfter(a, u) \in Int /\ BytesAfter(b, u) \in Int
      BY <3>1, BytesFront
    <3>3. a < b => BytesAfter(a, u) < BytesAfter(b, u)
      BY <2>1, BytesMonotone
    <3>4. b < a => BytesAfter(b, u) < BytesAfter(a, u)
      BY <2>1, BytesMonotone
    <3> QED BY <3>2, <3>3, <3>4
  <2>11. SignedIntValue(Tail(c)) = SignedIntValue(c) <=> a = b
    BY <2>4, <2>7, <2>8, <2>9, <2>10, Zenon DEF t
  <2>12. ShortestInteger(c) <=> ~(a = b)
    BY <1>0, <1>2, <2>11 DEF ShortestInteger
  <2>13. IntegerAllowed(c) <=> ~(x = 0 /\ y < 128) /\ ~(x = 255 /\ y >= 128)
    BY <1>2, <2>1, <2>2 DEF IntegerAllowed
  <2> QED BY <2>6, <2>12, <2>13
<1> QED BY <1>0, <1>1, <1>2

\* A remainder is zero when all of its bits are.
LEMMA LowBits ==
  ASSUME NEW x \in 0 .. 255, NEW n \in 1 .. 7
  PROVE  x % 2 ^ n = 0 <=> \A bit \in 0 .. n - 1 : (x \div 2 ^ bit) % 2 = 0
<1>0. /\ 2 ^ 0 = 1 /\ 2 ^ 1 = 2 /\ 2 ^ 2 = 4 /\ 2 ^ 3 = 8
      /\ 2 ^ 4 = 16 /\ 2 ^ 5 = 32 /\ 2 ^ 6 = 64 /\ 2 ^ 7 = 128
  OBVIOUS
<1> DEFINE b(k) == (x \div 2 ^ k) % 2 = 0
<1>1. /\ b(0) <=> x % 2 = 0
      /\ b(1) <=> (x \div 2) % 2 = 0
      /\ b(2) <=> (x \div 4) % 2 = 0
      /\ b(3) <=> (x \div 8) % 2 = 0
      /\ b(4) <=> (x \div 16) % 2 = 0
      /\ b(5) <=> (x \div 32) % 2 = 0
      /\ b(6) <=> (x \div 64) % 2 = 0
  BY <1>0
<1>2. /\ x % 2 = 0 <=> b(0)
      /\ x % 4 = 0 <=> b(0) /\ b(1)
      /\ x % 8 = 0 <=> b(0) /\ b(1) /\ b(2)
      /\ x % 16 = 0 <=> b(0) /\ b(1) /\ b(2) /\ b(3)
      /\ x % 32 = 0 <=> b(0) /\ b(1) /\ b(2) /\ b(3) /\ b(4)
      /\ x % 64 = 0 <=> b(0) /\ b(1) /\ b(2) /\ b(3) /\ b(4) /\ b(5)
      /\ x % 128 = 0 <=> b(0) /\ b(1) /\ b(2) /\ b(3) /\ b(4) /\ b(5) /\ b(6)
  <2>. HIDE DEF b
  <2>1. x % 2 = 0 <=> b(0)
    BY <1>1
  <2>2. x % 4 = 0 <=> x % 2 = 0 /\ b(1)
    BY <1>1
  <2>3. x % 8 = 0 <=> x % 4 = 0 /\ b(2)
    BY <1>1
  <2>4. x % 16 = 0 <=> x % 8 = 0 /\ b(3)
    BY <1>1
  <2>5. x % 32 = 0 <=> x % 16 = 0 /\ b(4)
    BY <1>1
  <2>6. x % 64 = 0 <=> x % 32 = 0 /\ b(5)
    BY <1>1
  <2>7. x % 128 = 0 <=> x % 64 = 0 /\ b(6)
    BY <1>1
  <2> QED BY <2>1, <2>2, <2>3, <2>4, <2>5, <2>6, <2>7
<1>. HIDE DEF b
<1>3. x % 2 ^ n = 0 <=> \A bit \in 0 .. n - 1 : b(bit)
  <2>1. CASE n = 1
    <3>1. \A bit \in 0 .. n - 1 : bit = 0
      BY <2>1
    <3>2. 0 \in 0 .. n - 1
      OBVIOUS
    <3> QED BY <1>0, <1>2, <2>1, <3>1, <3>2
  <2>2. CASE n = 2
    <3>1. \A bit : bit \in 0 .. n - 1 <=> bit = 0 \/ bit = 1
      BY <2>2
    <3> QED BY <1>0, <1>2, <2>2, <3>1
  <2>3. CASE n = 3
    <3>1. \A bit : bit \in 0 .. n - 1 <=> bit = 0 \/ bit = 1 \/ bit = 2
      BY <2>3
    <3> QED BY <1>0, <1>2, <2>3, <3>1
  <2>4. CASE n = 4
    <3>1. \A bit : bit \in 0 .. n - 1 <=> bit = 0 \/ bit = 1 \/ bit = 2 \/ bit = 3
      BY <2>4
    <3> QED BY <1>0, <1>2, <2>4, <3>1
  <2>5. CASE n = 5
    <3>1. \A bit : bit \in 0 .. n - 1 <=> bit = 0 \/ bit = 1 \/ bit = 2 \/ bit = 3 \/ bit = 4
      BY <2>5
    <3> QED BY <1>0, <1>2, <2>5, <3>1
  <2>6. CASE n = 6
    <3>1. \A bit : bit \in 0 .. n - 1 <=>
            bit = 0 \/ bit = 1 \/ bit = 2 \/ bit = 3 \/ bit = 4 \/ bit = 5
      BY <2>6
    <3> QED BY <1>0, <1>2, <2>6, <3>1
  <2>7. CASE n = 7
    <3>1. \A bit : bit \in 0 .. n - 1 <=>
            bit = 0 \/ bit = 1 \/ bit = 2 \/ bit = 3 \/ bit = 4 \/ bit = 5 \/ bit = 6
      BY <2>7
    <3> QED BY <1>0, <1>2, <2>7, <3>1
  <2> QED BY <2>1, <2>2, <2>3, <2>4, <2>5, <2>6, <2>7
<1> QED BY <1>3 DEF b

\* The rule for bit strings leaves those without stray bits.
LEMMA BitStringsExact ==
  ASSUME NEW c \in Seq(Octet)
  PROVE  BitsOnly(c) <=> BitStringAllowed(c)
<1>0. Len(c) \in Nat /\ (c = <<>> <=> Len(c) = 0)
  BY EmptySeq, OctetsAreNumbers
<1>1. CASE Len(c) = 0
  BY <1>0, <1>1 DEF BitsOnly, BitStringAllowed
<1>2. CASE Len(c) # 0
  <2>1. PICK n \in 0 .. 255, x \in 0 .. 255 : n = c[1] /\ x = c[Len(c)]
    <3>1. 1 \in 1 .. Len(c) /\ Len(c) \in 1 .. Len(c)
      BY <1>0, <1>2
    <3>2. c[1] \in 0 .. 255 /\ c[Len(c)] \in 0 .. 255
      BY <3>1, OctetsAreNumbers
    <3> QED BY <3>2
  <2>2. n \in 1 .. 7 => (x % 2 ^ n = 0 <=> \A bit \in 0 .. n - 1 : (x \div 2 ^ bit) % 2 = 0)
    BY LowBits
  <2>3. n = 0 => \A bit \in 0 .. n - 1 : (x \div 2 ^ bit) % 2 = 0
    OBVIOUS
  <2>4. n \in 0 .. 7 <=> n <= 7
    OBVIOUS
  <2>5. n <= 7 => (n <= 8 * (Len(c) - 1) <=> (Len(c) = 1 => n = 0))
    <3>1. PICK l \in Nat : l = Len(c) /\ l # 0
      BY <1>0, <1>2
    <3>2. ASSUME n <= 7 PROVE n <= 8 * (l - 1) <=> (l = 1 => n = 0)
      <4>1. CASE l = 1
        BY <4>1
      <4>2. CASE l # 1
        <5>1. 8 * (l - 1) >= 8
          BY <3>1, <4>2
        <5> QED BY <3>1, <3>2, <4>2, <5>1
      <4> QED BY <4>1, <4>2
    <3> QED BY <3>1, <3>2
  <2>6. n \in 0 .. 7 => n = 0 \/ n \in 1 .. 7
    OBVIOUS
  <2>7. BitsOnly(c) <=> /\ n \in 0 .. 7 /\ n <= 8 * (Len(c) - 1)
                        /\ \A bit \in 0 .. n - 1 : (x \div 2 ^ bit) % 2 = 0
    BY <1>0, <1>2, <2>1 DEF BitsOnly
  <2>8. BitStringAllowed(c) <=> /\ n <= 7 /\ (Len(c) = 1 => n = 0)
                                /\ n # 0 => x % 2 ^ n = 0
    BY <1>0, <1>2, <2>1 DEF BitStringAllowed
  <2> QED BY <2>2, <2>3, <2>4, <2>5, <2>6, <2>7, <2>8
<1> QED BY <1>1, <1>2

-----------------------------------------------------------------------------
(* Arcs.                                                                     *)

ArcsRead == [done : Seq(Nat), value : Nat, open : BOOLEAN, bad : BOOLEAN]

NoArcs == [done |-> <<>>, value |-> 0, open |-> FALSE, bad |-> FALSE]

\* The parts of a state of the reader of arcs.
LEMMA ArcsParts ==
  ASSUME NEW a \in ArcsRead
  PROVE  a.done \in Seq(Nat) /\ a.value \in Nat /\ a.open \in BOOLEAN /\ a.bad \in BOOLEAN
BY DEF ArcsRead

\* The step of the reader from a to b on the octet o, part by part.
IsArcStep(a, o, b) ==
  /\ b \in ArcsRead
  /\ b.bad <=> a.bad \/ (a.value = 0 /\ o = 128)
  /\ ~b.bad /\ o >= 128 =>
       b.done = a.done /\ b.value = a.value * 128 + (o % 128) /\ b.open
  /\ ~b.bad /\ o < 128 =>
       b.done = Append(a.done, a.value * 128 + (o % 128)) /\ b.value = 0 /\ ~b.open

\* The step of the reader is that.
LEMMA ArcStepIs ==
  ASSUME NEW a \in ArcsRead, NEW o \in 0 .. 255
  PROVE  IsArcStep(a, o, ArcStep(a, o))
<1> DEFINE value == a.value * 128 + (o % 128)
<1>1. a.done \in Seq(Nat) /\ a.value \in Nat /\ a.open \in BOOLEAN /\ a.bad \in BOOLEAN
  BY ArcsParts
<1>2. value \in Nat
  BY <1>1
<1>. HIDE DEF value
<1>3. CASE a.bad \/ (a.value = 0 /\ o = 128)
  <2>1. ArcStep(a, o) = [a EXCEPT !.bad = TRUE]
    BY <1>3 DEF ArcStep
  <2>2. [a EXCEPT !.bad = TRUE] \in ArcsRead /\ [a EXCEPT !.bad = TRUE].bad = TRUE
    BY DEF ArcsRead
  <2> QED BY <1>3, <2>1, <2>2, Zenon DEF IsArcStep
<1>4. CASE ~(a.bad \/ (a.value = 0 /\ o = 128)) /\ o >= 128
  <2>1. ArcStep(a, o) = [done |-> a.done, value |-> value, open |-> TRUE, bad |-> FALSE]
    BY <1>4 DEF ArcStep, value
  <2>2. ArcStep(a, o) \in ArcsRead
    BY <1>1, <1>2, <2>1 DEF ArcsRead
  <2>3. /\ ~ArcStep(a, o).bad /\ ArcStep(a, o).done = a.done
        /\ ArcStep(a, o).value = value /\ ArcStep(a, o).open
    BY <2>1
  <2>4. ~(o < 128)
    BY <1>4
  <2> QED BY <1>4, <2>2, <2>3, <2>4, Zenon DEF value, IsArcStep
<1>5. CASE ~(a.bad \/ (a.value = 0 /\ o = 128)) /\ ~(o >= 128)
  <2>1. ArcStep(a, o) =
          [done |-> Append(a.done, value), value |-> 0, open |-> FALSE, bad |-> FALSE]
    BY <1>5 DEF ArcStep, value
  <2>2. Append(a.done, value) \in Seq(Nat)
    BY <1>1, <1>2, AppendProperties
  <2>3. ArcStep(a, o) \in ArcsRead
    BY <2>1, <2>2 DEF ArcsRead
  <2>4. /\ ~ArcStep(a, o).bad /\ ArcStep(a, o).done = Append(a.done, value)
        /\ ArcStep(a, o).value = 0 /\ ~ArcStep(a, o).open
    BY <2>1
  <2> QED BY <1>5, <2>3, <2>4, Zenon DEF value, IsArcStep
<1> QED BY <1>3, <1>4, <1>5

\* The state stays one of the reader.
LEMMA ArcStepType ==
  ASSUME NEW a \in ArcsRead, NEW o \in 0 .. 255
  PROVE  ArcStep(a, o) \in ArcsRead
BY ArcStepIs, Zenon DEF IsArcStep

\* Nothing has been read.
LEMMA NoArcsType == NoArcs \in ArcsRead /\ NoArcs.value = 0 /\ ~NoArcs.open /\ ~NoArcs.bad
<1>1. <<>> \in Seq(Nat)
  OBVIOUS
<1> QED BY <1>1 DEF NoArcs, ArcsRead

\* arcs holds the states of the reader.
IsArcs(arcs, c) ==
  /\ arcs \in [0 .. Len(c) -> ArcsRead] /\ arcs[0] = NoArcs
  /\ \A k \in 1 .. Len(c) : arcs[k] = ArcStep(arcs[k - 1], c[k])

\* The recursion of ParseBase128 is defined.
LEMMA ArcsExist ==
  ASSUME NEW s \in Seq(Octet)
  PROVE  \E arcs : IsArcs(arcs, s) /\ ParseBase128(s) = arcs[Len(s)]
<1> DEFINE D == 0 .. Len(s)
           U == ArcsRead
           B(f, k) == IF k = 0 THEN NoArcs ELSE ArcStep(f[k - 1], s[k])
           G == [x \in [D -> U] \X D |-> B(x[1], x[2])]
           W == CHOOSE f : f = [k \in D |-> B(f, k)]
<1>0. /\ Len(s) \in Nat /\ \A k \in 1 .. Len(s) : s[k] \in 0 .. 255
  BY OctetsAreNumbers
<1>1. \A k \in D : k # 0 => k - 1 \in 0 .. k - 1 /\ k - 1 \in D /\ k \in 1 .. Len(s)
  BY <1>0
<1>2. \A f \in [D -> U], k \in D : B(f, k) \in U
  <2> TAKE f \in [D -> U], k \in D
  <2>1. CASE k = 0
    BY <2>1, NoArcsType
  <2>2. CASE k # 0
    <3>1. f[k - 1] \in ArcsRead /\ s[k] \in 0 .. 255
      BY <1>0, <1>1, <2>2
    <3>2. ArcStep(f[k - 1], s[k]) \in ArcsRead
      BY <3>1, ArcStepType, Zenon
    <3> QED BY <2>2, <3>2
  <2> QED BY <2>1, <2>2
<1>3. \A f \in [D -> U], k \in D : G[f, k] = B(f, k)
  BY Zenon
<1>4. \A f, g \in [D -> U] : \A n \in D :
        (\A k \in 0 .. n - 1 : f[k] = g[k]) => B(f, n) = B(g, n)
  BY <1>1
<1>a. ParseBase128(s) = W[Len(s)]
  BY Zenon DEF ParseBase128, NoArcs
<1>b. \A f : /\ B(f, 0) = NoArcs
             /\ \A k \in 1 .. Len(s) : B(f, k) = ArcStep(f[k - 1], s[k])
  BY <1>0
<1>c. 0 \in D /\ Len(s) \in D /\ \A k \in 1 .. Len(s) : k \in D
  BY <1>0
<1>. HIDE DEF B
<1>5. G \in [[D -> U] \X D -> U]
  BY <1>2
<1>6. Recurs(D, U, G)
  <2>. HIDE DEF G
  <2>1. D \subseteq Nat /\ \A n \in D : \A k \in 0 .. n : k \in D
    BY <1>0
  <2>. HIDE DEF D, U
  <2>2. \A f, g \in [D -> U] : \A n \in D :
          (\A k \in 0 .. n - 1 : f[k] = g[k]) => G[f, n] = G[g, n]
    <3> TAKE f, g \in [D -> U]
    <3> TAKE n \in D
    <3> HAVE \A k \in 0 .. n - 1 : f[k] = g[k]
    <3>1. B(f, n) = B(g, n)
      BY <1>4, Zenon
    <3>2. G[f, n] = B(f, n) /\ G[g, n] = B(g, n)
      BY <1>3, Zenon
    <3> QED BY <3>1, <3>2, Zenon
  <2> QED BY <2>1, <2>2, <1>5, Zenon DEF Recurs
<1>7. U # {}
  BY NoArcsType
<1>. HIDE DEF D, U
<1>8. PICK v \in [D -> U] : \A n \in D : v[n] = B(v, n)
  <2>. HIDE DEF G
  <2>1. HasSolution(D, U, G)
    BY <1>6, <1>7, Recursion, Zenon
  <2> QED BY <2>1, <1>3, Zenon DEF HasSolution
<1>9. W = [k \in D |-> B(W, k)]
  <2>1. v = [k \in D |-> B(v, k)]
    BY <1>8
  <2> QED BY <2>1, Zenon
<1>10. PICK w : w = W
  OBVIOUS
<1>. HIDE DEF W
<1>11. ParseBase128(s) = w[Len(s)]
  BY <1>10, <1>a, Zenon
<1>12. w = [k \in D |-> B(w, k)]
  BY <1>9, <1>10, Zenon
<1>13. \A k \in D : w[k] = B(w, k)
  BY <1>12
<1>14. /\ w[0] = NoArcs
       /\ \A k \in 1 .. Len(s) : w[k] = ArcStep(w[k - 1], s[k])
  BY <1>13, <1>b, <1>c, Zenon
<1>15. \A k \in D : w[k] \in ArcsRead
  <2> DEFINE T == {k \in Nat : k \in D => w[k] \in ArcsRead}
  <2>1. 0 \in T
    BY <1>14, NoArcsType
  <2>2. ASSUME NEW n \in Nat, n \in T PROVE n + 1 \in T
    <3>1. ASSUME n + 1 \in D PROVE w[n + 1] \in ArcsRead
      <4>1. n \in D /\ n + 1 \in 1 .. Len(s) /\ (n + 1) - 1 = n
        BY <1>0, <2>2, <3>1 DEF D
      <4>2. w[n] \in ArcsRead /\ s[n + 1] \in 0 .. 255
        BY <1>0, <2>2, <4>1
      <4>3. w[n + 1] = ArcStep(w[n], s[n + 1])
        BY <1>14, <4>1
      <4> QED BY <4>2, <4>3, ArcStepType, Zenon
    <3> QED BY <2>2, <3>1
  <2>. HIDE DEF T
  <2>3. \A k \in Nat : k \in T
    BY <2>1, <2>2, CountUp
  <2> QED BY <1>0, <2>3 DEF T, D
<1>16. w \in [D -> ArcsRead]
  BY <1>12, <1>15
<1> QED BY <1>11, <1>14, <1>16, Zenon DEF IsArcs, D

\* Where an arc begins with a zero digit.
ZeroDigit(c, k) == c[k] = 128 /\ (k = 1 \/ c[k - 1] < 128)

\* What the state of the reader says after k octets.
ArcsKnown(c, k, a) ==
  /\ a.bad <=> \E j \in 1 .. k : ZeroDigit(c, j)
  /\ ~a.bad => /\ a.open <=> a.value > 0
               /\ a.open <=> k > 0 /\ c[k] >= 128

\* The state says it.
LEMMA ArcsAreKnown ==
  ASSUME NEW c \in Seq(Octet), NEW arcs, IsArcs(arcs, c)
  PROVE  \A k \in 0 .. Len(c) : ArcsKnown(c, k, arcs[k])
<1> DEFINE n == Len(c)
           T == {k \in Nat : k <= n => ArcsKnown(c, k, arcs[k])}
<1>0. n \in Nat /\ \A k \in 1 .. n : c[k] \in 0 .. 255
  BY OctetsAreNumbers
<1>1. /\ arcs \in [0 .. n -> ArcsRead] /\ arcs[0] = NoArcs
      /\ \A k \in 1 .. n : arcs[k] = ArcStep(arcs[k - 1], c[k])
  BY Zenon DEF IsArcs
<1>. HIDE DEF n
<1>2. 0 \in T
  <2>1. ArcsKnown(c, 0, NoArcs)
    <3>1. ~(0 > 0) /\ 1 .. 0 = {} /\ ~(NoArcs.value > 0)
      BY NoArcsType
    <3> QED BY <3>1, NoArcsType, Zenon DEF ArcsKnown
  <2> QED BY <1>1, <2>1
<1>3. ASSUME NEW k \in Nat, k \in T PROVE k + 1 \in T
  <2>1. ASSUME k + 1 <= n PROVE ArcsKnown(c, k + 1, arcs[k + 1])
    <3>1. k + 1 \in 1 .. n /\ (k + 1) - 1 = k /\ k \in 0 .. n /\ k <= n
      BY <1>0, <1>3, <2>1
    <3>2. PICK a, b, o : a = arcs[k] /\ b = arcs[k + 1] /\ o = c[k + 1]
      OBVIOUS
    <3>3. a \in ArcsRead /\ o \in 0 .. 255 /\ b = ArcStep(a, o)
      BY <1>0, <1>1, <3>1, <3>2
    <3>4. a.value \in Nat /\ a.open \in BOOLEAN /\ a.bad \in BOOLEAN
      BY <3>3, ArcsParts
    <3>5. ArcsKnown(c, k, a)
      BY <1>3, <3>1, <3>2
    <3>6. k = 0 \/ c[k] \in 0 .. 255
      BY <1>0, <3>1
    <3>a. IsArcStep(a, o, b)
      BY <3>3, ArcStepIs, Zenon
    <3>7. b.bad <=> a.bad \/ (a.value = 0 /\ o = 128)
      BY <3>a, Zenon DEF IsArcStep
    <3>8. ~a.bad => (a.value = 0 <=> ~a.open)
      BY <3>4, <3>5 DEF ArcsKnown
    <3>9. ~a.bad => (~a.open <=> k = 0 \/ c[k] < 128)
      <4>1. ~a.bad => (a.open <=> k > 0 /\ c[k] >= 128)
        BY <3>5, Zenon DEF ArcsKnown
      <4>2. PICK x : x = c[k]
        OBVIOUS
      <4>3. k = 0 \/ (k > 0 /\ x \in 0 .. 255)
        BY <1>3, <3>6, <4>2
      <4>4. ~a.bad => (a.open <=> k > 0 /\ x >= 128)
        BY <4>1, <4>2
      <4>5. ~a.bad => (~a.open <=> k = 0 \/ x < 128)
          <5>1. CASE k = 0
            <6>1. ~(k > 0)
              BY <5>1
            <6> QED BY <4>4, <5>1, <6>1, Zenon
          <5>2. CASE k # 0
            <6>1. x < 128 <=> ~(x >= 128)
              <7>1. \A y \in 0 .. 255 : y < 128 <=> ~(y >= 128)
                OBVIOUS
              <7> QED BY <4>3, <5>2, <7>1, Zenon
            <6>2. k > 0
              BY <1>3, <5>2
            <6> QED BY <4>4, <5>2, <6>1, <6>2, Zenon
          <5> QED BY <5>1, <5>2
      <4> QED BY <4>2, <4>5
    <3>10. ZeroDigit(c, k + 1) <=> o = 128 /\ (k = 0 \/ c[k] < 128)
      <4>1. k + 1 = 1 <=> k = 0
        BY <1>3
      <4> QED BY <3>1, <3>2, <4>1 DEF ZeroDigit
    <3>11. \A j : j \in 1 .. k + 1 <=> j \in 1 .. k \/ j = k + 1
      BY <1>3
    <3>12. b.bad <=> \E j \in 1 .. k + 1 : ZeroDigit(c, j)
      <4>1. a.bad <=> \E j \in 1 .. k : ZeroDigit(c, j)
        BY <3>5, Zenon DEF ArcsKnown
      <4>2. ~a.bad => (b.bad <=> ZeroDigit(c, k + 1))
        BY <3>7, <3>8, <3>9, <3>10
      <4>3. a.bad => b.bad
        BY <3>7
      <4> QED BY <3>11, <4>1, <4>2, <4>3, Zenon
    <3>13. ASSUME ~b.bad
           PROVE  (b.open <=> b.value > 0) /\ (b.open <=> k + 1 > 0 /\ c[k + 1] >= 128)
      <4>1. k + 1 > 0
        BY <1>3
      <4>2. CASE o >= 128
        <5>1. b.value = a.value * 128 + (o % 128) /\ b.open
          BY <3>13, <3>a, <4>2, Zenon DEF IsArcStep
        <5>2. ~(a.value = 0 /\ o = 128)
          BY <3>7, <3>13
        <5>3. a.value * 128 + (o % 128) > 0
          <6>1. PICK v : v = a.value
            OBVIOUS
          <6>2. v \in Nat /\ ~(v = 0 /\ o = 128) /\ o >= 128 /\ o \in 0 .. 255
            BY <3>3, <3>4, <4>2, <5>2, <6>1
          <6>3. v * 128 + (o % 128) > 0
            BY <6>2
          <6> QED BY <6>1, <6>3
        <5> QED BY <3>2, <4>1, <4>2, <5>1, <5>3
      <4>3. CASE ~(o >= 128)
        <5>1. o < 128
          BY <3>3, <4>3
        <5>2. b.value = 0 /\ ~b.open
          BY <3>13, <3>a, <5>1, Zenon DEF IsArcStep
        <5> QED BY <3>2, <4>3, <5>2
      <4> QED BY <4>2, <4>3
    <3> QED BY <3>2, <3>12, <3>13, Zenon DEF ArcsKnown
  <2> QED BY <1>3, <2>1
<1>. HIDE DEF T
<1>4. \A k \in Nat : k \in T
  BY <1>2, <1>3, CountUp
<1> QED BY <1>0, <1>4 DEF T, n

\* The rule for object identifiers leaves the shortest encodings.
LEMMA OidsShortest ==
  ASSUME NEW c \in Seq(Octet)
  PROVE  ArcsShortest(c) <=> OidAllowed(c)
<1> DEFINE n == Len(c)
<1>0. n \in Nat /\ (c = <<>> <=> n = 0) /\ \A k \in 1 .. n : c[k] \in 0 .. 255
  BY EmptySeq, OctetsAreNumbers
<1>1. PICK arcs : IsArcs(arcs, c) /\ ParseBase128(c) = arcs[n]
  BY ArcsExist
<1>2. PICK a : a = arcs[n]
  OBVIOUS
<1>3. ArcsKnown(c, n, a)
  <2>1. n \in 0 .. n
    BY <1>0
  <2> QED BY <1>1, <1>2, <2>1, ArcsAreKnown
<1>. HIDE DEF n
<1>4. OidAllowed(c) <=> n # 0 /\ ~a.bad /\ ~a.open
  BY <1>0, <1>1, <1>2, Zenon DEF OidAllowed
<1>5. ~a.bad => (a.open <=> n > 0 /\ c[n] >= 128)
  BY <1>3, Zenon DEF ArcsKnown
<1>6. ~a.bad <=> \A k \in 1 .. n : c[k] = 128 => k > 1 /\ c[k - 1] >= 128
  <2>1. ~a.bad <=> \A k \in 1 .. n : ~ZeroDigit(c, k)
    BY <1>3, Zenon DEF ArcsKnown
  <2>2. \A k \in 1 .. n : ~ZeroDigit(c, k) <=> (c[k] = 128 => k > 1 /\ c[k - 1] >= 128)
    <3> TAKE k \in 1 .. n
    <3>1. k = 1 \/ (k > 1 /\ k # 1 /\ k - 1 \in 1 .. n)
      BY <1>0
    <3>2. k > 1 => c[k - 1] \in 0 .. 255
      BY <1>0, <3>1
    <3>3. \A x \in 0 .. 255 : x < 128 <=> ~(x >= 128)
      OBVIOUS
    <3>4. k > 1 => (c[k - 1] < 128 <=> ~(c[k - 1] >= 128))
      BY <3>2, <3>3, Zenon
    <3>5. k = 1 => ~(k > 1)
      OBVIOUS
    <3> QED BY <3>1, <3>4, <3>5, Zenon DEF ZeroDigit
  <2> QED BY <2>1, <2>2, Zenon
<1>7. n # 0 => n > 0 /\ c[n] \in 0 .. 255
  BY <1>0
<1>8. ArcsShortest(c) <=>
        n > 0 /\ c[n] < 128 /\ \A k \in 1 .. n : c[k] = 128 => k > 1 /\ c[k - 1] >= 128
  BY Zenon DEF ArcsShortest, n
<1>9. n # 0 => (c[n] < 128 <=> ~(c[n] >= 128))
  <2>1. \A x \in 0 .. 255 : x < 128 <=> ~(x >= 128)
    OBVIOUS
  <2> QED BY <1>7, <2>1, Zenon
<1>10. n > 0 <=> n # 0
  BY <1>0
<1> QED BY <1>4, <1>5, <1>6, <1>8, <1>9, <1>10, Zenon

\* The rules for contents are the grammar's.
LEMMA ContentsExact ==
  ASSUME NEW tag, NEW c \in Seq(Octet)
  PROVE  ContentIsDer(tag, c) <=> ContentAllowed(tag, c)
<1>1. CASE tag = TAG_INTEGER
  BY <1>1, IntegersShortest DEF ContentIsDer, ContentAllowed, TAG_INTEGER, TAG_BIT_STRING, TAG_OID
<1>2. CASE tag = TAG_BIT_STRING
  BY <1>2, BitStringsExact DEF ContentIsDer, ContentAllowed, TAG_INTEGER, TAG_BIT_STRING, TAG_OID
<1>3. CASE tag = TAG_OID
  BY <1>3, OidsShortest DEF ContentIsDer, ContentAllowed, TAG_INTEGER, TAG_BIT_STRING, TAG_OID
<1>4. CASE tag \notin {TAG_INTEGER, TAG_BIT_STRING, TAG_OID}
  BY <1>4 DEF ContentIsDer, ContentAllowed
<1> QED BY <1>1, <1>2, <1>3, <1>4

\* The rules for tags are the grammar's.
LEMMA TagsExact ==
  ASSUME NEW tag \in 0 .. 255
  PROVE  TagIsDer(tag) <=> TagAllowed(tag)
<1>1. (\E class \in 0 .. 3, constructed \in 0 .. 1, number \in 0 .. 30 :
         tag = 64 * class + 32 * constructed + number) <=> tag % 32 # 31
  <2>1. ASSUME NEW class \in 0 .. 3, NEW constructed \in 0 .. 1, NEW number \in 0 .. 30,
               tag = 64 * class + 32 * constructed + number
        PROVE  tag % 32 # 31
    BY <2>1
  <2>2. ASSUME tag % 32 # 31
        PROVE  \E class \in 0 .. 3, constructed \in 0 .. 1, number \in 0 .. 30 :
                 tag = 64 * class + 32 * constructed + number
    <3>1. /\ tag \div 64 \in 0 .. 3 /\ (tag \div 32) % 2 \in 0 .. 1 /\ tag % 32 \in 0 .. 30
          /\ tag = 64 * (tag \div 64) + 32 * ((tag \div 32) % 2) + (tag % 32)
      BY <2>2
    <3> QED BY <3>1
  <2> QED BY <2>1, <2>2
<1>2. tag \in 32 .. 63 <=> tag \div 64 = 0 /\ (tag \div 32) % 2 = 1
  OBVIOUS
<1>3. tag \in 0 .. 31 <=> tag \div 64 = 0 /\ ~((tag \div 32) % 2 = 1)
  OBVIOUS
<1> QED BY <1>1, <1>2, <1>3 DEF TagIsDer, TagAllowed, TagNumber, TagClass, IsConstructed,
             TAG_SEQUENCE, TAG_SET

-----------------------------------------------------------------------------
(* Elements.                                                                 *)

\* A length field is a string.
LEMMA LengthFieldType ==
  ASSUME NEW n \in Nat
  PROVE  EncodeLength(n) \in Seq(Int)
<1> DEFINE d == Digits(n, 256)
<1>1. d \in Seq(Int) /\ Len(d) \in Nat
  <2>1. 256 \in DigitBase
    BY DEF DigitBase
  <2>2. IsDigits(d, n, 256)
    BY <2>1, DigitsAre
  <2>3. d \in Seq(0 .. 256 - 1) /\ Len(d) \in Nat
    BY <2>2 DEF IsDigits
  <2>4. 0 .. 256 - 1 = Octet
    BY DEF Octet
  <2> QED BY <2>3, <2>4, OctetsAreNumbers
<1>. HIDE DEF d
<1>2. <<128 + Len(d)>> \in Seq(Int)
  <2>1. 128 + Len(d) \in Int
    BY <1>1
  <2> QED BY <2>1
<1>3. <<128 + Len(d)>> \o d \in Seq(Int)
  BY <1>1, <1>2, ConcatProperties
<1>4. <<n>> \in Seq(Int)
  <2>1. n \in Int
    OBVIOUS
  <2> QED BY <2>1
<1> QED BY <1>3, <1>4 DEF EncodeLength, d

\* The octets up to f are a tag, the length field up to q and the content after it.
LEMMA Cut ==
  ASSUME NEW s \in Seq(Octet), NEW b \in Nat, NEW f \in Nat, f <= Len(s), NEW q \in b + 2 .. f
  PROVE  SubSeq(s, b + 1, f) = EncodeTlv(s[b + 1], SubSeq(s, q + 1, f))
           <=> SubSeq(s, (b + 1) + 1, q) = EncodeLength(f - q)
<1> DEFINE tag == s[b + 1]
           field == SubSeq(s, (b + 1) + 1, q)
           content == SubSeq(s, q + 1, f)
           n == Len(s)
<1>1. s \in Seq(Int) /\ n \in Nat
  BY OctetsAreNumbers
<1>2. /\ q \in Nat /\ b + 1 <= q /\ q <= f /\ f - q \in Nat /\ b + 1 \in 1 .. n /\ b + 1 \in Nat
      /\ f <= n /\ f \in b + 1 .. n /\ (b + 1) + 1 \in 1 .. n + 1
      /\ q \in ((b + 1) + 1) - 1 .. n /\ f \in q .. n
  BY <1>1
<1>3. content \in Seq(Int) /\ Len(content) = f - q
  BY <1>1, <1>2, PartOf
<1>4. field \in Seq(Int)
  <2>1. q <= n
    BY <1>2
  <2> QED BY <1>1, <1>2, <2>1, PartOf
<1>5. <<tag>> \in Seq(Int)
  <2>1. tag \in Int
    BY <1>1, <1>2, ElementOfSeq
  <2> QED BY <2>1
<1>6. EncodeLength(f - q) \in Seq(Int)
  BY <1>2, LengthFieldType
<1>7. SubSeq(s, b + 1, f) = <<tag>> \o SubSeq(s, (b + 1) + 1, f)
  BY <1>1, <1>2, SubSeqRecursiveFirst
<1>8. SubSeq(s, (b + 1) + 1, f) = field \o content
  BY <1>1, <1>2, ConcatAdjacentSubSeq
<1>9. EncodeTlv(tag, content) = (<<tag>> \o EncodeLength(f - q)) \o content
  BY <1>3, Zenon DEF EncodeTlv
<1>. HIDE DEF tag, field, content, n
<1>10. SubSeq(s, b + 1, f) = (<<tag>> \o field) \o content
  <2>1. (<<tag>> \o field) \o content = <<tag>> \o (field \o content)
    BY <1>3, <1>4, <1>5, ConcatAssociative
  <2> QED BY <1>7, <1>8, <2>1, Zenon
<1>11. ASSUME SubSeq(s, b + 1, f) = EncodeTlv(tag, content) PROVE field = EncodeLength(f - q)
  <2>1. <<tag>> \o field \in Seq(Int) /\ <<tag>> \o EncodeLength(f - q) \in Seq(Int)
    BY <1>4, <1>5, <1>6, ConcatProperties
  <2>2. (<<tag>> \o field) \o content = (<<tag>> \o EncodeLength(f - q)) \o content
    BY <1>9, <1>10, <1>11, Zenon
  <2>3. <<tag>> \o field = <<tag>> \o EncodeLength(f - q)
    BY <1>3, <2>1, <2>2, ConcatSimplifications
  <2> QED BY <1>4, <1>5, <1>6, <2>3, ConcatSimplifications
<1>12. ASSUME field = EncodeLength(f - q) PROVE SubSeq(s, b + 1, f) = EncodeTlv(tag, content)
  BY <1>9, <1>10, <1>12, Zenon
<1> QED BY <1>11, <1>12, Zenon DEF tag, field, content

\* What _read_tlv asks of the tag before b and the content between q and f.
TlvIsDer(s, b, q, f, depth, series) ==
  /\ TagAllowed(s[b + 1]) /\ ContentAllowed(s[b + 1], SubSeq(s, q + 1, f))
  /\ IsConstructed(s[b + 1]) => depth < MaxNesting /\ series[f - q][q][depth + 1]

\* The rules of the grammar for an element are those of the decoder.
LEMMA ElementIs ==
  ASSUME NEW s \in Seq(Octet), NEW b \in Nat, NEW e \in Nat, e <= Len(s),
         NEW f \in b + 1 .. e, NEW depth, NEW series
  PROVE  IsElement(s, b, f - b, depth, series) <=>
           \E q \in b + 2 .. f : /\ ReadLength(s, b + 1, e) = <<f - q, q>>
                                 /\ TlvIsDer(s, b, q, f, depth, series)
<1> DEFINE tag == s[b + 1]
           content(q) == SubSeq(s, q + 1, f)
           nested(q) == IsConstructed(tag) => depth < MaxNesting /\ series[f - q][q][depth + 1]
           rest(q) == TagIsDer(tag) /\ ContentIsDer(tag, content(q)) /\ nested(q)
<1>0. /\ MaxLenOctets \in Nat /\ Len(s) \in Nat /\ f \in Nat /\ b + 1 \in Nat /\ b + 1 \in 1 .. Len(s)
      /\ f <= Len(s)
  BY MaxLenOctetsAssumption, OctetsAreNumbers
<1>1. tag \in 0 .. 255
  BY <1>0, OctetsAreNumbers
<1>2. \A q \in b + 2 .. f : content(q) \in Seq(Octet)
  <2> TAKE q \in b + 2 .. f
  <2>1. q \in Nat /\ q <= f /\ f <= Len(s) /\ f \in Nat
    BY <1>0
  <2> QED BY <2>1, PartOf
<1>3. \A q \in b + 2 .. f : rest(q) <=> TlvIsDer(s, b, q, f, depth, series)
  BY <1>1, <1>2, TagsExact, ContentsExact, Zenon DEF TlvIsDer
<1>. HIDE DEF rest
<1>4. IsElement(s, b, f - b, depth, series) <=>
        \E q \in b + 2 .. f : /\ q - (b + 1) <= 1 + MaxLenOctets
                              /\ SubSeq(s, b + 1, f) = EncodeTlv(tag, content(q))
                              /\ rest(q)
  <2> DEFINE n == f - b
             sizes == (n - 2 - MaxLenOctets .. n - 2) \cap Nat
             begin(size) == b + n - size
  <2>1. b + n = f /\ n \in Nat
    BY <1>0
  <2>2. \A size \in sizes : /\ begin(size) \in b + 2 .. f /\ begin(size) - (b + 1) <= 1 + MaxLenOctets
                            /\ f - begin(size) = size /\ begin(size) = b + n - size
    BY <1>0
  <2>3. \A q \in b + 2 .. f : q - (b + 1) <= 1 + MaxLenOctets =>
          f - q \in sizes /\ begin(f - q) = q
    BY <1>0
  <2>. HIDE DEF begin, sizes, n
  <2> DEFINE E(q, size) ==
         /\ SubSeq(s, b + 1, f) = EncodeTlv(tag, SubSeq(s, q + 1, f))
         /\ TagIsDer(tag) /\ ContentIsDer(tag, SubSeq(s, q + 1, f))
         /\ IsConstructed(tag) => depth < MaxNesting /\ series[size][q][depth + 1]
  <2>4. IsElement(s, b, n, depth, series) <=> \E size \in sizes : E(begin(size), size)
    <3>1. \A size \in sizes : begin(size) = b + n - size
      BY <2>2
    <3>2. IsElement(s, b, n, depth, series) <=> \E size \in sizes : E(b + n - size, size)
      BY <2>1, Zenon DEF IsElement, sizes
    <3> QED BY <3>1, <3>2, Zenon
  <2>5. \A q \in b + 2 .. f :
          E(q, f - q) <=> SubSeq(s, b + 1, f) = EncodeTlv(tag, content(q)) /\ rest(q)
    BY Zenon DEF rest
  <2>. HIDE DEF E
  <2>6. (\E size \in sizes : E(begin(size), size)) <=>
          \E q \in b + 2 .. f : q - (b + 1) <= 1 + MaxLenOctets /\ E(q, f - q)
    BY <2>2, <2>3, Zenon
  <2> QED BY <2>4, <2>5, <2>6, Zenon DEF n
<1>5. \A q \in b + 2 .. f :
        (/\ q - (b + 1) <= 1 + MaxLenOctets
         /\ SubSeq(s, b + 1, f) = EncodeTlv(tag, content(q))) <=>
        ReadLength(s, b + 1, e) = <<f - q, q>>
  <2> TAKE q \in b + 2 .. f
  <2>1. f - q \in Nat /\ q \in b + 1 .. e /\ f <= Len(s)
    BY <1>0
  <2>2. SubSeq(s, b + 1, f) = EncodeTlv(tag, content(q)) <=>
          SubSeq(s, (b + 1) + 1, q) = EncodeLength(f - q)
    BY <1>0, Cut
  <2>3. ASSUME q - (b + 1) <= 1 + MaxLenOctets,
               SubSeq(s, (b + 1) + 1, q) = EncodeLength(f - q)
        PROVE  ReadLength(s, b + 1, e) = <<f - q, q>>
    <3>1. IsLengthField(s, b + 1, q, f - q)
      BY <2>3, Zenon DEF IsLengthField
    <3> QED BY <1>0, <2>1, <3>1, LengthFieldRead
  <2>4. ASSUME ReadLength(s, b + 1, e) = <<f - q, q>>
        PROVE  /\ q - (b + 1) <= 1 + MaxLenOctets
               /\ SubSeq(s, (b + 1) + 1, q) = EncodeLength(f - q)
    <3>1. ReadLength(s, b + 1, e) # Malformed
      <4>1. <<f - q, q>> # <<>>
        OBVIOUS
      <4> QED BY <2>4, <4>1 DEF Malformed
    <3>2. \E m \in Nat, p \in (b + 1) + 1 .. e :
            ReadLength(s, b + 1, e) = <<m, p>> /\ IsLengthField(s, b + 1, p, m)
      BY <1>0, <3>1, LengthAccepted
    <3>3. IsLengthField(s, b + 1, q, f - q)
      BY <2>4, <3>2
    <3> QED BY <3>3, Zenon DEF IsLengthField
  <2> QED BY <2>2, <2>3, <2>4, Zenon
<1> QED BY <1>3, <1>4, <1>5, Zenon

-----------------------------------------------------------------------------
(* Series of elements.                                                       *)

\* Whether an element is one depends on the series shorter than it only.
LEMMA ElementsAgree ==
  ASSUME NEW s, NEW b, NEW n \in Nat, NEW depth, NEW f, NEW g,
         \A k \in 0 .. n - 1 : f[k] = g[k]
  PROVE  IsElement(s, b, n, depth, f) <=> IsElement(s, b, n, depth, g)
<1>1. \A size \in (n - 2 - MaxLenOctets .. n - 2) \cap Nat : size \in 0 .. n - 1
  BY MaxLenOctetsAssumption
<1>2. \A size \in (n - 2 - MaxLenOctets .. n - 2) \cap Nat : f[size] = g[size]
  BY <1>1, Zenon
<1> QED BY <1>2, Zenon DEF IsElement

\* The series of n octets.
SeriesOf(s, n, f) ==
  [b \in 0 .. Len(s) - n |-> [depth \in 0 .. MaxNesting |->
     \/ n = 0
     \/ \E k \in 1 .. n : IsElement(s, b, k, depth, f) /\ f[n - k][b + k][depth]]]

\* They depend on the shorter ones only.
LEMMA SeriesAgree ==
  ASSUME NEW s, NEW n \in Nat, NEW f, NEW g, \A k \in 0 .. n - 1 : f[k] = g[k]
  PROVE  SeriesOf(s, n, f) = SeriesOf(s, n, g)
<1>1. \A k \in 1 .. n : n - k \in 0 .. n - 1 /\ \A j \in 0 .. k - 1 : j \in 0 .. n - 1
  OBVIOUS
<1>2. \A k \in 1 .. n : f[n - k] = g[n - k]
  BY <1>1, Zenon
<1>3. \A b, depth : \A k \in 1 .. n :
        IsElement(s, b, k, depth, f) <=> IsElement(s, b, k, depth, g)
  <2> TAKE b, depth
  <2> TAKE k \in 1 .. n
  <2>1. k \in Nat /\ \A j \in 0 .. k - 1 : f[j] = g[j]
    BY <1>1
  <2> QED BY <2>1, ElementsAgree, Zenon
<1>4. \A b, depth :
        (\/ n = 0
         \/ \E k \in 1 .. n : IsElement(s, b, k, depth, f) /\ f[n - k][b + k][depth]) =
        (\/ n = 0
         \/ \E k \in 1 .. n : IsElement(s, b, k, depth, g) /\ g[n - k][b + k][depth])
  BY <1>2, <1>3, Zenon
<1> QED BY <1>4 DEF SeriesOf

\* The recursion of Series is defined.
LEMMA SeriesExist ==
  ASSUME NEW s \in Seq(Octet), NEW n \in 0 .. Len(s)
  PROVE  Series(s)[n] = SeriesOf(s, n, Series(s))
<1> DEFINE D == 0 .. Len(s)
           V(m) == [0 .. Len(s) - m -> [0 .. MaxNesting -> BOOLEAN]]
           U == UNION {V(m) : m \in D}
           B(f, k) == SeriesOf(s, k, f)
           G == [x \in [D -> U] \X D |-> B(x[1], x[2])]
           W == CHOOSE f : f = [k \in D |-> B(f, k)]
<1>0. Len(s) \in Nat
  BY OctetsAreNumbers
<1>1. \A f, k : B(f, k) \in V(k)
  BY DEF SeriesOf
<1>2. \A f \in [D -> U], k \in D : B(f, k) \in U
  BY <1>1, Zenon
<1>3. \A f \in [D -> U], k \in D : G[f, k] = B(f, k)
  BY Zenon
<1>4. \A f, g \in [D -> U] : \A k \in D :
        (\A j \in 0 .. k - 1 : f[j] = g[j]) => B(f, k) = B(g, k)
  <2> TAKE f, g \in [D -> U]
  <2> TAKE k \in D
  <2>1. k \in Nat
    BY <1>0
  <2> QED BY <2>1, SeriesAgree, Zenon
<1>5. Series(s) = W
  BY Zenon DEF Series, SeriesOf
<1>6. 0 \in D
  BY <1>0
<1>7. U # {}
  <2>1. B(<<>>, 0) \in V(0)
    BY <1>1, Zenon
  <2> QED BY <1>6, <2>1, Zenon
<1>. HIDE DEF B
<1>8. G \in [[D -> U] \X D -> U]
  BY <1>2
<1>9. Recurs(D, U, G)
  <2>. HIDE DEF G
  <2>1. D \subseteq Nat /\ \A k \in D : \A j \in 0 .. k : j \in D
    BY <1>0
  <2>. HIDE DEF D, U
  <2>2. \A f, g \in [D -> U] : \A k \in D :
          (\A j \in 0 .. k - 1 : f[j] = g[j]) => G[f, k] = G[g, k]
    <3> TAKE f, g \in [D -> U]
    <3> TAKE k \in D
    <3> HAVE \A j \in 0 .. k - 1 : f[j] = g[j]
    <3>1. B(f, k) = B(g, k)
      BY <1>4, Zenon
    <3>2. G[f, k] = B(f, k) /\ G[g, k] = B(g, k)
      BY <1>3, Zenon
    <3> QED BY <3>1, <3>2, Zenon
  <2> QED BY <2>1, <2>2, <1>8, Zenon DEF Recurs
<1>. HIDE DEF U
<1>10. PICK v \in [D -> U] : \A k \in D : v[k] = B(v, k)
  <2>. HIDE DEF G, D
  <2>1. HasSolution(D, U, G)
    BY <1>7, <1>9, Recursion, Zenon
  <2> QED BY <2>1, <1>3, Zenon DEF HasSolution
<1>. HIDE DEF D
<1>11. W = [k \in D |-> B(W, k)]
  <2>1. v = [k \in D |-> B(v, k)]
    BY <1>10
  <2> QED BY <2>1, Zenon
<1>12. n \in D
  BY DEF D
<1>. HIDE DEF W
<1>13. W[n] = B(W, n)
  BY <1>11, <1>12, Zenon
<1> QED BY <1>5, <1>13, Zenon DEF B

\* The octets after b and up to e are elements below depth others.
ReadsOn(s, b, e, depth) == Series(s)[e - b][b][depth]

\* What remains is elements: nothing, or one and the others.
LEMMA ReadsOnIs ==
  ASSUME NEW s \in Seq(Octet), NEW e \in Nat, e <= Len(s), NEW b \in 0 .. e,
         NEW depth \in 0 .. MaxNesting
  PROVE  ReadsOn(s, b, e, depth) <=>
           b = e \/ \E f \in b + 1 .. e : /\ IsElement(s, b, f - b, depth, Series(s))
                                          /\ ReadsOn(s, f, e, depth)
<1> DEFINE n == e - b
<1>1. n \in 0 .. Len(s) /\ b \in 0 .. Len(s) - n /\ (n = 0 <=> b = e)
  BY OctetsAreNumbers
<1>2. \A k \in 1 .. n : b + k \in b + 1 .. e /\ (b + k) - b = k /\ e - (b + k) = n - k
  BY <1>1
<1>3. \A f \in b + 1 .. e : f - b \in 1 .. n /\ b + (f - b) = f
  BY <1>1
<1>. HIDE DEF n
<1>4. Series(s)[n][b][depth] <=>
        \/ n = 0
        \/ \E k \in 1 .. n : /\ IsElement(s, b, k, depth, Series(s))
                             /\ Series(s)[n - k][b + k][depth]
  <2>1. Series(s)[n] = SeriesOf(s, n, Series(s))
    BY <1>1, SeriesExist, Zenon
  <2>2. PICK series : series = Series(s)
    OBVIOUS
  <2>3. SeriesOf(s, n, series)[b][depth] <=>
          \/ n = 0
          \/ \E k \in 1 .. n : IsElement(s, b, k, depth, series) /\ series[n - k][b + k][depth]
    BY <1>1 DEF SeriesOf
  <2> QED BY <2>1, <2>2, <2>3, Zenon
<1>5. (\E k \in 1 .. n : /\ IsElement(s, b, k, depth, Series(s))
                         /\ Series(s)[n - k][b + k][depth]) <=>
      \E f \in b + 1 .. e : /\ IsElement(s, b, f - b, depth, Series(s))
                            /\ Series(s)[e - f][f][depth]
  BY <1>2, <1>3, Zenon
<1> QED BY <1>1, <1>4, <1>5, Zenon DEF ReadsOn, n

\* Where a header ends, and that the content fits in what is left of the slice.
LEMMA ReadLengthLemma ==
  ASSUME NEW data \in Seq(Octet), NEW p \in Nat, NEW limit \in Nat, limit <= Len(data),
         ReadLength(data, p, limit) # Malformed
  PROVE  ReadLength(data, p, limit)[2] \in p + 1 .. limit
<1> DEFINE first == data[p + 1]
           count == first - 128
           value == FromBytes(SubSeq(data, p + 2, p + 1 + count))
<1>1. p < limit
  BY DEF ReadLength
<1>2. first \in Octet
  BY <1>1
<1> HIDE DEF first, value
<1>3. CASE first < 128
  <2>1. ReadLength(data, p, limit) = <<first, p + 1>>
    BY <1>1, <1>3 DEF ReadLength, first
  <2> QED BY <1>1, <2>1
<1>4. CASE ~(first < 128)
  <2>1. ReadLength(data, p, limit) = <<value, p + 1 + count>>
    BY <1>1, <1>4 DEF ReadLength, first, value
  <2>2. ~(p + 1 + count > limit)
    BY <1>1, <1>4 DEF ReadLength, first
  <2> QED BY <1>2, <1>4, <2>1, <2>2 DEF Octet
<1> QED BY <1>3, <1>4

Inv == TypeOK /\ SlicesNest

\* The parts of an element on the stack.
LEMMA ElementType ==
  ASSUME NEW e \in Element PROVE e.tag \in Octet /\ e.begin \in Nat /\ e.end \in Nat
BY DEF Element

\* The facts about the stack that the steps need.
LEMMA StackLemma ==
  ASSUME Inv
  PROVE  /\ Len(open) \in Nat /\ Len(open) <= MaxNesting /\ MaxNesting \in Nat
         /\ Len(input) \in Nat /\ pos \in Nat
         /\ open # <<>> <=> Len(open) # 0
         /\ open = <<>> => Limit = Len(input)
         /\ open # <<>> => Limit = open[Len(open)].end
         /\ \A k \in 1 .. Len(open) :
              open[k] \in Element /\ open[k].begin \in Nat /\ open[k].end \in Nat
         /\ Limit \in Nat /\ pos <= Limit /\ Limit <= Len(input)
<1>1. /\ input \in Seq(Octet) /\ open \in Seq(Element) /\ pos \in Nat
      /\ Len(open) <= MaxNesting /\ pos <= Limit
  BY DEF Inv, TypeOK, SlicesNest
<1>2. /\ Len(open) \in Nat /\ Len(input) \in Nat /\ MaxNesting \in Nat
      /\ open # <<>> <=> Len(open) # 0
  BY <1>1, EmptySeq, LenProperties, MaxNestingAssumption
<1>3. \A k \in 1 .. Len(open) :
        open[k] \in Element /\ open[k].begin \in Nat /\ open[k].end \in Nat
  BY <1>1, ElementOfSeq, ElementType
<1>4. /\ open = <<>> => Limit = Len(input)
      /\ open # <<>> => Limit = open[Len(open)].end
  BY DEF Limit, Top
<1>5. Limit \in Nat /\ Limit <= Len(input)
  <2>1. CASE open = <<>>
    BY <1>2, <1>4, <2>1
  <2>2. CASE open # <<>>
    <3>1. Len(open) \in 1 .. Len(open)
      BY <1>2, <2>2
    <3>2. open[Len(open)].end <= Len(input)
      BY <3>1 DEF Inv, SlicesNest
    <3> QED BY <1>3, <1>4, <2>2, <3>1, <3>2
  <2> QED BY <2>1, <2>2
<1> QED BY <1>1, <1>2, <1>3, <1>4, <1>5

\* An element that is about to be read lies inside the innermost slice.
LEMMA HeaderLemma ==
  ASSUME Inv, HeaderAllowed
  PROVE  /\ Tag \in Octet /\ Begin \in Nat /\ End \in Nat
         /\ pos < Begin /\ Begin <= End /\ End <= Limit
<1>1. Limit \in Nat /\ Limit <= Len(input) /\ input \in Seq(Octet) /\ pos \in Nat
  BY StackLemma DEF Inv, TypeOK
<1>2. pos < Limit /\ Length # Malformed /\ Length[1] \in 0 .. Limit - Length[2]
  BY DEF HeaderAllowed, Begin
<1>3. Tag \in Octet
  BY <1>1, <1>2 DEF Tag
<1>4. Length[2] \in pos + 2 .. Limit
  <2>1. pos + 1 \in Nat
    BY <1>1
  <2>2. Length[2] \in (pos + 1) + 1 .. Limit
    BY <1>1, <1>2, <2>1, ReadLengthLemma DEF Length
  <2> QED BY <1>1, <2>2
<1> QED BY <1>1, <1>2, <1>3, <1>4 DEF Begin, End

\* Nothing is open at the start.
LEMMA InitInv == Init => Inv
BY InputsAssumption, MaxNestingAssumption DEF Init, Inv, TypeOK, SlicesNest, Limit

\* A primitive element ends inside the slice it was read from.
LEMMA ReadPrimitiveInv == Inv /\ ReadPrimitive => Inv'
<1> SUFFICES ASSUME Inv, ReadPrimitive PROVE Inv'
  OBVIOUS
<1>1. End \in Nat /\ pos <= End /\ End <= Limit /\ pos \in Nat
  BY HeaderLemma DEF ReadPrimitive, TlvAllowed, Inv, TypeOK
<1>2. /\ pos' = End /\ open' = open /\ input' = input /\ mode' = mode
      /\ outcome' = outcome
  BY DEF ReadPrimitive
<1> HIDE DEF End
<1>3. TypeOK'
  BY <1>1, <1>2 DEF Inv, TypeOK
<1>4. Limit' = Limit
  BY <1>2 DEF Limit, Top
<1>5. pos' <= Limit'
  BY <1>1, <1>2, <1>4
<1>6. \A k \in 1 .. Len(open) : open[k].begin <= pos'
  <2> TAKE k \in 1 .. Len(open)
  <2>1. open[k].begin \in Nat /\ open[k].begin <= pos
    BY StackLemma DEF Inv, SlicesNest
  <2> QED BY <1>1, <1>2, <2>1
<1> QED BY <1>2, <1>3, <1>5, <1>6 DEF Inv, SlicesNest

\* The slice of a constructed element lies inside the slice it was read from.
LEMMA OpenConstructedInv == Inv /\ OpenConstructed => Inv'
<1> SUFFICES ASSUME Inv, OpenConstructed PROVE Inv'
  OBVIOUS
<1> DEFINE e == [tag |-> Tag, begin |-> Begin, end |-> End]
           n == Len(open)
<1>1. /\ Tag \in Octet /\ Begin \in Nat /\ End \in Nat
      /\ pos < Begin /\ Begin <= End /\ End <= Limit
  BY HeaderLemma DEF OpenConstructed, TlvAllowed
<1>2. /\ pos' = Begin /\ open' = Append(open, e) /\ input' = input /\ mode' = mode
      /\ outcome' = outcome
  BY DEF OpenConstructed
<1>3. e \in Element /\ e.begin = Begin /\ e.end = End
  BY <1>1 DEF Element
<1> HIDE DEF e
<1>4. /\ open' \in Seq(Element) /\ open' # <<>>
      /\ Len(open') = n + 1 /\ open'[n + 1] = e
      /\ \A k \in 1 .. n : open'[k] = open[k]
  BY <1>2, <1>3, AppendProperties DEF Inv, TypeOK
<1>5. n \in Nat /\ n + 1 <= MaxNesting
  BY StackLemma DEF OpenConstructed, TooDeep
<1>6. TypeOK'
  BY <1>1, <1>2, <1>4, <1>5 DEF Inv, TypeOK
<1>7. pos' <= Limit'
  BY <1>1, <1>2, <1>3, <1>4 DEF Limit, Top
<1>8. ASSUME NEW k \in 1 .. Len(open')
      PROVE  /\ open'[k].begin <= pos' /\ open'[k].end <= Len(input')
             /\ k > 1 => /\ open'[k - 1].begin < open'[k].begin
                         /\ open'[k].end <= open'[k - 1].end
  <2>1. CASE k = n + 1
    <3>1. open'[k].begin = Begin /\ open'[k].end = End
      BY <1>3, <1>4, <2>1
    <3>2. End <= Len(input)
      BY <1>1, StackLemma
    <3>3. ASSUME k > 1
          PROVE  open'[k - 1].begin < Begin /\ End <= open'[k - 1].end
      <4>1. n \in 1 .. n /\ k - 1 = n /\ open # <<>>
        BY <1>5, <2>1, <3>3, StackLemma
      <4>2. open'[k - 1] = open[n]
        BY <1>4, <4>1
      <4>3. open[n].begin \in Nat /\ open[n].begin <= pos /\ pos \in Nat
        BY <4>1, StackLemma DEF Inv, SlicesNest
      <4>4. Limit = open[n].end
        BY <4>1, StackLemma
      <4> QED BY <1>1, <4>2, <4>3, <4>4
    <3> QED BY <1>1, <1>2, <3>1, <3>2, <3>3
  <2>2. CASE k # n + 1
    <3>1. k \in 1 .. n /\ (k > 1 => k - 1 \in 1 .. n)
      BY <1>4, <1>5, <2>2
    <3>2. open'[k] = open[k] /\ (k > 1 => open'[k - 1] = open[k - 1])
      BY <1>4, <3>1
    <3>3. open[k].begin \in Nat /\ open[k].begin <= pos /\ pos \in Nat
      BY <3>1, StackLemma DEF Inv, SlicesNest
    <3>4. open[k].begin <= pos'
      BY <1>1, <1>2, <3>3
    <3> QED BY <1>2, <3>1, <3>2, <3>4 DEF Inv, SlicesNest
  <2> QED BY <2>1, <2>2
<1> QED BY <1>6, <1>7, <1>8 DEF Inv, SlicesNest

\* Reading goes on behind an element in the slice that contains it.
LEMMA CloseConstructedInv == Inv /\ CloseConstructed => Inv'
<1> SUFFICES ASSUME Inv, CloseConstructed PROVE Inv'
  OBVIOUS
<1> DEFINE n == Len(open)
<1>1. n \in Nat \ {0} /\ open # <<>>
  BY StackLemma DEF CloseConstructed
<1>2. /\ pos' = pos /\ open' = SubSeq(open, 1, n - 1) /\ input' = input
      /\ mode' = mode /\ outcome' = outcome
  BY DEF CloseConstructed
<1>3. /\ open' \in Seq(Element) /\ Len(open') = n - 1
      /\ \A k \in 1 .. n - 1 : open'[k] = open[k]
  <2>1. \A k \in 1 .. n - 1 : open[k] \in Element
    BY <1>1, StackLemma
  <2>2. /\ SubSeq(open, 1, n - 1) \in Seq(Element)
        /\ Len(SubSeq(open, 1, n - 1)) = IF 1 <= n - 1 THEN (n - 1) - 1 + 1 ELSE 0
        /\ \A k \in 1 .. (n - 1) - 1 + 1 : SubSeq(open, 1, n - 1)[k] = open[1 + k - 1]
    BY <1>1, <2>1, SubSeqProperties
  <2>3. \A k \in 1 .. n - 1 : k \in 1 .. (n - 1) - 1 + 1 /\ 1 + k - 1 = k
    BY <1>1
  <2>4. Len(SubSeq(open, 1, n - 1)) = n - 1
    <3>1. CASE n = 1
      BY <2>2, <3>1
    <3>2. CASE n # 1
      <4>1. 1 <= n - 1 /\ (n - 1) - 1 + 1 = n - 1
        BY <1>1, <3>2
      <4> QED BY <2>2, <4>1
    <3> QED BY <3>1, <3>2
  <2> QED BY <1>2, <2>2, <2>3, <2>4
<1>4. TypeOK'
  BY <1>1, <1>2, <1>3, StackLemma DEF Inv, TypeOK
<1>5. pos' <= Limit'
  <2>1. CASE n = 1
    <3>1. open' = <<>>
      BY <1>3, <2>1, EmptySeq
    <3>2. Limit' = Len(input)
      BY <1>2, <3>1 DEF Limit
    <3> QED BY <1>2, <3>2, StackLemma
  <2>2. CASE n # 1
    <3>1. /\ n - 1 \in 1 .. n - 1 /\ n - 1 \in 1 .. n /\ n \in 1 .. n /\ n > 1
          /\ Len(open') # 0
      BY <1>1, <1>3, <2>2
    <3>2. open' # <<>>
      BY <3>1, EmptySeq
    <3>3. Limit' = open[n - 1].end
      BY <1>3, <3>1, <3>2 DEF Limit, Top
    <3>4. open[n].end <= open[n - 1].end
      BY <3>1 DEF Inv, SlicesNest
    <3>5. /\ open[n].end \in Nat /\ open[n - 1].end \in Nat
          /\ pos \in Nat /\ pos <= open[n].end
      BY <1>1, <3>1, StackLemma
    <3> QED BY <1>2, <3>3, <3>4, <3>5
  <2> QED BY <2>1, <2>2
<1>6. ASSUME NEW k \in 1 .. Len(open')
      PROVE  /\ open'[k].begin <= pos' /\ open'[k].end <= Len(input')
             /\ k > 1 => /\ open'[k - 1].begin < open'[k].begin
                         /\ open'[k].end <= open'[k - 1].end
  <2>1. k \in 1 .. n - 1 /\ k \in 1 .. n /\ (k > 1 => k - 1 \in 1 .. n - 1)
    BY <1>1, <1>3
  <2>2. open'[k] = open[k] /\ (k > 1 => open'[k - 1] = open[k - 1])
    BY <1>3, <2>1
  <2> QED BY <1>2, <2>1, <2>2 DEF Inv, SlicesNest
<1> QED BY <1>4, <1>5, <1>6 DEF Inv, SlicesNest

\* The recursion stays typed, inside its slices and within the nesting bound.
THEOREM Inductive == Spec => []Inv
<1>1. Inv /\ [Next]_vars => Inv'
  <2> SUFFICES ASSUME Inv, [Next]_vars PROVE Inv'
    OBVIOUS
  <2>1. CASE Reject \/ Finish
    BY <2>1 DEF Reject, Finish, Inv, TypeOK, SlicesNest, Limit, Top
  <2>2. CASE UNCHANGED vars
    BY <2>2 DEF vars, Inv, TypeOK, SlicesNest, Limit, Top
  <2> QED BY <2>1, <2>2, ReadPrimitiveInv, OpenConstructedInv, CloseConstructedInv DEF Next
<1> QED BY InitInv, <1>1, PTL DEF Spec

\* No input makes the recursion of _read_tlv and _read_children deeper than
\* _MAX_NESTING (asn1.py:170).
THEOREM TypeCorrect == Spec => []TypeOK
<1>1. Inv => TypeOK
  BY DEF Inv
<1> QED BY Inductive, <1>1, PTL

\* The decoder reads no octet outside the element it belongs to (asn1.py:190-197),
\* whatever the lengths in the input say.
THEOREM SlicesCorrect == Spec => []SlicesNest
<1>1. Inv => SlicesNest
  BY DEF Inv
<1> QED BY Inductive, <1>1, PTL

-----------------------------------------------------------------------------
(* What remains to be read.                                                  *)

\* The input is what it should be.
IsDer == IF mode = "decode" THEN ElementIsDer(input) ELSE ElementsAreDer(input)

\* What is expected after an element at the top level.
After(p) == IF mode = "decode" THEN p = Len(input) ELSE ReadsOn(input, p, Len(input), 0)

\* What is expected from p on in the innermost slice, and after an open element.
GoesOn(p)  == IF open = <<>> THEN After(p) ELSE ReadsOn(input, p, Top.end, Len(open))
Resumes(k) == IF k = 1 THEN After(open[1].end)
                       ELSE ReadsOn(input, open[k].end, open[k - 1].end, k - 1)

\* decode has not read its element.
Starting == open = <<>> /\ mode = "decode" /\ nodes = <<>>

\* All that has not been read is as expected.
Pending ==
  /\ IF Starting THEN ElementIsDer(input) ELSE GoesOn(pos)
  /\ \A k \in 1 .. Len(open) : Resumes(k)

\* The siblings are one more than the open elements.
Siblings == Len(kids) = Len(open) + 1 /\ \E X : kids \in Seq(Seq(X))

\* The verdict is not lost on the way.
Verdict ==
  /\ Starting => pos = 0
  /\ outcome = "running" => (IsDer <=> Pending)
  /\ AcceptsExactlyDer

\* The rules of the grammar for the element at pos are those of the next step.
LEMMA NextIs ==
  ASSUME Inv, NEW f \in pos + 1 .. Limit
  PROVE  IsElement(input, pos, f - pos, Len(open), Series(input)) <=>
           /\ TlvAllowed /\ End = f
           /\ IsConstructed(Tag) =>
                Len(open) < MaxNesting /\ ReadsOn(input, Begin, End, Len(open) + 1)
<1> DEFINE n == Len(open)
<1>1. /\ Limit \in Nat /\ Limit <= Len(input) /\ input \in Seq(Octet) /\ pos \in Nat
      /\ pos < Limit /\ f \in Nat /\ f <= Limit
  BY StackLemma DEF Inv, TypeOK
<1>2. PICK l : l = Limit
  OBVIOUS
<1>3. IsElement(input, pos, f - pos, n, Series(input)) <=>
        \E q \in pos + 2 .. f : /\ ReadLength(input, pos + 1, Limit) = <<f - q, q>>
                                /\ TlvIsDer(input, pos, q, f, n, Series(input))
  <2>1. l \in Nat /\ l <= Len(input) /\ f \in pos + 1 .. l
    BY <1>1, <1>2
  <2>2. IsElement(input, pos, f - pos, n, Series(input)) <=>
          \E q \in pos + 2 .. f : /\ ReadLength(input, pos + 1, l) = <<f - q, q>>
                                  /\ TlvIsDer(input, pos, q, f, n, Series(input))
    BY <1>1, <2>1, ElementIs
  <2> QED BY <1>2, <2>2, Zenon
<1>4. ASSUME NEW q \in pos + 2 .. f, Length = <<f - q, q>>
      PROVE  /\ Begin = q /\ End = f /\ Content = SubSeq(input, q + 1, f)
             /\ HeaderAllowed <=> TagAllowed(Tag)
  <2>1. q \in Nat /\ f - q \in 0 .. Limit - q /\ q + (f - q) = f
    BY <1>1
  <2>2. Begin = q /\ End = f /\ Length # Malformed /\ Length[1] = f - q
    BY <1>4, <2>1 DEF Begin, End, Malformed
  <2> QED BY <1>1, <2>1, <2>2, Zenon DEF HeaderAllowed, Content
<1>5. \A q : TlvIsDer(input, pos, q, f, n, Series(input)) <=>
        /\ TagAllowed(Tag) /\ ContentAllowed(Tag, SubSeq(input, q + 1, f))
        /\ IsConstructed(Tag) => n < MaxNesting /\ ReadsOn(input, q, f, n + 1)
  BY Zenon DEF TlvIsDer, Tag, ReadsOn
<1>6. ASSUME TlvAllowed, End = f
      PROVE  Begin \in pos + 2 .. f /\ Length = <<f - Begin, Begin>>
  <2>1. HeaderAllowed /\ pos + 1 \in Nat /\ (pos + 1) + 1 = pos + 2
    BY <1>1, <1>6 DEF TlvAllowed
  <2>2. \E m \in Nat, q \in (pos + 1) + 1 .. Limit :
          ReadLength(input, pos + 1, Limit) = <<m, q>> /\ IsLengthField(input, pos + 1, q, m)
    <3>1. ReadLength(input, pos + 1, l) # Malformed
      BY <1>2, <2>1, Zenon DEF HeaderAllowed, Length
    <3>2. l \in Nat /\ l <= Len(input)
      BY <1>1, <1>2
    <3> QED BY <1>1, <1>2, <2>1, <3>1, <3>2, LengthAccepted
  <2>3. PICK m \in Nat, q \in pos + 2 .. Limit : Length = <<m, q>>
    BY <2>1, <2>2, Zenon DEF Length
  <2>4. Begin = q /\ End = q + m
    BY <2>3 DEF Begin, End
  <2>5. m = f - q /\ q <= f
    BY <1>1, <1>6, <2>3, <2>4
  <2> QED BY <1>1, <2>3, <2>4, <2>5
<1>7. ASSUME NEW q \in pos + 2 .. f, Length = <<f - q, q>>,
             TlvIsDer(input, pos, q, f, n, Series(input))
      PROVE  /\ TlvAllowed /\ End = f
             /\ IsConstructed(Tag) => n < MaxNesting /\ ReadsOn(input, Begin, End, n + 1)
  <2>1. /\ Begin = q /\ End = f /\ Content = SubSeq(input, q + 1, f)
        /\ HeaderAllowed <=> TagAllowed(Tag)
    BY <1>4, <1>7
  <2> QED BY <1>5, <1>7, <2>1, Zenon DEF TlvAllowed
<1>8. ASSUME TlvAllowed, End = f,
             IsConstructed(Tag) => n < MaxNesting /\ ReadsOn(input, Begin, End, n + 1)
      PROVE  TlvIsDer(input, pos, Begin, f, n, Series(input))
  <2>1. Content = SubSeq(input, Begin + 1, f)
    BY <1>8, Zenon DEF Content
  <2>2. TagAllowed(Tag) /\ ContentAllowed(Tag, Content)
    BY <1>8, Zenon DEF TlvAllowed, HeaderAllowed
  <2> QED BY <1>5, <1>8, <2>1, <2>2, Zenon
<1>9. (\E q \in pos + 2 .. f : /\ ReadLength(input, pos + 1, Limit) = <<f - q, q>>
                                /\ TlvIsDer(input, pos, q, f, n, Series(input))) <=>
      /\ TlvAllowed /\ End = f
      /\ IsConstructed(Tag) => n < MaxNesting /\ ReadsOn(input, Begin, End, n + 1)
  BY <1>6, <1>7, <1>8, Zenon DEF Length
<1> QED BY <1>3, <1>9, Zenon

\* What is expected from p on is up to the end of the slice.
LEMMA GoesOnIs ==
  ASSUME Inv, ~(open = <<>> /\ mode = "decode"), NEW p
  PROVE  GoesOn(p) <=> ReadsOn(input, p, Limit, Len(open))
<1>1. open = <<>> => Len(open) = 0
  OBVIOUS
<1> QED BY <1>1, Zenon DEF GoesOn, After, Limit

\* An element has at least one octet.
LEMMA NoElement ==
  ASSUME NEW s, NEW b, NEW depth, NEW series
  PROVE  ~IsElement(s, b, 0, depth, series)
<1>1. (0 - 2 - MaxLenOctets .. 0 - 2) \cap Nat = {}
  BY MaxLenOctetsAssumption
<1> QED BY <1>1, Zenon DEF IsElement

\* The element at pos is as expected, and what follows it.
NextIsDer ==
  /\ TlvAllowed
  /\ IsConstructed(Tag) => ~TooDeep /\ ReadsOn(input, Begin, End, Len(open) + 1)
  /\ GoesOn(End)

\* As long as there is more to read, what remains begins with an element.
LEMMA MoreIs ==
  ASSUME Inv, MoreToRead, Starting => pos = 0
  PROVE  (IF Starting THEN ElementIsDer(input) ELSE GoesOn(pos)) <=> NextIsDer
<1> DEFINE n == Len(open)
           Covers(f) == IsElement(input, pos, f - pos, n, Series(input))
<1>1. /\ Limit \in Nat /\ Limit <= Len(input) /\ input \in Seq(Octet) /\ pos \in Nat
      /\ pos <= Limit /\ n \in 0 .. MaxNesting /\ MaxNesting \in Nat /\ Len(input) \in Nat
      /\ pos \in 0 .. Limit
  BY StackLemma DEF Inv, TypeOK
<1>2. TooDeep <=> ~(n < MaxNesting)
  BY <1>1 DEF TooDeep
<1>3. TlvAllowed => End \in pos + 1 .. Limit
  <2> SUFFICES ASSUME TlvAllowed PROVE End \in pos + 1 .. Limit
    OBVIOUS
  <2>1. /\ Begin \in Nat /\ End \in Nat /\ pos < Begin /\ Begin <= End /\ End <= Limit
    BY HeaderLemma DEF TlvAllowed
  <2>. HIDE DEF TlvAllowed
  <2> QED BY <1>1, <2>1
<1>4. CASE Starting
  <2>1. open = <<>> /\ mode = "decode" /\ pos = 0 /\ n = 0 /\ Limit = Len(input)
    BY <1>4 DEF Starting, Limit
  <2>2. \A p : GoesOn(p) <=> p = Len(input)
    BY <2>1, Zenon DEF GoesOn, After
  <2>3. ElementIsDer(input) <=> IsElement(input, pos, Len(input), n, Series(input))
    BY <2>1, Zenon DEF ElementIsDer
  <2>4. CASE Len(input) = 0
    <3>1. ~IsElement(input, pos, Len(input), n, Series(input))
      BY <2>4, NoElement, Zenon
    <3>2. ~TlvAllowed
      BY <2>1, <2>4 DEF TlvAllowed, HeaderAllowed
    <3> QED BY <1>4, <2>3, <3>1, <3>2, Zenon DEF NextIsDer
  <2>5. CASE Len(input) # 0
    <3>1. PICK f : f = Len(input)
      OBVIOUS
    <3>2. f \in pos + 1 .. Limit /\ f - pos = f
      BY <1>1, <2>1, <2>5, <3>1
    <3>3. IsElement(input, pos, f - pos, n, Series(input)) <=>
            /\ TlvAllowed /\ End = f
            /\ IsConstructed(Tag) => n < MaxNesting /\ ReadsOn(input, Begin, End, n + 1)
      BY <3>2, NextIs, Zenon
    <3> QED BY <1>2, <1>4, <2>2, <2>3, <3>1, <3>2, <3>3, Zenon DEF NextIsDer
  <2> QED BY <2>4, <2>5
<1>5. CASE ~Starting
  <2>1. ~(open = <<>> /\ mode = "decode") /\ pos < Limit
    BY <1>5 DEF Starting, MoreToRead
  <2>2. \A p : GoesOn(p) <=> ReadsOn(input, p, Limit, n)
    BY <2>1, GoesOnIs, Zenon
  <2>3. PICK l : l = Limit
    OBVIOUS
  <2>4. ReadsOn(input, pos, l, n) <=>
          pos = l \/ \E f \in pos + 1 .. l : Covers(f) /\ ReadsOn(input, f, l, n)
    <3>1. l \in Nat /\ l <= Len(input) /\ pos \in 0 .. l
      BY <1>1, <2>3
    <3> QED BY <1>1, <3>1, ReadsOnIs
  <2>5. pos # l
    BY <1>1, <2>1, <2>3
  <2>6. \A f \in pos + 1 .. l : Covers(f) <=>
          /\ TlvAllowed /\ End = f
          /\ IsConstructed(Tag) => n < MaxNesting /\ ReadsOn(input, Begin, End, n + 1)
    BY <2>3, NextIs, Zenon
  <2>. HIDE DEF Covers
  <2>7. GoesOn(pos) <=> \E f \in pos + 1 .. l : Covers(f) /\ GoesOn(f)
    BY <2>2, <2>3, <2>4, <2>5, Zenon
  <2>8. TlvAllowed => End \in pos + 1 .. l
    BY <1>3, <2>3, Zenon
  <2> QED BY <1>2, <1>5, <2>6, <2>7, <2>8, Zenon DEF NextIsDer
<1> QED BY <1>4, <1>5

-----------------------------------------------------------------------------
(* The siblings.                                                             *)

\* t is s with one sibling more at level k.
Joined(s, k, x) == [s EXCEPT ![k] = Append(@, x)]
IsJoined(X, s, k, x, t) ==
  /\ t \in Seq(Seq(X \cup {x})) /\ Len(t) = Len(s)
  /\ s[k] \in Seq(X) /\ t[k] = Append(s[k], x) /\ t[k] # <<>>
  /\ \A j \in 1 .. Len(s) : j # k => t[j] = s[j]

\* The other levels stay.
LEMMA OneMore ==
  ASSUME NEW X, NEW s \in Seq(Seq(X)), NEW k \in 1 .. Len(s), NEW x
  PROVE  IsJoined(X, s, k, x, Joined(s, k, x))
<1> DEFINE Y == X \cup {x}
           t == Joined(s, k, x)
           e == Append(s[k], x)
<1>1. s[k] \in Seq(X)
  BY ElementOfSeq
<1>2. s \in Seq(Seq(Y)) /\ s[k] \in Seq(Y) /\ x \in Y
  <2>1. Seq(X) \subseteq Seq(Y)
    OBVIOUS
  <2>2. Seq(Seq(X)) \subseteq Seq(Seq(Y))
    BY <2>1
  <2> QED BY <1>1, <2>1, <2>2
<1>. HIDE DEF Y
<1>3. e \in Seq(Y) /\ e # <<>>
  BY <1>2, AppendProperties
<1>4. t = [s EXCEPT ![k] = e]
  BY DEF Joined
<1>. HIDE DEF t, e
<1>5. [s EXCEPT ![k] = e] \in Seq(Seq(Y)) /\ Len([s EXCEPT ![k] = e]) = Len(s)
      /\ \A j \in 1 .. Len(s) : [s EXCEPT ![k] = e][j] = IF j = k THEN e ELSE s[j]
  BY <1>2, <1>3, ExceptSeq
<1>6. t \in Seq(Seq(Y)) /\ Len(t) = Len(s) /\ t[k] = e /\ \A j \in 1 .. Len(s) : j # k => t[j] = s[j]
  BY <1>4, <1>5, Zenon
<1> QED BY <1>1, <1>3, <1>6, Zenon DEF IsJoined, Y, t, e

\* A primitive element joins the last siblings.
LEMMA ReadPrimitiveSiblings ==
  ASSUME Inv, Siblings, ReadPrimitive
  PROVE  Siblings' /\ (open = <<>> => nodes' # <<>>)
<1> DEFINE n == Len(open)
           x == [tag |-> Tag, content |-> Content, children |-> <<>>]
<1>1. n \in Nat /\ Len(kids) = n + 1 /\ Len(kids) \in 1 .. Len(kids)
  BY StackLemma DEF Siblings
<1>2. PICK X : kids \in Seq(Seq(X))
  BY DEF Siblings
<1>3. kids' = [kids EXCEPT ![Len(kids)] = Append(@, x)] /\ open' = open
  BY DEF ReadPrimitive
<1>. HIDE DEF x
<1>4. PICK k \in 1 .. Len(kids) : k = Len(kids)
  BY <1>1
<1>5. /\ kids' \in Seq(Seq(X \cup {x})) /\ Len(kids') = Len(kids)
      /\ kids'[k] # <<>>
  <2>1. kids' = Joined(kids, k, x)
    BY <1>3, <1>4, Zenon DEF Joined
  <2>2. IsJoined(X, kids, k, x, kids')
    BY <1>2, <2>1, OneMore, Zenon
  <2> QED BY <2>2, Zenon DEF IsJoined
<1>6. open = <<>> => k = 1
  BY <1>1, <1>4
<1> QED BY <1>1, <1>3, <1>5, <1>6 DEF Siblings, nodes

\* A constructed element begins with no children.
LEMMA OpenConstructedSiblings ==
  ASSUME Inv, Siblings, OpenConstructed
  PROVE  Siblings'
<1>1. PICK X : kids \in Seq(Seq(X))
  BY DEF Siblings
<1>2. kids' = Append(kids, <<>>) /\ open' = Append(open, [tag |-> Tag, begin |-> Begin, end |-> End])
  BY DEF OpenConstructed
<1>3. [tag |-> Tag, begin |-> Begin, end |-> End] \in Element
  BY HeaderLemma DEF OpenConstructed, TlvAllowed, Element
<1>4. Len(open') = Len(open) + 1
  BY <1>2, <1>3, AppendProperties DEF Inv, TypeOK
<1>5. <<>> \in Seq(X)
  OBVIOUS
<1>6. kids' \in Seq(Seq(X)) /\ Len(kids') = Len(kids) + 1
  BY <1>1, <1>2, <1>5, AppendProperties
<1> QED BY <1>4, <1>6 DEF Siblings

\* An element that ends joins its siblings.
LEMMA CloseConstructedSiblings ==
  ASSUME Inv, Siblings, CloseConstructed
  PROVE  Siblings' /\ (Len(open) = 1 => nodes' # <<>>)
<1> DEFINE n == Len(open)
           s == SubSeq(kids, 1, n)
           x == [tag |-> Top.tag, content |-> SubSeq(input, Top.begin + 1, Top.end),
                 children |-> kids[Len(kids)]]
<1>1. n \in Nat \ {0} /\ Len(kids) = n + 1 /\ n \in 1 .. n /\ open \in Seq(Element)
  BY StackLemma DEF CloseConstructed, Siblings, Inv, TypeOK
<1>2. PICK X : kids \in Seq(Seq(X))
  BY DEF Siblings
<1>3. kids' = [s EXCEPT ![n] = Append(@, x)] /\ open' = SubSeq(open, 1, n - 1)
  BY DEF CloseConstructed
<1>4. s \in Seq(Seq(X)) /\ Len(s) = n
  <2>1. 0 \in Nat /\ n \in Nat /\ 0 <= n /\ n <= Len(kids) /\ 0 + 1 = 1 /\ n - 0 = n
    BY <1>1
  <2>2. SubSeq(kids, 0 + 1, n) \in Seq(Seq(X)) /\ Len(SubSeq(kids, 0 + 1, n)) = n - 0
    BY <1>2, <2>1, PartOf
  <2> QED BY <2>1, <2>2
<1>5. Len(open') = n - 1
  <2>1. n - 1 \in Nat /\ 0 <= n - 1 /\ n - 1 <= Len(open) /\ 0 + 1 = 1 /\ (n - 1) - 0 = n - 1
    BY <1>1
  <2>2. Len(SubSeq(open, 0 + 1, n - 1)) = (n - 1) - 0
    BY <1>1, <2>1, PartOf
  <2> QED BY <1>3, <2>1, <2>2
<1>. HIDE DEF s, x
<1>6. PICK k \in 1 .. Len(s) : k = n
  BY <1>1, <1>4
<1>7. kids' \in Seq(Seq(X \cup {x})) /\ Len(kids') = Len(s) /\ kids'[k] # <<>>
  <2>1. kids' = Joined(s, k, x)
    BY <1>3, <1>6, Zenon DEF Joined
  <2>2. IsJoined(X, s, k, x, kids')
    BY <1>4, <2>1, OneMore, Zenon
  <2> QED BY <2>2, Zenon DEF IsJoined
<1>8. Len(kids') = Len(open') + 1
  BY <1>1, <1>4, <1>5, <1>7
<1> QED BY <1>6, <1>7, <1>8 DEF Siblings, nodes

-----------------------------------------------------------------------------
(* The verdict.                                                              *)

\* The facts about a running decoder.
LEMMA Running ==
  ASSUME Verdict, outcome = "running"
  PROVE  (Starting => pos = 0) /\ (IsDer <=> Pending)
BY DEF Verdict

\* A decoder that goes on has given no verdict.
LEMMA NoVerdict ==
  ASSUME outcome = "running"
  PROVE  AcceptsExactlyDer
BY DEF AcceptsExactlyDer

\* What remains after a primitive element is what remained before it.
LEMMA ReadPrimitiveVerdict ==
  ASSUME Inv, Siblings, Verdict, ReadPrimitive
  PROVE  Verdict'
<1>1. /\ outcome = "running" /\ MoreToRead /\ TlvAllowed /\ ~IsConstructed(Tag)
      /\ pos' = End /\ open' = open /\ input' = input /\ mode' = mode /\ outcome' = outcome
  BY DEF ReadPrimitive
<1>2. (Starting => pos = 0) /\ (IsDer <=> Pending)
  BY <1>1, Running
<1>3. ~Starting'
  BY <1>1, ReadPrimitiveSiblings DEF Starting
<1>4. (IF Starting THEN ElementIsDer(input) ELSE GoesOn(pos)) <=> GoesOn(End)
  <2>1. (IF Starting THEN ElementIsDer(input) ELSE GoesOn(pos)) <=> NextIsDer
    BY <1>1, <1>2, MoreIs, Zenon
  <2> QED BY <1>1, <2>1, Zenon DEF NextIsDer
<1>5. /\ IsDer' <=> IsDer
      /\ GoesOn(pos)' <=> GoesOn(End)
      /\ \A k \in 1 .. Len(open) : Resumes(k)' <=> Resumes(k)
  <2>. HIDE DEF End
  <2> QED BY <1>1 DEF IsDer, GoesOn, After, Resumes, Top
<1>6. Pending' <=> Pending
  BY <1>1, <1>3, <1>4, <1>5, Zenon DEF Pending
<1>7. AcceptsExactlyDer'
  BY <1>1 DEF AcceptsExactlyDer
<1> QED BY <1>1, <1>2, <1>3, <1>5, <1>6, <1>7, Zenon DEF Verdict

\* The content of a constructed element remains to be read, and what follows it.
LEMMA OpenConstructedVerdict ==
  ASSUME Inv, Siblings, Verdict, OpenConstructed
  PROVE  Verdict'
<1> DEFINE n == Len(open)
           e == [tag |-> Tag, begin |-> Begin, end |-> End]
<1>1. /\ outcome = "running" /\ MoreToRead /\ TlvAllowed /\ IsConstructed(Tag) /\ ~TooDeep
      /\ pos' = Begin /\ open' = Append(open, e) /\ input' = input /\ mode' = mode
      /\ outcome' = outcome
  BY DEF OpenConstructed
<1>2. (Starting => pos = 0) /\ (IsDer <=> Pending)
  BY <1>1, Running
<1>3. e \in Element /\ e.end = End
  BY <1>1, HeaderLemma DEF TlvAllowed, Element
<1>4. n \in Nat /\ (open = <<>> <=> n = 0) /\ (open # <<>> => n \in 1 .. n)
  BY StackLemma DEF Inv, TypeOK
<1>. HIDE DEF e
<1>5. /\ open' # <<>> /\ Len(open') = n + 1 /\ open'[n + 1] = e
      /\ \A k \in 1 .. n : open'[k] = open[k]
  BY <1>1, <1>3, AppendProperties DEF Inv, TypeOK
<1>a. PICK m : m = n
  OBVIOUS
<1>6. (IF Starting THEN ElementIsDer(input) ELSE GoesOn(pos)) <=>
        ReadsOn(input, Begin, End, n + 1) /\ GoesOn(End)
  <2>1. (IF Starting THEN ElementIsDer(input) ELSE GoesOn(pos)) <=> NextIsDer
    BY <1>1, <1>2, MoreIs, Zenon
  <2> QED BY <1>1, <2>1, Zenon DEF NextIsDer
<1>. HIDE DEF Begin, End
<1>7. ~Starting' /\ (IsDer' <=> IsDer)
  BY <1>1, <1>5 DEF Starting, IsDer
<1>8. GoesOn(pos)' <=> ReadsOn(input, Begin, End, n + 1)
  BY <1>1, <1>3, <1>5 DEF GoesOn, Top
<1>9. Resumes(m + 1)' <=> GoesOn(End)
  <2>1. CASE open = <<>>
    <3>1. n = 0 /\ m + 1 = 1
      BY <1>4, <1>a, <2>1
    <3>2. open'[1].end = End
      BY <1>3, <1>5, <1>a, <3>1
    <3> QED BY <1>1, <2>1, <3>1, <3>2 DEF Resumes, GoesOn, After
  <2>2. CASE open # <<>>
    <3>1. m + 1 # 1 /\ (m + 1) - 1 = n
      BY <1>4, <1>a, <2>2
    <3>2. open'[m + 1].end = End /\ open'[n] = open[n]
      BY <1>3, <1>4, <1>5, <1>a, <2>2
    <3>3. Resumes(m + 1)' <=> ReadsOn(input, End, open[n].end, n)
      BY <1>1, <3>1, <3>2 DEF Resumes
    <3> QED BY <2>2, <3>3 DEF GoesOn, Top
  <2> QED BY <2>1, <2>2
<1>10. ASSUME NEW k \in 1 .. n PROVE Resumes(k)' <=> Resumes(k)
  <2>1. 1 \in 1 .. n /\ (k # 1 => k - 1 \in 1 .. n)
    BY <1>4
  <2>2. open'[k] = open[k] /\ open'[1] = open[1] /\ (k # 1 => open'[k - 1] = open[k - 1])
    BY <1>5, <2>1
  <2> QED BY <1>1, <2>2 DEF Resumes, After
<1>11. \A k : k \in 1 .. n + 1 <=> k \in 1 .. n \/ k = m + 1
  BY <1>4, <1>a
<1>12. (\A k \in 1 .. Len(open') : Resumes(k)') <=>
         GoesOn(End) /\ \A k \in 1 .. n : Resumes(k)
  BY <1>5, <1>9, <1>10, <1>11, Zenon
<1>13. Pending' <=> Pending
  BY <1>6, <1>7, <1>8, <1>12, Zenon DEF Pending
<1>14. AcceptsExactlyDer'
  BY <1>1 DEF AcceptsExactlyDer
<1> QED BY <1>1, <1>2, <1>7, <1>13, <1>14, Zenon DEF Verdict

\* Behind a complete element the siblings of the element go on.
LEMMA CloseConstructedVerdict ==
  ASSUME Inv, Siblings, Verdict, CloseConstructed
  PROVE  Verdict'
<1> DEFINE n == Len(open)
<1>1. /\ outcome = "running" /\ open # <<>> /\ ~MoreToRead
      /\ pos' = pos /\ open' = SubSeq(open, 1, n - 1) /\ input' = input /\ mode' = mode
      /\ outcome' = outcome
  BY DEF CloseConstructed
<1>2. (Starting => pos = 0) /\ (IsDer <=> Pending)
  BY <1>1, Running
<1>3. /\ n \in Nat \ {0} /\ n \in 1 .. n /\ 1 \in 1 .. n /\ n \in 0 .. MaxNesting
      /\ open \in Seq(Element) /\ input \in Seq(Octet)
      /\ pos \in Nat /\ pos <= Limit /\ Limit = open[n].end
      /\ Limit \in Nat /\ Limit <= Len(input)
  BY <1>1, StackLemma DEF Inv, TypeOK
<1>4. pos = open[n].end
  <2>1. ~(pos < Limit)
    BY <1>1, Zenon DEF MoreToRead
  <2> QED BY <1>3, <2>1
<1>5. Len(open') = n - 1 /\ \A k \in 1 .. n - 1 : open'[k] = open[k]
  <2>1. n - 1 \in Nat /\ 0 <= n - 1 /\ n - 1 <= Len(open) /\ 0 + 1 = 1 /\ (n - 1) - 0 = n - 1
    BY <1>3
  <2>2. /\ Len(SubSeq(open, 0 + 1, n - 1)) = (n - 1) - 0
        /\ \A i \in 1 .. (n - 1) - 0 : SubSeq(open, 0 + 1, n - 1)[i] = open[0 + i]
    BY <1>3, <2>1, PartOf
  <2>3. \A i \in 1 .. n - 1 : 0 + i = i
    OBVIOUS
  <2> QED BY <1>1, <2>1, <2>2, <2>3
<1>6. GoesOn(pos) /\ ~Starting
  <2>1. pos \in 0 .. pos /\ pos <= Len(input)
    BY <1>3
  <2>2. ReadsOn(input, pos, pos, n)
    BY <1>3, <2>1, ReadsOnIs
  <2>3. Top.end = pos
    BY <1>4 DEF Top
  <2> QED BY <1>1, <2>2, <2>3, Zenon DEF GoesOn, Starting
<1>7. (IF Starting THEN ElementIsDer(input) ELSE GoesOn(pos))' <=> Resumes(n)
  <2>1. CASE n = 1
    <3>1. open' = <<>> /\ nodes' # <<>>
      <4>1. Len(open') = 0 /\ open' \in Seq(Element)
        BY <1>3, <1>5, <2>1, CloseConstructedInv DEF Inv, TypeOK
      <4> QED BY <2>1, <4>1, CloseConstructedSiblings
    <3> QED BY <1>1, <1>4, <2>1, <3>1 DEF Starting, GoesOn, After, Resumes
  <2>2. CASE n # 1
    <3>1. Len(open') # 0 /\ n - 1 \in 1 .. n - 1
      BY <1>3, <1>5, <2>2
    <3>2. open' # <<>> /\ open'[Len(open')] = open[n - 1]
      BY <1>5, <3>1
    <3> QED BY <1>1, <1>4, <1>5, <2>2, <3>2 DEF Starting, GoesOn, Top, Resumes
  <2> QED BY <2>1, <2>2
<1>8. ASSUME NEW k \in 1 .. n - 1 PROVE Resumes(k)' <=> Resumes(k)
  <2>1. 1 \in 1 .. n - 1 /\ (k # 1 => k - 1 \in 1 .. n - 1)
    BY <1>3
  <2>2. open'[k] = open[k] /\ open'[1] = open[1] /\ (k # 1 => open'[k - 1] = open[k - 1])
    BY <1>5, <2>1
  <2> QED BY <1>1, <2>2 DEF Resumes, After
<1>9. \A k : k \in 1 .. n <=> k \in 1 .. n - 1 \/ k = n
  BY <1>3
<1>10. Pending' <=> Pending
  BY <1>5, <1>6, <1>7, <1>8, <1>9, Zenon DEF Pending
<1>11. ~Starting' /\ (IsDer' <=> IsDer)
  <2>1. CASE n = 1
    BY <1>1, <2>1, CloseConstructedSiblings DEF Starting, IsDer
  <2>2. CASE n # 1
    <3>1. Len(open') # 0
      BY <1>3, <1>5, <2>2
    <3>2. open' # <<>>
      BY <3>1
    <3> QED BY <1>1, <3>2 DEF Starting, IsDer
  <2> QED BY <2>1, <2>2
<1>12. AcceptsExactlyDer'
  BY <1>1 DEF AcceptsExactlyDer
<1> QED BY <1>1, <1>2, <1>10, <1>11, <1>12, Zenon DEF Verdict

\* What is rejected was not expected.
LEMMA RejectVerdict ==
  ASSUME Inv, Verdict, Reject
  PROVE  Verdict'
<1>1. /\ outcome = "running" /\ MoreToRead /\ (TlvAllowed => IsConstructed(Tag) /\ TooDeep)
      /\ outcome' = "rejected" /\ UNCHANGED <<input, mode, pos, open, kids>>
  BY DEF Reject
<1>2. (Starting => pos = 0) /\ (IsDer <=> Pending)
  BY <1>1, Running
<1>3. ~IsDer
  <2>1. (IF Starting THEN ElementIsDer(input) ELSE GoesOn(pos)) <=> NextIsDer
    BY <1>1, <1>2, MoreIs, Zenon
  <2> QED BY <1>1, <1>2, <2>1, Zenon DEF NextIsDer, Pending
<1>4. IsDer' <=> IsDer
  BY <1>1 DEF IsDer
<1>5. AcceptsExactlyDer'
  <2>1. outcome' # "accepted"
    BY <1>1
  <2> QED BY <1>1, <1>3, <1>4, <2>1 DEF AcceptsExactlyDer, IsDer
<1>6. Starting' => pos' = 0
  BY <1>1, <1>2 DEF Starting, nodes
<1>7. outcome' # "running"
  BY <1>1
<1> QED BY <1>5, <1>6, <1>7, Zenon DEF Verdict

\* At the end nothing is expected, or decode has not read everything.
LEMMA FinishVerdict ==
  ASSUME Inv, Verdict, Finish
  PROVE  Verdict'
<1>1. /\ outcome = "running" /\ open = <<>> /\ ~MoreToRead
      /\ outcome' = (IF pos = Len(input) THEN "accepted" ELSE "rejected")
      /\ UNCHANGED <<input, mode, pos, open, kids>>
  BY DEF Finish
<1>2. (Starting => pos = 0) /\ (IsDer <=> Pending)
  BY <1>1, Running
<1>3. /\ pos \in Nat /\ Limit = Len(input) /\ pos <= Limit /\ Len(input) \in Nat
      /\ input \in Seq(Octet)
  BY <1>1, StackLemma DEF Inv, TypeOK
<1>4. ~Starting
  BY <1>1, Zenon DEF Starting, MoreToRead
<1>5. \A k : k \notin 1 .. Len(open)
  BY <1>1
<1>6. Pending <=> After(pos)
  BY <1>1, <1>4, <1>5, Zenon DEF Pending, GoesOn
<1>7. After(pos) <=> pos = Len(input)
  <2>1. CASE mode = "decode"
    BY <2>1, Zenon DEF After
  <2>2. CASE mode # "decode"
    <3>1. ~(pos < Limit)
      BY <1>1, <2>2, Zenon DEF MoreToRead
    <3>2. PICK l : l = Len(input)
      OBVIOUS
    <3>3. l \in Nat /\ l <= Len(input) /\ l \in 0 .. l /\ pos = l /\ 0 \in 0 .. MaxNesting
      BY <1>3, <3>1, <3>2, MaxNestingAssumption
    <3>4. ReadsOn(input, l, l, 0)
      BY <1>3, <3>3, ReadsOnIs
    <3> QED BY <2>2, <3>2, <3>3, <3>4, Zenon DEF After
  <2> QED BY <2>1, <2>2
<1>8. IsDer' <=> IsDer
  BY <1>1 DEF IsDer
<1>9. outcome' = "accepted" <=> pos = Len(input)
  BY <1>1
<1>10. AcceptsExactlyDer'
  BY <1>1, <1>2, <1>6, <1>7, <1>8, <1>9 DEF AcceptsExactlyDer, IsDer
<1>11. Starting' => pos' = 0
  BY <1>1, <1>2 DEF Starting, nodes
<1>12. outcome' # "running"
  BY <1>1
<1> QED BY <1>10, <1>11, <1>12, Zenon DEF Verdict

\* Nothing has been read.
LEMMA InitVerdict == Init => Siblings /\ Verdict
<1> SUFFICES ASSUME Init PROVE Siblings /\ Verdict
  OBVIOUS
<1>1. /\ input \in Inputs /\ mode \in {"decode", "decode_all"} /\ pos = 0 /\ open = <<>>
      /\ kids = <<<<>>>> /\ outcome = "running"
  BY DEF Init
<1>2. Len(input) \in Nat
  BY <1>1, InputsAssumption
<1>3. Siblings
  <2>1. <<<<>>>> \in Seq(Seq({})) /\ Len(<<<<>>>>) = 1 /\ Len(<<>>) = 0
    OBVIOUS
  <2> QED BY <1>1, <2>1 DEF Siblings
<1>4. nodes = <<>> /\ \A k : k \notin 1 .. Len(open)
  BY <1>1 DEF nodes
<1>5. Pending <=> IsDer
  <2>1. Len(input) - 0 = Len(input)
    BY <1>2
  <2>2. ReadsOn(input, 0, Len(input), 0) <=> ElementsAreDer(input)
    BY <2>1, Zenon DEF ReadsOn, ElementsAreDer
  <2> QED BY <1>1, <1>4, <2>2, Zenon DEF Pending, IsDer, Starting, GoesOn, After
<1>6. AcceptsExactlyDer
  BY <1>1, NoVerdict
<1> QED BY <1>1, <1>3, <1>5, <1>6, Zenon DEF Verdict

\* The checks that decode and decode_all make octet by octet (_read_length, _read_tlv and the
\* validators of contents, asn1.py:78-198) accept the DER encodings, within their bounds for
\* nesting and for the size of lengths, and nothing else.
THEOREM AcceptsCorrect == Spec => []AcceptsExactlyDer
<1>1. Inv /\ Siblings /\ Verdict /\ [Next]_vars => Siblings' /\ Verdict'
  <2> SUFFICES ASSUME Inv, Siblings, Verdict, [Next]_vars PROVE Siblings' /\ Verdict'
    OBVIOUS
  <2>1. CASE ReadPrimitive
    BY <2>1, ReadPrimitiveSiblings, ReadPrimitiveVerdict
  <2>2. CASE OpenConstructed
    BY <2>2, OpenConstructedSiblings, OpenConstructedVerdict
  <2>3. CASE CloseConstructed
    BY <2>3, CloseConstructedSiblings, CloseConstructedVerdict
  <2>4. CASE Reject \/ Finish
    <3>1. Siblings'
      BY <2>4 DEF Reject, Finish, Siblings
    <3> QED BY <2>4, <3>1, RejectVerdict, FinishVerdict
  <2>5. CASE UNCHANGED vars
    <3>1. UNCHANGED <<input, mode, pos, open, kids, outcome>>
      BY <2>5 DEF vars
    <3> QED BY <3>1 DEF Siblings, Verdict, AcceptsExactlyDer, IsDer, Pending, Starting, nodes, GoesOn,
                        After, Resumes, Top
  <2> QED BY <2>1, <2>2, <2>3, <2>4, <2>5, Zenon DEF Next
<1>2. Verdict => AcceptsExactlyDer
  BY DEF Verdict
<1> QED BY InitVerdict, Inductive, <1>1, <1>2, PTL DEF Spec

-----------------------------------------------------------------------------
(* Concatenations.                                                           *)

\* What holds of the empty sequence and of each longer one holds of all.
LEMMA SequencesGrow ==
  ASSUME NEW S, NEW T, <<>> \in T, \A s \in Seq(S), x \in S : s \in T => Append(s, x) \in T
  PROVE  \A s \in Seq(S) : s \in T
<1> TAKE s \in Seq(S)
<1> DEFINE N == {k \in Nat : k <= Len(s) => SubSeq(s, 1, k) \in T}
<1>0. Len(s) \in Nat
  OBVIOUS
<1>1. 0 \in N
  <2>1. SubSeq(s, 1, 0) = <<>>
    BY SubSeqEmpty
  <2> QED BY <2>1
<1>2. ASSUME NEW k \in Nat, k \in N PROVE k + 1 \in N
  <2>1. ASSUME k + 1 <= Len(s) PROVE SubSeq(s, 1, k + 1) \in T
    <3>1. k \in 0 .. Len(s) - 1 /\ k <= Len(s)
      BY <1>0, <1>2, <2>1
    <3>2. /\ SubSeq(s, 1, k) \in Seq(S) /\ s[k + 1] \in S
          /\ SubSeq(s, 1, k + 1) = Append(SubSeq(s, 1, k), s[k + 1])
      BY <3>1, Beginnings
    <3>3. SubSeq(s, 1, k) \in T
      BY <1>2, <3>1
    <3> QED BY <3>2, <3>3, Zenon
  <2> QED BY <1>2, <2>1
<1>. HIDE DEF N
<1>3. \A k \in Nat : k \in N
  BY <1>1, <1>2, CountUp
<1>4. SubSeq(s, 1, Len(s)) \in T
  <2>1. Len(s) \in N /\ Len(s) <= Len(s)
    BY <1>0, <1>3
  <2> QED BY <2>1 DEF N
<1> QED BY <1>4, SubSeqFull

\* w holds the concatenations of the beginnings of seqs.
IsFlattened(w, seqs) ==
  /\ w[1] = seqs[1]
  /\ \A k \in 1 .. Len(seqs) - 1 : w[k + 1] = w[k] \o seqs[k + 1]

\* The recursion of FlattenSeq is defined.
LEMMA FlattenExist ==
  ASSUME NEW S, NEW seqs \in Seq(Seq(S)), seqs # <<>>
  PROVE  \E w : IsFlattened(w, seqs) /\ FlattenSeq(seqs) = w[Len(seqs)]
<1> DEFINE n == Len(seqs)
           D == 0 .. n
           E == 1 .. n
           U == Seq(S)
           B(f, k) == IF k = 0 THEN <<>> ELSE f[k - 1] \o seqs[k]
           C(f, k) == IF k = 1 THEN seqs[k] ELSE f[k - 1] \o seqs[k]
           G == [x \in [D -> U] \X D |-> B(x[1], x[2])]
           W == CHOOSE f : f = [k \in E |-> C(f, k)]
<1>0. n \in Nat \ {0} /\ \A k \in 1 .. n : seqs[k] \in Seq(S)
  BY EmptySeq
<1>1. \A k \in D : k # 0 => k - 1 \in 0 .. k - 1 /\ k - 1 \in D /\ k \in 1 .. n
  BY <1>0
<1>2. \A f \in [D -> U], k \in D : B(f, k) \in U
  <2> TAKE f \in [D -> U], k \in D
  <2>1. CASE k = 0
    BY <2>1
  <2>2. CASE k # 0
    <3>1. f[k - 1] \in Seq(S) /\ seqs[k] \in Seq(S)
      BY <1>0, <1>1, <2>2
    <3> QED BY <2>2, <3>1, ConcatProperties
  <2> QED BY <2>1, <2>2
<1>3. \A f \in [D -> U], k \in D : G[f, k] = B(f, k)
  BY Zenon
<1>4. \A f, g \in [D -> U] : \A k \in D :
        (\A j \in 0 .. k - 1 : f[j] = g[j]) => B(f, k) = B(g, k)
  BY <1>1
<1>a. FlattenSeq(seqs) = W[n]
  <2>1. Len(seqs) # 0
    BY <1>0
  <2> QED BY <2>1, Zenon DEF FlattenSeq
<1>b. \A f : /\ B(f, 0) = <<>>
             /\ \A k \in 1 .. n : B(f, k) = f[k - 1] \o seqs[k]
  <2>1. \A k \in 1 .. n : k # 0
    OBVIOUS
  <2> QED BY <2>1, Zenon
<1>c. \A f : /\ C(f, 1) = seqs[1]
             /\ \A k \in E : k # 1 => C(f, k) = f[k - 1] \o seqs[k]
  BY Zenon
<1>d. 0 \in D /\ 1 \in E /\ \A k \in E : k \in D
  BY <1>0
<1>. HIDE DEF B, C
<1>5. G \in [[D -> U] \X D -> U]
  BY <1>2
<1>6. Recurs(D, U, G)
  <2>. HIDE DEF G
  <2>1. D \subseteq Nat /\ \A k \in D : \A j \in 0 .. k : j \in D
    BY <1>0
  <2>. HIDE DEF D, U
  <2>2. \A f, g \in [D -> U] : \A k \in D :
          (\A j \in 0 .. k - 1 : f[j] = g[j]) => G[f, k] = G[g, k]
    <3> TAKE f, g \in [D -> U]
    <3> TAKE k \in D
    <3> HAVE \A j \in 0 .. k - 1 : f[j] = g[j]
    <3>1. B(f, k) = B(g, k)
      BY <1>4, Zenon
    <3>2. G[f, k] = B(f, k) /\ G[g, k] = B(g, k)
      BY <1>3, Zenon
    <3> QED BY <3>1, <3>2, Zenon
  <2> QED BY <2>1, <2>2, <1>5, Zenon DEF Recurs
<1>7. U # {}
  BY DEF U
<1>e. \A k \in E : k = 1 \/ (k # 1 /\ k - 1 \in E)
  BY <1>0
<1>. HIDE DEF D, E
<1>8. PICK v \in [D -> U] : \A k \in D : v[k] = B(v, k)
  <2>. HIDE DEF G, U
  <2>1. HasSolution(D, U, G)
    BY <1>6, <1>7, Recursion, Zenon
  <2> QED BY <2>1, <1>3, Zenon DEF HasSolution
<1> DEFINE V == [k \in E |-> v[k]]
<1>9. \A k \in E : v[k] = C(V, k)
  <2> TAKE k \in E
  <2>1. v[k] = v[k - 1] \o seqs[k]
    BY <1>8, <1>b, <1>d, Zenon DEF E
  <2>2. CASE k = 1
    <3>1. v[0] = <<>> /\ seqs[1] \in Seq(S) /\ 1 - 1 = 0
      BY <1>0, <1>8, <1>b, <1>d DEF E
    <3>2. <<>> \o seqs[1] = seqs[1]
      BY <3>1, ConcatEmptySeq
    <3> QED BY <1>c, <2>1, <2>2, <3>1, <3>2, Zenon
  <2>3. CASE k # 1
    <3>1. V[k - 1] = v[k - 1]
      BY <1>e, <2>3
    <3>. HIDE DEF V
    <3> QED BY <1>c, <2>1, <2>3, <3>1, Zenon
  <2> QED BY <2>2, <2>3
<1>10. W = [k \in E |-> C(W, k)]
  <2>1. V = [k \in E |-> C(V, k)]
    BY <1>9
  <2>. HIDE DEF V
  <2> QED BY <2>1, Zenon
<1>11. PICK w : w = W
  OBVIOUS
<1>. HIDE DEF W
<1>12. w = [k \in E |-> C(w, k)]
  BY <1>10, <1>11, Zenon
<1>13. \A k \in E : w[k] = C(w, k)
  BY <1>12
<1>14. w[1] = seqs[1]
  BY <1>13, <1>c, <1>d, Zenon
<1>15. \A k \in 1 .. n - 1 : w[k + 1] = w[k] \o seqs[k + 1]
  <2> TAKE k \in 1 .. n - 1
  <2>1. k + 1 \in E /\ k + 1 # 1 /\ (k + 1) - 1 = k
    BY <1>0 DEF E
  <2> QED BY <1>13, <1>c, <2>1, Zenon
<1> QED BY <1>11, <1>14, <1>15, <1>a, Zenon DEF IsFlattened

\* One string more.
LEMMA FlattenAppend ==
  ASSUME NEW S, NEW seqs \in Seq(Seq(S)), NEW e \in Seq(S)
  PROVE  FlattenSeq(Append(seqs, e)) = IF seqs = <<>> THEN e ELSE FlattenSeq(seqs) \o e
<1> DEFINE t == Append(seqs, e)
           n == Len(seqs)
<1>1. /\ t \in Seq(Seq(S)) /\ Len(t) = n + 1 /\ n \in Nat /\ t[n + 1] = e /\ t # <<>>
      /\ \A k \in 1 .. n : t[k] = seqs[k]
  BY AppendProperties
<1>. HIDE DEF t
<1>2. PICK w : IsFlattened(w, t) /\ FlattenSeq(t) = w[n + 1]
  BY <1>1, FlattenExist, Zenon
<1>a. (n + 1) - 1 = n
  BY <1>1
<1>3. /\ w[1] = t[1]
      /\ \A k \in 1 .. n : w[k + 1] = w[k] \o t[k + 1]
  BY <1>1, <1>2, <1>a, Zenon DEF IsFlattened
<1>4. CASE seqs = <<>>
  <2>1. n + 1 = 1
    BY <1>4
  <2> QED BY <1>1, <1>2, <1>3, <1>4, <2>1, Zenon DEF t
<1>5. CASE seqs # <<>>
  <2>1. PICK v : IsFlattened(v, seqs) /\ FlattenSeq(seqs) = v[n]
    BY <1>5, FlattenExist, Zenon
  <2>2. n # 0
    BY <1>5, EmptySeq
  <2>3. /\ v[1] = seqs[1]
        /\ \A k \in 1 .. n - 1 : v[k + 1] = v[k] \o seqs[k + 1]
    BY <2>1, Zenon DEF IsFlattened
  <2>. HIDE DEF n
  <2>4. \A k \in Nat : k \in {i \in Nat : i + 1 <= n => w[i + 1] = v[i + 1]}
    <3> DEFINE T == {i \in Nat : i + 1 <= n => w[i + 1] = v[i + 1]}
    <3>1. 0 \in T
      <4>1. 1 \in 1 .. n /\ 0 + 1 = 1
        BY <1>1, <2>2
      <4>2. w[1] = v[1]
        BY <1>1, <1>3, <2>3, <4>1
      <4> QED BY <4>1, <4>2
    <3>2. ASSUME NEW k \in Nat, k \in T PROVE k + 1 \in T
      <4>1. ASSUME (k + 1) + 1 <= n PROVE w[(k + 1) + 1] = v[(k + 1) + 1]
        <5>1. k + 1 <= n /\ k + 1 \in 1 .. n - 1 /\ k + 1 \in 1 .. n /\ (k + 1) + 1 \in 1 .. n
          BY <1>1, <3>2, <4>1
        <5>2. w[k + 1] = v[k + 1]
          BY <3>2, <5>1
        <5>3. t[(k + 1) + 1] = seqs[(k + 1) + 1]
          BY <1>1, <5>1
        <5> QED BY <1>3, <2>3, <5>1, <5>2, <5>3, Zenon
      <4> QED BY <3>2, <4>1
    <3>. HIDE DEF T
    <3>3. \A k \in Nat : k \in T
      BY <3>1, <3>2, CountUp
    <3> QED BY <3>3 DEF T
  <2>5. w[n] = v[n]
    <3>1. n - 1 \in Nat /\ (n - 1) + 1 = n /\ n <= n
      BY <1>1, <2>2
    <3> QED BY <2>4, <3>1
  <2>6. n \in 1 .. n
    BY <1>1, <2>2
  <2>7. FlattenSeq(t) = w[n] \o e
    BY <1>1, <1>2, <1>3, <2>6, Zenon
  <2> QED BY <1>5, <2>1, <2>5, <2>7, Zenon DEF t
<1> QED BY <1>4, <1>5

\* Three strings may be joined from either end.
Rejoined(a, b, c) == (a \o b) \o c = a \o (b \o c)

\* They are the same string.
LEMMA Rejoin ==
  ASSUME NEW S, NEW a \in Seq(S), NEW b \in Seq(S), NEW c \in Seq(S)
  PROVE  Rejoined(a, b, c)
BY ConcatAssociative DEF Rejoined

\* A concatenation of strings is a string, and begins with the first.
IsConcatenation(S, seqs) ==
  /\ FlattenSeq(seqs) \in Seq(S)
  /\ seqs # <<>> => \E r \in Seq(S) : FlattenSeq(seqs) = seqs[1] \o r

\* FlattenSeq of nothing.
LEMMA FlattenNothing == FlattenSeq(<<>>) = <<>>
<1>1. Len(<<>>) = 0
  OBVIOUS
<1> QED BY <1>1, Zenon DEF FlattenSeq

\* FlattenSeq yields such strings.
LEMMA Concatenations ==
  ASSUME NEW S
  PROVE  \A seqs \in Seq(Seq(S)) : IsConcatenation(S, seqs)
<1> DEFINE T == {seqs \in Seq(Seq(S)) : IsConcatenation(S, seqs)}
<1>1. <<>> \in T
  <2>1. <<>> \in Seq(Seq(S)) /\ <<>> \in Seq(S)
    OBVIOUS
  <2> QED BY <2>1, FlattenNothing, Zenon DEF IsConcatenation
<1>2. ASSUME NEW seqs \in Seq(Seq(S)), NEW e \in Seq(S), seqs \in T
      PROVE  Append(seqs, e) \in T
  <2> DEFINE t == Append(seqs, e)
  <2>1. t \in Seq(Seq(S)) /\ (seqs = <<>> => t[1] = e) /\ (seqs # <<>> => t[1] = seqs[1])
    <3>1. /\ t \in Seq(Seq(S)) /\ t[Len(seqs) + 1] = e
          /\ \A k \in 1 .. Len(seqs) : t[k] = seqs[k]
      BY AppendProperties
    <3>2. seqs = <<>> => Len(seqs) + 1 = 1
      OBVIOUS
    <3>3. seqs # <<>> => 1 \in 1 .. Len(seqs)
      BY EmptySeq
    <3> QED BY <3>1, <3>2, <3>3, Zenon
  <2>. HIDE DEF t
  <2>2. FlattenSeq(t) = IF seqs = <<>> THEN e ELSE FlattenSeq(seqs) \o e
    BY FlattenAppend, Zenon DEF t
  <2>3. IsConcatenation(S, seqs)
    BY <1>2
  <2>4. CASE seqs = <<>>
    <3>1. e \o <<>> = e /\ <<>> \in Seq(S)
      BY ConcatEmptySeq
    <3> QED BY <2>1, <2>2, <2>4, <3>1, Zenon DEF IsConcatenation, t
  <2>5. CASE seqs # <<>>
    <3>1. FlattenSeq(seqs) \in Seq(S)
      BY <2>3, Zenon DEF IsConcatenation
    <3>2. PICK r \in Seq(S) : FlattenSeq(seqs) = seqs[1] \o r
      BY <2>3, <2>5, Zenon DEF IsConcatenation
    <3>3. FlattenSeq(seqs) \o e \in Seq(S) /\ r \o e \in Seq(S)
      BY <3>1, <3>2, ConcatProperties
    <3>4. seqs[1] \in Seq(S)
      <4>1. 1 \in 1 .. Len(seqs)
        BY <2>5, EmptySeq
      <4> QED BY <4>1
    <3>5. (seqs[1] \o r) \o e = seqs[1] \o (r \o e)
      <4>1. Rejoined(seqs[1], r, e)
        BY <3>4, Rejoin, Zenon
      <4> QED BY <4>1, Zenon DEF Rejoined
    <3> QED BY <2>1, <2>2, <2>5, <3>2, <3>3, <3>5, Zenon DEF IsConcatenation, t
  <2> QED BY <2>4, <2>5
<1>. HIDE DEF T
<1>3. \A seqs \in Seq(Seq(S)) : seqs \in T
  BY <1>1, <1>2, SequencesGrow, Zenon
<1> QED BY <1>3, Zenon DEF T

-----------------------------------------------------------------------------
(* Arcs and their digits.                                                    *)

\* The reader has read nothing, or one octet more.
LEMMA ArcsOfNothing == ParseBase128(<<>>) = NoArcs
<1>1. <<>> \in Seq(Octet) /\ Len(<<>>) = 0
  OBVIOUS
<1>2. PICK arcs : IsArcs(arcs, <<>>) /\ ParseBase128(<<>>) = arcs[Len(<<>>)]
  BY <1>1, ArcsExist, Zenon
<1> QED BY <1>1, <1>2, Zenon DEF IsArcs

\* The octets decide the state, one after the other.
LEMMA ArcsOfMore ==
  ASSUME NEW s \in Seq(Octet), NEW o \in Octet
  PROVE  /\ ParseBase128(s) \in ArcsRead
         /\ ParseBase128(Append(s, o)) = ArcStep(ParseBase128(s), o)
<1> DEFINE t == Append(s, o)
           n == Len(s)
<1>1. /\ t \in Seq(Octet) /\ Len(t) = n + 1 /\ n \in Nat /\ t[n + 1] = o
      /\ \A k \in 1 .. n : t[k] = s[k]
  BY AppendProperties
<1>2. PICK v : IsArcs(v, s) /\ ParseBase128(s) = v[n]
  BY ArcsExist, Zenon
<1>. HIDE DEF t
<1>3. PICK w : IsArcs(w, t) /\ ParseBase128(t) = w[n + 1]
  BY <1>1, ArcsExist, Zenon
<1>. HIDE DEF n
<1>4. /\ v \in [0 .. n -> ArcsRead] /\ v[0] = NoArcs
      /\ \A k \in 1 .. n : v[k] = ArcStep(v[k - 1], s[k])
  BY <1>2, Zenon DEF IsArcs, n
<1>5. /\ w[0] = NoArcs
      /\ \A k \in 1 .. n + 1 : w[k] = ArcStep(w[k - 1], t[k])
  BY <1>1, <1>3, Zenon DEF IsArcs
<1>6. \A k \in Nat : k \in {i \in Nat : i <= n => w[i] = v[i]}
  <2> DEFINE T == {i \in Nat : i <= n => w[i] = v[i]}
  <2>1. 0 \in T
    BY <1>4, <1>5
  <2>2. ASSUME NEW k \in Nat, k \in T PROVE k + 1 \in T
    <3>1. ASSUME k + 1 <= n PROVE w[k + 1] = v[k + 1]
      <4>1. k + 1 \in 1 .. n /\ k + 1 \in 1 .. n + 1 /\ (k + 1) - 1 = k /\ k <= n
        BY <1>1, <2>2, <3>1
      <4>2. w[k] = v[k] /\ t[k + 1] = s[k + 1]
        BY <1>1, <2>2, <4>1
      <4> QED BY <1>4, <1>5, <4>1, <4>2, Zenon
    <3> QED BY <2>2, <3>1
  <2>. HIDE DEF T
  <2>3. \A k \in Nat : k \in T
    BY <2>1, <2>2, CountUp
  <2> QED BY <2>3 DEF T
<1>7. w[n] = v[n] /\ v[n] \in ArcsRead
  BY <1>1, <1>4, <1>6
<1>8. w[n + 1] = ArcStep(w[n], o)
  <2>1. n + 1 \in 1 .. n + 1 /\ (n + 1) - 1 = n
    BY <1>1
  <2> QED BY <1>1, <1>5, <2>1, Zenon
<1> QED BY <1>2, <1>3, <1>7, <1>8, Zenon DEF t

\* The digits of arcs.
Digit == 0 .. 127

\* Digits with the bit that says that more follow, on all of them or on all but the last.
Raised(d) == [k \in 1 .. Len(d) |-> d[k] + 128]
Ended(d)  == [k \in 1 .. Len(d) |-> IF k < Len(d) THEN d[k] + 128 ELSE d[k]]

\* One digit more.
LEMMA RaisedMore ==
  ASSUME NEW d \in Seq(Digit), NEW r \in Digit
  PROVE  /\ Raised(d) \in Seq(Octet)
         /\ Raised(Append(d, r)) = Append(Raised(d), r + 128)
         /\ Ended(Append(d, r)) = Append(Raised(d), r)
<1> DEFINE e == Append(d, r)
           n == Len(d)
<1>1. /\ Len(e) = n + 1 /\ n \in Nat /\ e[n + 1] = r
      /\ \A k \in 1 .. n : e[k] = d[k]
  BY AppendProperties
<1>. HIDE DEF e
<1>a. \A x \in Digit : x \in Octet /\ x + 128 \in Octet
  BY DEF Digit, Octet
<1>2. r \in Octet /\ r + 128 \in Octet
  BY <1>a, Zenon
<1>3. \A k \in 1 .. n : d[k] + 128 \in Octet
  BY <1>a
<1>4. Raised(d) \in Seq(Octet) /\ Len(Raised(d)) = n
      /\ \A k \in 1 .. n : Raised(d)[k] = d[k] + 128
  BY <1>1, <1>3 DEF Raised
<1>. HIDE DEF n
<1>5. ASSUME NEW x \in Octet, NEW f, f = [k \in 1 .. n + 1 |-> IF k = n + 1 THEN x ELSE d[k] + 128]
      PROVE  f = Append(Raised(d), x)
  <2>1. /\ Append(Raised(d), x) \in Seq(Octet) /\ Len(Append(Raised(d), x)) = n + 1
        /\ Append(Raised(d), x)[n + 1] = x
        /\ \A k \in 1 .. n : Append(Raised(d), x)[k] = Raised(d)[k]
    BY <1>4, AppendProperties
  <2>2. f \in Seq(Octet) /\ Len(f) = n + 1
    <3>1. \A k \in 1 .. n + 1 : (IF k = n + 1 THEN x ELSE d[k] + 128) \in Octet
      <4> TAKE k \in 1 .. n + 1
      <4>1. k = n + 1 \/ k \in 1 .. n
        BY <1>1
      <4> QED BY <1>3, <4>1
    <3>2. n + 1 \in Nat
      BY <1>1
    <3> QED BY <1>5, <3>1, <3>2
  <2>3. \A k \in 1 .. n + 1 : f[k] = Append(Raised(d), x)[k]
    <3> TAKE k \in 1 .. n + 1
    <3>1. f[k] = IF k = n + 1 THEN x ELSE d[k] + 128
      BY <1>5
    <3>2. k = n + 1 \/ (k # n + 1 /\ k \in 1 .. n)
      BY <1>1
    <3> QED BY <1>4, <2>1, <3>1, <3>2, Zenon
  <2>. HIDE DEF Raised
  <2> QED BY <2>1, <2>2, <2>3, SeqEqual
<1>6. Raised(e) = [k \in 1 .. n + 1 |-> IF k = n + 1 THEN r + 128 ELSE d[k] + 128]
  <2>1. \A k \in 1 .. n + 1 : e[k] + 128 = IF k = n + 1 THEN r + 128 ELSE d[k] + 128
    <3> TAKE k \in 1 .. n + 1
    <3>1. k = n + 1 \/ (k # n + 1 /\ k \in 1 .. n)
      BY <1>1
    <3> QED BY <1>1, <3>1, Zenon
  <2> QED BY <1>1, <2>1 DEF Raised
<1>7. Ended(e) = [k \in 1 .. n + 1 |-> IF k = n + 1 THEN r ELSE d[k] + 128]
  <2>1. \A k \in 1 .. n + 1 :
          (IF k < n + 1 THEN e[k] + 128 ELSE e[k]) = IF k = n + 1 THEN r ELSE d[k] + 128
    <3> TAKE k \in 1 .. n + 1
    <3>1. (k = n + 1 /\ ~(k < n + 1)) \/ (k # n + 1 /\ k < n + 1 /\ k \in 1 .. n)
      BY <1>1
    <3> QED BY <1>1, <3>1, Zenon
  <2> QED BY <1>1, <2>1 DEF Ended
<1> QED BY <1>2, <1>4, <1>5, <1>6, <1>7, Zenon DEF e

\* The octets of an arc that is not finished.
HighDigits(v) == IF v = 0 THEN <<>> ELSE Raised(Digits(v, 128))

\* One digit more of an arc.
IsOneDigitMore(v, r) ==
  /\ HighDigits(v) \in Seq(Octet) /\ v * 128 + r \in Nat
  /\ Base128(v * 128 + r) = Append(HighDigits(v), r)
  /\ v > 0 \/ r > 0 => HighDigits(v * 128 + r) = Append(HighDigits(v), r + 128)

\* The octets grow with the arc.
LEMMA OneDigitMore ==
  ASSUME NEW v \in Nat, NEW r \in Digit
  PROVE  IsOneDigitMore(v, r)
<1> DEFINE d == Digits(v, 128)
           w == v * 128 + r
<1>0. 128 \in DigitBase /\ r \in 0 .. 128 - 1 /\ 0 .. 128 - 1 = Digit
  BY DEF DigitBase, Digit
<1>1. /\ v > 0 => Digits(w, 128) = Append(d, r)
      /\ Digits(r, 128) = <<r>>
  BY <1>0, DigitsExtended
<1>2. Base128(w) = Ended(Digits(w, 128))
  BY DEF Base128, Ended
<1>3. w = 0 <=> v = 0 /\ r = 0
  BY DEF Digit
<1>4. CASE v = 0
  <2>1. w = r
    BY <1>4 DEF Digit
  <2>2. <<r>> = Append(<<>>, r) /\ <<>> \in Seq(Digit)
    OBVIOUS
  <2>3. Raised(<<>>) = <<>>
    BY DEF Raised
  <2>4. Raised(<<r>>) = Append(<<>>, r + 128) /\ Ended(<<r>>) = Append(<<>>, r) /\ <<>> \in Seq(Octet)
    <3>1. /\ Raised(<<>>) \in Seq(Octet)
          /\ Raised(Append(<<>>, r)) = Append(Raised(<<>>), r + 128)
          /\ Ended(Append(<<>>, r)) = Append(Raised(<<>>), r)
      BY <2>2, RaisedMore
    <3> QED BY <2>2, <2>3, <3>1, Zenon
  <2>5. w # 0 => HighDigits(w) = Raised(<<r>>)
    BY <1>1, <2>1, Zenon DEF HighDigits
  <2>6. r > 0 => w # 0
    BY <2>1
  <2>7. HighDigits(v) = <<>>
    BY <1>4, Zenon DEF HighDigits
  <2>8. ~(v > 0)
    BY <1>4
  <2>9. w \in Nat
    BY <1>0, <2>1
  <2> QED BY <1>1, <1>2, <2>1, <2>4, <2>5, <2>6, <2>7, <2>8, <2>9, Zenon DEF IsOneDigitMore
<1>5. CASE v # 0
  <2>1. v > 0
    BY <1>5
  <2>2. d \in Seq(Digit)
    BY <1>0, DigitsAre DEF IsDigits
  <2>3. HighDigits(v) = Raised(d) /\ HighDigits(w) = Raised(Digits(w, 128))
    BY <1>3, <1>5, Zenon DEF HighDigits
  <2>. HIDE DEF d
  <2>4. Raised(d) \in Seq(Octet) /\ Raised(Append(d, r)) = Append(Raised(d), r + 128)
        /\ Ended(Append(d, r)) = Append(Raised(d), r)
    BY <2>2, RaisedMore
  <2>5. w \in Nat
    BY <1>0
  <2> QED BY <1>1, <1>2, <2>1, <2>3, <2>4, <2>5, Zenon DEF IsOneDigitMore
<1> QED BY <1>4, <1>5

\* An octet behind a concatenation.
AppendsBehind(s, h, x) == Append(s \o h, x) = s \o Append(h, x)

\* It may be put behind the second part.
LEMMA AppendBehind ==
  ASSUME NEW S, NEW s \in Seq(S), NEW h \in Seq(S), NEW x \in S
  PROVE  AppendsBehind(s, h, x)
<1>1. s \o h \in Seq(S) /\ <<x>> \in Seq(S)
  BY ConcatProperties
<1>2. Append(s \o h, x) = (s \o h) \o <<x>>
  BY <1>1, AppendIsConcat
<1>3. Append(h, x) = h \o <<x>>
  BY AppendIsConcat
<1>4. Rejoined(s, h, <<x>>)
  BY <1>1, Rejoin, Zenon
<1> QED BY <1>2, <1>3, <1>4, Zenon DEF AppendsBehind, Rejoined

\* The state of the reader after the arcs done and the beginning of another with the value v.
Reading(done, v) ==
  IF v = 0 THEN [done |-> done, value |-> 0, open |-> FALSE, bad |-> FALSE]
           ELSE [done |-> done, value |-> v, open |-> TRUE, bad |-> FALSE]

\* The reader keeps the value.
LEMMA DigitRead ==
  ASSUME NEW done \in Seq(Nat), NEW v \in Nat, NEW r \in Digit
  PROVE  /\ ArcStep(Reading(done, v), r) = Reading(Append(done, v * 128 + r), 0)
         /\ v > 0 \/ r > 0 => ArcStep(Reading(done, v), r + 128) = Reading(done, v * 128 + r)
<1>0. r \in 0 .. 127
  BY DEF Digit
<1> DEFINE a == Reading(done, v)
<1>1. a.done = done /\ a.value = v /\ a.bad = FALSE
  BY DEF Reading
<1>. HIDE DEF a
<1>2. r % 128 = r /\ (r + 128) % 128 = r /\ r # 128 /\ ~(r >= 128) /\ r + 128 >= 128
  BY <1>0
<1>3. ArcStep(a, r) = [done |-> Append(done, v * 128 + r), value |-> 0, open |-> FALSE, bad |-> FALSE]
  BY <1>1, <1>2 DEF ArcStep
<1>4. ASSUME v > 0 \/ r > 0 PROVE ArcStep(a, r + 128) = Reading(done, v * 128 + r)
  <2>1. ~(v = 0 /\ r + 128 = 128) /\ v * 128 + r # 0
    BY <1>0, <1>4
  <2>2. ArcStep(a, r + 128) = [done |-> done, value |-> v * 128 + r, open |-> TRUE, bad |-> FALSE]
    BY <1>1, <1>2, <2>1 DEF ArcStep
  <2> QED BY <2>1, <2>2, Zenon DEF Reading
<1> QED BY <1>3, <1>4, Zenon DEF Reading, a

\* A number is its high digits and the last one.
LEMMA LastDigit ==
  ASSUME NEW v \in Nat
  PROVE  \E u \in Nat, r \in Digit : v = u * 128 + r /\ (v # 0 => u < v /\ (u > 0 \/ r > 0))
<1>1. v \div 128 \in Nat /\ v % 128 \in 0 .. 127 /\ v = (v \div 128) * 128 + (v % 128)
  OBVIOUS
<1>2. v # 0 => v \div 128 < v /\ (v \div 128 > 0 \/ v % 128 > 0)
  OBVIOUS
<1> QED BY <1>1, <1>2, Zenon DEF Digit

\* What has been read, and what is read after it.
ReadsHigh(s, done, v) ==
  ParseBase128(s) = Reading(done, 0) => ParseBase128(s \o HighDigits(v)) = Reading(done, v)

\* The reader keeps the value of an arc that is not finished.
LEMMA HighRead ==
  \A v \in Nat : \A s \in Seq(Octet), done \in Seq(Nat) : ReadsHigh(s, done, v)
<1> DEFINE T == {v \in Nat : \A s \in Seq(Octet), done \in Seq(Nat) : ReadsHigh(s, done, v)}
<1>1. ASSUME NEW v \in Nat, \A k \in 0 .. v - 1 : k \in T PROVE v \in T
  <2>1. ASSUME NEW s \in Seq(Octet), NEW done \in Seq(Nat), ParseBase128(s) = Reading(done, 0)
        PROVE  ParseBase128(s \o HighDigits(v)) = Reading(done, v)
    <3>1. CASE v = 0
      <4>1. s \o <<>> = s
        BY ConcatEmptySeq
      <4> QED BY <2>1, <3>1, <4>1, Zenon DEF HighDigits
    <3>2. CASE v # 0
      <4>1. PICK u \in Nat, r \in Digit : v = u * 128 + r /\ u < v /\ (u > 0 \/ r > 0)
        BY <3>2, LastDigit
      <4>2. u \in 0 .. v - 1
        BY <4>1
      <4>3. u \in T
        BY <1>1, <4>2
      <4>4. ParseBase128(s \o HighDigits(u)) = Reading(done, u)
        BY <2>1, <4>3, Zenon DEF ReadsHigh
      <4>5. IsOneDigitMore(u, r)
        BY OneDigitMore
      <4>6. HighDigits(u) \in Seq(Octet) /\ HighDigits(v) = Append(HighDigits(u), r + 128)
        BY <4>1, <4>5, Zenon DEF IsOneDigitMore
      <4>7. r + 128 \in Octet
        BY DEF Digit, Octet
      <4>8. AppendsBehind(s, HighDigits(u), r + 128)
        BY <2>1, <4>6, <4>7, AppendBehind, Zenon
      <4>9. s \o HighDigits(u) \in Seq(Octet)
        BY <4>6, ConcatProperties
      <4>10. ParseBase128(Append(s \o HighDigits(u), r + 128)) =
               ArcStep(ParseBase128(s \o HighDigits(u)), r + 128)
        BY <4>7, <4>9, ArcsOfMore
      <4>11. ArcStep(Reading(done, u), r + 128) = Reading(done, v)
        BY <4>1, DigitRead
      <4> QED BY <4>4, <4>6, <4>8, <4>10, <4>11, Zenon DEF AppendsBehind
    <3> QED BY <3>1, <3>2
  <2> QED BY <2>1, Zenon DEF ReadsHigh
<1>. HIDE DEF T
<1>2. \A v \in Nat : v \in T
  BY <1>1, SmallerFirst
<1> QED BY <1>2 DEF T

\* An arc and what is read of it.
IsArcRead(s, done, v) ==
  /\ Base128(v) \in Seq(Octet) /\ Base128(v) # <<>>
  /\ ParseBase128(s) = Reading(done, 0) =>
       ParseBase128(s \o Base128(v)) = Reading(Append(done, v), 0)

\* The reader reads an arc.
LEMMA ArcRead ==
  ASSUME NEW v \in Nat, NEW s \in Seq(Octet), NEW done \in Seq(Nat)
  PROVE  IsArcRead(s, done, v)
<1>1. PICK u \in Nat, r \in Digit : v = u * 128 + r
  BY LastDigit
<1>2. IsOneDigitMore(u, r)
  BY OneDigitMore
<1>3. HighDigits(u) \in Seq(Octet) /\ Base128(v) = Append(HighDigits(u), r)
  BY <1>1, <1>2, Zenon DEF IsOneDigitMore
<1>4. r \in Octet
  BY DEF Digit, Octet
<1>5. Base128(v) \in Seq(Octet) /\ Base128(v) # <<>>
  BY <1>3, <1>4, AppendProperties
<1>6. AppendsBehind(s, HighDigits(u), r)
  BY <1>3, <1>4, AppendBehind, Zenon
<1>7. s \o HighDigits(u) \in Seq(Octet)
  BY <1>3, ConcatProperties
<1>8. ParseBase128(Append(s \o HighDigits(u), r)) = ArcStep(ParseBase128(s \o HighDigits(u)), r)
  BY <1>4, <1>7, ArcsOfMore
<1>9. ReadsHigh(s, done, u)
  BY HighRead
<1>10. ArcStep(Reading(done, u), r) = Reading(Append(done, v), 0)
  BY <1>1, DigitRead
<1> QED BY <1>3, <1>5, <1>6, <1>8, <1>9, <1>10, Zenon DEF IsArcRead, ReadsHigh, AppendsBehind

\* The octets of arcs.
ArcOctets(arcs) == FlattenSeq([k \in 1 .. Len(arcs) |-> Base128(arcs[k])])

\* The octets of one arc more.
IsOneArcMore(arcs, v) ==
  /\ ArcOctets(arcs) \in Seq(Octet) /\ Base128(v) \in Seq(Octet)
  /\ ArcOctets(Append(arcs, v)) = ArcOctets(arcs) \o Base128(v)

\* They follow those of the others.
LEMMA OneArcMore ==
  ASSUME NEW arcs \in Seq(Nat), NEW v \in Nat
  PROVE  IsOneArcMore(arcs, v)
<1> DEFINE n == Len(arcs)
           f == [k \in 1 .. n |-> Base128(arcs[k])]
           g == [k \in 1 .. Len(Append(arcs, v)) |-> Base128(Append(arcs, v)[k])]
<1>1. \A x \in Nat : Base128(x) \in Seq(Octet)
  <2>1. <<>> \in Seq(Octet) /\ <<>> \in Seq(Nat)
    OBVIOUS
  <2> QED BY <2>1, ArcRead, Zenon DEF IsArcRead
<1>2. n \in Nat /\ \A k \in 1 .. n : arcs[k] \in Nat
  OBVIOUS
<1>3. f \in Seq(Seq(Octet)) /\ Len(f) = n /\ (f = <<>> <=> n = 0)
  <2>1. \A k \in 1 .. n : Base128(arcs[k]) \in Seq(Octet)
    BY <1>1, <1>2, Zenon
  <2>2. f \in Seq(Seq(Octet)) /\ Len(f) = n
    BY <1>2, <2>1
  <2> QED BY <2>2, EmptySeq
<1>4. g = Append(f, Base128(v))
  <2>1. /\ Len(Append(arcs, v)) = n + 1 /\ Append(arcs, v)[n + 1] = v
        /\ \A k \in 1 .. n : Append(arcs, v)[k] = arcs[k]
    BY AppendProperties
  <2>2. PICK x \in Seq(Octet) : x = Base128(v)
    BY <1>1, Zenon
  <2>3. /\ Append(f, x) \in Seq(Seq(Octet)) /\ Len(Append(f, x)) = n + 1
        /\ Append(f, x)[n + 1] = x /\ \A k \in 1 .. n : Append(f, x)[k] = f[k]
    BY <1>3, <2>2, AppendProperties
  <2>4. \A k \in 1 .. n + 1 : g[k] = Append(f, x)[k]
    <3> TAKE k \in 1 .. n + 1
    <3>1. k = n + 1 \/ k \in 1 .. n
      BY <1>2
    <3>2. g[k] = Base128(Append(arcs, v)[k])
      BY <2>1
    <3>3. k \in 1 .. n => f[k] = Base128(arcs[k])
      OBVIOUS
    <3>. HIDE DEF f, g
    <3> QED BY <2>1, <2>2, <2>3, <3>1, <3>2, <3>3, Zenon
  <2>5. \A k \in 1 .. n + 1 : g[k] \in Seq(Octet)
    <3> TAKE k \in 1 .. n + 1
    <3>1. k \in 1 .. Len(Append(f, x))
      BY <2>3
    <3>2. Append(f, x)[k] \in Seq(Octet)
      BY <2>3, <3>1, ElementOfSeq
    <3> QED BY <2>4, <3>2, Zenon
  <2>6. g \in Seq(Seq(Octet)) /\ Len(g) = n + 1
    <3>1. g = [k \in 1 .. n + 1 |-> g[k]] /\ n + 1 \in Nat
      BY <1>2, <2>1
    <3>. HIDE DEF g
    <3> QED BY <2>5, <3>1
  <2>. HIDE DEF f, g
  <2>7. g = Append(f, x)
    BY <2>3, <2>4, <2>6, SeqEqual
  <2> QED BY <2>2, <2>7
<1>5. Base128(v) \in Seq(Octet)
  BY <1>1, Zenon
<1>6. ArcOctets(Append(arcs, v)) = FlattenSeq(g) /\ ArcOctets(arcs) = FlattenSeq(f)
  BY Zenon DEF ArcOctets
<1>. HIDE DEF f, g
<1>7. FlattenSeq(g) = IF f = <<>> THEN Base128(v) ELSE FlattenSeq(f) \o Base128(v)
  BY <1>3, <1>4, <1>5, FlattenAppend, Zenon
<1>8. IsConcatenation(Octet, f)
  BY <1>3, Concatenations, Zenon
<1>9. <<>> \o Base128(v) = Base128(v)
  BY <1>5, ConcatEmptySeq
<1> QED BY <1>5, <1>6, <1>7, <1>8, <1>9, FlattenNothing, Zenon DEF IsOneArcMore, IsConcatenation

\* No arcs have no octets.
LEMMA NoArcOctets == ArcOctets(<<>>) = <<>>
<1>1. [k \in 1 .. Len(<<>>) |-> Base128(<<>>[k])] = <<>>
  OBVIOUS
<1> QED BY <1>1, FlattenNothing, Zenon DEF ArcOctets

\* The octets of arcs are read as the arcs.
AreArcsRead(arcs) ==
  ArcOctets(arcs) \in Seq(Octet) /\ ParseBase128(ArcOctets(arcs)) = Reading(arcs, 0)

\* All arcs are.
LEMMA ArcsReadBack ==
  \A arcs \in Seq(Nat) : AreArcsRead(arcs)
<1> DEFINE T == {arcs \in Seq(Nat) : AreArcsRead(arcs)}
<1>1. <<>> \in T
  <2>1. <<>> \in Seq(Octet) /\ <<>> \in Seq(Nat)
    OBVIOUS
  <2>2. NoArcs = Reading(<<>>, 0)
    BY DEF NoArcs, Reading
  <2> QED BY <2>1, <2>2, NoArcOctets, ArcsOfNothing, Zenon DEF AreArcsRead
<1>2. ASSUME NEW arcs \in Seq(Nat), NEW v \in Nat, arcs \in T
      PROVE  Append(arcs, v) \in T
  <2>1. AreArcsRead(arcs)
    BY <1>2
  <2>2. IsOneArcMore(arcs, v)
    BY OneArcMore
  <2>3. IsArcRead(ArcOctets(arcs), arcs, v)
    BY <2>2, ArcRead, Zenon DEF IsOneArcMore
  <2>4. ArcOctets(arcs) \o Base128(v) \in Seq(Octet)
    <3>1. ArcOctets(arcs) \in Seq(Octet) /\ Base128(v) \in Seq(Octet)
      BY <2>2, Zenon DEF IsOneArcMore
    <3> QED BY <3>1, ConcatProperties
  <2>5. Append(arcs, v) \in Seq(Nat)
    BY <1>2, AppendProperties
  <2> QED BY <2>1, <2>2, <2>3, <2>4, <2>5, Zenon DEF AreArcsRead, IsOneArcMore, IsArcRead
<1>. HIDE DEF T
<1>3. \A arcs \in Seq(Nat) : arcs \in T
  BY <1>1, <1>2, SequencesGrow, Zenon
<1> QED BY <1>3, Zenon DEF T

\* What has been read, written again.
AreWritten(s, a) ==
  /\ a \in ArcsRead
  /\ ~a.bad => s = ArcOctets(a.done) \o HighDigits(a.value) /\ (a.value = 0 <=> ~a.open)

\* One octet more.
LEMMA OneOctetWritten ==
  ASSUME NEW s \in Seq(Octet), NEW a, AreWritten(s, a), NEW o \in Octet
  PROVE  AreWritten(Append(s, o), ArcStep(a, o))
<1> DEFINE b == ArcStep(a, o)
<1>0. o \in 0 .. 255 /\ a \in ArcsRead
  BY DEF Octet, AreWritten
<1>1. IsArcStep(a, o, b)
  BY <1>0, ArcStepIs, Zenon
<1>2. a.done \in Seq(Nat) /\ a.value \in Nat /\ a.open \in BOOLEAN /\ a.bad \in BOOLEAN
  BY <1>0, ArcsParts
<1>3. b \in ArcsRead
  BY <1>1, Zenon DEF IsArcStep
<1>. HIDE DEF b
<1>4. ASSUME ~b.bad
      PROVE  /\ Append(s, o) = ArcOctets(b.done) \o HighDigits(b.value)
             /\ b.value = 0 <=> ~b.open
  <2>1. ~a.bad /\ ~(a.value = 0 /\ o = 128)
    BY <1>1, <1>4, Zenon DEF IsArcStep
  <2>2. s = ArcOctets(a.done) \o HighDigits(a.value)
    BY <2>1, Zenon DEF AreWritten
  <2>3. PICK v, done, r : v = a.value /\ done = a.done /\ r = o % 128
    OBVIOUS
  <2>4. v \in Nat /\ done \in Seq(Nat) /\ r \in Digit
    BY <1>0, <1>2, <2>3 DEF Digit
  <2>5. IsOneDigitMore(v, r)
    BY <2>4, OneDigitMore
  <2>6. IsOneArcMore(done, v * 128 + r)
    <3>1. v * 128 + r \in Nat
      BY <2>5, Zenon DEF IsOneDigitMore
    <3> QED BY <2>4, <3>1, OneArcMore, Zenon
  <2>7. AppendsBehind(ArcOctets(done), HighDigits(v), o)
    BY <2>5, <2>6, AppendBehind, Zenon DEF IsOneDigitMore, IsOneArcMore
  <2>8. Append(s, o) = ArcOctets(done) \o Append(HighDigits(v), o)
    BY <2>2, <2>3, <2>7, Zenon DEF AppendsBehind
  <2>9. CASE o >= 128
    <3>1. b.done = done /\ b.value = v * 128 + r /\ b.open
      BY <1>1, <1>4, <2>3, <2>9, Zenon DEF IsArcStep
    <3>2. r + 128 = o /\ (v > 0 \/ r > 0) /\ v * 128 + r # 0
      <4>1. v = 0 => o # 128
        BY <2>1, <2>3
      <4>2. v \in Nat /\ r \in 0 .. 127
        BY <2>4 DEF Digit
      <4>3. r + 128 = o
        BY <1>0, <2>3, <2>9
      <4> QED BY <4>1, <4>2, <4>3
    <3>3. HighDigits(v * 128 + r) = Append(HighDigits(v), o)
      BY <2>5, <3>2, Zenon DEF IsOneDigitMore
    <3> QED BY <2>8, <3>1, <3>2, <3>3, Zenon
  <2>10. CASE ~(o >= 128)
    <3>1. o < 128 /\ r = o
      BY <1>0, <2>3, <2>10
    <3>2. b.done = Append(done, v * 128 + r) /\ b.value = 0 /\ ~b.open
      BY <1>1, <1>4, <2>3, <3>1, Zenon DEF IsArcStep
    <3>3. ArcOctets(b.done) = ArcOctets(done) \o Append(HighDigits(v), o)
      BY <2>5, <2>6, <3>1, <3>2, Zenon DEF IsOneArcMore, IsOneDigitMore
    <3>4. HighDigits(b.value) = <<>>
      BY <3>2, Zenon DEF HighDigits
    <3>5. Append(s, o) \o <<>> = Append(s, o)
      <4>1. Append(s, o) \in Seq(Octet)
        BY AppendProperties
      <4> QED BY <4>1, ConcatEmptySeq
    <3> QED BY <2>8, <3>2, <3>3, <3>4, <3>5, Zenon
  <2> QED BY <2>9, <2>10
<1> QED BY <1>3, <1>4, Zenon DEF AreWritten, b

\* What has been read determines the octets.
LEMMA ArcsWritten ==
  \A s \in Seq(Octet) : AreWritten(s, ParseBase128(s))
<1> DEFINE T == {s \in Seq(Octet) : AreWritten(s, ParseBase128(s))}
<1>1. <<>> \in T
  <2>1. <<>> \in Seq(Octet) /\ <<>> \o <<>> = <<>>
    OBVIOUS
  <2>2. NoArcs.done = <<>> /\ NoArcs.value = 0
    BY DEF NoArcs
  <2>3. HighDigits(0) = <<>>
    BY Zenon DEF HighDigits
  <2>4. AreWritten(<<>>, NoArcs)
    BY <2>1, <2>2, <2>3, NoArcsType, NoArcOctets, Zenon DEF AreWritten
  <2> QED BY <2>1, <2>4, ArcsOfNothing, Zenon
<1>2. ASSUME NEW s \in Seq(Octet), NEW o \in Octet, s \in T
      PROVE  Append(s, o) \in T
  <2>1. AreWritten(s, ParseBase128(s))
    BY <1>2
  <2>2. AreWritten(Append(s, o), ArcStep(ParseBase128(s), o))
    BY <2>1, OneOctetWritten
  <2>3. ParseBase128(Append(s, o)) = ArcStep(ParseBase128(s), o)
    BY ArcsOfMore
  <2>4. Append(s, o) \in Seq(Octet)
    BY AppendProperties
  <2> QED BY <2>2, <2>3, <2>4, Zenon
<1>. HIDE DEF T
<1>3. \A s \in Seq(Octet) : s \in T
  BY <1>1, <1>2, SequencesGrow, Zenon
<1> QED BY <1>3, Zenon DEF T

-----------------------------------------------------------------------------
(* Contents, written again from their values.                                *)

\* The content that encode_integer writes.
IntegerContent(n) ==
  IF Digits(n, 256)[1] >= 128 THEN <<0>> \o Digits(n, 256) ELSE Digits(n, 256)

\* The two kinds of octets.
LEMMA HighOrLow ==
  \A x \in 0 .. 255 : x < 128 <=> ~(x >= 128)
OBVIOUS

\* A zero octet in front of a number.
IsPadded(s, t) ==
  /\ t \in Seq(Octet) /\ Len(t) = Len(s) + 1 /\ t[1] = 0 /\ t[2] = s[1]
  /\ FromBytes(t) = FromBytes(s)

\* A zero octet in front of a number does not change its value.
LEMMA Padded ==
  ASSUME NEW s \in Seq(Octet), s # <<>>
  PROVE  IsPadded(s, <<0>> \o s)
<1> DEFINE t == <<0>> \o s
<1>0. PICK n \in Nat : n = Len(s) /\ n # 0
  OBVIOUS
<1>1. 0 \in Octet /\ <<0>> \in Seq(Octet) /\ Len(<<0>>) = 1
  BY DEF Octet
<1>2. /\ Len(t) = 1 + n /\ t \in Seq(Octet)
      /\ \A i \in 1 .. 1 + n : t[i] = IF i <= 1 THEN <<0>>[i] ELSE s[i - 1]
  BY <1>0, <1>1, ConcatProperties
<1>. HIDE DEF t
<1>3. 1 \in 1 .. 1 + n /\ 2 \in 1 .. 1 + n /\ ~(2 <= 1) /\ 2 - 1 = 1 /\ t # <<>>
  BY <1>0, <1>2
<1>4. t[1] = 0 /\ t[2] = s[1]
  BY <1>2, <1>3
<1>5. Tail(t) = s
  <2>1. /\ Tail(t) \in Seq(Octet) /\ Len(Tail(t)) = Len(t) - 1
        /\ \A i \in 1 .. Len(Tail(t)) : Tail(t)[i] = t[i + 1]
    BY <1>2, <1>3, HeadTailProperties
  <2>2. ASSUME NEW i \in 1 .. n PROVE Tail(t)[i] = s[i]
    <3>1. i + 1 \in 1 .. 1 + n /\ ~(i + 1 <= 1) /\ (i + 1) - 1 = i /\ i \in 1 .. Len(Tail(t))
      BY <1>0, <1>2, <2>1
    <3>2. Tail(t)[i] = t[i + 1] /\ t[i + 1] = s[i]
      BY <1>2, <2>1, <3>1
    <3> QED BY <3>2
  <2>3. Len(Tail(t)) = n
    BY <1>0, <1>2, <2>1
  <2> QED BY <1>0, <2>1, <2>2, <2>3, SeqEqual
<1>6. FromBytes(t) = FromBytes(s)
  <2>1. t \in Seq(Int)
    BY <1>2, OctetsAreNumbers
  <2>2. PICK z \in Int : z = 0
    OBVIOUS
  <2>3. BytesAfter(z, t) = BytesAfter(z * 256 + t[1], Tail(t))
    BY <1>3, <2>1, BytesTail, Zenon
  <2>4. z * 256 + t[1] = 0
    BY <1>4, <2>2
  <2> QED BY <1>5, <2>2, <2>3, <2>4, Zenon DEF FromBytes
<1>7. Len(t) = Len(s) + 1
  BY <1>0, <1>2
<1> QED BY <1>2, <1>4, <1>6, <1>7, Zenon DEF IsPadded, t

\* What the decoder and the accessor make of the content of a number.
IsIntegerContent(n, c) ==
  c \in Seq(Octet) /\ IntegerAllowed(c) /\ ~IsNegative(c) /\ IntValue(c) = n

\* What encode_integer writes is accepted and read back.
LEMMA IntegerWritten ==
  ASSUME NEW n \in Nat
  PROVE  IsIntegerContent(n, IntegerContent(n))
<1> DEFINE d == Digits(n, 256)
<1>1. /\ d \in Seq(Octet) /\ Len(d) \in Nat \ {0} /\ (n > 0 => d[1] # 0)
      /\ (n < 256 <=> Len(d) = 1) /\ (n < 256 => d = <<n>>)
  <2>1. IsDigits(d, n, 256)
    BY DigitsAre DEF DigitBase
  <2>2. 0 .. 256 - 1 = Octet
    BY DEF Octet
  <2> QED BY <2>1, <2>2 DEF IsDigits
<1>2. FromBytes(d) = n
  BY DigitsValue
<1>. HIDE DEF d
<1>3. d # <<>> /\ d[1] \in 0 .. 255 /\ (Len(d) > 1 => d[1] # 0)
  <2>1. d # <<>>
    BY <1>1
  <2>2. 1 \in 1 .. Len(d)
    BY <1>1
  <2>3. d[1] \in 0 .. 255
    BY <1>1, <2>2, OctetsAreNumbers
  <2>4. Len(d) > 1 => n > 0
    <3>1. PICK l \in Nat : l = Len(d)
      BY <1>1
    <3>2. n < 256 <=> l = 1
      BY <1>1, <3>1
    <3>3. l > 1 => n > 0
      BY <3>2
    <3> QED BY <3>1, <3>3
  <2> QED BY <1>1, <2>1, <2>3, <2>4
<1>4. CASE d[1] >= 128
  <2>1. IntegerContent(n) = <<0>> \o d
    BY <1>4 DEF IntegerContent, d
  <2>2. PICK t : t = <<0>> \o d
    OBVIOUS
  <2>3. IsPadded(d, t)
    BY <1>1, <1>3, <2>2, Padded
  <2>4. t \in Seq(Octet) /\ Len(t) = Len(d) + 1 /\ t[1] = 0 /\ t[2] >= 128 /\ FromBytes(t) = n
    BY <1>2, <1>4, <2>3 DEF IsPadded
  <2>5. IntegerAllowed(t)
    <3>1. t[2] = d[1]
      BY <2>3 DEF IsPadded
    <3>2. ~(d[1] < 128)
      BY <1>3, <1>4, HighOrLow, Zenon
    <3>3. t # <<>>
      BY <1>1, <2>4
    <3>4. ~(t[1] = 255)
      BY <2>4
    <3> QED BY <3>1, <3>2, <3>3, <3>4 DEF IntegerAllowed
  <2> QED BY <2>1, <2>2, <2>4, <2>5 DEF IsIntegerContent, IsNegative, IntValue
<1>5. CASE ~(d[1] >= 128)
  <2>1. IntegerContent(n) = d
    BY <1>5 DEF IntegerContent, d
  <2>2. IntegerAllowed(d)
    BY <1>1, <1>3, <1>5 DEF IntegerAllowed
  <2> QED BY <1>1, <1>2, <1>5, <2>1, <2>2 DEF IsIntegerContent, IsNegative, IntValue
<1> QED BY <1>4, <1>5

\* The content of a number is what encode_integer writes for its value.
LEMMA IntegerReadBack ==
  ASSUME NEW c \in Seq(Octet), IntegerAllowed(c), ~IsNegative(c)
  PROVE  IntValue(c) \in Nat /\ IntegerContent(IntValue(c)) = c
<1>1. PICK len \in Nat : len = Len(c) /\ len # 0
  BY DEF IntegerAllowed
<1>2. c[1] \in 0 .. 255 /\ c[1] < 128 /\ (len > 1 => ~(c[1] = 0 /\ c[2] < 128)) /\ c # <<>>
  <2>1. 1 \in 1 .. Len(c)
    BY <1>1
  <2>2. c[1] \in 0 .. 255
    BY <2>1, OctetsAreNumbers
  <2>3. ~(c[1] >= 128)
    BY DEF IsNegative
  <2>4. c[1] < 128
    BY <2>2, <2>3, HighOrLow, Zenon
  <2>5. len > 1 => ~(c[1] = 0 /\ c[2] < 128)
    BY <1>1 DEF IntegerAllowed
  <2>6. c # <<>>
    BY DEF IntegerAllowed
  <2> QED BY <2>2, <2>4, <2>5, <2>6
<1>3. CASE c[1] # 0
  <2>1. FromBytes(c) \in Nat /\ Digits(FromBytes(c), 256) = c
    BY <1>2, <1>3, DigitsOfValue
  <2>2. ~(Digits(FromBytes(c), 256)[1] >= 128)
    <3>1. ~(c[1] >= 128)
      BY DEF IsNegative
    <3> QED BY <2>1, <3>1, Zenon
  <2> QED BY <2>1, <2>2 DEF IntegerContent, IntValue
<1>4. CASE c[1] = 0 /\ len = 1
  <2>1. c = <<0>>
    <3>1. <<0>> \in Seq(Octet) /\ Len(<<0>>) = 1
      BY DEF Octet
    <3>2. Len(c) = 1
      BY <1>1, <1>4
    <3>3. \A i \in 1 .. Len(c) : c[i] = <<0>>[i]
      BY <1>4, <3>2
    <3> QED BY <3>1, <3>2, <3>3, SeqEqual
  <2>2. FromBytes(c) = 0
    <3>1. PICK e \in Seq(Int) : e = <<>> /\ Append(e, 0) = <<0>>
      <4>1. <<>> \in Seq(Int) /\ Append(<<>>, 0) = <<0>>
        OBVIOUS
      <4> QED BY <4>1
    <3>2. PICK z : z = 0 /\ z \in Int
      OBVIOUS
    <3>3. /\ BytesAfter(z, e) \in Int
          /\ BytesAfter(z, Append(e, z)) = BytesAfter(z, e) * 256 + z
          /\ BytesAfter(z, <<>>) = z
      BY <3>2, BytesFront
    <3>4. z * 256 + z = 0
      BY <3>2
    <3>5. BytesAfter(0, <<0>>) = 0
      BY <3>1, <3>2, <3>3, <3>4
    <3> QED BY <2>1, <3>5 DEF FromBytes
  <2>3. Digits(0, 256) = <<0>>
    <3>1. IsDigits(Digits(0, 256), 0, 256)
      BY DigitsAre DEF DigitBase
    <3> QED BY <3>1 DEF IsDigits
  <2>4. IntegerContent(0) = <<0>>
    BY <2>3 DEF IntegerContent
  <2> QED BY <2>1, <2>2, <2>4 DEF IntValue
<1>5. CASE c[1] = 0 /\ len > 1
  <2>1. PICK s : s = Tail(c)
    OBVIOUS
  <2>2. s \in Seq(Octet) /\ Len(s) = len - 1 /\ \A i \in 1 .. Len(s) : s[i] = c[i + 1]
    BY <1>1, <1>2, <2>1, HeadTailProperties
  <2>3. s # <<>> /\ s[1] = c[2] /\ c[2] \in 0 .. 255 /\ ~(c[2] < 128)
    <3>1. 1 \in 1 .. Len(s) /\ 2 \in 1 .. Len(c)
      BY <1>1, <1>5, <2>2
    <3>2. c[2] \in 0 .. 255
      BY <3>1, OctetsAreNumbers
    <3> QED BY <1>2, <1>5, <2>2, <3>1, <3>2
  <2>4. FromBytes(s) \in Nat /\ Digits(FromBytes(s), 256) = s
    <3>1. s[1] # 0
      BY <2>3
    <3> QED BY <2>2, <2>3, <3>1, DigitsOfValue
  <2>5. PICK t : t = <<0>> \o s
    OBVIOUS
  <2>6. IsPadded(s, t)
    BY <2>2, <2>3, <2>5, Padded
  <2>7. c = t
    <3>1. t \in Seq(Octet) /\ Len(t) = len /\ t[1] = 0
      BY <1>1, <2>2, <2>6 DEF IsPadded
    <3>2. \A i \in 1 .. 1 + Len(s) : t[i] = IF i <= 1 THEN <<0>>[i] ELSE s[i - 1]
      <4>1. <<0>> \in Seq(Octet) /\ Len(<<0>>) = 1
        BY DEF Octet
      <4> QED BY <2>2, <2>5, <4>1, ConcatProperties
    <3>3. ASSUME NEW i \in 1 .. len PROVE c[i] = t[i]
      <4>1. CASE i = 1
        BY <1>5, <3>1, <4>1
      <4>2. CASE i # 1
        <5>1. i \in 1 .. 1 + Len(s) /\ ~(i <= 1) /\ i - 1 \in 1 .. Len(s) /\ (i - 1) + 1 = i
          BY <2>2, <4>2
        <5> QED BY <2>2, <3>2, <5>1
      <4> QED BY <4>1, <4>2
    <3> QED BY <1>1, <3>1, <3>3, SeqEqual
  <2>8. FromBytes(c) = FromBytes(s)
    BY <2>6, <2>7 DEF IsPadded
  <2>9. Digits(FromBytes(s), 256)[1] >= 128
    <3>1. s[1] >= 128
      BY <2>3, HighOrLow, Zenon
    <3> QED BY <2>4, <3>1, Zenon
  <2> QED BY <2>4, <2>5, <2>7, <2>8, <2>9 DEF IntegerContent, IntValue
<1>6. len > 1 \/ len = 1
  BY <1>1
<1> QED BY <1>3, <1>4, <1>5, <1>6

\* An element in front of a sequence.
IsPrefixed(S, x, s, t) ==
  /\ t \in Seq(S) /\ Len(t) = Len(s) + 1 /\ t # <<>> /\ t[1] = x /\ Tail(t) = s
  /\ \A k \in 1 .. Len(s) : t[k + 1] = s[k]

\* A sequence begins with the element in front and goes on with the sequence behind.
LEMMA Prefixed ==
  ASSUME NEW S, NEW x \in S, NEW s \in Seq(S)
  PROVE  IsPrefixed(S, x, s, <<x>> \o s)
<1> DEFINE t == <<x>> \o s
<1>0. PICK n \in Nat : n = Len(s)
  OBVIOUS
<1>1. <<x>> \in Seq(S) /\ Len(<<x>>) = 1
  OBVIOUS
<1>2. /\ Len(t) = 1 + n /\ t \in Seq(S)
      /\ \A i \in 1 .. 1 + n : t[i] = IF i <= 1 THEN <<x>>[i] ELSE s[i - 1]
  BY <1>0, <1>1, ConcatProperties
<1>. HIDE DEF t
<1>3. 1 \in 1 .. 1 + n /\ t # <<>>
  BY <1>0, <1>2
<1>4. t[1] = x
  BY <1>2, <1>3
<1>5. ASSUME NEW k \in 1 .. n PROVE t[k + 1] = s[k]
  <2>1. k + 1 \in 1 .. 1 + n /\ ~(k + 1 <= 1) /\ (k + 1) - 1 = k
    BY <1>0
  <2> QED BY <1>2, <2>1
<1>6. Tail(t) = s
  <2>1. /\ Tail(t) \in Seq(S) /\ Len(Tail(t)) = Len(t) - 1
        /\ \A i \in 1 .. Len(Tail(t)) : Tail(t)[i] = t[i + 1]
    BY <1>2, <1>3, HeadTailProperties
  <2>2. Len(Tail(t)) = n
    BY <1>0, <1>2, <2>1
  <2>3. \A i \in 1 .. n : Tail(t)[i] = s[i]
    BY <1>5, <2>1, <2>2
  <2> QED BY <1>0, <2>1, <2>2, <2>3, SeqEqual
<1>7. Len(t) = Len(s) + 1
  BY <1>0, <1>2
<1> QED BY <1>0, <1>2, <1>3, <1>4, <1>5, <1>6, <1>7, Zenon DEF IsPrefixed, t

\* A sequence is its first element and the others.
LEMMA FirstAndRest ==
  ASSUME NEW S, NEW t \in Seq(S), t # <<>>
  PROVE  <<t[1]>> \o Tail(t) = t
<1>1. PICK u : u = <<t[1]>> \o Tail(t)
  OBVIOUS
<1>2. PICK n \in Nat : n = Len(t) /\ n # 0
  OBVIOUS
<1>3. /\ Tail(t) \in Seq(S) /\ Len(Tail(t)) = n - 1 /\ t[1] \in S
      /\ \A i \in 1 .. Len(Tail(t)) : Tail(t)[i] = t[i + 1]
  BY <1>2, HeadTailProperties
<1>4. IsPrefixed(S, t[1], Tail(t), u)
  BY <1>1, <1>3, Prefixed
<1>5. u \in Seq(S) /\ Len(u) = n
  BY <1>2, <1>3, <1>4 DEF IsPrefixed
<1>6. ASSUME NEW i \in 1 .. n PROVE u[i] = t[i]
  <2>1. CASE i = 1
    BY <1>4, <2>1 DEF IsPrefixed
  <2>2. CASE i # 1
    <3>1. PICK k \in 1 .. n - 1 : i = k + 1
      <4>1. i - 1 \in 1 .. n - 1 /\ i = (i - 1) + 1
        BY <1>2, <2>2
      <4> QED BY <4>1
    <3>2. u[k + 1] = Tail(t)[k]
      BY <1>3, <1>4, <3>1 DEF IsPrefixed
    <3> QED BY <1>3, <3>1, <3>2
  <2> QED BY <2>1, <2>2
<1> QED BY <1>1, <1>2, <1>5, <1>6, SeqEqual

\* What the decoder and the accessor make of the content of a bit string.
IsBitsContent(data, unused, c) ==
  c \in Seq(Octet) /\ BitStringAllowed(c) /\ Payload(c) = data /\ UnusedBits(c) = unused

\* What encode_bit_string writes is accepted and read back.
LEMMA BitsWritten ==
  ASSUME NEW data \in Seq(Octet), NEW unused, BitStringEncodable(data, unused)
  PROVE  IsBitsContent(data, unused, <<unused>> \o data)
<1>1. unused \in 0 .. 7 /\ unused \in Octet
  BY DEF BitStringEncodable, Octet
<1>2. PICK c : c = <<unused>> \o data
  OBVIOUS
<1>3. IsPrefixed(Octet, unused, data, c)
  BY <1>1, <1>2, Prefixed
<1>4. PICK n \in Nat : n = Len(data)
  OBVIOUS
<1>5. c \in Seq(Octet) /\ Len(c) = n + 1 /\ c # <<>> /\ c[1] = unused /\ Tail(c) = data
  BY <1>3, <1>4, Zenon DEF IsPrefixed
<1>6. Len(c) = 1 => unused = 0
  <2>1. Len(c) = 1 => data = <<>>
    BY <1>4, <1>5
  <2> QED BY <2>1 DEF BitStringEncodable
<1>7. unused # 0 => c[Len(c)] % 2 ^ unused = 0
  <2> SUFFICES ASSUME unused # 0 PROVE c[Len(c)] % 2 ^ unused = 0
    OBVIOUS
  <2>1. data[Len(data)] % 2 ^ unused = 0 /\ data # <<>>
    BY DEF BitStringEncodable
  <2>2. n \in 1 .. Len(data)
    BY <1>4, <2>1
  <2>3. c[n + 1] = data[n]
    BY <1>3, <2>2 DEF IsPrefixed
  <2> QED BY <1>4, <1>5, <2>1, <2>3
<1>8. BitStringAllowed(c)
  <2>1. c[1] <= 7
    BY <1>1, <1>5
  <2> QED BY <1>5, <1>6, <1>7, <2>1, Zenon DEF BitStringAllowed
<1> QED BY <1>2, <1>5, <1>8, Zenon DEF IsBitsContent, Payload, UnusedBits

\* The arcs whose digits encode_oid writes: the first two are one number.
Merged(o) == [k \in 1 .. Len(o) - 1 |-> IF k = 1 THEN 40 * o[1] + o[2] ELSE o[k + 1]]

\* The content that encode_oid writes.
OidContent(o) ==
  FlattenSeq([k \in 1 .. Len(o) - 1 |-> Base128(IF k = 1 THEN 40 * o[1] + o[2] ELSE o[k + 1])])

\* An identifier and its arcs as they are written.
IsMerged(o, m) ==
  m = Merged(o) /\ m \in Seq(Nat) /\ Len(m) = Len(o) - 1 /\ OidContent(o) = ArcOctets(m)

\* What encode_oid writes is the octets of arcs.
LEMMA MergedArcs ==
  ASSUME NEW o \in Seq(Nat), Len(o) >= 2
  PROVE  IsMerged(o, Merged(o))
<1>1. PICK n \in Nat : n = Len(o) - 1 /\ Len(o) = n + 1 /\ n >= 1
  <2>1. PICK l \in Nat : l = Len(o) /\ l >= 2
    OBVIOUS
  <2>2. l - 1 \in Nat /\ l = (l - 1) + 1 /\ l - 1 >= 1
    BY <2>1
  <2> QED BY <2>1, <2>2
<1> DEFINE arc(k) == IF k = 1 THEN 40 * o[1] + o[2] ELSE o[k + 1]
<1>2. ASSUME NEW k \in 1 .. n PROVE arc(k) \in Nat
  <2>1. 1 \in 1 .. Len(o) /\ 2 \in 1 .. Len(o) /\ k + 1 \in 1 .. Len(o)
    BY <1>1
  <2>2. o[1] \in Nat /\ o[2] \in Nat /\ o[k + 1] \in Nat
    BY <2>1
  <2>3. \A x, y \in Nat : 40 * x + y \in Nat
    OBVIOUS
  <2> QED BY <2>2, <2>3
<1>3. Merged(o) = [k \in 1 .. n |-> arc(k)]
  BY <1>1 DEF Merged
<1>. HIDE DEF arc
<1>4. [k \in 1 .. n |-> arc(k)] \in Seq(Nat)
  BY <1>2, IsASeq
<1>5. PICK m : m = [k \in 1 .. n |-> arc(k)]
  OBVIOUS
<1>6. m \in Seq(Nat) /\ Len(m) = n
  BY <1>1, <1>4, <1>5
<1>7. [k \in 1 .. Len(m) |-> Base128(m[k])] = [k \in 1 .. n |-> Base128(arc(k))]
  BY <1>5, <1>6
<1>8. OidContent(o) = FlattenSeq([k \in 1 .. n |-> Base128(arc(k))])
  BY <1>1 DEF OidContent, arc
<1>9. OidContent(o) = ArcOctets(m)
  BY <1>7, <1>8 DEF ArcOctets
<1> QED BY <1>1, <1>3, <1>5, <1>6, <1>9 DEF IsMerged

\* The arcs of an identifier, from the numbers that are written.
OidArcs(m) ==
  LET first == IF m[1] \div 40 < 2 THEN m[1] \div 40 ELSE 2
  IN  <<first, m[1] - first * 40>> \o Tail(m)

IsOidArcs(m, o) ==
  /\ o \in Seq(Nat) /\ Len(o) = Len(m) + 1 /\ Len(o) >= 2
  /\ 40 * o[1] + o[2] = m[1] /\ (o[1] < 2 => o[2] < 40) /\ o[1] <= 2
  /\ \A k \in 2 .. Len(m) : o[k + 1] = m[k]

\* The first number is split in two arcs, of which the first is at most 2.
LEMMA FirstSplit ==
  ASSUME NEW x \in Nat
  PROVE  \E f \in 0 .. 2 : /\ f = IF x \div 40 < 2 THEN x \div 40 ELSE 2
                           /\ x - f * 40 \in Nat /\ 40 * f + (x - f * 40) = x
                           /\ f < 2 => x - f * 40 < 40
<1>1. PICK q \in Nat : q = x \div 40 /\ 40 * q <= x /\ x < 40 * q + 40
  OBVIOUS
<1>2. CASE q < 2
  <2>1. q \in 0 .. 2 /\ x - q * 40 \in Nat /\ 40 * q + (x - q * 40) = x /\ x - q * 40 < 40
    BY <1>1, <1>2
  <2> QED BY <1>1, <1>2, <2>1
<1>3. CASE ~(q < 2)
  <2>1. 2 \in 0 .. 2 /\ x - 2 * 40 \in Nat /\ 40 * 2 + (x - 2 * 40) = x
    BY <1>1, <1>3
  <2> QED BY <1>1, <1>3, <2>1
<1> QED BY <1>2, <1>3

\* The arcs that the accessor returns.
LEMMA OidArcsAre ==
  ASSUME NEW m \in Seq(Nat), m # <<>>
  PROVE  IsOidArcs(m, OidArcs(m))
<1>1. PICK n \in Nat : n = Len(m) /\ n # 0
  OBVIOUS
<1>2. m[1] \in Nat
  <2>1. 1 \in 1 .. Len(m)
    BY <1>1
  <2> QED BY <2>1
<1>3. PICK f \in 0 .. 2 : /\ f = IF m[1] \div 40 < 2 THEN m[1] \div 40 ELSE 2
                          /\ m[1] - f * 40 \in Nat /\ 40 * f + (m[1] - f * 40) = m[1]
                          /\ f < 2 => m[1] - f * 40 < 40
  BY <1>2, FirstSplit
<1>4. PICK g \in Nat : g = m[1] - f * 40
  BY <1>3
<1>5. PICK o : o = <<f, g>> \o Tail(m)
  OBVIOUS
<1>6. OidArcs(m) = o
  BY <1>3, <1>4, <1>5 DEF OidArcs
<1>7. f \in Nat /\ f <= 2
  <2>1. \A x \in 0 .. 2 : x \in Nat /\ x <= 2
    OBVIOUS
  <2> QED BY <1>3, <2>1, Zenon
<1>8. <<f, g>> \in Seq(Nat) /\ Len(<<f, g>>) = 2
  BY <1>7
<1>9. /\ Tail(m) \in Seq(Nat) /\ Len(Tail(m)) = n - 1
      /\ \A i \in 1 .. Len(Tail(m)) : Tail(m)[i] = m[i + 1]
  BY <1>1, HeadTailProperties
<1>10. /\ o \in Seq(Nat) /\ Len(o) = 2 + (n - 1)
       /\ \A i \in 1 .. 2 + (n - 1) : o[i] = IF i <= 2 THEN <<f, g>>[i] ELSE Tail(m)[i - 2]
  BY <1>5, <1>8, <1>9, ConcatProperties
<1>11. 1 \in 1 .. 2 + (n - 1) /\ 2 \in 1 .. 2 + (n - 1) /\ 1 <= 2 /\ 2 + (n - 1) = n + 1 /\ n + 1 >= 2
  BY <1>1
<1>12. o[1] = f /\ o[2] = g
  BY <1>10, <1>11
<1>13. ASSUME NEW k \in 2 .. n PROVE o[k + 1] = m[k]
  <2>1. k + 1 \in 1 .. 2 + (n - 1) /\ ~(k + 1 <= 2) /\ (k + 1) - 2 = k - 1
        /\ k - 1 \in 1 .. Len(Tail(m)) /\ (k - 1) + 1 = k
    BY <1>9
  <2>2. o[k + 1] = Tail(m)[k - 1]
    BY <1>10, <2>1
  <2>3. Tail(m)[k - 1] = m[k]
    BY <1>9, <2>1
  <2> QED BY <2>2, <2>3
<1>14. 40 * f + g = m[1] /\ (f < 2 => g < 40)
  BY <1>3, <1>4
<1>15. 40 * o[1] + o[2] = m[1] /\ (o[1] < 2 => o[2] < 40) /\ o[1] <= 2
  BY <1>7, <1>12, <1>14
<1>16. Len(o) = Len(m) + 1 /\ Len(o) >= 2
  BY <1>1, <1>10, <1>11
<1> QED BY <1>1, <1>6, <1>10, <1>13, <1>15, <1>16, Zenon DEF IsOidArcs

\* Merging the first two arcs undoes the split.
LEMMA SplitMerged ==
  ASSUME NEW m \in Seq(Nat), m # <<>>
  PROVE  Merged(OidArcs(m)) = m
<1>1. PICK n \in Nat : n = Len(m) /\ n # 0
  OBVIOUS
<1>2. PICK o : o = OidArcs(m)
  OBVIOUS
<1>3. IsOidArcs(m, o)
  BY <1>2, OidArcsAre
<1>4. /\ o \in Seq(Nat) /\ Len(o) = n + 1 /\ 40 * o[1] + o[2] = m[1] /\ Len(o) >= 2
      /\ \A k \in 2 .. n : o[k + 1] = m[k]
  BY <1>1, <1>3 DEF IsOidArcs
<1>5. IsMerged(o, Merged(o))
  BY <1>4, MergedArcs
<1>6. PICK w : w = Merged(o)
  OBVIOUS
<1>7. w \in Seq(Nat) /\ Len(w) = Len(o) - 1
  BY <1>5, <1>6 DEF IsMerged
<1>8. Len(w) = n
  BY <1>4, <1>7
<1>9. w = [k \in 1 .. Len(o) - 1 |-> IF k = 1 THEN 40 * o[1] + o[2] ELSE o[k + 1]]
  BY <1>6 DEF Merged
<1>10. Len(o) - 1 = n
  BY <1>4
<1>11. ASSUME NEW k \in 1 .. n PROVE w[k] = m[k]
  <2>1. w[k] = IF k = 1 THEN 40 * o[1] + o[2] ELSE o[k + 1]
    BY <1>9, <1>10
  <2>2. CASE k = 1
    BY <1>4, <2>1, <2>2
  <2>3. CASE k # 1
    <3>1. k \in 2 .. n
      BY <2>3
    <3> QED BY <1>4, <2>1, <2>3, <3>1
  <2> QED BY <2>2, <2>3
<1> QED BY <1>1, <1>2, <1>6, <1>7, <1>8, <1>11, SeqEqual

\* Splitting the first number undoes the merge.
LEMMA MergedSplit ==
  ASSUME NEW o \in Seq(Nat), OidEncodable(o)
  PROVE  OidArcs(Merged(o)) = o
<1>1. PICK l \in Nat : l = Len(o) /\ l >= 2
  BY DEF OidEncodable
<1>2. o[1] \in 0 .. 2 /\ o[2] \in Nat /\ (o[1] < 2 => o[2] < 40)
  <2>1. 2 \in 1 .. Len(o)
    BY <1>1
  <2>2. o[2] \in Nat
    BY <2>1
  <2>3. o[1] \in 0 .. 2
    BY DEF OidEncodable
  <2>4. o[1] < 2 => o[2] \in 0 .. 39
    BY DEF OidEncodable
  <2>5. \A x \in 0 .. 39 : x < 40
    OBVIOUS
  <2> QED BY <2>2, <2>3, <2>4, <2>5, Zenon
<1>3. PICK m : m = Merged(o)
  OBVIOUS
<1>4. IsMerged(o, m)
  BY <1>1, <1>3, MergedArcs
<1>5. m \in Seq(Nat) /\ Len(m) = l - 1 /\ m # <<>>
  BY <1>1, <1>4 DEF IsMerged
<1>6. PICK p : p = OidArcs(m)
  OBVIOUS
<1>7. IsOidArcs(m, p)
  BY <1>5, <1>6, OidArcsAre
<1>8. /\ p \in Seq(Nat) /\ Len(p) = l /\ 40 * p[1] + p[2] = m[1] /\ (p[1] < 2 => p[2] < 40)
      /\ p[1] <= 2 /\ \A k \in 2 .. l - 1 : p[k + 1] = m[k]
  <2>1. Len(p) = Len(m) + 1
    BY <1>7 DEF IsOidArcs
  <2>2. Len(p) = l
    BY <1>1, <1>5, <2>1
  <2> QED BY <1>5, <1>7, <2>2, Zenon DEF IsOidArcs
<1>9. m = [k \in 1 .. l - 1 |-> IF k = 1 THEN 40 * o[1] + o[2] ELSE o[k + 1]]
  BY <1>1, <1>3 DEF Merged
<1>10. m[1] = 40 * o[1] + o[2]
  <2>1. 1 \in 1 .. l - 1
    BY <1>1
  <2> QED BY <1>9, <2>1
<1>11. p[1] = o[1] /\ p[2] = o[2]
  <2>1. p[1] \in Nat /\ p[2] \in Nat
    <3>1. 1 \in 1 .. Len(p) /\ 2 \in 1 .. Len(p)
      BY <1>1, <1>8
    <3> QED BY <1>8, <3>1
  <2>2. PICK a \in 0 .. 2, b \in Nat : a = o[1] /\ b = o[2] /\ (a < 2 => b < 40)
    BY <1>2
  <2>3. PICK c \in Nat, d \in Nat : c = p[1] /\ d = p[2] /\ (c < 2 => d < 40) /\ c <= 2
    BY <1>8, <2>1
  <2>4. 40 * c + d = 40 * a + b
    BY <1>8, <1>10, <2>2, <2>3
  <2>5. a = c /\ b = d
    <3>1. a < 2 => b < 40
      BY <2>2
    <3>2. c < 2 => d < 40
      BY <2>3
    <3>3. a = 0 \/ a = 1 \/ a = 2
      BY <2>2
    <3>4. c = 0 \/ c = 1 \/ c = 2
      BY <2>3
    <3>. HIDE <2>2, <2>3
    <3> QED BY <2>4, <3>1, <3>2, <3>3, <3>4
  <2> QED BY <2>2, <2>3, <2>5
<1>12. ASSUME NEW i \in 1 .. l PROVE p[i] = o[i]
  <2>1. CASE i = 1 \/ i = 2
    BY <1>11, <2>1
  <2>2. CASE ~(i = 1 \/ i = 2)
    <3>1. PICK k \in 2 .. l - 1 : i = k + 1 /\ k \in 1 .. l - 1 /\ k # 1
      <4>1. i - 1 \in 2 .. l - 1 /\ i = (i - 1) + 1 /\ i - 1 \in 1 .. l - 1 /\ i - 1 # 1
        BY <1>1, <2>2
      <4> QED BY <4>1
    <3>2. p[k + 1] = m[k] /\ m[k] = o[k + 1]
      BY <1>8, <1>9, <3>1
    <3> QED BY <3>1, <3>2
  <2> QED BY <2>1, <2>2
<1> QED BY <1>1, <1>3, <1>6, <1>8, <1>12, SeqEqual

\* What the accessor returns are the arcs that the content holds.
LEMMA OidValueIs ==
  ASSUME NEW c
  PROVE  OidValue(c) = OidArcs(ParseBase128(c).done)
BY Zenon DEF OidValue, OidArcs

\* What the decoder and the accessor make of the content of an identifier.
IsOidContent(o, c) ==
  c \in Seq(Octet) /\ OidAllowed(c) /\ OidValue(c) = o

\* What encode_oid writes is accepted and read back.
LEMMA OidWritten ==
  ASSUME NEW o \in Seq(Nat), OidEncodable(o)
  PROVE  IsOidContent(o, OidContent(o))
<1>1. PICK l \in Nat : l = Len(o) /\ l >= 2
  BY DEF OidEncodable
<1>2. PICK m : m = Merged(o)
  OBVIOUS
<1>3. IsMerged(o, m)
  BY <1>1, <1>2, MergedArcs
<1>4. m \in Seq(Nat) /\ m # <<>> /\ OidContent(o) = ArcOctets(m)
  BY <1>1, <1>3 DEF IsMerged
<1>5. PICK c : c = ArcOctets(m)
  OBVIOUS
<1>6. AreArcsRead(m)
  BY <1>4, ArcsReadBack
<1>7. c \in Seq(Octet) /\ ParseBase128(c) = [done |-> m, value |-> 0, open |-> FALSE, bad |-> FALSE]
  BY <1>5, <1>6 DEF AreArcsRead, Reading
<1>8. c # <<>>
  <2>1. ASSUME c = <<>> PROVE FALSE
    <3>1. ParseBase128(c) = NoArcs
      BY <2>1, ArcsOfNothing
    <3>2. ParseBase128(c).done = <<>>
      BY <3>1 DEF NoArcs
    <3> QED BY <1>4, <1>7, <3>2
  <2> QED BY <2>1
<1>9. OidAllowed(c)
  BY <1>7, <1>8 DEF OidAllowed
<1>10. OidValue(c) = OidArcs(m)
  BY <1>7, OidValueIs
<1>11. OidArcs(m) = o
  BY <1>2, MergedSplit
<1> QED BY <1>4, <1>5, <1>7, <1>9, <1>10, <1>11 DEF IsOidContent

\* The content of an identifier is what encode_oid writes for its arcs.
LEMMA OidReadBack ==
  ASSUME NEW c \in Seq(Octet), OidAllowed(c)
  PROVE  OidContent(OidValue(c)) = c
<1>1. PICK a : a = ParseBase128(c)
  OBVIOUS
<1>2. AreWritten(c, a)
  BY <1>1, ArcsWritten
<1>3. c # <<>> /\ ~a.bad /\ ~a.open
  BY <1>1 DEF OidAllowed
<1>4. a.done \in Seq(Nat) /\ a.value = 0 /\ c = ArcOctets(a.done) \o HighDigits(a.value)
  BY <1>2, <1>3, ArcsParts DEF AreWritten
<1>5. PICK m \in Seq(Nat) : m = a.done
  BY <1>4
<1>6. ArcOctets(m) \in Seq(Octet)
  BY ArcsReadBack DEF AreArcsRead
<1>7. c = ArcOctets(m)
  <2>1. HighDigits(0) = <<>>
    BY DEF HighDigits
  <2> QED BY <1>4, <1>5, <1>6, <2>1
<1>8. m # <<>>
  BY <1>3, <1>7, NoArcOctets
<1>9. PICK o : o = OidArcs(m)
  OBVIOUS
<1>10. OidValue(c) = o
  BY <1>1, <1>5, <1>9, OidValueIs
<1>11. o \in Seq(Nat) /\ Len(o) >= 2
  BY <1>8, <1>9, OidArcsAre DEF IsOidArcs
<1>12. Merged(o) = m
  BY <1>8, <1>9, SplitMerged
<1>13. OidContent(o) = ArcOctets(m)
  BY <1>11, <1>12, MergedArcs DEF IsMerged
<1> QED BY <1>7, <1>10, <1>13

-----------------------------------------------------------------------------
(* Encodings.                                                                *)

\* The parts of a concatenation.
IsMiddle(S, a, b, u) ==
  /\ u \in Seq(S) /\ Len(a) + Len(b) <= Len(u)
  /\ SubSeq(u, Len(a) + 1, Len(a) + Len(b)) = b
  /\ \A i \in 1 .. Len(a) : u[i] = a[i]

\* What stands between two strings can be cut out again.
LEMMA Middle ==
  ASSUME NEW S, NEW a \in Seq(S), NEW b \in Seq(S), NEW c \in Seq(S)
  PROVE  IsMiddle(S, a, b, (a \o b) \o c)
<1>1. PICK m \in Nat, n \in Nat, l \in Nat : m = Len(a) /\ n = Len(b) /\ l = Len(c)
  OBVIOUS
<1>2. PICK v : v = a \o b
  OBVIOUS
<1>3. /\ v \in Seq(S) /\ Len(v) = m + n
      /\ \A i \in 1 .. m + n : v[i] = IF i <= m THEN a[i] ELSE b[i - m]
  BY <1>1, <1>2, ConcatProperties
<1>4. PICK u : u = v \o c
  OBVIOUS
<1>5. /\ u \in Seq(S) /\ Len(u) = (m + n) + l
      /\ \A i \in 1 .. (m + n) + l : u[i] = IF i <= m + n THEN v[i] ELSE c[i - (m + n)]
  <2>1. PICK k \in Nat : k = m + n
    OBVIOUS
  <2>2. Len(v) = k
    BY <1>3, <2>1
  <2>3. /\ u \in Seq(S) /\ Len(u) = k + l
        /\ \A i \in 1 .. k + l : u[i] = IF i <= k THEN v[i] ELSE c[i - k]
    <3>1. /\ v \o c \in Seq(S) /\ Len(v \o c) = Len(v) + Len(c)
          /\ \A i \in 1 .. Len(v) + Len(c) : (v \o c)[i] = IF i <= Len(v) THEN v[i] ELSE c[i - Len(v)]
      BY <1>3, ConcatProperties
    <3> QED BY <1>1, <1>4, <2>2, <3>1
  <2> QED BY <2>1, <2>3
<1>6. m + n <= Len(u) /\ m + n \in Nat /\ m <= m + n /\ (m + n) - m = n
  BY <1>1, <1>5
<1>7. ASSUME NEW i \in 1 .. m PROVE u[i] = a[i]
  <2>1. i \in 1 .. m + n /\ i \in 1 .. (m + n) + l /\ i <= m + n /\ i <= m
    BY <1>1
  <2> QED BY <1>3, <1>5, <2>1
<1>8. SubSeq(u, m + 1, m + n) = b
  <2>1. PICK e \in Nat : e = m + n
    BY <1>6
  <2>2. PICK t : t = SubSeq(u, m + 1, e)
    OBVIOUS
  <2>3. t \in Seq(S) /\ Len(t) = e - m /\ \A i \in 1 .. e - m : t[i] = u[m + i]
    <3>1. e <= Len(u) /\ m <= e
      BY <1>6, <2>1
    <3> QED BY <1>5, <2>2, <3>1, PartOf
  <2>4. Len(t) = n /\ \A i \in 1 .. n : t[i] = u[m + i]
    BY <1>6, <2>1, <2>3
  <2>5. ASSUME NEW i \in 1 .. n PROVE t[i] = b[i]
    <3>1. m + i \in 1 .. m + n /\ m + i \in 1 .. (m + n) + l /\ m + i <= m + n /\ ~(m + i <= m)
          /\ (m + i) - m = i
      BY <1>1
    <3>2. u[m + i] = v[m + i] /\ v[m + i] = b[i]
      BY <1>3, <1>5, <3>1
    <3> QED BY <2>4, <3>2
  <2>6. t = b
    BY <1>1, <2>3, <2>4, <2>5, SeqEqual
  <2> QED BY <2>1, <2>2, <2>6
<1> QED BY <1>1, <1>2, <1>4, <1>5, <1>6, <1>7, <1>8 DEF IsMiddle

\* A content whose length the decoder can read.
Fits(c) == Len(EncodeLength(Len(c))) <= 1 + MaxLenOctets

IsLength(n, e) == e \in Seq(Octet) /\ Len(e) \in Nat \ {0}

\* A length field that is not too long consists of octets.
LEMMA LengthOctets ==
  ASSUME NEW n \in Nat, Len(EncodeLength(n)) <= 1 + MaxLenOctets
  PROVE  IsLength(n, EncodeLength(n))
<1>0. MaxLenOctets \in 1 .. 126
  BY MaxLenOctetsAssumption
<1>1. CASE n < 128
  <2>1. EncodeLength(n) = <<n>>
    BY <1>1 DEF EncodeLength
  <2>2. n \in Octet
    BY <1>1 DEF Octet
  <2>3. <<n>> \in Seq(Octet) /\ Len(<<n>>) = 1
    BY <2>2
  <2>4. 1 \in Nat \ {0}
    OBVIOUS
  <2> QED BY <2>1, <2>3, <2>4, Zenon DEF IsLength
<1>2. CASE ~(n < 128)
  <2>1. PICK d : d = Digits(n, 256)
    OBVIOUS
  <2>2. EncodeLength(n) = <<128 + Len(d)>> \o d
    BY <1>2, <2>1 DEF EncodeLength
  <2>3. d \in Seq(Octet) /\ Len(d) \in Nat \ {0}
    <3>1. IsDigits(d, n, 256)
      BY <2>1, DigitsAre DEF DigitBase
    <3>2. d \in Seq(0 .. 256 - 1) /\ Len(d) \in Nat \ {0}
      BY <3>1 DEF IsDigits
    <3>3. 0 .. 256 - 1 = Octet
      BY DEF Octet
    <3> QED BY <3>2, <3>3
  <2>4. PICK l \in Nat : l = Len(d) /\ l # 0
    BY <2>3
  <2>5. PICK x \in Nat : x = 128 + l
    BY <2>4
  <2>6. PICK e : e = <<x>> \o d
    OBVIOUS
  <2>7. EncodeLength(n) = e
    BY <2>2, <2>4, <2>5, <2>6
  <2>8. Len(e) = 1 + l
    <3>1. x \in Int /\ d \in Seq(Int)
      BY <2>3, <2>5, OctetsAreNumbers
    <3>2. IsPrefixed(Int, x, d, e)
      BY <2>6, <3>1, Prefixed
    <3>3. Len(e) = Len(d) + 1
      BY <3>2 DEF IsPrefixed
    <3> QED BY <2>4, <3>3
  <2>9. x \in Octet
    <3>1. 1 + l <= 1 + MaxLenOctets
      BY <2>7, <2>8
    <3>2. l <= 126
      BY <1>0, <2>4, <3>1
    <3>3. \A y \in Nat : y <= 126 => 128 + y \in 0 .. 255
      OBVIOUS
    <3> QED BY <2>4, <2>5, <3>2, <3>3, Zenon DEF Octet
  <2>10. IsPrefixed(Octet, x, d, e)
    BY <2>3, <2>6, <2>9, Prefixed
  <2>11. e \in Seq(Octet)
    BY <2>10 DEF IsPrefixed
  <2>12. Len(e) \in Nat \ {0}
    BY <2>8, <2>4
  <2> QED BY <2>7, <2>11, <2>12, Zenon DEF IsLength
<1> QED BY <1>1, <1>2

\* Where the content of an element begins that stands at the start.
ContentAt(c) == 1 + Len(EncodeLength(Len(c)))

IsTlv(tag, c, u) ==
  u \in Seq(Octet) /\ Len(u) = ContentAt(c) + Len(c) /\ ContentAt(c) \in Nat /\ ContentAt(c) >= 2

\* An encoding consists of octets, and is longer than its content.
LEMMA TlvOctets ==
  ASSUME NEW tag \in Octet, NEW c \in Seq(Octet), Fits(c)
  PROVE  IsTlv(tag, c, EncodeTlv(tag, c))
<1>1. PICK n \in Nat : n = Len(c)
  OBVIOUS
<1>2. PICK e : e = EncodeLength(n)
  OBVIOUS
<1>3. IsLength(n, e)
  BY <1>1, <1>2, LengthOctets DEF Fits
<1>4. PICK l \in Nat : e \in Seq(Octet) /\ l = Len(e) /\ l # 0
  BY <1>3 DEF IsLength
<1>5. PICK v : v = <<tag>> \o e
  OBVIOUS
<1>6. IsPrefixed(Octet, tag, e, v)
  BY <1>4, <1>5, Prefixed
<1>7. v \in Seq(Octet) /\ Len(v) = l + 1
  BY <1>4, <1>6 DEF IsPrefixed
<1>8. v \o c \in Seq(Octet) /\ Len(v \o c) = (l + 1) + n
  BY <1>1, <1>7, ConcatProperties
<1>9. EncodeTlv(tag, c) = v \o c
  BY <1>1, <1>2, <1>5 DEF EncodeTlv
<1>10. ContentAt(c) = 1 + l
  BY <1>1, <1>2, <1>4 DEF ContentAt
<1>11. 1 + l \in Nat /\ 1 + l >= 2 /\ (l + 1) + n = (1 + l) + n
  BY <1>4
<1> QED BY <1>1, <1>8, <1>9, <1>10, <1>11 DEF IsTlv

\* An element at the start of data.
IsHead(data, tag, c) ==
  /\ data \in Seq(Octet) /\ data[1] = tag
  /\ ContentAt(c) \in 2 .. Len(data) /\ ContentAt(c) + Len(c) <= Len(data)
  /\ IsLengthField(data, 1, ContentAt(c), Len(c))
  /\ SubSeq(data, ContentAt(c) + 1, ContentAt(c) + Len(c)) = c
  /\ SubSeq(data, 1, ContentAt(c) + Len(c)) = EncodeTlv(tag, c)

\* What an encoding at the start of data says of its octets.
LEMMA HeadRead ==
  ASSUME NEW tag \in Octet, NEW c \in Seq(Octet), Fits(c), NEW r \in Seq(Octet)
  PROVE  IsHead(EncodeTlv(tag, c) \o r, tag, c)
<1>1. PICK n \in Nat : n = Len(c)
  OBVIOUS
<1>2. PICK e : e = EncodeLength(n)
  OBVIOUS
<1>3. IsLength(n, e)
  BY <1>1, <1>2, LengthOctets DEF Fits
<1>4. PICK l \in Nat : e \in Seq(Octet) /\ l = Len(e) /\ l # 0
  BY <1>3 DEF IsLength
<1>5. PICK v : v = <<tag>> \o e
  OBVIOUS
<1>6. IsPrefixed(Octet, tag, e, v)
  BY <1>4, <1>5, Prefixed
<1>7. v \in Seq(Octet) /\ Len(v) = l + 1 /\ v[1] = tag
  BY <1>4, <1>6 DEF IsPrefixed
<1>8. PICK u : u = v \o c
  OBVIOUS
<1>9. EncodeTlv(tag, c) = u
  BY <1>1, <1>2, <1>5, <1>8 DEF EncodeTlv
<1>10. u \in Seq(Octet) /\ Len(u) = (l + 1) + n
  BY <1>1, <1>7, <1>8, ConcatProperties
<1>11. PICK data : data = u \o r
  OBVIOUS
<1>12. PICK q \in Nat : q = l + 1 /\ q = 1 + l /\ q >= 2
  <2>1. l + 1 \in Nat /\ l + 1 = 1 + l /\ l + 1 >= 2
    BY <1>4
  <2> QED BY <2>1
<1>13. ContentAt(c) = q
  BY <1>1, <1>2, <1>4, <1>12 DEF ContentAt
<1>14. IsMiddle(Octet, v, c, data)
  BY <1>7, <1>8, <1>11, Middle
<1>15. /\ data \in Seq(Octet) /\ q + n <= Len(data) /\ SubSeq(data, q + 1, q + n) = c
       /\ \A i \in 1 .. q : data[i] = v[i]
  BY <1>1, <1>7, <1>12, <1>14 DEF IsMiddle
<1>16. data[1] = tag
  <2>1. 1 \in 1 .. q
    BY <1>12
  <2> QED BY <1>7, <1>15, <2>1
<1>17. SubSeq(data, 2, q) = e
  <2>1. PICK w : w = c \o r
    OBVIOUS
  <2>2. w \in Seq(Octet)
    BY <2>1, ConcatProperties
  <2>3. Rejoined(v, c, r)
    BY <1>7, Rejoin
  <2>4. data = v \o w
    BY <1>8, <1>11, <2>1, <2>3 DEF Rejoined
  <2>5. <<tag>> \in Seq(Octet) /\ Len(<<tag>>) = 1
    OBVIOUS
  <2>6. IsMiddle(Octet, <<tag>>, e, data)
    BY <1>4, <1>5, <2>2, <2>4, <2>5, Middle
  <2>7. SubSeq(data, Len(<<tag>>) + 1, Len(<<tag>>) + Len(e)) = e
    BY <2>6 DEF IsMiddle
  <2>8. Len(<<tag>>) + 1 = 2 /\ Len(<<tag>>) + Len(e) = q
    BY <1>4, <1>12, <2>5
  <2> QED BY <2>7, <2>8
<1>18. SubSeq(data, 1, q + n) = u
  <2>1. <<>> \in Seq(Octet) /\ <<>> \o u = u /\ Len(<<>>) = 0
    BY <1>10
  <2>2. IsMiddle(Octet, <<>>, u, data)
    BY <1>10, <1>11, <2>1, Middle
  <2>3. SubSeq(data, Len(<<>>) + 1, Len(<<>>) + Len(u)) = u
    BY <2>2 DEF IsMiddle
  <2>4. Len(<<>>) + 1 = 1 /\ Len(<<>>) + Len(u) = q + n
    BY <1>1, <1>10, <1>12, <2>1
  <2> QED BY <2>3, <2>4
<1>19. IsLengthField(data, 1, q, n)
  <2>1. l <= 1 + MaxLenOctets
    BY <1>1, <1>2, <1>4 DEF Fits
  <2>2. q - 1 = l /\ 1 + 1 = 2
    BY <1>12
  <2> QED BY <1>2, <1>17, <2>1, <2>2 DEF IsLengthField
<1>20. q \in 2 .. Len(data)
  <2>1. Len(data) \in Nat
    BY <1>15
  <2> QED BY <1>1, <1>12, <1>15, <2>1
<1>21. IsHead(data, tag, c)
  BY <1>1, <1>9, <1>13, <1>15, <1>16, <1>18, <1>19, <1>20, Zenon DEF IsHead
<1> QED BY <1>9, <1>11, <1>21

\* At the start of data there is one element at most.
LEMMA HeadsAgree ==
  ASSUME NEW data, NEW t, NEW c \in Seq(Octet), IsHead(data, t, c),
         NEW u, NEW d \in Seq(Octet), IsHead(data, u, d)
  PROVE  t = u /\ c = d
<1>1. data \in Seq(Octet) /\ Len(data) \in Nat
  BY DEF IsHead
<1>2. ReadLength(data, 1, Len(data)) = <<Len(c), ContentAt(c)>>
  <2>1. ContentAt(c) \in 1 .. Len(data) /\ IsLengthField(data, 1, ContentAt(c), Len(c))
    BY DEF IsHead
  <2> QED BY <1>1, <2>1, LengthFieldRead
<1>3. ReadLength(data, 1, Len(data)) = <<Len(d), ContentAt(d)>>
  <2>1. ContentAt(d) \in 1 .. Len(data) /\ IsLengthField(data, 1, ContentAt(d), Len(d))
    BY DEF IsHead
  <2> QED BY <1>1, <2>1, LengthFieldRead
<1>4. Len(c) = Len(d) /\ ContentAt(c) = ContentAt(d)
  BY <1>2, <1>3
<1> QED BY <1>4 DEF IsHead

\* What is known of a node, apart from its children.
IsNode(x) == x.tag \in Octet /\ x.content \in Seq(Octet) /\ Fits(x.content)

IsEncodings(ns) ==
  /\ Encodings(ns) \in Seq(Octet)
  /\ ns = <<>> => Encodings(ns) = <<>>
  /\ ns # <<>> => \E r \in Seq(Octet) : Encodings(ns) = Encoding(ns[1]) \o r

IsOneNodeMore(ns, x) == Encodings(Append(ns, x)) = Encodings(ns) \o Encoding(x)

EachEncoding(ns) == [k \in DOMAIN ns |-> Encoding(ns[k])]

IsEachEncoding(ns) ==
  /\ EachEncoding(ns) \in Seq(Seq(Octet)) /\ Len(EachEncoding(ns)) = Len(ns)
  /\ \A k \in 1 .. Len(ns) : EachEncoding(ns)[k] = Encoding(ns[k])

\* The encodings of nodes, one by one.
LEMMA EncodingsOneByOne ==
  ASSUME NEW X, \A x \in X : IsNode(x), NEW ns \in Seq(X)
  PROVE  IsEachEncoding(ns)
<1>1. PICK n \in Nat : n = Len(ns) /\ DOMAIN ns = 1 .. n
  OBVIOUS
<1>2. ASSUME NEW k \in 1 .. n PROVE Encoding(ns[k]) \in Seq(Octet)
  <2>1. ns[k] \in X
    BY <1>1
  <2>2. PICK x : x = ns[k]
    OBVIOUS
  <2>3. x.tag \in Octet /\ x.content \in Seq(Octet) /\ Fits(x.content)
    BY <2>1, <2>2 DEF IsNode
  <2>4. IsTlv(x.tag, x.content, EncodeTlv(x.tag, x.content))
    BY <2>3, TlvOctets
  <2> QED BY <2>2, <2>4 DEF IsTlv, Encoding
<1>3. EachEncoding(ns) = [k \in 1 .. n |-> Encoding(ns[k])]
  BY <1>1 DEF EachEncoding
<1>4. PICK w : w = [k \in 1 .. n |-> Encoding(ns[k])]
  OBVIOUS
<1>5. w \in Seq(Seq(Octet))
  <2> DEFINE e(k) == Encoding(ns[k])
             S == Seq(Octet)
  <2>1. \A k \in 1 .. n : e(k) \in S
    BY <1>2
  <2>2. w = [k \in 1 .. n |-> e(k)]
    BY <1>4
  <2>. HIDE DEF e, S
  <2>3. [k \in 1 .. n |-> e(k)] \in Seq(S)
    BY <2>1, IsASeq
  <2> QED BY <2>2, <2>3 DEF S
<1>6. Len(w) = n /\ \A k \in 1 .. n : w[k] = Encoding(ns[k])
  <2>1. DOMAIN w = 1 .. n /\ \A k \in 1 .. n : w[k] = Encoding(ns[k])
    BY <1>4
  <2>2. Len(w) \in Nat /\ DOMAIN w = 1 .. Len(w)
    BY <1>5
  <2>3. Len(w) = n
    BY <2>1, <2>2
  <2> QED BY <2>1, <2>3
<1> QED BY <1>1, <1>3, <1>4, <1>5, <1>6 DEF IsEachEncoding

\* The octets of siblings begin with those of the first one.
LEMMA EncodingsAre ==
  ASSUME NEW X, \A x \in X : IsNode(x), NEW ns \in Seq(X)
  PROVE  IsEncodings(ns)
<1>1. IsEachEncoding(ns)
  BY EncodingsOneByOne
<1>2. PICK w : w = EachEncoding(ns)
  OBVIOUS
<1>3. /\ w \in Seq(Seq(Octet)) /\ Len(w) = Len(ns)
      /\ \A k \in 1 .. Len(ns) : w[k] = Encoding(ns[k])
  BY <1>1, <1>2 DEF IsEachEncoding
<1>4. Encodings(ns) = FlattenSeq(w)
  BY <1>2 DEF Encodings, EachEncoding
<1>5. IsConcatenation(Octet, w)
  BY <1>3, Concatenations
<1>6. Encodings(ns) \in Seq(Octet)
  BY <1>4, <1>5 DEF IsConcatenation
<1>7. ASSUME ns = <<>> PROVE Encodings(ns) = <<>>
  <2>1. w = <<>>
    BY <1>3, <1>7
  <2> QED BY <1>4, <2>1, FlattenNothing
<1>8. ASSUME ns # <<>> PROVE \E r \in Seq(Octet) : Encodings(ns) = Encoding(ns[1]) \o r
  <2>1. 1 \in 1 .. Len(ns)
    BY <1>8
  <2>2. w # <<>> /\ w[1] = Encoding(ns[1])
    <3>1. Len(w) # 0
      BY <1>3, <2>1
    <3>2. w # <<>>
      BY <3>1
    <3> QED BY <1>3, <2>1, <3>2
  <2> QED BY <1>4, <1>5, <2>2, Zenon DEF IsConcatenation
<1> QED BY <1>6, <1>7, <1>8, Zenon DEF IsEncodings

\* A sibling more adds its octets.
LEMMA OneNodeMore ==
  ASSUME NEW X, \A x \in X : IsNode(x), NEW ns \in Seq(X), NEW x, IsNode(x)
  PROVE  IsOneNodeMore(ns, x)
<1> DEFINE Y == X \cup {x}
<1>1. ns \in Seq(Y) /\ Append(ns, x) \in Seq(Y) /\ \A y \in Y : IsNode(y)
  <2>1. X \subseteq Y
    OBVIOUS
  <2>2. ns \in Seq(Y)
    BY <2>1, SeqMonotonic
  <2>3. x \in Y /\ \A y \in Y : IsNode(y)
    OBVIOUS
  <2>. HIDE DEF Y
  <2> QED BY <2>2, <2>3
<1>. HIDE DEF Y
<1>2. IsEachEncoding(ns) /\ IsEachEncoding(Append(ns, x))
  BY <1>1, EncodingsOneByOne
<1>3. PICK n \in Nat : n = Len(ns)
  OBVIOUS
<1>4. PICK m : m = Append(ns, x)
  OBVIOUS
<1>5. /\ Len(m) = n + 1 /\ m[n + 1] = x
      /\ \A k \in 1 .. n : m[k] = ns[k]
  BY <1>1, <1>3, <1>4
<1>6. PICK w : w = EachEncoding(ns)
  OBVIOUS
<1>7. PICK v : v = EachEncoding(m)
  OBVIOUS
<1>8. w \in Seq(Seq(Octet)) /\ Len(w) = n /\ \A k \in 1 .. n : w[k] = Encoding(ns[k])
  BY <1>2, <1>3, <1>6 DEF IsEachEncoding
<1>9. v \in Seq(Seq(Octet)) /\ Len(v) = n + 1 /\ \A k \in 1 .. n + 1 : v[k] = Encoding(m[k])
  BY <1>2, <1>4, <1>5, <1>7 DEF IsEachEncoding
<1>10. PICK S : S = Seq(Octet)
  OBVIOUS
<1>11. PICK e \in S : e = Encoding(x)
  <2>1. n + 1 \in 1 .. Len(v)
    BY <1>3, <1>9
  <2>2. v[n + 1] \in Seq(Octet)
    BY <1>9, <2>1
  <2>3. n + 1 \in 1 .. n + 1
    BY <1>3
  <2>4. v[n + 1] = Encoding(x)
    BY <1>5, <1>9, <2>3
  <2> QED BY <1>10, <2>2, <2>4
<1>12. v = Append(w, e)
  <2>1. w \in Seq(S) /\ v \in Seq(S)
    BY <1>8, <1>9, <1>10
  <2>2. PICK a : a = Append(w, e)
    OBVIOUS
  <2>3. a \in Seq(S) /\ Len(a) = n + 1 /\ a[n + 1] = e /\ \A k \in 1 .. n : a[k] = w[k]
    BY <1>8, <2>1, <2>2
  <2>4. ASSUME NEW k \in 1 .. n + 1 PROVE v[k] = a[k]
    <3>1. CASE k = n + 1
      <4>1. v[k] = Encoding(m[n + 1])
        BY <1>9, <3>1
      <4> QED BY <1>5, <1>11, <2>3, <3>1, <4>1
    <3>2. CASE k # n + 1
      <4>1. k \in 1 .. n
        BY <1>3, <3>2
      <4>2. v[k] = Encoding(m[k]) /\ m[k] = ns[k] /\ w[k] = Encoding(ns[k]) /\ a[k] = w[k]
        BY <1>5, <1>8, <1>9, <2>3, <4>1
      <4> QED BY <4>2
    <3> QED BY <3>1, <3>2
  <2> QED BY <1>9, <2>1, <2>2, <2>3, <2>4, SeqEqual
<1>13. FlattenSeq(Append(w, e)) = IF w = <<>> THEN e ELSE FlattenSeq(w) \o e
  BY <1>8, <1>10, <1>11, FlattenAppend
<1>14. FlattenSeq(v) = FlattenSeq(w) \o e
  <2>1. CASE w = <<>>
    <3>1. <<>> \o e = e
      BY <1>10, <1>11
    <3> QED BY <1>12, <1>13, <2>1, <3>1, FlattenNothing
  <2>2. CASE w # <<>>
    BY <1>12, <1>13, <2>2
  <2> QED BY <2>1, <2>2
<1>15. Encodings(ns) = FlattenSeq(w) /\ Encodings(m) = FlattenSeq(v)
  BY <1>6, <1>7 DEF Encodings, EachEncoding
<1> QED BY <1>4, <1>11, <1>14, <1>15, Zenon DEF IsOneNodeMore

-----------------------------------------------------------------------------
(* Nodes.                                                                    *)

\* _first_tlv finds the element that stands at the start.
LEMMA FirstTlvIs ==
  ASSUME NEW data, NEW tag, NEW c \in Seq(Octet), IsHead(data, tag, c)
  PROVE  FirstTlv(data) = EncodeTlv(tag, c)
<1> DEFINE first == data[2]
           count == first - 128
           value == FromBytes(SubSeq(data, 3, 2 + count))
           total == IF first < 128 THEN 2 + first ELSE 2 + count + value
<1>0. MaxLenOctets \in 1 .. 126 /\ MaxLenOctets <= 8
  BY MaxLenOctetsAssumption, FirstTlvAssumption
<1>1. PICK l \in Nat, n \in Nat, q \in Nat :
        /\ l = Len(data) /\ n = Len(c) /\ q = ContentAt(c) /\ 2 <= q /\ q <= l /\ q + n <= l
  <2>1. Len(data) \in Nat /\ Len(c) \in Nat /\ ContentAt(c) \in 2 .. Len(data)
        /\ ContentAt(c) + Len(c) <= Len(data)
    <3>1. data \in Seq(Octet) /\ ContentAt(c) \in 2 .. Len(data) /\ ContentAt(c) + Len(c) <= Len(data)
      BY Zenon DEF IsHead
    <3>2. Len(data) \in Nat /\ Len(c) \in Nat
      BY <3>1
    <3> QED BY <3>1, <3>2
  <2>2. ContentAt(c) \in Nat /\ 2 <= ContentAt(c) /\ ContentAt(c) <= Len(data)
    BY <2>1
  <2> QED BY <2>1, <2>2
<1>2. data \in Seq(Octet)
  BY DEF IsHead
<1>3. ReadLength(data, 1, l) = <<n, q>>
  <2>1. q \in 1 .. l /\ IsLengthField(data, 1, q, n)
    BY <1>1 DEF IsHead
  <2>2. l \in Nat /\ l <= Len(data) /\ 1 \in Nat
    BY <1>1
  <2> QED BY <1>2, <2>1, <2>2, LengthFieldRead
<1>4. first \in 0 .. 255
  <2>1. 2 \in 1 .. Len(data)
    BY <1>1
  <2> QED BY <1>2, <2>1, OctetsAreNumbers
<1>5. ReadLength(data, 1, l) =
        IF first < 128 THEN <<first, 2>>
        ELSE IF count = 0 \/ count > MaxLenOctets \/ 2 + count > l \/ data[3] = 0 \/ value < 128
             THEN Malformed ELSE <<value, 2 + count>>
  <2>1. ~(1 >= l) /\ 1 + 1 = 2 /\ 1 + 2 = 3
    BY <1>1
  <2> QED BY <2>1 DEF ReadLength
<1>. HIDE DEF value
<1>6. total = q + n /\ (first >= 128 => count \in 1 .. 8 /\ 2 + count <= l)
  <2>1. CASE first < 128
    <3>1. <<first, 2>> = <<n, q>>
      BY <1>3, <1>5, <2>1
    <3>2. n = first /\ q = 2
      BY <3>1
    <3>3. total = 2 + first
      BY <2>1
    <3>4. ~(first >= 128)
      BY <1>4, <2>1, HighOrLow, Zenon
    <3> QED BY <3>2, <3>3, <3>4, Zenon
  <2>2. CASE ~(first < 128)
    <3>1. /\ ~(count = 0 \/ count > MaxLenOctets \/ 2 + count > l \/ data[3] = 0 \/ value < 128)
          /\ <<value, 2 + count>> = <<n, q>>
      <4>1. <<n, q>> # Malformed
        BY DEF Malformed
      <4> QED BY <1>3, <1>5, <2>2, <4>1
    <3>2. value = n /\ 2 + count = q
      BY <3>1
    <3>3. count \in 1 .. 8 /\ 2 + count <= l
      <4>1. PICK k \in Int : k = count /\ k >= 0
        <5>1. \A y \in 0 .. 255 : ~(y < 128) => y - 128 \in Int /\ y - 128 >= 0
          OBVIOUS
        <5>2. count \in Int /\ count >= 0
          BY <1>4, <2>2, <5>1, Zenon
        <5> QED BY <5>2
      <4>2. ~(k = 0) /\ ~(k > MaxLenOctets) /\ ~(2 + k > l)
        BY <3>1, <4>1
      <4>3. k \in 1 .. 8 /\ 2 + k <= l
        <5>1. \A y \in Int : y >= 0 /\ ~(y = 0) /\ ~(y > MaxLenOctets) => y \in 1 .. 8
          BY <1>0
        <5>2. \A y \in Int : ~(2 + y > l) => 2 + y <= l
          BY <1>1
        <5> QED BY <4>1, <4>2, <5>1, <5>2, Zenon
      <4> QED BY <4>1, <4>3
    <3>4. total = 2 + count + value
      BY <2>2
    <3>5. total = q + n
      BY <3>2, <3>4
    <3> QED BY <3>3, <3>5, Zenon
  <2> QED BY <2>1, <2>2
<1>7. ~(l < 2) /\ ~(q + n > l)
  BY <1>1
<1>8. SubSeq(data, 1, q + n) = EncodeTlv(tag, c)
  BY <1>1 DEF IsHead
<1>9. FirstTlv(data) =
        IF \/ l < 2
           \/ first >= 128 /\ count \notin 1 .. 8
           \/ first >= 128 /\ 2 + count > l
           \/ total > l
        THEN Malformed ELSE SubSeq(data, 1, total)
  BY <1>1, Zenon DEF FirstTlv, value
<1>10. first >= 128 => ~(2 + count > l)
  <2>1. ASSUME first >= 128 PROVE ~(2 + count > l)
    <3>1. PICK k \in 1 .. 8 : k = count /\ 2 + k <= l
      BY <1>6, <2>1
    <3>2. ~(2 + k > l)
      BY <1>1, <3>1
    <3> QED BY <3>1, <3>2
  <2> QED BY <2>1
<1>. HIDE DEF first, count, total
<1> QED BY <1>6, <1>7, <1>8, <1>9, <1>10, Zenon

\* A node that was read: the content is allowed and, if there are children, holds their octets.
IsRead(x) ==
  /\ IsNode(x) /\ ContentAllowed(x.tag, x.content)
  /\ IsConstructed(x.tag) =>
       /\ \E X : x.children \in Seq(X) /\ \A y \in X : IsNode(y)
       /\ Encodings(x.children) = x.content

\* What RoundTrip says of a node.
IsInverted(x) ==
  /\ Reencode(x) = Encoding(x)
  /\ IsConstructed(x.tag) =>
       FirstTlv(x.content) = IF x.children = <<>> THEN Malformed ELSE Encoding(x.children[1])

\* The element that is cut out for a signature is the first child.
LEMMA FirstChild ==
  ASSUME NEW X, \A y \in X : IsNode(y), NEW ns \in Seq(X)
  PROVE  FirstTlv(Encodings(ns)) = IF ns = <<>> THEN Malformed ELSE Encoding(ns[1])
<1>1. IsEncodings(ns)
  BY EncodingsAre
<1>2. CASE ns = <<>>
  <2>1. Encodings(ns) = <<>>
    BY <1>1, <1>2 DEF IsEncodings
  <2>2. Len(<<>>) < 2
    OBVIOUS
  <2>3. FirstTlv(<<>>) = Malformed
    BY <2>2, Zenon DEF FirstTlv
  <2> QED BY <1>2, <2>1, <2>3
<1>3. CASE ns # <<>>
  <2>1. PICK r \in Seq(Octet) : Encodings(ns) = Encoding(ns[1]) \o r
    BY <1>1, <1>3, Zenon DEF IsEncodings
  <2>2. ns[1] \in X
    <3>1. 1 \in 1 .. Len(ns)
      BY <1>3
    <3> QED BY <3>1
  <2>3. PICK x : x = ns[1]
    OBVIOUS
  <2>4. x.tag \in Octet /\ x.content \in Seq(Octet) /\ Fits(x.content)
    BY <2>2, <2>3 DEF IsNode
  <2>5. PICK data : data = EncodeTlv(x.tag, x.content) \o r
    OBVIOUS
  <2>6. IsHead(data, x.tag, x.content)
    BY <2>4, <2>5, HeadRead
  <2>7. FirstTlv(data) = EncodeTlv(x.tag, x.content)
    BY <2>4, <2>6, FirstTlvIs
  <2> QED BY <1>3, <2>1, <2>3, <2>5, <2>7 DEF Encoding
<1> QED BY <1>2, <1>3

\* Primitive types are not constructed.
LEMMA PrimitiveTags ==
  ~IsConstructed(TAG_INTEGER) /\ ~IsConstructed(TAG_BIT_STRING) /\ ~IsConstructed(TAG_OID)
BY DEF IsConstructed, TAG_INTEGER, TAG_BIT_STRING, TAG_OID

\* A node that was read is written again as it was.
LEMMA NodeInverted ==
  ASSUME NEW x, IsRead(x)
  PROVE  IsInverted(x)
<1>1. PICK t, c, ns : t = x.tag /\ c = x.content /\ ns = x.children
  OBVIOUS
<1>2. t \in Octet /\ c \in Seq(Octet) /\ ContentAllowed(t, c)
  BY <1>1 DEF IsRead, IsNode
<1>3. Encoding(x) = EncodeTlv(t, c)
  BY <1>1 DEF Encoding
<1>4. /\ TAG_INTEGER = 2 /\ TAG_BIT_STRING = 3 /\ TAG_OID = 6
  BY DEF TAG_INTEGER, TAG_BIT_STRING, TAG_OID
<1>5. CASE IsConstructed(t)
  <2>1. Encodings(ns) = c
    BY <1>1, <1>5 DEF IsRead
  <2>2. Reencode(x) = EncodeTlv(t, Encodings(ns))
    BY <1>1, <1>4, <1>5, PrimitiveTags DEF Reencode
  <2>3. PICK X : ns \in Seq(X) /\ \A y \in X : IsNode(y)
    BY <1>1, <1>5 DEF IsRead
  <2>4. FirstTlv(Encodings(ns)) = IF ns = <<>> THEN Malformed ELSE Encoding(ns[1])
    BY <2>3, FirstChild
  <2> QED BY <1>1, <1>3, <2>1, <2>2, <2>4, Zenon DEF IsInverted
<1>6. CASE ~IsConstructed(t) /\ t = TAG_INTEGER /\ ~IsNegative(c)
  <2>1. IntegerAllowed(c)
    BY <1>2, <1>6 DEF ContentAllowed
  <2>2. IntegerContent(IntValue(c)) = c
    BY <1>2, <1>6, <2>1, IntegerReadBack
  <2>3. Reencode(x) = EncodeInteger(IntValue(c))
    BY <1>1, <1>4, <1>6 DEF Reencode
  <2>4. EncodeInteger(IntValue(c)) = EncodeTlv(TAG_INTEGER, IntegerContent(IntValue(c)))
    BY Zenon DEF EncodeInteger, IntegerContent
  <2> QED BY <1>1, <1>3, <1>6, <2>2, <2>3, <2>4, Zenon DEF IsInverted
<1>7. CASE ~IsConstructed(t) /\ t = TAG_BIT_STRING
  <2>1. c # <<>>
    BY <1>2, <1>7 DEF ContentAllowed, BitStringAllowed
  <2>2. <<c[1]>> \o Tail(c) = c
    BY <1>2, <2>1, FirstAndRest
  <2>3. Reencode(x) = EncodeBitString(Payload(c), UnusedBits(c))
    BY <1>1, <1>4, <1>7 DEF Reencode
  <2>4. EncodeBitString(Payload(c), UnusedBits(c)) = EncodeTlv(TAG_BIT_STRING, c)
    BY <2>2 DEF EncodeBitString, Payload, UnusedBits
  <2> QED BY <1>1, <1>3, <1>7, <2>3, <2>4, Zenon DEF IsInverted
<1>8. CASE ~IsConstructed(t) /\ t = TAG_OID
  <2>1. OidAllowed(c)
    BY <1>2, <1>8 DEF ContentAllowed
  <2>2. OidContent(OidValue(c)) = c
    BY <1>2, <2>1, OidReadBack
  <2>3. Reencode(x) = EncodeOid(OidValue(c))
    BY <1>1, <1>4, <1>8 DEF Reencode
  <2>4. EncodeOid(OidValue(c)) = EncodeTlv(TAG_OID, OidContent(OidValue(c)))
    BY Zenon DEF EncodeOid, OidContent
  <2> QED BY <1>1, <1>3, <1>8, <2>2, <2>3, <2>4, Zenon DEF IsInverted
<1>9. CASE /\ ~IsConstructed(t) /\ ~(t = TAG_INTEGER /\ ~IsNegative(c)) /\ t # TAG_BIT_STRING
           /\ t # TAG_OID
  <2>1. Reencode(x) = Encoding(x)
    BY <1>1, <1>9 DEF Reencode
  <2> QED BY <1>1, <1>9, <2>1, Zenon DEF IsInverted
<1> QED BY <1>5, <1>6, <1>7, <1>8, <1>9

-----------------------------------------------------------------------------
(* What was read.                                                            *)

\* Every node was read, and each level has its nodes.
NodesRead ==
  Len(kids) = Len(open) + 1 /\ \E X : kids \in Seq(Seq(X)) /\ \A x \in X : IsRead(x)

\* Where the octets of the siblings of a level begin.
StartOf(k) == IF k = 1 THEN 0 ELSE open[k - 1].begin

\* The octets of the siblings read so far, and behind them those of the element e that is open.
IsBelow(data, start, siblings, e) ==
  \E h \in start .. e.begin :
    LET content == SubSeq(data, e.begin + 1, e.end)
    IN  /\ Encodings(siblings) = SubSeq(data, start + 1, h)
        /\ SubSeq(data, h + 1, e.end) = EncodeTlv(e.tag, content)
        /\ Fits(content) /\ IsConstructed(e.tag)

\* The same for the last level, behind which nothing is open.
IsInner(data, start, siblings, p) ==
  start \in 0 .. p /\ Encodings(siblings) = SubSeq(data, start + 1, p)

\* The nodes hold what was read, and the elements that are open hold the rest of their slice.
Written ==
  /\ IsInner(input, StartOf(Len(open) + 1), kids[Len(open) + 1], pos)
  /\ \A k \in 1 .. Len(open) : IsBelow(input, StartOf(k), kids[k], open[k])

Settled == outcome = "accepted" => open = <<>> /\ pos = Len(input)

IsNext(tag, content) ==
  /\ tag \in Octet /\ content \in Seq(Octet) /\ Fits(content) /\ ContentAllowed(tag, content)
  /\ SubSeq(input, pos + 1, End) = EncodeTlv(tag, content)

\* An element that is allowed is the encoding of its tag and its content.
LEMMA TlvRead ==
  ASSUME Inv, TlvAllowed
  PROVE  IsNext(Tag, Content)
<1>1. /\ Limit \in Nat /\ Limit <= Len(input) /\ input \in Seq(Octet) /\ pos \in Nat
      /\ pos <= Limit
  BY StackLemma DEF Inv, TypeOK
<1>2. HeaderAllowed
  BY DEF TlvAllowed
<1>3. Tag \in Octet /\ Begin \in Nat /\ End \in Nat /\ pos < Begin /\ Begin <= End /\ End <= Limit
  BY <1>2, HeaderLemma
<1>4. Length # Malformed /\ Length = ReadLength(input, pos + 1, Limit) /\ Begin = Length[2]
      /\ End = Length[2] + Length[1]
  BY <1>2 DEF HeaderAllowed, Length, Begin, End
<1>5. PICK p \in Nat : p = pos + 1
  BY <1>1
<1>6. PICK n \in Nat, q \in p + 1 .. Limit : Length = <<n, q>> /\ IsLengthField(input, p, q, n)
  BY <1>1, <1>4, <1>5, LengthAccepted
<1>7. PICK f \in Nat : f = End /\ q = Begin /\ f = q + n /\ f <= Len(input) /\ q <= f /\ f - q = n
  <2>1. q = Begin /\ End = q + n
    BY <1>4, <1>6
  <2>2. \A a, b, c \in Nat : a = b + c => a - b = c
    OBVIOUS
  <2>3. q \in Nat
    BY <1>3, <2>1
  <2>4. End - q = n
    BY <1>3, <2>1, <2>2, <2>3, Zenon
  <2>5. End <= Len(input)
    BY <1>1, <1>3
  <2> QED BY <1>3, <2>1, <2>4, <2>5
<1>8. q \in Nat /\ q \in pos + 2 .. f
  BY <1>1, <1>5, <1>7
<1>9. q - p <= 1 + MaxLenOctets /\ SubSeq(input, p + 1, q) = EncodeLength(n)
  BY <1>6 DEF IsLengthField
<1>10. PICK c : c = SubSeq(input, q + 1, f)
  OBVIOUS
<1>11. Content = c
  BY <1>7, <1>10 DEF Content
<1>12. c \in Seq(Octet) /\ Len(c) = n
  BY <1>1, <1>7, <1>8, <1>10, PartOf
<1>13. Fits(c)
  <2>1. Len(SubSeq(input, p + 1, q)) = q - p
    <3>1. p <= q /\ q <= Len(input)
      BY <1>1, <1>5, <1>6, <1>8
    <3> QED BY <1>1, <1>8, <3>1, PartOf
  <2>2. Len(EncodeLength(n)) = q - p
    BY <1>9, <2>1, Zenon
  <2> QED BY <1>9, <1>12, <2>2, Zenon DEF Fits
<1>14. SubSeq(input, pos + 1, f) = EncodeTlv(input[pos + 1], c)
  <2>1. SubSeq(input, (pos + 1) + 1, q) = EncodeLength(f - q)
    BY <1>5, <1>7, <1>9, Zenon
  <2>2. SubSeq(input, pos + 1, f) = EncodeTlv(input[pos + 1], SubSeq(input, q + 1, f))
          <=> SubSeq(input, (pos + 1) + 1, q) = EncodeLength(f - q)
    <3>1. input \in Seq(Octet) /\ pos \in Nat /\ f \in Nat /\ f <= Len(input) /\ q \in pos + 2 .. f
      BY <1>1, <1>7, <1>8
    <3>. HIDE <1>7, <1>8, <1>9, <1>10, <1>11, <1>12
    <3> QED BY <3>1, Cut, Zenon
  <2> QED BY <1>10, <2>1, <2>2, Zenon
<1>15. ContentAllowed(Tag, Content)
  BY DEF TlvAllowed
<1> QED BY <1>3, <1>7, <1>11, <1>12, <1>13, <1>14, <1>15, Zenon DEF IsNext, Tag

Glued(s, a, b, c) == SubSeq(s, a + 1, c) = SubSeq(s, a + 1, b) \o SubSeq(s, b + 1, c)

\* Two neighbouring parts are one.
LEMMA Glue ==
  ASSUME NEW S, NEW s \in Seq(S), NEW c \in Nat, c <= Len(s), NEW b \in 0 .. c, NEW a \in 0 .. b
  PROVE  Glued(s, a, b, c)
<1>1. a \in Nat /\ b \in Nat /\ a <= b /\ b <= c /\ a <= c /\ b <= Len(s)
  <2>1. Len(s) \in Nat
    OBVIOUS
  <2> QED BY <2>1
<1>2. PICK u, v, w : u = SubSeq(s, a + 1, b) /\ v = SubSeq(s, b + 1, c) /\ w = SubSeq(s, a + 1, c)
  OBVIOUS
<1>3. u \in Seq(S) /\ Len(u) = b - a /\ \A i \in 1 .. b - a : u[i] = s[a + i]
  BY <1>1, <1>2, PartOf
<1>4. v \in Seq(S) /\ Len(v) = c - b /\ \A i \in 1 .. c - b : v[i] = s[b + i]
  BY <1>1, <1>2, PartOf
<1>5. w \in Seq(S) /\ Len(w) = c - a /\ \A i \in 1 .. c - a : w[i] = s[a + i]
  BY <1>1, <1>2, PartOf
<1>6. PICK t : t = u \o v
  OBVIOUS
<1>7. PICK m \in Nat, n \in Nat : m = b - a /\ n = c - b /\ m + n = c - a /\ b = a + m
  <2>1. b - a \in Nat /\ c - b \in Nat /\ (b - a) + (c - b) = c - a /\ b = a + (b - a)
    BY <1>1
  <2> QED BY <2>1
<1>8. t \in Seq(S) /\ Len(t) = m + n /\ \A i \in 1 .. m + n : t[i] = IF i <= m THEN u[i] ELSE v[i - m]
  <2>1. Len(u) = m /\ Len(v) = n
    BY <1>3, <1>4, <1>7
  <2>2. /\ u \o v \in Seq(S) /\ Len(u \o v) = Len(u) + Len(v)
        /\ \A i \in 1 .. Len(u) + Len(v) : (u \o v)[i] = IF i <= Len(u) THEN u[i] ELSE v[i - Len(u)]
    BY <1>3, <1>4, ConcatProperties
  <2> QED BY <1>6, <2>1, <2>2
<1>9. ASSUME NEW i \in 1 .. m + n PROVE w[i] = t[i]
  <2>1. w[i] = s[a + i]
    BY <1>5, <1>7
  <2>2. CASE i <= m
    <3>1. i \in 1 .. m
      BY <2>2
    <3> QED BY <1>3, <1>7, <1>8, <2>1, <2>2, <3>1
  <2>3. CASE ~(i <= m)
    <3>1. i - m \in 1 .. n /\ (a + m) + (i - m) = a + i
      BY <1>1, <2>3
    <3>2. t[i] = v[i - m] /\ v[i - m] = s[b + (i - m)]
      BY <1>4, <1>7, <1>8, <2>3, <3>1
    <3> QED BY <1>7, <2>1, <3>1, <3>2
  <2> QED BY <2>2, <2>3
<1>10. Len(w) = m + n
  BY <1>5, <1>7
<1>11. w = t
  BY <1>5, <1>8, <1>9, <1>10, SeqEqual
<1> QED BY <1>2, <1>6, <1>11 DEF Glued

\* The siblings hold their octets and one element more.
LEMMA InnerMore ==
  ASSUME NEW data \in Seq(Octet), NEW X, \A x \in X : IsRead(x), NEW ns \in Seq(X),
         NEW x, IsRead(x), NEW e \in Nat, e <= Len(data), NEW p \in 0 .. e, NEW start \in 0 .. p,
         Encodings(ns) = SubSeq(data, start + 1, p), SubSeq(data, p + 1, e) = Encoding(x)
  PROVE  IsInner(data, start, Append(ns, x), e)
<1>1. \A y \in X : IsNode(y)
  BY Zenon DEF IsRead
<1>2. IsNode(x)
  BY DEF IsRead
<1>3. IsOneNodeMore(ns, x)
  BY <1>1, <1>2, OneNodeMore
<1>4. Glued(data, start, p, e)
  BY Glue
<1>5. start \in 0 .. e
  OBVIOUS
<1> QED BY <1>3, <1>4, <1>5 DEF IsOneNodeMore, Glued, IsInner

\* The levels that a step leaves alone.
LEMMA LevelsStay ==
  ASSUME Written, NEW n \in Nat, n <= Len(open), Len(open) \in Nat, input' = input,
         \A k \in 1 .. n : open'[k] = open[k] /\ kids'[k] = kids[k]
  PROVE  /\ \A k \in 1 .. n : IsBelow(input', StartOf(k)', kids'[k], open'[k])
         /\ StartOf(n + 1)' = StartOf(n + 1)
<1>1. ASSUME NEW k \in 1 .. n + 1 PROVE StartOf(k)' = StartOf(k)
  <2>1. CASE k = 1
    BY <2>1 DEF StartOf
  <2>2. CASE k # 1
    <3>1. k - 1 \in 1 .. n
      BY <2>2
    <3> QED BY <2>2, <3>1 DEF StartOf
  <2> QED BY <2>1, <2>2
<1>2. ASSUME NEW k \in 1 .. n PROVE IsBelow(input', StartOf(k)', kids'[k], open'[k])
  <2>1. k \in 1 .. n + 1 /\ k \in 1 .. Len(open)
    OBVIOUS
  <2>2. IsBelow(input, StartOf(k), kids[k], open[k])
    BY <2>1 DEF Written
  <2> QED BY <1>1, <2>1, <2>2, Zenon
<1>3. n + 1 \in 1 .. n + 1
  OBVIOUS
<1> QED BY <1>1, <1>2, <1>3

\* A primitive element joins the last siblings, and its octets join theirs.
LEMMA ReadPrimitiveRead ==
  ASSUME Inv, NodesRead, Written, ReadPrimitive
  PROVE  NodesRead' /\ Written'
<1>1. PICK n \in Nat : n = Len(open) /\ Len(kids) = n + 1
  BY StackLemma DEF NodesRead
<1>2. PICK X : kids \in Seq(Seq(X)) /\ \A y \in X : IsRead(y)
  BY DEF NodesRead
<1>3. /\ kids' = [kids EXCEPT ![Len(kids)] =
                    Append(@, [tag |-> Tag, content |-> Content, children |-> <<>>])]
      /\ open' = open /\ input' = input /\ pos' = End /\ TlvAllowed /\ ~IsConstructed(Tag)
  BY DEF ReadPrimitive
<1>4. IsNext(Tag, Content)
  BY <1>3, TlvRead
<1>5. PICK t, c, e : t = Tag /\ c = Content /\ e = End
  OBVIOUS
<1>6. PICK x : x = [tag |-> t, content |-> c, children |-> <<>>]
  OBVIOUS
<1>7. /\ t \in Octet /\ c \in Seq(Octet) /\ Fits(c) /\ ContentAllowed(t, c) /\ ~IsConstructed(t)
      /\ SubSeq(input, pos + 1, e) = EncodeTlv(t, c)
  BY <1>3, <1>4, <1>5, Zenon DEF IsNext
<1>8. x.tag = t /\ x.content = c
  BY <1>6
<1>9. IsRead(x)
  BY <1>7, <1>8, Zenon DEF IsRead, IsNode
<1>10. PICK k \in 1 .. Len(kids) : k = Len(kids) /\ k = n + 1
  <2>1. Len(kids) \in 1 .. Len(kids)
    BY <1>1
  <2> QED BY <1>1, <2>1
<1>11. IsJoined(X, kids, k, x, kids')
  <2>1. kids' = Joined(kids, k, x)
    BY <1>3, <1>5, <1>6, <1>10, Zenon DEF Joined
  <2> QED BY <1>2, <2>1, OneMore, Zenon
<1>12. /\ kids' \in Seq(Seq(X \cup {x})) /\ Len(kids') = Len(kids)
       /\ kids[k] \in Seq(X) /\ kids'[k] = Append(kids[k], x)
       /\ \A j \in 1 .. Len(kids) : j # k => kids'[j] = kids[j]
  BY <1>11, Zenon DEF IsJoined
<1>13. NodesRead'
  <2>1. \A y \in X \cup {x} : IsRead(y)
    BY <1>2, <1>9
  <2>2. Len(kids') = Len(open') + 1
    BY <1>1, <1>3, <1>12
  <2> QED BY <1>12, <2>1, <2>2, Zenon DEF NodesRead
<1>14. /\ \A j \in 1 .. n : IsBelow(input', StartOf(j)', kids'[j], open'[j])
       /\ StartOf(n + 1)' = StartOf(n + 1)
  <2>1. \A j \in 1 .. n : open'[j] = open[j] /\ kids'[j] = kids[j]
    <3> TAKE j \in 1 .. n
    <3>1. j \in 1 .. Len(kids) /\ j # k
      BY <1>1, <1>10
    <3> QED BY <1>3, <1>12, <3>1
  <2>2. n <= Len(open) /\ Len(open) \in Nat
    BY <1>1
  <2> QED BY <1>3, <2>1, <2>2, LevelsStay
<1>15. IsInner(input', StartOf(n + 1)', kids'[n + 1], pos')
  <2>1. IsInner(input, StartOf(n + 1), kids[k], pos)
    BY <1>1, <1>10 DEF Written
  <2>2. PICK start : start = StartOf(n + 1)
    OBVIOUS
  <2>3. start \in 0 .. pos /\ Encodings(kids[k]) = SubSeq(input, start + 1, pos)
    BY <2>1, <2>2 DEF IsInner
  <2>4. e \in Nat /\ e <= Len(input) /\ pos \in 0 .. e /\ input \in Seq(Octet)
    <3>1. /\ Begin \in Nat /\ End \in Nat /\ pos < Begin /\ Begin <= End /\ End <= Limit
      BY <1>3, HeaderLemma DEF TlvAllowed
    <3>2. Limit \in Nat /\ Limit <= Len(input) /\ Len(input) \in Nat /\ pos \in Nat
          /\ input \in Seq(Octet)
      BY StackLemma DEF Inv, TypeOK
    <3>3. e \in Nat /\ e <= Len(input)
      BY <1>5, <3>1, <3>2
    <3>4. pos <= End
      BY <3>1, <3>2
    <3> QED BY <1>5, <3>2, <3>3, <3>4
  <2>5. SubSeq(input, pos + 1, e) = Encoding(x)
    BY <1>7, <1>8 DEF Encoding
  <2>6. IsInner(input, start, Append(kids[k], x), e)
    BY <1>2, <1>9, <1>12, <2>3, <2>4, <2>5, InnerMore
  <2> QED BY <1>3, <1>5, <1>10, <1>12, <1>14, <2>2, <2>6, Zenon
<1>16. Len(open') = n
  BY <1>1, <1>3
<1> QED BY <1>13, <1>14, <1>15, <1>16, Zenon DEF Written

\* The octets of a constructed element are those that remain, in its slice.
LEMMA OpenConstructedRead ==
  ASSUME Inv, NodesRead, Written, OpenConstructed
  PROVE  NodesRead' /\ Written'
<1>1. PICK n \in Nat : n = Len(open) /\ Len(kids) = n + 1
  BY StackLemma DEF NodesRead
<1>2. PICK X : kids \in Seq(Seq(X)) /\ \A y \in X : IsRead(y)
  BY DEF NodesRead
<1>3. /\ kids' = Append(kids, <<>>) /\ open' = Append(open, [tag |-> Tag, begin |-> Begin, end |-> End])
      /\ input' = input /\ pos' = Begin /\ TlvAllowed /\ IsConstructed(Tag)
  BY DEF OpenConstructed
<1>4. IsNext(Tag, Content)
  BY <1>3, TlvRead
<1>5. /\ Begin \in Nat /\ End \in Nat /\ pos < Begin /\ Begin <= End /\ End <= Limit
  BY <1>3, HeaderLemma DEF TlvAllowed
<1>6. Limit \in Nat /\ Limit <= Len(input) /\ Len(input) \in Nat /\ pos \in Nat
      /\ input \in Seq(Octet) /\ open \in Seq(Element)
  BY StackLemma DEF Inv, TypeOK
<1>7. PICK t \in Octet, b \in Nat, f \in Nat : t = Tag /\ b = Begin /\ f = End
  BY <1>4, <1>5, Zenon DEF IsNext
<1>8. PICK e : e = [tag |-> t, begin |-> b, end |-> f]
  OBVIOUS
<1>9. e \in Element /\ e.tag = t /\ e.begin = b /\ e.end = f
  BY <1>7, <1>8 DEF Element
<1>10. open' = Append(open, e)
  BY <1>3, <1>7, <1>8, Zenon
<1>11. /\ Len(open') = n + 1 /\ open'[n + 1] = e
       /\ \A j \in 1 .. n : open'[j] = open[j]
  BY <1>1, <1>6, <1>9, <1>10
<1>12. PICK S : S = Seq(X)
  OBVIOUS
<1>13. /\ kids' \in Seq(Seq(X)) /\ Len(kids') = n + 2 /\ kids'[n + 2] = <<>>
       /\ \A j \in 1 .. n + 1 : kids'[j] = kids[j]
  <2>1. <<>> \in S /\ kids \in Seq(S)
    BY <1>2, <1>12
  <2>2. PICK w : w = <<>>
    OBVIOUS
  <2>3. kids' = Append(kids, w) /\ w \in S
    BY <1>3, <2>1, <2>2
  <2>4. /\ kids' \in Seq(S) /\ Len(kids') = (n + 1) + 1 /\ kids'[(n + 1) + 1] = w
        /\ \A j \in 1 .. n + 1 : kids'[j] = kids[j]
    BY <1>1, <2>1, <2>3
  <2>5. (n + 1) + 1 = n + 2
    BY <1>1
  <2> QED BY <1>12, <2>2, <2>4, <2>5
<1>14. NodesRead'
  <2>1. Len(kids') = Len(open') + 1
    BY <1>1, <1>11, <1>13
  <2> QED BY <1>2, <1>13, <2>1, Zenon DEF NodesRead
<1>15. /\ \A j \in 1 .. n : IsBelow(input', StartOf(j)', kids'[j], open'[j])
       /\ StartOf(n + 1)' = StartOf(n + 1)
  <2>1. \A j \in 1 .. n : open'[j] = open[j] /\ kids'[j] = kids[j]
    <3> TAKE j \in 1 .. n
    <3>1. j \in 1 .. n + 1
      OBVIOUS
    <3> QED BY <1>11, <1>13, <3>1
  <2>2. n <= Len(open) /\ Len(open) \in Nat
    BY <1>1
  <2> QED BY <1>3, <2>1, <2>2, LevelsStay
<1>16. IsBelow(input, StartOf(n + 1), kids[n + 1], e)
  <2>1. IsInner(input, StartOf(n + 1), kids[n + 1], pos)
    BY <1>1 DEF Written
  <2>2. PICK start : start = StartOf(n + 1)
    OBVIOUS
  <2>3. PICK c : c = SubSeq(input, b + 1, f)
    OBVIOUS
  <2>4. Content = c
    BY <1>7, <2>3, Zenon DEF Content
  <2>5. Fits(c) /\ IsConstructed(t) /\ SubSeq(input, pos + 1, f) = EncodeTlv(t, c)
    BY <1>3, <1>4, <1>7, <2>4, Zenon DEF IsNext
  <2>6. start \in 0 .. pos /\ Encodings(kids[n + 1]) = SubSeq(input, start + 1, pos)
    BY <2>1, <2>2, Zenon DEF IsInner
  <2>7. pos \in start .. b
    BY <1>5, <1>6, <1>7, <2>6
  <2> QED BY <1>9, <2>2, <2>3, <2>5, <2>6, <2>7, Zenon DEF IsBelow
<1>17. IsInner(input', StartOf(n + 2)', kids'[n + 2], pos')
  <2>1. StartOf(n + 2)' = open'[n + 1].begin
    <3>1. n + 2 # 1 /\ (n + 2) - 1 = n + 1
      BY <1>1
    <3> QED BY <3>1 DEF StartOf
  <2>2. StartOf(n + 2)' = b
    BY <1>9, <1>11, <2>1
  <2>3. b \in 0 .. b
    OBVIOUS
  <2>4. SubSeq(input, b + 1, b) = <<>>
    <3>1. b <= Len(input)
      BY <1>5, <1>6, <1>7
    <3>2. SubSeq(input, b + 1, b) \in Seq(Octet) /\ Len(SubSeq(input, b + 1, b)) = b - b
      BY <1>6, <3>1, PartOf
    <3>3. Len(SubSeq(input, b + 1, b)) = 0
      BY <3>2
    <3>. HIDE <1>6
    <3> QED BY <3>2, <3>3
  <2>5. Encodings(<<>>) = <<>>
    <3>1. <<>> \in Seq(X) /\ \A y \in X : IsNode(y)
      BY <1>2 DEF IsRead
    <3> QED BY <3>1, EncodingsAre DEF IsEncodings
  <2>6. IsInner(input, b, <<>>, b)
    BY <2>3, <2>4, <2>5, Zenon DEF IsInner
  <2> QED BY <1>3, <1>7, <1>13, <2>2, <2>6, Zenon
<1>18. \A j \in 1 .. n + 1 : IsBelow(input', StartOf(j)', kids'[j], open'[j])
  <2> TAKE j \in 1 .. n + 1
  <2>1. CASE j \in 1 .. n
    BY <1>15, <2>1
  <2>2. CASE j = n + 1
    <3>1. kids'[n + 1] = kids[n + 1]
      <4>1. n + 1 \in 1 .. n + 1
        OBVIOUS
      <4> QED BY <1>13, <4>1, Zenon
    <3>2. IsBelow(input', StartOf(n + 1)', kids'[n + 1], open'[n + 1])
      BY <1>3, <1>11, <1>15, <1>16, <3>1, Zenon
    <3> QED BY <2>2, <3>2
  <2> QED BY <2>1, <2>2
<1>19. Len(open') + 1 = n + 2
  BY <1>1, <1>11
<1> QED BY <1>11, <1>14, <1>17, <1>18, <1>19, Zenon DEF Written

\* An element that ends holds what its children do, and its octets join those of its siblings.
LEMMA CloseConstructedRead ==
  ASSUME Inv, NodesRead, Written, CloseConstructed
  PROVE  NodesRead' /\ Written'
<1>0. open # <<>> /\ ~MoreToRead /\ input' = input /\ pos' = pos
  BY DEF CloseConstructed
<1>1. PICK n \in Nat, m \in Nat : n = Len(open) /\ Len(kids) = n + 1 /\ n = m + 1 /\ m = n - 1
  <2>1. Len(open) \in Nat /\ Len(open) # 0 /\ Len(kids) = Len(open) + 1
    BY <1>0, StackLemma DEF NodesRead
  <2>2. Len(open) - 1 \in Nat /\ Len(open) = (Len(open) - 1) + 1
    BY <2>1
  <2> QED BY <2>1, <2>2
<1>2. PICK X : kids \in Seq(Seq(X)) /\ \A y \in X : IsRead(y)
  BY DEF NodesRead
<1>3. Limit \in Nat /\ Limit <= Len(input) /\ Len(input) \in Nat /\ pos \in Nat /\ pos <= Limit
      /\ input \in Seq(Octet) /\ open \in Seq(Element) /\ n \in 1 .. Len(open)
  BY <1>1, StackLemma DEF Inv, TypeOK
<1>4. PICK e \in Element : e = Top /\ e = open[n]
  <2>1. open[n] \in Element
    BY <1>3
  <2> QED BY <1>1, <2>1 DEF Top
<1>5. e.tag \in Octet /\ e.begin \in Nat /\ e.end \in Nat
  BY ElementType
<1>6. pos = e.end
  <2>1. Limit = e.end
    BY <1>0, <1>4 DEF Limit
  <2>2. ~(pos < Limit)
    BY <1>0 DEF MoreToRead
  <2> QED BY <1>3, <2>1, <2>2
<1>7. PICK c : c = SubSeq(input, e.begin + 1, e.end)
  OBVIOUS
<1>8. PICK ns : ns = kids[n + 1]
  OBVIOUS
<1>9. PICK x : x = [tag |-> e.tag, content |-> c, children |-> ns]
  OBVIOUS
<1>10. x.tag = e.tag /\ x.content = c /\ x.children = ns
  BY <1>9
<1>11. StartOf(n + 1) = e.begin
  <2>1. n + 1 # 1 /\ (n + 1) - 1 = n
    BY <1>1
  <2> QED BY <1>4, <2>1 DEF StartOf
<1>12. ns \in Seq(X)
  <2>1. n + 1 \in 1 .. Len(kids)
    BY <1>1
  <2> QED BY <1>2, <1>8, <2>1
<1>13. Encodings(ns) = c /\ e.begin \in 0 .. pos
  <2>1. IsInner(input, StartOf(n + 1), kids[n + 1], pos)
    BY <1>1 DEF Written
  <2> QED BY <1>6, <1>7, <1>8, <1>11, <2>1, Zenon DEF IsInner
<1>14. IsBelow(input, StartOf(n), kids[n], e)
  BY <1>1, <1>3, <1>4 DEF Written
<1>15. PICK start : start = StartOf(n)
  OBVIOUS
<1>16. PICK h \in start .. e.begin :
         /\ Encodings(kids[n]) = SubSeq(input, start + 1, h)
         /\ SubSeq(input, h + 1, e.end) = EncodeTlv(e.tag, c)
         /\ Fits(c) /\ IsConstructed(e.tag)
  BY <1>7, <1>14, <1>15, Zenon DEF IsBelow
<1>17. IsRead(x)
  <2>1. c \in Seq(Octet)
    <3>1. e.begin <= e.end /\ e.end <= Len(input)
      BY <1>3, <1>5, <1>6, <1>13
    <3> QED BY <1>3, <1>5, <1>7, <3>1, PartOf
  <2>2. \A y \in X : IsNode(y)
    BY <1>2, Zenon DEF IsRead
  <2>3. ContentAllowed(e.tag, c)
    BY <1>16, PrimitiveTags DEF ContentAllowed
  <2>4. IsNode(x)
    BY <1>5, <1>10, <1>16, <2>1, Zenon DEF IsNode
  <2> QED BY <1>10, <1>12, <1>13, <2>2, <2>3, <2>4, Zenon DEF IsRead
<1>18. PICK s : s = SubSeq(kids, 1, n)
  OBVIOUS
<1>19. /\ s \in Seq(Seq(X)) /\ Len(s) = n
       /\ \A i \in 1 .. n : s[i] = kids[i]
  <2>1. 0 \in Nat /\ 0 <= n /\ n <= Len(kids) /\ 0 + 1 = 1 /\ n - 0 = n
    BY <1>1
  <2>2. /\ SubSeq(kids, 0 + 1, n) \in Seq(Seq(X)) /\ Len(SubSeq(kids, 0 + 1, n)) = n - 0
        /\ \A i \in 1 .. n - 0 : SubSeq(kids, 0 + 1, n)[i] = kids[0 + i]
    BY <1>2, <2>1, PartOf
  <2>3. \A i \in 1 .. n : 0 + i = i
    OBVIOUS
  <2> QED BY <1>18, <2>1, <2>2, <2>3
<1>20. PICK k \in 1 .. Len(s) : k = n
  <2>1. n \in 1 .. n
    BY <1>1
  <2> QED BY <1>19, <2>1
<1>21. IsJoined(X, s, k, x, kids')
  <2>1. kids' = [SubSeq(kids, 1, Len(open)) EXCEPT ![Len(open)] =
                   Append(@, [tag |-> Top.tag, content |-> SubSeq(input, Top.begin + 1, Top.end),
                              children |-> kids[Len(kids)]])]
    BY DEF CloseConstructed
  <2>2. kids' = Joined(s, k, x)
    BY <1>1, <1>4, <1>7, <1>8, <1>9, <1>18, <1>20, <2>1, Zenon DEF Joined
  <2> QED BY <1>19, <2>2, OneMore, Zenon
<1>22. /\ kids' \in Seq(Seq(X \cup {x})) /\ Len(kids') = n
       /\ kids[n] \in Seq(X) /\ kids'[n] = Append(kids[n], x)
       /\ \A j \in 1 .. m : kids'[j] = kids[j]
  <2>1. /\ kids' \in Seq(Seq(X \cup {x})) /\ Len(kids') = Len(s)
        /\ s[k] \in Seq(X) /\ kids'[k] = Append(s[k], x)
        /\ \A j \in 1 .. Len(s) : j # k => kids'[j] = s[j]
    BY <1>21, Zenon DEF IsJoined
  <2>2. s[n] = kids[n]
    BY <1>19, <1>20
  <2>3. ASSUME NEW j \in 1 .. m PROVE kids'[j] = kids[j]
    <3>1. j \in 1 .. n /\ j # n
      BY <1>1
    <3> QED BY <1>19, <1>20, <2>1, <3>1
  <2> QED BY <1>19, <1>20, <2>1, <2>2, <2>3
<1>23. /\ open' \in Seq(Element) /\ Len(open') = m
       /\ \A j \in 1 .. m : open'[j] = open[j]
  <2>1. 0 \in Nat /\ m \in Nat /\ 0 <= m /\ m <= Len(open) /\ 0 + 1 = 1 /\ m - 0 = m
    BY <1>1
  <2>2. /\ SubSeq(open, 0 + 1, m) \in Seq(Element) /\ Len(SubSeq(open, 0 + 1, m)) = m - 0
        /\ \A i \in 1 .. m - 0 : SubSeq(open, 0 + 1, m)[i] = open[0 + i]
    BY <1>3, <2>1, PartOf
  <2>3. \A i \in 1 .. m : 0 + i = i
    OBVIOUS
  <2>4. open' = SubSeq(open, 1, m)
    BY <1>1 DEF CloseConstructed
  <2> QED BY <2>1, <2>2, <2>3, <2>4
<1>24. NodesRead'
  <2>1. \A y \in X \cup {x} : IsRead(y)
    BY <1>2, <1>17
  <2>2. Len(kids') = Len(open') + 1
    BY <1>1, <1>22, <1>23
  <2> QED BY <1>22, <2>1, <2>2, Zenon DEF NodesRead
<1>25. /\ \A j \in 1 .. m : IsBelow(input', StartOf(j)', kids'[j], open'[j])
       /\ StartOf(m + 1)' = StartOf(m + 1)
  <2>1. m <= Len(open) /\ Len(open) \in Nat
    BY <1>1
  <2> QED BY <1>0, <1>22, <1>23, <2>1, LevelsStay
<1>26. IsInner(input', StartOf(m + 1)', kids'[m + 1], pos')
  <2>1. start \in 0 .. h /\ h \in 0 .. pos
    <3>1. start \in Nat
      <4>1. CASE n = 1
        BY <1>15, <4>1 DEF StartOf
      <4>2. CASE n # 1
        <5>1. n - 1 \in 1 .. Len(open)
          BY <1>1, <4>2
        <5>2. open[n - 1].begin \in Nat
          BY <1>3, <5>1, ElementType
        <5> QED BY <1>15, <4>2, <5>2 DEF StartOf
      <4> QED BY <4>1, <4>2
    <3>2. h \in Nat /\ start <= h /\ h <= e.begin
      BY <1>5, <1>16, <3>1
    <3>3. e.begin <= pos
      BY <1>3, <1>13
    <3> QED BY <1>3, <1>5, <3>1, <3>2, <3>3
  <2>2. SubSeq(input, h + 1, pos) = Encoding(x)
    BY <1>6, <1>10, <1>16 DEF Encoding
  <2>3. pos \in Nat /\ pos <= Len(input) /\ input \in Seq(Octet)
    BY <1>3
  <2>4. IsInner(input, start, Append(kids[n], x), pos)
    BY <1>2, <1>16, <1>17, <1>22, <2>1, <2>2, <2>3, InnerMore
  <2>5. StartOf(m + 1) = start
    BY <1>1, <1>15
  <2>6. kids'[m + 1] = Append(kids[n], x)
    BY <1>1, <1>22
  <2> QED BY <1>0, <1>25, <2>4, <2>5, <2>6, Zenon
<1> QED BY <1>23, <1>24, <1>25, <1>26, Zenon DEF Written

\* Nothing is read at the start.
LEMMA InitRead == Init => NodesRead /\ Written /\ Settled
<1> SUFFICES ASSUME Init PROVE NodesRead /\ Written /\ Settled
  OBVIOUS
<1>1. pos = 0 /\ open = <<>> /\ kids = <<<<>>>> /\ outcome = "running" /\ input \in Seq(Octet)
  BY InputsAssumption DEF Init
<1>2. NodesRead
  <2>1. PICK X : X = {}
    OBVIOUS
  <2>2. kids \in Seq(Seq(X)) /\ Len(kids) = Len(open) + 1
    BY <1>1
  <2>3. \A x \in X : IsRead(x)
    BY <2>1
  <2> QED BY <2>2, <2>3, Zenon DEF NodesRead
<1>3. Written
  <2>1. Len(open) = 0 /\ Len(open) + 1 = 1 /\ kids[1] = <<>>
    BY <1>1
  <2>2. StartOf(1) = 0
    BY DEF StartOf
  <2>3. Encodings(<<>>) = <<>>
    <3>1. <<>> \in Seq({}) /\ \A y \in {} : IsNode(y)
      OBVIOUS
    <3> QED BY <3>1, EncodingsAre DEF IsEncodings
  <2>4. SubSeq(input, 0 + 1, 0) = <<>>
    <3>1. PICK z \in Nat : z = 0 /\ z <= Len(input) /\ z - z = 0
      BY <1>1
    <3>2. SubSeq(input, z + 1, z) \in Seq(Octet) /\ Len(SubSeq(input, z + 1, z)) = z - z
      BY <1>1, <3>1, PartOf
    <3>3. PICK w : w = SubSeq(input, z + 1, z)
      OBVIOUS
    <3>4. w = <<>>
      BY <3>1, <3>2, <3>3
    <3> QED BY <3>1, <3>3, <3>4
  <2>5. 0 \in 0 .. 0
    OBVIOUS
  <2>6. IsInner(input, 0, <<>>, 0)
    BY <2>3, <2>4, <2>5, Zenon DEF IsInner
  <2>7. \A k \in 1 .. Len(open) : FALSE
    BY <2>1
  <2> QED BY <1>1, <2>1, <2>2, <2>6, <2>7, Zenon DEF Written
<1> QED BY <1>1, <1>2, <1>3 DEF Settled

-----------------------------------------------------------------------------
(* There and back.                                                           *)

\* What follows when all octets have been read.
LEMMA ReadWhenAccepted ==
  ASSUME Inv, NodesRead, Written, Settled, outcome = "accepted"
  PROVE  Encodings(nodes) = input
<1>1. open = <<>> /\ pos = Len(input) /\ input \in Seq(Octet)
  BY DEF Settled, Inv, TypeOK
<1>2. Len(open) = 0 /\ Len(open) + 1 = 1
  BY <1>1
<1>3. IsInner(input, StartOf(1), kids[1], Len(input))
  BY <1>1, <1>2 DEF Written
<1>4. StartOf(1) = 0 /\ 0 + 1 = 1
  BY DEF StartOf
<1>5. SubSeq(input, 1, Len(input)) = input
  BY <1>1
<1> QED BY <1>3, <1>4, <1>5, Zenon DEF IsInner, nodes

\* Nothing that is encoded in the input is too long.
LEMMA ContentFits ==
  ASSUME input \in Inputs, NEW tag \in Octet, NEW c \in Seq(Octet), input = EncodeTlv(tag, c)
  PROVE  Fits(c)
<1>1. PICK n \in Nat : n = Len(c)
  OBVIOUS
<1>2. PICK e : e = EncodeLength(n)
  OBVIOUS
<1>3. e \in Seq(Int)
  BY <1>2, LengthFieldType
<1>4. PICK v : v = <<tag>> \o e
  OBVIOUS
<1>5. tag \in Int /\ c \in Seq(Int)
  BY OctetsAreNumbers DEF Octet
<1>6. v \in Seq(Int)
  BY <1>3, <1>4, <1>5, Prefixed DEF IsPrefixed
<1>7. EncodeTlv(tag, c) = v \o c
  BY <1>1, <1>2, <1>4 DEF EncodeTlv
<1>8. Len(v \o c) = Len(v) + Len(c)
  BY <1>5, <1>6, ConcatProperties
<1>9. PICK l \in Nat : l = Len(v)
  BY <1>6
<1>10. Len(input) = l + n
  BY <1>1, <1>7, <1>8, <1>9
<1>11. n \in 0 .. Len(input)
  BY <1>10
<1> QED BY <1>1, <1>11, SizesAssumption DEF Fits

\* The primitive tags are allowed.
LEMMA PrimitiveTagsAllowed ==
  TagAllowed(TAG_INTEGER) /\ TagAllowed(TAG_BIT_STRING) /\ TagAllowed(TAG_OID)
BY DEF TagAllowed, TagNumber, TagClass, IsConstructed, TAG_INTEGER, TAG_BIT_STRING, TAG_OID

PrimitiveTag == {TAG_INTEGER, TAG_BIT_STRING, TAG_OID}

\* The encoding of an allowed content is DER, as a single element and as a series of one.
LEMMA EncodingIsDer ==
  ASSUME NEW s \in Seq(Octet), NEW tag \in PrimitiveTag, NEW c \in Seq(Octet), Fits(c),
         ContentAllowed(tag, c), s = EncodeTlv(tag, c)
  PROVE  IsHead(s, tag, c) /\ ElementIsDer(s) /\ ElementsAreDer(s)
<1>1. tag \in Octet /\ TagAllowed(tag) /\ ~IsConstructed(tag)
  <2>1. tag \in Octet
    BY DEF PrimitiveTag, TAG_INTEGER, TAG_BIT_STRING, TAG_OID, Octet
  <2> QED BY <2>1, PrimitiveTags, PrimitiveTagsAllowed DEF PrimitiveTag
<1>2. IsTlv(tag, c, s)
  BY <1>1, TlvOctets
<1>3. IsHead(s, tag, c)
  <2>1. <<>> \in Seq(Octet) /\ s \o <<>> = s
    OBVIOUS
  <2> QED BY <1>1, <2>1, HeadRead
<1>4. PICK f \in Nat, q \in Nat, n \in Nat : f = Len(s) /\ q = ContentAt(c) /\ n = Len(c) /\ f = q + n
                                             /\ q >= 2 /\ f - q = n /\ q <= f /\ f - 0 = f
  <2>1. PICK q \in Nat, n \in Nat : q = ContentAt(c) /\ n = Len(c) /\ Len(s) = q + n /\ q >= 2
    BY <1>2 DEF IsTlv
  <2>2. q + n \in Nat /\ (q + n) - q = n /\ q <= q + n /\ (q + n) - 0 = q + n
    OBVIOUS
  <2> QED BY <2>1, <2>2
<1>41. f \in Nat /\ q \in Nat /\ q >= 2 /\ q <= f /\ f = Len(s)
  BY <1>4
<1>42. /\ q \in 1 .. f /\ 1 \in Nat /\ 0 \in Nat /\ f <= f /\ f \in 0 + 1 .. f
       /\ 0 \in 0 .. f /\ f \in 0 .. f
  <2>. HIDE <1>4
  <2> QED BY <1>41
<1>43. f <= Len(s)
  BY <1>41, <1>42, Zenon
<1>5. ReadLength(s, 1, f) = <<n, q>>
  <2>1. IsLengthField(s, 1, q, n)
    BY <1>3, <1>4 DEF IsHead
  <2>2. f <= Len(s) /\ q \in 1 .. f /\ 1 \in Nat
    BY <1>42, <1>43
  <2> QED BY <2>1, <2>2, LengthFieldRead
<1>6. s[1] = tag /\ SubSeq(s, q + 1, f) = c
  BY <1>3, <1>4 DEF IsHead
<1>7. ASSUME NEW series PROVE IsElement(s, 0, f, 0, series)
  <2>1. TlvIsDer(s, 0, q, f, 0, series)
    <3>1. 0 + 1 = 1
      OBVIOUS
    <3> QED BY <1>1, <1>6, <3>1, Zenon DEF TlvIsDer
  <2>2. q \in 0 + 2 .. f /\ 0 + 1 = 1
    BY <1>4
  <2>3. ReadLength(s, 0 + 1, f) = <<f - q, q>>
    BY <1>4, <1>5, <2>2
  <2>4. 0 \in Nat /\ f <= Len(s) /\ f \in 0 + 1 .. f
    BY <1>42, <1>43
  <2>5. IsElement(s, 0, f - 0, 0, series) <=>
          \E p \in 0 + 2 .. f : /\ ReadLength(s, 0 + 1, f) = <<f - p, p>>
                                /\ TlvIsDer(s, 0, p, f, 0, series)
    BY <2>4, ElementIs, Zenon
  <2> QED BY <1>4, <2>1, <2>2, <2>3, <2>5, Zenon
<1>8. ElementIsDer(s)
  BY <1>4, <1>7 DEF ElementIsDer
<1>9. ElementsAreDer(s)
  <2>1. 0 \in 0 .. f /\ f \in 0 .. f /\ f \in 0 + 1 .. f /\ 0 \in 0 .. MaxNesting /\ f <= Len(s)
    <3>1. 0 \in 0 .. MaxNesting
      BY MaxNestingAssumption
    <3> QED BY <1>42, <1>43, <3>1
  <2>2. ReadsOn(s, f, f, 0)
    BY <2>1, ReadsOnIs
  <2>3. ReadsOn(s, 0, f, 0) <=>
          0 = f \/ \E g \in 0 + 1 .. f : IsElement(s, 0, g - 0, 0, Series(s)) /\ ReadsOn(s, g, f, 0)
    BY <2>1, ReadsOnIs, Zenon
  <2>4. ReadsOn(s, 0, f, 0)
    BY <1>4, <1>7, <2>1, <2>2, <2>3
  <2> QED BY <1>4, <2>4 DEF ReadsOn, ElementsAreDer
<1> QED BY <1>3, <1>8, <1>9

\* What the decoder makes of the encoding of a primitive value.
IsTaken(c) == outcome = "accepted" /\ nodes[1].content = c

\* The encoding of an allowed content is accepted, and gives a node with that content.
LEMMA EncodingTaken ==
  ASSUME Inv, NodesRead, Written, Settled, AcceptsExactlyDer, input \in Inputs,
         outcome # "running", NEW tag \in PrimitiveTag, NEW c \in Seq(Octet),
         ContentAllowed(tag, c), input = EncodeTlv(tag, c)
  PROVE  IsTaken(c)
<1>1. tag \in Octet /\ input \in Seq(Octet)
  BY InputsAssumption DEF PrimitiveTag, TAG_INTEGER, TAG_BIT_STRING, TAG_OID, Octet
<1>2. Fits(c)
  BY <1>1, ContentFits
<1>3. IsHead(input, tag, c) /\ ElementIsDer(input) /\ ElementsAreDer(input)
  BY <1>1, <1>2, EncodingIsDer
<1>4. outcome = "accepted"
  BY <1>3 DEF AcceptsExactlyDer
<1>5. Encodings(nodes) = input
  BY <1>4, ReadWhenAccepted
<1>6. PICK X : nodes \in Seq(X) /\ \A x \in X : IsNode(x)
  <2>1. PICK X : kids \in Seq(Seq(X)) /\ \A x \in X : IsRead(x)
    BY DEF NodesRead
  <2>2. 1 \in 1 .. Len(kids)
    BY StackLemma DEF NodesRead
  <2>3. kids[1] \in Seq(X)
    BY <2>1, <2>2
  <2>4. \A x \in X : IsNode(x)
    BY <2>1, Zenon DEF IsRead
  <2> QED BY <2>3, <2>4 DEF nodes
<1>7. IsEncodings(nodes)
  BY <1>6, EncodingsAre
<1>8. nodes # <<>>
  <2>1. ASSUME nodes = <<>> PROVE FALSE
    <3>1. input = <<>>
      BY <1>5, <1>7, <2>1 DEF IsEncodings
    <3>2. ContentAt(c) \in 2 .. Len(input)
      BY <1>3 DEF IsHead
    <3> QED BY <3>1, <3>2
  <2> QED BY <2>1
<1>9. PICK r \in Seq(Octet) : input = Encoding(nodes[1]) \o r
  BY <1>5, <1>7, <1>8, Zenon DEF IsEncodings
<1>10. PICK x : x = nodes[1]
  OBVIOUS
<1>11. x \in X
  <2>1. 1 \in 1 .. Len(nodes)
    BY <1>6, <1>8
  <2> QED BY <1>6, <1>10, <2>1
<1>12. x.tag \in Octet /\ x.content \in Seq(Octet) /\ Fits(x.content)
  BY <1>6, <1>11 DEF IsNode
<1>13. IsHead(input, x.tag, x.content)
  <2>1. IsHead(EncodeTlv(x.tag, x.content) \o r, x.tag, x.content)
    BY <1>12, HeadRead
  <2> QED BY <1>9, <1>10, <2>1, Zenon DEF Encoding
<1>14. x.content = c
  BY <1>3, <1>12, <1>13, HeadsAgree
<1> QED BY <1>4, <1>10, <1>14 DEF IsTaken

\* The decoder takes what encode_integer writes.
LEMMA IntegersBack ==
  ASSUME Inv, NodesRead, Written, Settled, AcceptsExactlyDer, input \in Inputs,
         outcome # "running", NEW e \in IntegerEncodings, input = e[1]
  PROVE  /\ outcome = "accepted"
         /\ ~IsNegative(nodes[1].content) /\ IntValue(nodes[1].content) = e[2]
<1>1. PICK n \in Nat : e = <<EncodeInteger(n), n>>
  BY ArgumentsAssumption DEF IntegerEncodings
<1>2. PICK c : c = IntegerContent(n)
  OBVIOUS
<1>3. c \in Seq(Octet) /\ IntegerAllowed(c) /\ ~IsNegative(c) /\ IntValue(c) = n
  BY <1>2, IntegerWritten DEF IsIntegerContent
<1>4. input = EncodeTlv(TAG_INTEGER, c)
  <2>1. EncodeInteger(n) = EncodeTlv(TAG_INTEGER, IntegerContent(n))
    BY Zenon DEF EncodeInteger, IntegerContent
  <2> QED BY <1>1, <1>2, <2>1
<1>5. ContentAllowed(TAG_INTEGER, c) /\ TAG_INTEGER \in PrimitiveTag
  BY <1>3 DEF ContentAllowed, PrimitiveTag, TAG_INTEGER, TAG_BIT_STRING, TAG_OID
<1>6. IsTaken(c)
  BY <1>3, <1>4, <1>5, EncodingTaken
<1> QED BY <1>1, <1>3, <1>6 DEF IsTaken

\* The decoder takes what encode_oid writes.
LEMMA OidsBack ==
  ASSUME Inv, NodesRead, Written, Settled, AcceptsExactlyDer, input \in Inputs,
         outcome # "running", NEW e \in OidEncodings, input = e[1]
  PROVE  outcome = "accepted" /\ OidValue(nodes[1].content) = e[2]
<1>1. PICK o \in Seq(Nat) : OidEncodable(o) /\ e = <<EncodeOid(o), o>>
  BY ArgumentsAssumption DEF OidEncodings
<1>2. PICK c : c = OidContent(o)
  OBVIOUS
<1>3. c \in Seq(Octet) /\ OidAllowed(c) /\ OidValue(c) = o
  BY <1>1, <1>2, OidWritten DEF IsOidContent
<1>4. input = EncodeTlv(TAG_OID, c)
  <2>1. EncodeOid(o) = EncodeTlv(TAG_OID, OidContent(o))
    BY Zenon DEF EncodeOid, OidContent
  <2> QED BY <1>1, <1>2, <2>1
<1>5. ContentAllowed(TAG_OID, c) /\ TAG_OID \in PrimitiveTag
  BY <1>3 DEF ContentAllowed, PrimitiveTag, TAG_INTEGER, TAG_BIT_STRING, TAG_OID
<1>6. IsTaken(c)
  BY <1>3, <1>4, <1>5, EncodingTaken
<1> QED BY <1>1, <1>3, <1>6 DEF IsTaken

\* The decoder takes what encode_bit_string writes.
LEMMA BitStringsBack ==
  ASSUME Inv, NodesRead, Written, Settled, AcceptsExactlyDer, input \in Inputs,
         outcome # "running", NEW e \in BitStringEncodings, input = e[1]
  PROVE  outcome = "accepted" /\ <<Payload(nodes[1].content), UnusedBits(nodes[1].content)>> = e[2]
<1>1. PICK b \in Seq(Octet) \X Nat : BitStringEncodable(b[1], b[2]) /\ e = <<EncodeBitString(b[1], b[2]), b>>
  BY ArgumentsAssumption DEF BitStringEncodings
<1>2. PICK data \in Seq(Octet), unused \in Nat : b = <<data, unused>> /\ data = b[1] /\ unused = b[2]
  OBVIOUS
<1>3. PICK c : c = <<unused>> \o data
  OBVIOUS
<1>4. c \in Seq(Octet) /\ BitStringAllowed(c) /\ Payload(c) = data /\ UnusedBits(c) = unused
  BY <1>1, <1>2, <1>3, BitsWritten DEF IsBitsContent
<1>5. input = EncodeTlv(TAG_BIT_STRING, c)
  <2>1. EncodeBitString(data, unused) = EncodeTlv(TAG_BIT_STRING, c)
    BY <1>3 DEF EncodeBitString
  <2> QED BY <1>1, <1>2, <2>1
<1>6. ContentAllowed(TAG_BIT_STRING, c) /\ TAG_BIT_STRING \in PrimitiveTag
  BY <1>4 DEF ContentAllowed, PrimitiveTag, TAG_INTEGER, TAG_BIT_STRING, TAG_OID
<1>7. IsTaken(c)
  BY <1>4, <1>5, <1>6, EncodingTaken
<1> QED BY <1>1, <1>2, <1>4, <1>7 DEF IsTaken

\* What was read and what is accepted are enough.
LEMMA Inverted ==
  ASSUME Inv, NodesRead, Written, Settled, AcceptsExactlyDer, input \in Inputs
  PROVE  RoundTrip
<1>1. ASSUME NEW level \in DOMAIN kids, NEW k \in DOMAIN kids[level]
      PROVE  IsInverted(kids[level][k])
  <2>1. PICK X : kids \in Seq(Seq(X)) /\ \A x \in X : IsRead(x)
    BY DEF NodesRead
  <2>2. kids[level] \in Seq(X)
    BY <2>1
  <2>3. kids[level][k] \in X
    BY <2>2
  <2> QED BY <2>1, <2>3, NodeInverted
<1>2. outcome = "accepted" => Encodings(nodes) = input
  BY ReadWhenAccepted
<1>3. outcome # "running" =>
        /\ \A e \in IntegerEncodings : input = e[1] =>
             /\ outcome = "accepted"
             /\ ~IsNegative(nodes[1].content) /\ IntValue(nodes[1].content) = e[2]
        /\ \A e \in OidEncodings : input = e[1] =>
             outcome = "accepted" /\ OidValue(nodes[1].content) = e[2]
        /\ \A e \in BitStringEncodings : input = e[1] =>
             /\ outcome = "accepted"
             /\ <<Payload(nodes[1].content), UnusedBits(nodes[1].content)>> = e[2]
  BY IntegersBack, OidsBack, BitStringsBack
<1> QED BY <1>1, <1>2, <1>3, Zenon DEF RoundTrip, IsInverted

\* What was read before a step was read after it.
ReadInv == input \in Inputs /\ NodesRead /\ Written /\ Settled

\* Only a decoder that runs reads on, and the end is reached with all octets.
LEMMA ReadNext ==
  ASSUME Inv, ReadInv, Next
  PROVE  ReadInv'
<1>1. input' \in Inputs
  BY DEF ReadInv, Next, ReadPrimitive, OpenConstructed, Reject, CloseConstructed, Finish
<1>2. NodesRead' /\ Written'
  <2>1. CASE ReadPrimitive
    BY <2>1, ReadPrimitiveRead DEF ReadInv
  <2>2. CASE OpenConstructed
    BY <2>2, OpenConstructedRead DEF ReadInv
  <2>3. CASE CloseConstructed
    BY <2>3, CloseConstructedRead DEF ReadInv
  <2>4. CASE Reject \/ Finish
    <3>1. input' = input /\ pos' = pos /\ open' = open /\ kids' = kids
      BY <2>4 DEF Reject, Finish
    <3> QED BY <3>1 DEF ReadInv, NodesRead, Written, StartOf
  <2> QED BY <2>1, <2>2, <2>3, <2>4 DEF Next
<1>3. Settled'
  <2>1. CASE Finish
    BY <2>1 DEF Finish, Settled
  <2>2. CASE ReadPrimitive \/ OpenConstructed \/ Reject \/ CloseConstructed
    <3>1. outcome' # "accepted"
      BY <2>2 DEF ReadPrimitive, OpenConstructed, Reject, CloseConstructed
    <3> QED BY <3>1 DEF Settled
  <2> QED BY <2>1, <2>2 DEF Next
<1> QED BY <1>1, <1>2, <1>3 DEF ReadInv

\* Every node that decode returns is encoded, from its value or from its children, as it was
\* read; and decode accepts what encode_integer, encode_oid and encode_bit_string write and
\* gives their arguments back (asn1.py:201-388); and the octets that _first_tlv of x509.py
\* cuts out are those of the first child.
THEOREM RoundTripCorrect == Spec => []RoundTrip
<1>1. Init => ReadInv
  BY InitRead DEF ReadInv, Init
<1>2. Inv /\ ReadInv /\ [Next]_vars => ReadInv'
  <2> SUFFICES ASSUME Inv, ReadInv, [Next]_vars PROVE ReadInv'
    OBVIOUS
  <2>1. CASE Next
    BY <2>1, ReadNext
  <2>2. CASE UNCHANGED vars
    BY <2>2 DEF vars, ReadInv, NodesRead, Written, StartOf, Settled
  <2> QED BY <2>1, <2>2
<1>3. Inv /\ ReadInv /\ AcceptsExactlyDer => RoundTrip
  BY Inverted DEF ReadInv
<1> QED BY <1>1, <1>2, <1>3, Inductive, AcceptsCorrect, PTL DEF Spec
=============================================================================
