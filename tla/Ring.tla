--------------------------------- MODULE Ring ---------------------------------
(***************************************************************************)
(* Polynomials of Z_q[X]/(X^n + 1) and their number theoretic transforms:  *)
(* that of ML-DSA, which goes down to single coefficients, and that of     *)
(* ML-KEM, which stops at pairs.  A ring is a record of n, q, zeta and     *)
(* low, the length of the last layer; zeta is a root of unity of order     *)
(* 2 * n / low.  A polynomial is a function on 0 .. n - 1, and a vector of *)
(* polynomials is packed into octets one polynomial after another.         *)
(***************************************************************************)
EXTENDS Octets

PolyAdd(R, f, g) == [i \in 0 .. R.n - 1 |-> (f[i] + g[i]) % R.q]
PolySub(R, f, g) == [i \in 0 .. R.n - 1 |-> (f[i] - g[i]) % R.q]
ZeroPoly(R) == [i \in 0 .. R.n - 1 |-> 0]

\* The sum of the polynomials fs[1] to fs[k].
PolySum(R, fs) ==
  LET acc[j \in 0 .. Len(fs)] == IF j = 0 THEN ZeroPoly(R) ELSE PolyAdd(R, acc[j - 1], fs[j])
  IN  acc[Len(fs)]

Layers(R) == BitLength(R.n \div R.low) - 1

\* _bitrev8, _bitrev7
BitRev(R, i) ==
  LET r[j \in 0 .. Layers(R)] == IF j = 0 THEN 0 ELSE 2 * r[j - 1] + Bit(i, j - 1)
  IN  r[Layers(R)]

Zeta(R, k) == Pow(R.zeta, BitRev(R, k), R.q)

\* A layer of butterflies: each of the blocks of 2 * length has a zeta of its own.
Layer(R, f, length) ==
  [i \in 0 .. R.n - 1 |->
     LET z == Zeta(R, R.n \div (2 * length) + i \div (2 * length))
     IN  IF i % (2 * length) < length THEN (f[i] + z * f[i + length]) % R.q
                                      ELSE (f[i - length] - z * f[i]) % R.q]

\* Mutant: the zetas are taken in ascending order again.
LayerInvAscending(R, f, length) ==
  [i \in 0 .. R.n - 1 |->
     LET z == Zeta(R, R.n \div (2 * length) + i \div (2 * length))
     IN  IF i % (2 * length) < length THEN (f[i] + f[i + length]) % R.q
                                      ELSE (z * (f[i] - f[i - length])) % R.q]

LayerInv(R, f, length) ==
  [i \in 0 .. R.n - 1 |->
     LET z == Zeta(R, R.n \div length - 1 - i \div (2 * length))
     IN  IF i % (2 * length) < length THEN (f[i] + f[i + length]) % R.q
                                      ELSE (z * (f[i] - f[i - length])) % R.q]

Ntt(R, f) ==
  LET a[t \in 0 .. Layers(R)] == IF t = 0 THEN f ELSE Layer(R, a[t - 1], R.n \div 2 ^ t)
  IN  a[Layers(R)]

NttInv(R, f) ==
  LET a[t \in 0 .. Layers(R)] == IF t = 0 THEN f
                                 ELSE LayerInv(R, a[t - 1], R.low * 2 ^ (t - 1))
      scale == Inv(R.n \div R.low, R.q)
  IN  [i \in 0 .. R.n - 1 |-> (a[Layers(R)][i] * scale) % R.q]

\* _poly_mul_ntt
MulPointwise(R, f, g) == [i \in 0 .. R.n - 1 |-> (f[i] * g[i]) % R.q]

\* _multiply_ntts: pairs, as polynomials modulo X^2 - gamma.
MulPairs(R, f, g) ==
  [i \in 0 .. R.n - 1 |->
     LET gamma == Pow(R.zeta, 2 * BitRev(R, i \div 2) + 1, R.q)
     IN  IF i % 2 = 0 THEN (f[i] * g[i] + ((f[i + 1] * g[i + 1]) % R.q) * gamma) % R.q
                      ELSE (f[i - 1] * g[i] + f[i] * g[i - 1]) % R.q]

NttMul(R, f, g) == IF R.low = 1 THEN MulPointwise(R, f, g) ELSE MulPairs(R, f, g)

\* _mat_vec_ntt, _poly_dot_ntt: a row of a matrix times a vector, both transformed.
NttDot(R, row, v) == PolySum(R, [j \in 1 .. Len(row) |-> NttMul(R, row[j], v[j])])

-----------------------------------------------------------------------------
(* Octets.                                                                   *)

\* The octets of a polynomial with coefficients of so many bits.
PolySize(R, bits) == (R.n * bits) \div OctetBits

PackPolys(R, v, bits) ==
  SX!FlattenSeq([i \in DOMAIN v |-> PackBits([j \in 1 .. R.n |-> v[i][j - 1]], bits)])

\* count polynomials from the octets s behind the first pos ones.
UnpackPolys(R, s, pos, count, bits) ==
  [i \in 1 .. count |->
     LET values == UnpackBits(SubSeq(s, pos + PolySize(R, bits) * (i - 1) + 1,
                                        pos + PolySize(R, bits) * i), bits)
     IN  [j \in 0 .. R.n - 1 |-> values[j + 1]]]

-----------------------------------------------------------------------------

\* The product by its definition.
Product(R, f, g) ==
  [k \in 0 .. R.n - 1 |->
     LET s[i \in 0 .. R.n] ==
           IF i = 0 THEN 0
           ELSE s[i - 1] + (IF i - 1 <= k THEN f[i - 1] * g[k - i + 1]
                                          ELSE -(f[i - 1] * g[R.n + k - i + 1]))
     IN  s[R.n] % R.q]

\* The transforms are inverse to one another, and products go through them to products:
\* layers, zetas, the pairs of ML-KEM and the final scaling fit together.
TransformMultiplies(R, f, g) ==
  /\ NttInv(R, Ntt(R, f)) = f
  /\ NttInv(R, NttMul(R, Ntt(R, f), Ntt(R, g))) = Product(R, f, g)
=============================================================================
